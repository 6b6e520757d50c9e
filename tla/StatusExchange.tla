--------------------------- MODULE StatusExchange ---------------------------
(***************************************************************************)
(* The status of the nose computer on its way to the radio board:          *)
(* m2status_thread of the nose sends the live struct while any number of   *)
(* threads store their statuses in it and roll them up (Rollup), without a *)
(* lock (m2status/m2status.c, m2serial/m2serial.c); the radio board stores *)
(* what it receives and sounds it (m2r/firmware/main.c).                   *)
(*                                                                         *)
(* Of the struct two parts are sent, in the order of their bytes: the      *)
(* board's overall status and that of the first subsystem.  Framing is the *)
(* subject of M2Serial: here a frame arrives, altered or not, or is lost.  *)
(***************************************************************************)
EXTENDS Rollup, Sequences

CONSTANTS
  Periodic,    \* the threads that report again and again, whatever happens
  MaxDamage    \* bound of the model: frames lost or altered

ASSUME ExchangeAssumption ==
  /\ NumFields >= 1
  /\ Periodic \subseteq Threads
  /\ MaxDamage \in Nat

VARIABLES
  mtx,       \* nose: who holds uart_mtx
  turn,      \* nose: the status that is sent next, the body's or its own
  tx,        \* nose: the fields put so far, of the frame being sent
  line,      \* the frame on its way, if there is one
  copy,      \* radio board: M2FCNoseStatus
  copying,   \* radio board: memcpy is half-way through the frame
  ready,     \* radio board: the buzzer sounds as for a nose that is OK
  steady,    \* history: a frame is being sent, begun after a roll-up and with none since
  damage     \* history: frames lost or altered

sendVars == <<mtx, turn, tx>>
radioBoardVars == <<copy, copying, ready>>
exchangeVars ==
  <<rollupVars, sendVars, line, radioBoardVars, steady, damage>>

Struct == [overall : Status, sub : Status]

(* The structs are zero until something is stored in them. *)
Zero == [overall |-> Unknown, sub |-> Unknown]

Frame(struct, origin) == [struct |-> struct, origin |-> origin]

(* The nose's struct has an origin now; what was reported before has been stored and
   not rolled up. *)
ExchangeInit ==
  /\ field \in [Fields -> Status] /\ overall = Unknown /\ rolled = 0
  /\ pc = [t \in Threads |-> "idle"]
  /\ level = [t \in Threads |-> Unknown] /\ pos = [t \in Threads |-> 1]
  /\ mtx = "free" /\ turn = "body" /\ tx = <<>>
  /\ line = <<>>
  /\ copy = Zero /\ copying = FALSE /\ ready = FALSE
  /\ steady = FALSE /\ damage = 0

-----------------------------------------------------------------------------
(* The nose: its threads write the struct. *)

(* m2status_<subsystem>_status, up to update_system_status. *)
ReportOnNose(t, f, s) ==
  /\ StoreStatus(t, f, s)
  /\ pc' = [pc EXCEPT ![t] = "reset"]
  /\ steady' = FALSE
  /\ UNCHANGED <<sendVars, line, radioBoardVars, damage>>

ReportAny(t) == \E f \in Owns[t], s \in Says[t] : ReportOnNose(t, f, s)

UpdateOnNose(t) ==
  /\ Update(t)
  /\ UNCHANGED <<sendVars, line, radioBoardVars, steady, damage>>

-----------------------------------------------------------------------------
(* The nose: m2status_thread and m2serial_send_buffer. *)

(* The body's status goes first; nobody has filled it, since m2rl sends nothing. *)
SendBody ==
  /\ turn = "body" /\ mtx = "free" /\ line = <<>>
  /\ line' = <<Frame(Zero, "body")>>
  /\ turn' = "nose"
  /\ UNCHANGED <<rollupVars, steady, mtx, tx, radioBoardVars, damage>>

(* The bytes are read from the live struct as they are put: the overall status ... *)
BeginNose ==
  /\ turn = "nose" /\ mtx = "free"
  /\ mtx' = "sender" /\ tx' = <<overall>>
  /\ steady' = (AtRest /\ rolled = 1)
  /\ UNCHANGED <<rollupVars, turn, line, radioBoardVars, damage>>

(* ... and later the subsystem's.  While the queue was full the other threads ran. *)
EndNose ==
  /\ mtx = "sender" /\ line = <<>>
  /\ line' = <<Frame([overall |-> tx[1], sub |-> field[1]], "nose")>>
  /\ mtx' = "free" /\ tx' = <<>> /\ turn' = "body"
  /\ steady' = FALSE
  /\ UNCHANGED <<rollupVars, radioBoardVars, damage>>

(* A shell on the nose's port: its m2serial thread waits for it, with the mutex. *)
OpenShell ==
  /\ mtx = "free" /\ mtx' = "shell"
  /\ UNCHANGED <<rollupVars, steady, turn, tx, line, radioBoardVars, damage>>

ExitShell ==
  /\ mtx = "shell" /\ mtx' = "free"
  /\ UNCHANGED <<rollupVars, steady, turn, tx, line, radioBoardVars, damage>>

-----------------------------------------------------------------------------
(* The line and the radio board. *)

(* A frame is lost, or one of its parts altered: the checksum decides nothing. *)
Damage ==
  /\ line # <<>> /\ ~copying /\ damage < MaxDamage /\ damage' = damage + 1
  /\ \/ line' = <<>>
     \/ \E s \in Status : line' = <<[line[1] EXCEPT !.struct.overall = s]>>
     \/ \E s \in Status : line' = <<[line[1] EXCEPT !.struct.sub = s]>>
     \/ \E origin \in {"body", "nose"} : line' = <<[line[1] EXCEPT !.origin = origin]>>
  /\ UNCHANGED <<rollupVars, steady, sendVars, radioBoardVars>>

(* A frame of another origin goes to another struct. *)
RxOther ==
  /\ line # <<>> /\ line[1].origin # "nose"
  /\ line' = <<>>
  /\ UNCHANGED <<rollupVars, steady, sendVars, radioBoardVars, damage>>

(* m2status_rx_systemstatus.  memcpy stores the overall status ... *)
RxFirst ==
  /\ line # <<>> /\ line[1].origin = "nose" /\ ~copying
  /\ copying' = TRUE
  /\ copy' = [copy EXCEPT !.overall = line[1].struct.overall]
  /\ UNCHANGED <<rollupVars, steady, sendVars, line, ready, damage>>

(* Fault: the size of the pointer is copied, not that of the struct. *)
RxRest_Short ==
  /\ copying /\ copying' = FALSE
  /\ line' = <<>>
  /\ UNCHANGED <<rollupVars, steady, sendVars, copy, ready, damage>>

(* ... and then the rest. *)
RxRest ==
  /\ copying /\ copying' = FALSE
  /\ copy' = [copy EXCEPT !.sub = line[1].struct.sub]
  /\ line' = <<>>
  /\ UNCHANGED <<rollupVars, steady, sendVars, ready, damage>>

(* The heartbeat looks at the nose's status.  It has the lowest priority: it never
   runs in the middle of the memcpy. *)
Sound ==
  /\ ~copying
  /\ ready' = (copy.overall = OK)
  /\ UNCHANGED <<rollupVars, steady, sendVars, line, copy, copying, damage>>

ExchangeNext ==
  \/ \E t \in Threads : ReportAny(t) \/ UpdateOnNose(t)
  \/ SendBody \/ BeginNose \/ EndNose
  \/ OpenShell \/ ExitShell
  \/ Damage \/ RxOther \/ RxFirst \/ RxRest \/ Sound

(* A thread inside the update never blocks there; the periodic ones report for ever.
   Who waits for uart_mtx is handed it when a shell ends: SF for the two that lock.
   Frames come a second apart, which leaves the heartbeat its turn: SF.  The rest waits
   for nothing that does not come. *)
ExchangeFairness ==
  /\ \A t \in Threads : WF_exchangeVars(UpdateOnNose(t))
  /\ \A t \in Periodic : WF_exchangeVars(ReportAny(t))
  /\ SF_exchangeVars(SendBody \/ BeginNose)
  /\ WF_exchangeVars(EndNose)
  /\ WF_exchangeVars(RxOther \/ RxFirst \/ RxRest)
  /\ SF_exchangeVars(Sound)

-----------------------------------------------------------------------------
(***************************************************************************)
(* Properties.                                                             *)
(***************************************************************************)

(* Every variable has its type. *)
ExchangeTypeOK ==
  /\ RollupTypeOK
  /\ mtx \in {"free", "sender", "shell"} /\ turn \in {"body", "nose"}
  /\ tx \in Seq(Status) /\ Len(tx) = (IF mtx = "sender" THEN 1 ELSE 0)
  /\ line \in Seq([struct : Struct, origin : {"body", "nose"}]) /\ Len(line) <= 1
  /\ copy \in Struct /\ copying \in BOOLEAN /\ ready \in BOOLEAN
  /\ steady \in BOOLEAN /\ damage \in 0..MaxDamage

(* Only a frame that a report cuts into carries the OK from which a roll-up starts.
   One that is sent while nobody reports never says better of the board than its worst
   subsystem, however the roll-ups before it interleaved. *)
SettledIsSent == mtx = "sender" /\ steady => \A f \in Fields : tx[1] >= field[f]

Settled(s) == field[1] = s

(* Once every subsystem of the nose is OK and stays so, the buzzer comes to sound it and
   goes on to: whatever was lost or altered before, and although roll-ups that raced may
   have left the board at an error that is gone.  Unless a shell is left open for ever. *)
OkIsSounded ==
  [](<>(mtx # "shell")) => (<>[](\A f \in Fields : field[f] = OK) => <>[]ready)
=============================================================================
