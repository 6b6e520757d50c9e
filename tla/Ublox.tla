------------------------------- MODULE Ublox -------------------------------
(***************************************************************************)
(* The GPS driver of the radio board (m2r/firmware/ublox.c): it configures *)
(* the receiver, then reads blocks of bytes and runs each byte through a   *)
(* state machine that keeps its state from block to block.                 *)
(*                                                                         *)
(* A UBX frame is two sync bytes, class, id, a length of two bytes, the    *)
(* payload and two checksum bytes.  The receiver module, which is external, *)
(* queues its frames; when it has none, reads return the filler byte.      *)
(***************************************************************************)
EXTENDS Integers, Sequences

CONSTANTS
  Base,        \* the number of values of a byte (256)
  SYNC1, SYNC2, Filler,
  NAV, ACK, CFG,             \* classes
  PVT, NAK, ACKED, NAV5,     \* ids
  Airborne,    \* the dynamic model asked for (8)
  DynModel,    \* its place in the payload of a NAV5
  BufSize,     \* the size of payload (128)
  PvtSize, Nav5Size,  \* sizes of the structs that messages are copied to
  Messages,    \* the messages the module sends: class, id and payload
  NumConfigs,  \* messages sent by ublox_init (9)
  MaxDamage    \* bound of the model: bytes lost or altered

Byte == 0 .. Base - 1

ASSUME UbloxAssumption ==
  /\ Base \in Nat \ {0} /\ BufSize \in Nat /\ PvtSize \in Nat /\ Nav5Size \in Nat
  /\ SYNC1 \in Byte /\ SYNC2 \in Byte /\ SYNC1 # SYNC2
  /\ Filler \in Byte \ {SYNC1}
  /\ \A m \in Messages :
       /\ m \in [class : Byte, id : Byte, payload : Seq(Byte)]
       /\ Len(m.payload) < BufSize
       /\ m.class = NAV /\ m.id = PVT  => Len(m.payload) = PvtSize
       /\ m.class = CFG /\ m.id = NAV5 => Len(m.payload) = Nav5Size
  /\ DynModel \in 1..Nav5Size
  /\ NumConfigs \in Nat \ {0} /\ MaxDamage \in Nat

Nothing == [class |-> -1, id |-> -1, payload |-> <<>>]

VARIABLES
  thread,    \* "init", "failed" or "reading"
  configs,   \* messages ublox_init has sent
  state,     \* of the state machine
  class, id, length,
  payload,   \* payload[0 .. length - length_remaining - 1]
  status,    \* the gps status
  out,       \* module: the rest of the frame it is sending
  msg,       \* module: the message in that frame
  intact,    \* history: "apart" if the frame began in STATE_IDLE, "crowded" if
             \*   it did not, "damaged" once a byte of it was
  due,       \* history: the message of an undamaged frame that has just ended
  last,      \* history: the message dispatched by the last byte
  crowded,   \* history: 1 once a frame began when the machine was not idle
  overrun,   \* history: 1 once a write or a copy went out of bounds
  damage

parser == <<state, class, id, length, payload>>
module == <<out, msg, intact, due, crowded, damage>>
vars == <<thread, configs, parser, status, module, last, overrun>>

Init ==
  /\ thread = "init" /\ configs = 0
  /\ state = "IDLE" /\ class = 0 /\ id = 0 /\ length = 0 /\ payload = <<>>
  /\ status = "WAIT"
  /\ out = <<>> /\ msg = Nothing /\ intact = "apart" /\ due = Nothing
  /\ last = Nothing /\ crowded = 0 /\ overrun = 0 /\ damage = 0

-----------------------------------------------------------------------------
(* ublox_init: any message that is not sent ends it for good. *)

Configure ==
  /\ thread = "init"
  /\ \/ /\ configs' = configs + 1
        /\ thread' = IF configs' = NumConfigs THEN "reading" ELSE thread
        /\ UNCHANGED status
     \/ thread' = "failed" /\ status' = "ERR_INITIALISING" /\ UNCHANGED configs
  /\ UNCHANGED <<parser, module, last, overrun>>

(* The thread sleeps for ever. *)
Failed == thread = "failed" /\ UNCHANGED vars

-----------------------------------------------------------------------------
(* The bytes the module gives out (external). *)

Frame(m) ==
  <<SYNC1, SYNC2, m.class, m.id, Len(m.payload) % Base, Len(m.payload) \div Base>>
    \o m.payload \o <<0, 0>>

(* Byte b is next in the frame, and is read as it is. *)
Intact(b) ==
  /\ out # <<>> /\ b = Head(out) /\ out' = Tail(out)
  /\ due' = IF Len(out) = 1 /\ intact # "damaged" THEN msg ELSE Nothing
  /\ UNCHANGED <<msg, intact, crowded, damage>>

(* Another byte is read in its place, or it is lost and the one after it read;
   or something else is read between two frames. *)
Damaged(b) ==
  /\ damage < MaxDamage /\ damage' = damage + 1
  /\ \/ out # <<>> /\ b # Head(out) /\ out' = Tail(out)
     \/ Len(out) > 1 /\ b = out[2] /\ out' = Tail(Tail(out))
     \/ out = <<>> /\ b # Filler /\ UNCHANGED out
  /\ intact' = "damaged" /\ due' = Nothing
  /\ UNCHANGED <<msg, crowded>>

Begins(b) ==
  /\ out = <<>> /\ b = SYNC1
  /\ \E m \in Messages : msg' = m /\ out' = Tail(Frame(m))
  /\ intact' = IF state = "IDLE" THEN "apart" ELSE "crowded"
  /\ crowded' = IF state = "IDLE" THEN crowded ELSE 1
  /\ due' = Nothing
  /\ UNCHANGED damage

Fills(b) ==
  /\ out = <<>> /\ b = Filler
  /\ due' = Nothing
  /\ UNCHANGED <<out, msg, intact, crowded, damage>>

Arrives(b) == Intact(b) \/ Damaged(b) \/ Begins(b) \/ Fills(b)

-----------------------------------------------------------------------------
(* ublox_state_machine, one byte. *)

(* The steps that only move on, to state s. *)
Goto(s) ==
  /\ state' = s
  /\ last' = Nothing
  /\ UNCHANGED <<status, overrun>>

Sync(b) ==
  /\ \/ state = "IDLE"  /\ Goto(IF b = SYNC1 THEN "SYNC1" ELSE "IDLE")
     \/ state = "SYNC1" /\ Goto(IF b = SYNC2 THEN "SYNC2" ELSE "IDLE")
  /\ UNCHANGED <<class, id, length, payload>>

Header(b) ==
  \/ state = "SYNC2" /\ Goto("CLASS") /\ class' = b /\ UNCHANGED <<id, length, payload>>
  \/ state = "CLASS" /\ Goto("ID") /\ id' = b /\ UNCHANGED <<class, length, payload>>
  \/ state = "ID" /\ Goto("L1") /\ length' = b /\ UNCHANGED <<class, id, payload>>

(* Fault: the bytes of the length are swapped. *)
Length_Swapped(b) ==
  /\ state = "L1" /\ Goto("PAYLOAD")
  /\ length' = length * Base + b
  /\ payload' = <<>>
  /\ UNCHANGED <<class, id>>

(* A length that is too long sets STATE_IDLE, which the next line overwrites. *)
Length(b) ==
  /\ state = "L1" /\ Goto("PAYLOAD")
  /\ length' = length + b * Base
  /\ payload' = <<>>
  /\ UNCHANGED <<class, id>>

(* Fault: the end of the payload is missed. *)
Payload_NoEnd(b) ==
  /\ state = "PAYLOAD"
  /\ payload' = IF Len(payload) < length THEN Append(payload, b) ELSE payload
  /\ overrun' = IF Len(payload') > BufSize THEN 1 ELSE overrun
  /\ last' = Nothing
  /\ UNCHANGED <<state, class, id, length, status>>

(* The byte after the payload, the first of the checksum, is spent on finding
   that nothing remains. *)
Payload(b) ==
  /\ state = "PAYLOAD"
  /\ \/ /\ Len(payload) < length
        /\ payload' = Append(payload, b)
        /\ overrun' = IF Len(payload) >= BufSize THEN 1 ELSE overrun
        /\ UNCHANGED state
     \/ /\ Len(payload) = length
        /\ state' = "PAYLOAD_DONE"
        /\ UNCHANGED <<payload, overrun>>
  /\ last' = Nothing
  /\ UNCHANGED <<class, id, length, status>>

(* The second byte of the checksum, kept as the first. *)
PayloadDone ==
  /\ state = "PAYLOAD_DONE" /\ Goto("CK_A")
  /\ UNCHANGED <<class, id, length, payload>>

(* What a message does to the status; an unknown class does nothing. *)
Dispatch ==
  \/ class = ACK /\ status' = IF id = ACKED THEN status ELSE "ERR"
  \/ class = NAV /\ status' = IF id = PVT THEN "OK" ELSE "ERR"
  \/ class = CFG /\ id # NAV5 /\ status' = "ERR"
  \/ /\ class = CFG /\ id = NAV5
     /\ \E model \in IF DynModel <= length THEN {payload[DynModel]} ELSE Byte :
          status' = IF model = Airborne THEN status ELSE "ERR_SELFTEST_FAIL"
  \/ class \notin {ACK, NAV, CFG} /\ UNCHANGED status

CopyOverruns ==
  \/ class = NAV /\ id = PVT /\ length > PvtSize
  \/ class = CFG /\ id = NAV5 /\ length > Nav5Size

(* Fault: a sync byte in this place drops the message. *)
CkA_NotSync(b) ==
  /\ state = "CK_A" /\ state' = "IDLE"
  /\ IF b = SYNC1 THEN UNCHANGED <<status, overrun>> /\ last' = Nothing
     ELSE /\ Dispatch
          /\ last' = [class |-> class, id |-> id, payload |-> payload]
          /\ overrun' = IF CopyOverruns THEN 1 ELSE overrun
  /\ UNCHANGED <<class, id, length, payload>>

(* One byte more is taken, whatever it is, and the message dispatched. *)
CkA(b) ==
  /\ state = "CK_A" /\ state' = "IDLE"
  /\ Dispatch
  /\ last' = [class |-> class, id |-> id, payload |-> payload]
  /\ overrun' = IF CopyOverruns THEN 1 ELSE overrun
  /\ UNCHANGED <<class, id, length, payload>>

StateMachine(b) ==
  Sync(b) \/ Header(b) \/ Length(b) \/ Payload(b) \/ PayloadDone \/ CkA(b)

(* What lies behind the buffers is other data: nothing is said of the machine
   after it has overwritten some. *)
Read(b) ==
  /\ thread = "reading" /\ overrun = 0
  /\ Arrives(b)
  /\ StateMachine(b)
  /\ UNCHANGED <<thread, configs>>

(* ublox_receive fails and returns no bytes. *)
ReadFails ==
  /\ thread = "reading" /\ overrun = 0
  /\ status' = "ERR_READING"
  /\ UNCHANGED <<thread, configs, parser, module, last, overrun>>

Overrun == overrun = 1 /\ UNCHANGED vars

Next ==
  Configure \/ Failed \/ (\E b \in Byte : Read(b)) \/ ReadFails \/ Overrun

Spec == Init /\ [][Next]_vars

(* The thread goes on reading, and not every read fails. *)
FairSpec == Spec /\ WF_vars(Configure) /\ SF_vars(\E b \in Byte : Read(b))

-----------------------------------------------------------------------------
(***************************************************************************)
(* Properties.                                                             *)
(***************************************************************************)

(* A frame that arrives undamaged at an idle machine is dispatched, as it was
   sent, by the byte that follows it, be that filler or the next frame. *)
DispatchesIntactFrames ==
  [][due # Nothing /\ intact = "apart" /\ due' # due => last' = due]_vars

(* While nothing is damaged and frames are apart, only frames are dispatched,
   and no payload, sync bytes in it or not, writes outside its buffer. *)
NoPhantoms ==
  damage = 0 /\ crowded = 0 =>
    /\ overrun = 0
    /\ last # Nothing => last = msg

(* Damage never traps the machine inside a frame: it is idle again in the end. *)
ReturnsToIdle == state # "IDLE" ~> state = "IDLE" \/ overrun = 1
=============================================================================
