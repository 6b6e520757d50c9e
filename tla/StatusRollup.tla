---------------------------- MODULE StatusRollup ----------------------------
(***************************************************************************)
(* A flight computer from its start on (m2fc/firmware/main.c): LocalStatus *)
(* is set, then its origin; only then do the reports of the threads        *)
(* recompute the board's status (Rollup).  The heartbeat, below all of     *)
(* them, copies it and some statements later shows it on the external LED. *)
(***************************************************************************)
EXTENDS Rollup

VARIABLES
  boot,      \* "null": LocalStatus not set; "local": set; "origin": origin set too
  beat,      \* the heartbeat: "dark", "looked" (the status is copied) or "lit"
  mystatus,  \* the heartbeat's copy
  led,       \* "off", "green" or "red"
  since      \* history: fields reported since the heartbeat looked at the board's status

heartbeatVars == <<beat, mystatus, led>>
statusVars == <<rollupVars, boot, heartbeatVars, since>>

(* mystatus is not initialised. *)
StatusInit ==
  /\ boot = "null"
  /\ field = [f \in Fields |-> Unknown] /\ overall = Unknown /\ rolled = 0
  /\ pc = [t \in Threads |-> "idle"]
  /\ level = [t \in Threads |-> Unknown] /\ pos = [t \in Threads |-> 1]
  /\ beat = "dark" /\ mystatus \in Status /\ led = "off"
  /\ since = Fields

-----------------------------------------------------------------------------
(* Start-up: main sets LocalStatus, the m2status thread its origin. *)

SetLocal ==
  /\ boot = "null" /\ boot' = "local"
  /\ UNCHANGED <<rollupVars, heartbeatVars, since>>

SetOrigin ==
  /\ boot = "local" /\ boot' = "origin"
  /\ UNCHANGED <<rollupVars, heartbeatVars, since>>

(* m2status_<subsystem>_status: store, then update_system_status, which does
   nothing for a status without an origin. *)
Report(t, f, s) ==
  /\ boot # "null"
  /\ StoreStatus(t, f, s)
  /\ pc' = IF boot = "origin" THEN [pc EXCEPT ![t] = "reset"] ELSE pc
  /\ since' = since \union {f}
  /\ UNCHANGED <<boot, heartbeatVars>>

Roll(t) ==
  /\ Update(t)
  /\ UNCHANGED <<boot, heartbeatVars, since>>

-----------------------------------------------------------------------------
(* The heartbeat thread has the lowest priority of the board. *)

(* Fault: the heartbeat is not below the threads that report. *)
Look_AnyTime ==
  /\ beat = "dark" /\ beat' = "looked"
  /\ \/ boot = "null" /\ UNCHANGED <<mystatus, since>>
     \/ boot # "null" /\ mystatus' = overall /\ since' = {}
  /\ UNCHANGED <<rollupVars, boot, led>>

(* It copies the board's status; until main sets LocalStatus it keeps what it has. *)
Look ==
  /\ beat = "dark" /\ beat' = "looked" /\ MayRun(0)
  /\ \/ boot = "null" /\ UNCHANGED <<mystatus, since>>
     \/ boot # "null" /\ mystatus' = overall /\ since' = {}
  /\ UNCHANGED <<rollupVars, boot, led>>

(* It compares its copy and drives the LED; threads may have reported in between. *)
Show ==
  /\ beat = "looked" /\ beat' = "lit" /\ MayRun(0)
  /\ led' = IF mystatus = OK THEN "green" ELSE "red"
  /\ UNCHANGED <<rollupVars, boot, mystatus, since>>

LedOff ==
  /\ beat = "lit" /\ beat' = "dark" /\ MayRun(0)
  /\ led' = "off"
  /\ UNCHANGED <<rollupVars, boot, mystatus, since>>

-----------------------------------------------------------------------------
StatusNext ==
  \/ SetLocal \/ SetOrigin
  \/ Look \/ Show \/ LedOff
  \/ \E t \in Threads :
       \/ \E f \in Owns[t], s \in Says[t] : Report(t, f, s)
       \/ Roll(t)

StatusSpec == StatusInit /\ [][StatusNext]_statusVars

(* A thread inside the update never blocks there, so it finishes. *)
StatusFairSpec == StatusSpec /\ \A t \in Threads : WF_statusVars(Roll(t))

-----------------------------------------------------------------------------
(***************************************************************************)
(* Properties.                                                             *)
(***************************************************************************)

(* Every variable has its type. *)
TypeOK ==
  /\ RollupTypeOK
  /\ boot \in {"null", "local", "origin"}
  /\ beat \in {"dark", "looked", "lit"}
  /\ mystatus \in Status
  /\ led \in {"off", "green", "red"}
  /\ since \subseteq Fields

(* When no update is under way, the board's status is never better than the
   worst of its subsystems, whatever way the updates interleaved. *)
NeverBetterThanWorst == AtRest /\ rolled = 1 => \A f \in Fields : overall >= field[f]

(* main.c:48: the "everything-is-OK" LED.  It is green only if every subsystem was OK
   when the heartbeat looked, once LocalStatus was set: whichever is not has reported
   since.  At the bottom of the priorities, the heartbeat never sees the OK that an
   update starts from. *)
GreenMeansOk == led = "green" => \A f \in Fields : field[f] = OK \/ f \in since

(* A subsystem's error reaches the board's status, unless it clears first. *)
ErrorShows ==
  \A f \in Fields : rolled = 1 /\ field[f] = Worst ~> overall = Worst \/ field[f] # Worst
=============================================================================
