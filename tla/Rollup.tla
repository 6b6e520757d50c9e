------------------------------- MODULE Rollup -------------------------------
(***************************************************************************)
(* The overall status of a board (m2status/m2status.c): every subsystem    *)
(* stores its own status and then recomputes the board's, in place and     *)
(* without a lock: overall := OK, then UNKNOWN if a field is UNKNOWN, then *)
(* WAIT if one is WAIT, then ERR if one is in error.  Threads of different *)
(* priorities do this concurrently; a higher one can run to completion     *)
(* between any two accesses of a lower one, threads of equal priority take *)
(* turns.                                                                  *)
(*                                                                         *)
(* Both firmwares are built with -O0 (USE_OPT in their Makefiles): every   *)
(* store is made, in program order.                                        *)
(***************************************************************************)
EXTENDS Integers

CONSTANTS
  NumFields,   \* subsystem statuses that are rolled up (12 on an M2FC, 3 on M2R)
  Worst,       \* the worst status; 3 has all that update_system_status tells apart
  Threads,     \* the threads (and interrupt handlers) that report
  Prio,        \* their priorities; all of them are above the heartbeat's
  Owns,        \* the fields a thread reports
  Says         \* the statuses a thread reports

Fields == 1..NumFields

(* In the order of the ifs of update_system_status, a later one of which overrides an
   earlier: OK, UNKNOWN, WAIT, and all errors as one (it compares with >= STATUS_ERR). *)
Status == 0..Worst
OK == 0
Unknown == 1
Scanned == Status \ {OK}

ASSUME RollupAssumption ==
  /\ NumFields \in Nat
  /\ Worst \in Nat \ {0}
  /\ Prio \in [Threads -> Nat \ {0}]
  /\ Owns \in [Threads -> SUBSET Fields]
  /\ Says \in [Threads -> SUBSET Status]

VARIABLES
  field,    \* LocalStatus->adc ... config
  overall,  \* LocalStatus->m2fcbody, m2fcnose or m2r
  pc,       \* per thread: "idle", "reset", "scan" or "write"
  level,    \* per thread: the status it is scanning for
  pos,      \* per thread: the field it reads next
  rolled    \* history: 1 once an update has begun to write overall

rollupVars == <<field, overall, pc, level, pos, rolled>>

(* Code of priority p runs only while nothing above it is ready. *)
MayRun(p) == \A t \in Threads : pc[t] # "idle" => Prio[t] <= p

AtRest == \A t \in Threads : pc[t] = "idle"

(* The first line of m2status_<subsystem>_status. *)
StoreStatus(t, f, s) ==
  /\ pc[t] = "idle" /\ MayRun(Prio[t])
  /\ field' = [field EXCEPT ![f] = s]
  /\ UNCHANGED <<overall, level, pos, rolled>>

-----------------------------------------------------------------------------
(* update_system_status. *)

(* Fault: the status that stands is left where it is. *)
Reset_Skipped(t) ==
  /\ pc[t] = "reset" /\ MayRun(Prio[t])
  /\ rolled' = 1
  /\ pc' = [pc EXCEPT ![t] = "scan"]
  /\ level' = [level EXCEPT ![t] = Unknown]
  /\ pos' = [pos EXCEPT ![t] = 1]
  /\ UNCHANGED <<field, overall>>

(* *mystatus = STATUS_OK *)
Reset(t) ==
  /\ pc[t] = "reset" /\ MayRun(Prio[t])
  /\ overall' = OK
  /\ rolled' = 1
  /\ pc' = [pc EXCEPT ![t] = "scan"]
  /\ level' = [level EXCEPT ![t] = Unknown]
  /\ pos' = [pos EXCEPT ![t] = 1]
  /\ UNCHANGED field

(* Fault: the first subsystem is missing from the ifs. *)
Compare_MissesOne(t) ==
  /\ pc[t] = "scan" /\ pos[t] <= NumFields /\ MayRun(Prio[t])
  /\ \/ /\ pos[t] > 1 /\ field[pos[t]] = level[t]
        /\ pc' = [pc EXCEPT ![t] = "write"]
        /\ UNCHANGED pos
     \/ /\ pos[t] = 1 \/ field[pos[t]] # level[t]
        /\ pos' = [pos EXCEPT ![t] = @ + 1]
        /\ UNCHANGED pc
  /\ UNCHANGED <<field, overall, level, rolled>>

(* One operand of the || of the current level. *)
Compare(t) ==
  /\ pc[t] = "scan" /\ pos[t] <= NumFields /\ MayRun(Prio[t])
  /\ \/ /\ field[pos[t]] = level[t]
        /\ pc' = [pc EXCEPT ![t] = "write"]
        /\ UNCHANGED pos
     \/ /\ field[pos[t]] # level[t]
        /\ pos' = [pos EXCEPT ![t] = @ + 1]
        /\ UNCHANGED pc
  /\ UNCHANGED <<field, overall, level, rolled>>

(* Fault: errors are looked for before WAIT, which then overrides them. *)
NextLevel_ErrBeforeWait(t) ==
  /\ pos' = [pos EXCEPT ![t] = 1]
  /\ pc' = [pc EXCEPT ![t] = IF level[t] = Worst - 1 THEN "idle" ELSE "scan"]
  /\ level' = [level EXCEPT ![t] = IF @ = Unknown THEN Worst ELSE Worst - 1]
  /\ UNCHANGED <<field, rolled>>

(* Fault: the last if is missing. *)
NextLevel_NoErr(t) ==
  /\ pos' = [pos EXCEPT ![t] = 1]
  /\ pc' = [pc EXCEPT ![t] = IF level[t] = Worst - 1 THEN "idle" ELSE "scan"]
  /\ level' = [level EXCEPT ![t] = IF @ = Worst - 1 THEN @ ELSE @ + 1]
  /\ UNCHANGED <<field, rolled>>

(* The next of the ifs, or the end of update_system_status. *)
NextLevel(t) ==
  /\ pos' = [pos EXCEPT ![t] = 1]
  /\ pc' = [pc EXCEPT ![t] = IF level[t] = Worst THEN "idle" ELSE "scan"]
  /\ level' = [level EXCEPT ![t] = IF @ = Worst THEN @ ELSE @ + 1]
  /\ UNCHANGED <<field, rolled>>

NoneFound(t) ==
  /\ pc[t] = "scan" /\ pos[t] > NumFields /\ MayRun(Prio[t])
  /\ NextLevel(t)
  /\ UNCHANGED overall

Write(t) ==
  /\ pc[t] = "write" /\ MayRun(Prio[t])
  /\ overall' = level[t]
  /\ NextLevel(t)

Update(t) == Reset(t) \/ Compare(t) \/ NoneFound(t) \/ Write(t)

-----------------------------------------------------------------------------
(* Every variable has its type. *)
RollupTypeOK ==
  /\ field \in [Fields -> Status]
  /\ overall \in Status
  /\ pc \in [Threads -> {"idle", "reset", "scan", "write"}]
  /\ level \in [Threads -> Scanned]
  /\ pos \in [Threads -> 1..(NumFields + 1)]
  /\ rolled \in {0, 1}
=============================================================================
