----------------------------- MODULE Estimator ------------------------------
(***************************************************************************)
(* The users of the state estimator (m2fc/firmware/state_estimation.c):    *)
(* the mission predicts, the barometer's and the accelerometers' threads   *)
(* measure, all on one filter behind a binary semaphore, kalman_lock.      *)
(* The mission also writes the flag that masks the barometer, and is the   *)
(* only reader of the clock of the predictions (time_utils.c).  Before a   *)
(* pressure the barometer shares the DMA stream with the magnetometer.     *)
(*                                                                         *)
(* What the updates compute is the subject of Kalman.  Here an update is   *)
(* that it was made: the filter is the set of updates in it.               *)
(***************************************************************************)
EXTENDS Integers, Sequences

CONSTANTS
  Accels,      \* the accelerometers' threads
  Width,       \* values of the cycle counter: 2^32
  Transfers    \* SPI transactions of a pressure

Users == {"mission", "baro"} \union Accels
Threads == Users \union {"magno"}

ASSUME EstimatorAssumption ==
  /\ {"mission", "baro", "magno"} \intersect Accels = {}
  /\ Width \in Nat \ {0, 1} /\ Transfers \in Nat \ {0}

VARIABLES
  pc,        \* per thread: where it is
  taken,     \* kalman_lock
  queue,     \* kalman_lock: the threads that wait for it
  x, p,      \* the updates in the state and in the covariance
  local,     \* per user: x and p as it has read them, during its update
  dma,       \* who has dma1_stream0_mutex
  left,      \* transactions that the barometer's thread has yet to make
  phase,     \* of the flight, as the mission sees it
  trust,     \* state_estimation_trust_barometer
  counter,   \* the cycle counter
  t_clk,     \* its value at the last prediction
  span,      \* history: the cycles since the last prediction, at most Width
  stale      \* history: pressures that entered since the flag was cleared, up to 2

lockVars == <<taken, queue>>
filterVars == <<x, p, local>>
busVars == <<dma, left>>
flightVars == <<phase, trust>>
clockVars == <<counter, t_clk, span>>
vars == <<pc, lockVars, filterVars, busVars, flightVars, clockVars, stale>>

Unread == [x |-> {}, p |-> {}]

(* state_estimation_init has run.  The counter has been counting since power-up. *)
Init ==
  /\ pc = [t \in Threads |-> "idle"]
  /\ taken = FALSE /\ queue = <<>>
  /\ x = {} /\ p = {} /\ local = [u \in Users |-> Unread]
  /\ dma = "none" /\ left = Transfers
  /\ phase = "pad" /\ trust = FALSE
  /\ counter \in 0..(Width - 1) /\ t_clk = 0
  /\ span \in {counter, Width}
  /\ stale = 0

Goto(t, place) == pc' = [pc EXCEPT ![t] = place]

-----------------------------------------------------------------------------
(* kalman_lock *)

(* chBSemWait *)
Wait(t) ==
  \/ ~taken /\ taken' = TRUE /\ Goto(t, "locked") /\ UNCHANGED queue
  \/ taken /\ queue' = Append(queue, t) /\ Goto(t, "queued") /\ UNCHANGED taken

(* chBSemSignal: the lock is handed to the thread that has waited longest. *)
Signal(t, next) ==
  \/ /\ queue = <<>>
     /\ taken' = FALSE /\ Goto(t, next) /\ UNCHANGED queue
  \/ /\ queue # <<>>
     /\ queue' = Tail(queue)
     /\ pc' = [pc EXCEPT ![t] = next, ![Head(queue)] = "locked"]
     /\ UNCHANGED taken

(* Fault: there is no lock around an update. *)
Acquire_Not(t) ==
  /\ Goto(t, "locked")
  /\ UNCHANGED <<lockVars, filterVars, busVars, flightVars, clockVars, stale>>

Acquire(t) ==
  /\ Wait(t)
  /\ UNCHANGED <<filterVars, busVars, flightVars, clockVars, stale>>

-----------------------------------------------------------------------------
(* time_ticks_since *)

(* Fault: a counter that has wrapped is one cycle off. *)
TicksSince_NoPlusOne(t0, t1) == IF t1 < t0 THEN t1 + ((Width - 1) - t0) ELSE t1 - t0

TicksSince(t0, t1) == IF t1 < t0 THEN t1 + (((Width - 1) - t0) + 1) ELSE t1 - t0

(* The counter counts, whatever the threads do. *)
Tick ==
  /\ counter' = IF counter + 1 < Width THEN counter + 1 ELSE 0
  /\ span' = IF span < Width THEN span + 1 ELSE Width
  /\ UNCHANGED <<pc, lockVars, filterVars, busVars, flightVars, t_clk, stale>>

-----------------------------------------------------------------------------
(* state_estimation_get_state, state_estimation_new_pressure and
   state_estimation_update_accel, between wait and signal. *)

With(u, f) == (f \ {u}) \union ({u} \ f)

(* The state and the covariance are read ... *)
Load(u) ==
  /\ pc[u] = "locked" /\ Goto(u, "loaded")
  /\ local' = [local EXCEPT ![u] = [x |-> x, p |-> p]]
  /\ IF u = "mission"
       THEN t_clk' = counter /\ span' = 0
       ELSE UNCHANGED <<t_clk, span>>
  /\ UNCHANGED <<lockVars, x, p, busVars, flightVars, counter, stale>>

(* ... and stored. *)
StoreState(u) ==
  /\ pc[u] = "loaded" /\ Goto(u, "stored")
  /\ x' = With(u, local[u].x)
  /\ stale' = IF u = "baro" /\ ~trust /\ stale < 2 THEN stale + 1 ELSE stale
  /\ UNCHANGED <<lockVars, p, local, busVars, flightVars, clockVars>>

StoreCovariance(u) ==
  /\ pc[u] = "stored" /\ Goto(u, "done")
  /\ p' = With(u, local[u].p)
  /\ local' = [local EXCEPT ![u] = Unread]
  /\ UNCHANGED <<lockVars, x, busVars, flightVars, clockVars, stale>>

(* Fault: an early return leaves the lock taken. *)
Release_NotAccels(u) ==
  /\ pc[u] = "done"
  /\ IF u \in Accels
       THEN Goto(u, "idle") /\ UNCHANGED lockVars
       ELSE Signal(u, IF u = "mission" THEN "predicted" ELSE "idle")
  /\ UNCHANGED <<filterVars, busVars, flightVars, clockVars, stale>>

Release(u) ==
  /\ pc[u] = "done"
  /\ Signal(u, IF u = "mission" THEN "predicted" ELSE "idle")
  /\ UNCHANGED <<filterVars, busVars, flightVars, clockVars, stale>>

-----------------------------------------------------------------------------
(* The mission: a prediction, then a state function, which writes the flag. *)

MissionCalls == pc["mission"] = "idle" /\ Acquire("mission")

Following(ph) == IF ph = "pad" THEN "burn" ELSE "coast"

RunState ==
  /\ pc["mission"] = "predicted" /\ Goto("mission", "idle")
  /\ phase' \in {phase, Following(phase)}
  /\ trust' = (phase # "burn")
  /\ stale' = IF trust /\ phase = "burn" THEN 0 ELSE stale
  /\ UNCHANGED <<lockVars, filterVars, busVars, clockVars>>

(* An accelerometer: readings near clipping are dropped, which leaves no trace. *)
AccelCalls(u) == pc[u] = "idle" /\ Acquire(u)

(* The barometer: its transactions, then the flag, and only then the lock. *)
BusLock(t) ==
  /\ pc[t] = "idle" /\ dma = "none"
  /\ t = "baro" => left > 0
  /\ dma' = t /\ Goto(t, "bus")
  /\ UNCHANGED <<lockVars, filterVars, left, flightVars, clockVars, stale>>

BusUnlock(t) ==
  /\ pc[t] = "bus" /\ dma' = "none" /\ Goto(t, "idle")
  /\ left' = IF t = "baro" THEN left - 1 ELSE left
  /\ UNCHANGED <<lockVars, filterVars, flightVars, clockVars, stale>>

(* Fault: the flag is not looked at. *)
CheckFlag_Not ==
  /\ pc["baro"] = "idle" /\ left = 0 /\ left' = Transfers
  /\ Goto("baro", "trusted")
  /\ UNCHANGED <<lockVars, filterVars, dma, flightVars, clockVars, stale>>

(* A pressure outside of the atmosphere is dropped as one that is not trusted is. *)
CheckFlag ==
  /\ pc["baro"] = "idle" /\ left = 0 /\ left' = Transfers
  /\ \/ trust /\ Goto("baro", "trusted")
     \/ UNCHANGED pc
  /\ UNCHANGED <<lockVars, filterVars, dma, flightVars, clockVars, stale>>

BaroCalls == pc["baro"] = "trusted" /\ Acquire("baro")

Update(u) == Load(u) \/ StoreState(u) \/ StoreCovariance(u) \/ Release(u)

Next ==
  \/ Tick
  \/ \E u \in Users : Update(u)
  \/ MissionCalls \/ RunState
  \/ \E u \in Accels : AccelCalls(u)
  \/ \E t \in {"baro", "magno"} : BusLock(t) \/ BusUnlock(t)
  \/ CheckFlag \/ BaroCalls

Spec == Init /\ [][Next]_vars

(* Threads of equal priority run in turn, transactions end, and the mutex goes to the
   one that waits for it. *)
FairSpec ==
  /\ Spec
  /\ \A u \in Users : WF_vars(Update(u))
  /\ WF_vars(MissionCalls \/ RunState)
  /\ WF_vars(CheckFlag \/ BaroCalls)
  /\ \A t \in {"baro", "magno"} : SF_vars(BusLock(t)) /\ WF_vars(BusUnlock(t))

-----------------------------------------------------------------------------
(***************************************************************************)
(* Properties.                                                             *)
(***************************************************************************)

(* Every variable has its type. *)
TypeOK ==
  /\ pc \in [Threads -> {"idle", "bus", "trusted", "queued", "locked", "loaded",
                          "stored", "done", "predicted"}]
  /\ taken \in BOOLEAN /\ queue \in Seq(Users)
  /\ x \subseteq Users /\ p \subseteq Users
  /\ local \in [Users -> [x : SUBSET Users, p : SUBSET Users]]
  /\ dma \in {"none", "baro", "magno"} /\ left \in 0..Transfers
  /\ phase \in {"pad", "burn", "coast"} /\ trust \in BOOLEAN
  /\ counter \in 0..(Width - 1) /\ t_clk \in 0..(Width - 1) /\ span \in 0..Width
  /\ stale \in 0..2

(* The threads use the filter as one that is updated in a single step each time: none of
   their updates is lost or split between state and covariance.  Seen from outside, an
   update is made when the covariance is stored. *)
VisibleState ==
  IF \E u \in Users : pc[u] = "stored"
    THEN local[CHOOSE u \in Users : pc[u] = "stored"].x
    ELSE x

Filter == INSTANCE AtomicFilter WITH x <- VisibleState

ImplementsAtomicFilter == Filter!Spec

(* The time of a prediction is what has passed since the last one, also where the
   counter has wrapped in between, unless it has gone all the way round: after 25.6 s,
   which the wait for a card and a long firing exceed. *)
ClockExact == span < Width => TicksSince(t_clk, counter) = span

(* The flag is read before the wait for the lock: of the pressures read before ignition
   one can still enter during the burn, no more. *)
AtMostOneStalePressure == stale <= 1

(* Whoever asks for the lock gets it and is done, and the barometer's thread gets past
   the bus it shares. *)
EveryCallReturns ==
  /\ \A u \in Users : pc[u] = "queued" ~> pc[u] \in {"idle", "predicted"}
  /\ left > 0 ~> left = 0
=============================================================================
