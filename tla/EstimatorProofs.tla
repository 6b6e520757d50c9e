--------------------------- MODULE EstimatorProofs --------------------------
(* Proofs about Estimator, for any set of accelerometers, any width of the
   counter and any number of transactions. *)
EXTENDS Estimator, SequenceTheorems, TLAPS

USE EstimatorAssumption DEF EstimatorAssumption

LEMMA UsersAreThreads ==
  /\ Users \subseteq Threads /\ {"mission", "baro"} \subseteq Users
  /\ "magno" \in Threads /\ "magno" \notin Users
  BY DEF Users, Threads

(* While the barometer is on the bus a transaction is due. *)
TypeInv == TypeOK /\ (pc["baro"] = "bus" => left > 0)

LEMMA TypeInvInit == Init => TypeInv
  <1> SUFFICES ASSUME Init PROVE TypeInv
    OBVIOUS
  <1>1. queue \in Seq(Users) /\ local \in [Users -> [x : SUBSET Users, p : SUBSET Users]]
    BY DEF Init, Unread
  <1>2. pc["baro"] = "idle"
    BY UsersAreThreads DEF Init
  <1>3. span \in 0..Width
    BY DEF Init
  <1>4. pc \in [Threads -> {"idle"}]
    BY DEF Init
  <1>5. t_clk \in 0..(Width - 1) /\ left \in 0..Transfers
    BY DEF Init
  <1>6. x \subseteq Users /\ p \subseteq Users /\ taken \in BOOLEAN /\ trust \in BOOLEAN
    BY DEF Init
  <1>7. dma = "none" /\ phase = "pad" /\ stale = 0 /\ counter \in 0..(Width - 1)
    BY DEF Init
  <1> QED BY <1>1, <1>2, <1>3, <1>4, <1>5, <1>6, <1>7 DEF TypeInv, TypeOK

LEMMA TypeInvStep == TypeInv /\ [Next]_vars => TypeInv'
  <1> SUFFICES ASSUME TypeInv, [Next]_vars PROVE TypeInv'
    OBVIOUS
  <1> USE DEF TypeInv, TypeOK
  <1>s. ASSUME queue # <<>> PROVE Head(queue) \in Users /\ Tail(queue) \in Seq(Users)
    BY <1>s
  <1>1. CASE Tick
    BY <1>1 DEF Tick, lockVars, filterVars, busVars, flightVars
  <1>2. ASSUME NEW u \in Users, Update(u) PROVE TypeInv'
    <2>1. CASE Load(u)
      <3>1. local' \in [Users -> [x : SUBSET Users, p : SUBSET Users]]
        BY <2>1 DEF Load
      <3> QED
        BY <2>1, <3>1, UsersAreThreads DEF Load, Goto, lockVars, busVars, flightVars
    <2>2. CASE StoreState(u)
      <3>1. local[u].x \subseteq Users
        OBVIOUS
      <3>2. x' \subseteq Users
        BY <2>2, <3>1 DEF StoreState, With
      <3> QED
        BY <2>2, <3>2, UsersAreThreads
           DEF StoreState, Goto, lockVars, busVars, flightVars, clockVars
    <2>3. CASE StoreCovariance(u)
      <3>1. local[u].p \subseteq Users
        OBVIOUS
      <3>2. p' \subseteq Users
        BY <2>3, <3>1 DEF StoreCovariance, With
      <3>3. local' \in [Users -> [x : SUBSET Users, p : SUBSET Users]]
        BY <2>3 DEF StoreCovariance, Unread
      <3> QED
        BY <2>3, <3>2, <3>3, UsersAreThreads
           DEF StoreCovariance, Goto, lockVars, busVars, flightVars, clockVars
    <2>4. CASE Release(u)
      <3>1. CASE queue = <<>>
        BY <2>4, <3>1, UsersAreThreads
           DEF Release, Signal, Goto, filterVars, busVars, flightVars, clockVars
      <3>2. CASE queue # <<>>
        BY <2>4, <3>2, <1>s, UsersAreThreads
           DEF Release, Signal, Goto, filterVars, busVars, flightVars, clockVars
      <3> QED BY <3>1, <3>2
    <2> QED BY <1>2, <2>1, <2>2, <2>3, <2>4 DEF Update
  <1>3. ASSUME NEW u \in Users, Acquire(u) PROVE TypeInv'
    <2>1. queue' = queue \/ queue' = Append(queue, u)
      BY <1>3 DEF Acquire, Wait
    <2>3. queue' \in Seq(Users)
      BY <2>1
    <2>4. taken' = TRUE \/ taken' = taken
      BY <1>3 DEF Acquire, Wait
    <2>2. \E place \in {"locked", "queued"} : pc' = [pc EXCEPT ![u] = place]
      BY <1>3 DEF Acquire, Wait, Goto
    <2> QED
      BY <1>3, <2>2, <2>3, <2>4, UsersAreThreads DEF Acquire, filterVars, busVars, flightVars, clockVars
  <1>4. CASE RunState
    BY <1>4, UsersAreThreads DEF RunState, Following, Goto, lockVars, filterVars, busVars, clockVars
  <1>5. ASSUME NEW t \in {"baro", "magno"}, BusLock(t) PROVE TypeInv'
    BY <1>5, UsersAreThreads DEF BusLock, Goto, lockVars, filterVars, flightVars, clockVars
  <1>6. ASSUME NEW t \in {"baro", "magno"}, BusUnlock(t) PROVE TypeInv'
    BY <1>6, UsersAreThreads DEF BusUnlock, Goto, lockVars, filterVars, flightVars, clockVars
  <1>7. CASE CheckFlag
    BY <1>7, UsersAreThreads DEF CheckFlag, Goto, lockVars, filterVars, flightVars, clockVars
  <1>8. CASE UNCHANGED vars
    BY <1>8 DEF vars, lockVars, filterVars, busVars, flightVars, clockVars
  <1>9. CASE MissionCalls
    BY <1>3, <1>9, UsersAreThreads DEF MissionCalls
  <1>10. ASSUME NEW u \in Accels, AccelCalls(u) PROVE TypeInv'
    BY <1>3, <1>10 DEF AccelCalls, Users
  <1>11. CASE BaroCalls
    BY <1>3, <1>11, UsersAreThreads DEF BaroCalls
  <1> HIDE DEF TypeInv
  <1> QED
    BY <1>1, <1>2, <1>4, <1>5, <1>6, <1>7, <1>8, <1>9, <1>10, <1>11 DEF Next

(* The variables keep their types. *)
THEOREM TypeCorrect == Spec => []TypeOK
  <1>1. TypeInv => TypeOK
    BY DEF TypeInv
  <1> QED BY <1>1, TypeInvInit, TypeInvStep, PTL DEF Spec
-----------------------------------------------------------------------------
(* However wide the counter is, and wherever it stands at power-up, the time of a
   prediction is exact unless the counter has gone all the way round. *)
THEOREM ClockIsExact == Spec => []ClockExact
  <1>1. Init => ClockExact
    BY DEF Init, ClockExact, TicksSince
  <1>2. TypeInv /\ ClockExact /\ [Next]_vars => ClockExact'
    <2> SUFFICES ASSUME TypeInv, ClockExact, [Next]_vars PROVE ClockExact'
      OBVIOUS
    <2>t. counter \in 0..(Width - 1) /\ t_clk \in 0..(Width - 1) /\ span \in 0..Width
      BY DEF TypeInv, TypeOK
    <2>1. CASE Tick
      <3>1. counter' = (IF counter + 1 < Width THEN counter + 1 ELSE 0) /\ t_clk' = t_clk
            /\ span' = (IF span < Width THEN span + 1 ELSE Width)
        BY <2>1 DEF Tick
      <3> QED BY <3>1, <2>t DEF ClockExact, TicksSince
    <2>2. ASSUME NEW u \in Users, Update(u) PROVE ClockExact'
      <3>1. CASE Load(u)
        <4>1. counter' = counter
              /\ ((t_clk' = counter /\ span' = 0) \/ (t_clk' = t_clk /\ span' = span))
          BY <3>1 DEF Load
        <4> QED BY <4>1, <2>t DEF ClockExact, TicksSince
      <3>2. ~Load(u) => counter' = counter /\ t_clk' = t_clk /\ span' = span
        BY <2>2 DEF Update, StoreState, StoreCovariance, Release, clockVars
      <3> QED BY <3>1, <3>2 DEF ClockExact, TicksSince
    <2>3. CASE UNCHANGED clockVars
      <3>1. counter' = counter /\ t_clk' = t_clk /\ span' = span
        BY <2>3 DEF clockVars
      <3> QED BY <3>1 DEF ClockExact, TicksSince
    <2>4. (MissionCalls \/ RunState \/ (\E u \in Accels : AccelCalls(u))
           \/ (\E t \in {"baro", "magno"} : BusLock(t) \/ BusUnlock(t))
           \/ CheckFlag \/ BaroCalls \/ UNCHANGED vars) => UNCHANGED clockVars
      BY DEF MissionCalls, RunState, AccelCalls, BusLock, BusUnlock, CheckFlag, BaroCalls,
             Acquire, vars
    <2> QED BY <2>1, <2>2, <2>3, <2>4 DEF Next
  <1> QED BY <1>1, <1>2, TypeInvInit, TypeInvStep, PTL DEF Spec

-----------------------------------------------------------------------------
(* The lock: at most one thread is inside, and who is in the queue sleeps, once. *)
Inside == {"locked", "loaded", "stored", "done"}

LockInv ==
  /\ \A t \in Threads : pc[t] \in Inside => taken
  /\ \A t, v \in Threads : pc[t] \in Inside /\ pc[v] \in Inside => t = v
  /\ taken => \E t \in Threads : pc[t] \in Inside
  /\ \A i \in 1..Len(queue) : pc[queue[i]] = "queued"
  /\ \A i, j \in 1..Len(queue) : queue[i] = queue[j] => i = j
  /\ queue # <<>> => taken

(* What an update has read is still what is there, the state until it is stored, the
   covariance until then too. *)
FilterInv ==
  \A u \in Users :
    /\ pc[u] = "loaded" => local[u] = [x |-> x, p |-> p]
    /\ pc[u] = "stored" => x = With(u, local[u].x) /\ p = local[u].p

PcTypes == pc \in [Threads -> {"idle", "bus", "trusted", "queued", "locked", "loaded",
                               "stored", "done", "predicted"}]

(* Steps that leave the lock alone. *)
LEMMA OutsideKeepsLock ==
  ASSUME LockInv, PcTypes, UNCHANGED lockVars, NEW t \in Threads,
         NEW place, pc' = [pc EXCEPT ![t] = place],
         pc[t] # "queued",  pc[t] \in Inside <=> place \in Inside
  PROVE  LockInv'
  <1>1. \A v \in Threads : pc'[v] \in Inside <=> pc[v] \in Inside
    BY DEF PcTypes
  <1>2. \A i \in 1..Len(queue) : queue[i] # t
    BY DEF LockInv
  <1>3. \A i \in 1..Len(queue) : pc'[queue[i]] = "queued"
    BY <1>2 DEF LockInv, PcTypes, Inside
  <1> QED BY <1>1, <1>3 DEF LockInv, lockVars

LEMMA AcquireKeepsLock ==
  ASSUME LockInv, TypeOK, NEW u \in Users, pc[u] \in {"idle", "trusted"}, Wait(u)
  PROVE  LockInv'
  <1>t. PcTypes /\ queue \in Seq(Users) /\ u \in Threads
    BY UsersAreThreads DEF TypeOK, PcTypes
  <1>1. CASE ~taken
    <2>1. taken' = TRUE /\ pc' = [pc EXCEPT ![u] = "locked"] /\ queue' = queue /\ queue = <<>>
      BY <1>1 DEF Wait, Goto, LockInv
    <2>2. \A t \in Threads : pc'[t] \in Inside <=> t = u
      BY <1>1, <2>1, <1>t DEF LockInv, PcTypes, Inside
    <2> QED BY <2>1, <2>2, <1>t DEF LockInv
  <1>2. CASE taken
    <2>1. queue' = Append(queue, u) /\ pc' = [pc EXCEPT ![u] = "queued"] /\ taken' = taken
      BY <1>2 DEF Wait, Goto
    <2>2. \A t \in Threads : pc'[t] \in Inside <=> pc[t] \in Inside
      BY <2>1, <1>t DEF PcTypes, Inside
    <2>3. /\ Len(queue') = Len(queue) + 1 /\ Len(queue) \in Nat
          /\ queue'[Len(queue) + 1] = u
          /\ \A i \in 1..Len(queue) : queue'[i] = queue[i]
      BY <2>1, <1>t
    <2>4. \A i \in 1..Len(queue) : queue[i] # u /\ queue[i] \in Threads
      BY <1>t, UsersAreThreads DEF LockInv
    <2>5. \A i \in 1..Len(queue') : pc'[queue'[i]] = "queued"
      BY <2>1, <2>3, <2>4, <1>t DEF LockInv, PcTypes
    <2>6. \A i, j \in 1..Len(queue') : queue'[i] = queue'[j] => i = j
      BY <2>3, <2>4 DEF LockInv
    <2> QED BY <1>2, <2>1, <2>2, <2>5, <2>6 DEF LockInv
  <1> QED BY <1>1, <1>2

LEMMA ReleaseKeepsLock ==
  ASSUME LockInv, TypeOK, NEW u \in Users, pc[u] = "done", NEW next \in {"idle", "predicted"},
         Signal(u, next)
  PROVE  LockInv'
  <1>t. PcTypes /\ queue \in Seq(Users) /\ u \in Threads
    BY UsersAreThreads DEF TypeOK, PcTypes
  <1>u. \A t \in Threads : pc[t] \in Inside <=> t = u
    BY <1>t DEF LockInv, Inside
  <1>1. CASE queue = <<>>
    <2>1. taken' = FALSE /\ queue' = <<>> /\ pc' = [pc EXCEPT ![u] = next]
      BY <1>1 DEF Signal, Goto
    <2>2. \A t \in Threads : pc'[t] \notin Inside
      BY <2>1, <1>u, <1>t DEF PcTypes, Inside
    <2> QED BY <2>1, <2>2 DEF LockInv
  <1>2. CASE queue # <<>>
    <2> DEFINE h == Head(queue)
    <2>1. taken' = taken /\ queue' = Tail(queue) /\ pc' = [pc EXCEPT ![u] = next, ![h] = "locked"]
      BY <1>2 DEF Signal
    <2>2. /\ h = queue[1] /\ h \in Threads /\ Len(queue) \in Nat /\ Len(queue) >= 1
          /\ Len(queue') = Len(queue) - 1
          /\ \A i \in 1..Len(queue') : queue'[i] = queue[i + 1]
      BY <1>2, <1>t, <2>1, UsersAreThreads
    <2>3. pc[h] = "queued" /\ h # u
      BY <2>2 DEF LockInv
    <2>4. \A t \in Threads : pc'[t] \in Inside <=> t = h
      BY <2>1, <2>2, <2>3, <1>u, <1>t DEF PcTypes, Inside
    <2>5. \A i \in 1..Len(queue') : queue[i + 1] # h /\ queue[i + 1] # u
                                    /\ pc[queue[i + 1]] = "queued" /\ queue[i + 1] \in Threads
      BY <2>2, <1>t, UsersAreThreads DEF LockInv
    <2>6. \A i \in 1..Len(queue') : pc'[queue'[i]] = "queued"
      BY <2>1, <2>2, <2>5, <1>t DEF PcTypes
    <2>7. \A i, j \in 1..Len(queue') : queue'[i] = queue'[j] => i = j
      BY <2>2 DEF LockInv
    <2>8. taken
      BY <1>2 DEF LockInv
    <2> QED BY <2>1, <2>2, <2>4, <2>6, <2>7, <2>8 DEF LockInv
  <1> QED BY <1>1, <1>2

LEMMA LockInvInit == Init => LockInv /\ FilterInv
  BY UsersAreThreads DEF Init, LockInv, FilterInv, Inside

LEMMA LockInvStep == TypeInv /\ LockInv /\ [Next]_vars => LockInv'
  <1> SUFFICES ASSUME TypeInv, LockInv, [Next]_vars PROVE LockInv'
    OBVIOUS
  <1>t. TypeOK /\ PcTypes
    BY DEF TypeInv, TypeOK, PcTypes
  <1>0. ASSUME UNCHANGED <<pc, taken, queue>> PROVE LockInv'
    BY <1>0 DEF LockInv
  <1>1. CASE Tick
    BY <1>0, <1>1 DEF Tick, lockVars
  <1>2. ASSUME NEW u \in Users, Update(u) PROVE LockInv'
    <2>1. CASE Load(u)
      <3>1. pc' = [pc EXCEPT ![u] = "loaded"] /\ pc[u] = "locked" /\ UNCHANGED lockVars
        BY <2>1 DEF Load, Goto
      <3> QED BY <3>1, <1>t, OutsideKeepsLock, UsersAreThreads DEF Inside
    <2>2. CASE StoreState(u)
      <3>1. pc' = [pc EXCEPT ![u] = "stored"] /\ pc[u] = "loaded" /\ UNCHANGED lockVars
        BY <2>2 DEF StoreState, Goto
      <3> QED BY <3>1, <1>t, OutsideKeepsLock, UsersAreThreads DEF Inside
    <2>3. CASE StoreCovariance(u)
      <3>1. pc' = [pc EXCEPT ![u] = "done"] /\ pc[u] = "stored" /\ UNCHANGED lockVars
        BY <2>3 DEF StoreCovariance, Goto
      <3> QED BY <3>1, <1>t, OutsideKeepsLock, UsersAreThreads DEF Inside
    <2>4. CASE Release(u)
      BY <2>4, <1>t, ReleaseKeepsLock DEF Release
    <2> QED BY <1>2, <2>1, <2>2, <2>3, <2>4 DEF Update
  <1>3. ASSUME NEW u \in Users, pc[u] \in {"idle", "trusted"}, Acquire(u) PROVE LockInv'
    BY <1>3, <1>t, AcquireKeepsLock DEF Acquire
  <1>4. CASE RunState
    <2>1. pc' = [pc EXCEPT !["mission"] = "idle"] /\ pc["mission"] = "predicted" /\ UNCHANGED lockVars
      BY <1>4 DEF RunState, Goto
    <2> QED BY <2>1, <1>t, OutsideKeepsLock, UsersAreThreads DEF Inside
  <1>5. ASSUME NEW t \in {"baro", "magno"}, BusLock(t) PROVE LockInv'
    <2>1. pc' = [pc EXCEPT ![t] = "bus"] /\ pc[t] = "idle" /\ UNCHANGED lockVars
      BY <1>5 DEF BusLock, Goto
    <2> QED BY <2>1, <1>t, OutsideKeepsLock, UsersAreThreads DEF Inside
  <1>6. ASSUME NEW t \in {"baro", "magno"}, BusUnlock(t) PROVE LockInv'
    <2>1. pc' = [pc EXCEPT ![t] = "idle"] /\ pc[t] = "bus" /\ UNCHANGED lockVars
      BY <1>6 DEF BusUnlock, Goto
    <2> QED BY <2>1, <1>t, OutsideKeepsLock, UsersAreThreads DEF Inside
  <1>7. CASE CheckFlag
    <2>1. pc["baro"] = "idle" /\ UNCHANGED lockVars
          /\ (pc' = [pc EXCEPT !["baro"] = "trusted"] \/ pc' = pc)
      BY <1>7 DEF CheckFlag, Goto
    <2>2. CASE pc' = pc
      BY <1>0, <2>1, <2>2 DEF lockVars
    <2> QED BY <2>1, <2>2, <1>t, OutsideKeepsLock, UsersAreThreads DEF Inside
  <1>8. CASE UNCHANGED vars
    BY <1>0, <1>8 DEF vars, lockVars
  <1>9. CASE MissionCalls
    BY <1>3, <1>9, UsersAreThreads DEF MissionCalls
  <1>10. ASSUME NEW u \in Accels, AccelCalls(u) PROVE LockInv'
    BY <1>3, <1>10 DEF AccelCalls, Users
  <1>11. CASE BaroCalls
    BY <1>3, <1>11, UsersAreThreads DEF BaroCalls
  <1> QED
    BY <1>1, <1>2, <1>4, <1>5, <1>6, <1>7, <1>8, <1>9, <1>10, <1>11 DEF Next

-----------------------------------------------------------------------------
LEMMA FilterInvStep == TypeInv /\ LockInv /\ FilterInv /\ [Next]_vars => FilterInv'
  <1> SUFFICES ASSUME TypeInv, LockInv, FilterInv, [Next]_vars PROVE FilterInv'
    OBVIOUS
  <1>t. PcTypes /\ local \in [Users -> [x : SUBSET Users, p : SUBSET Users]]
        /\ queue \in Seq(Users)
    BY DEF TypeInv, TypeOK, PcTypes
  <1>0. ASSUME UNCHANGED filterVars,
               \A v \in Users : pc'[v] \in {"loaded", "stored"} => pc'[v] = pc[v]
        PROVE  FilterInv'
    BY <1>0 DEF FilterInv, filterVars, With
  <1>1. ASSUME NEW u \in Users, Load(u) PROVE FilterInv'
    <2>1. /\ pc[u] = "locked" /\ pc' = [pc EXCEPT ![u] = "loaded"]
          /\ local' = [local EXCEPT ![u] = [x |-> x, p |-> p]] /\ x' = x /\ p' = p
      BY <1>1 DEF Load, Goto
    <2>2. \A v \in Users : v # u => pc[v] \notin Inside /\ pc'[v] = pc[v]
      BY <2>1, <1>t, UsersAreThreads DEF LockInv, Inside, PcTypes
    <2>3. pc'[u] = "loaded" /\ local'[u] = [x |-> x, p |-> p]
      BY <2>1, <1>t, UsersAreThreads DEF PcTypes
    <2> QED BY <2>1, <2>2, <2>3 DEF FilterInv, Inside
  <1>2. ASSUME NEW u \in Users, StoreState(u) PROVE FilterInv'
    <2>1. /\ pc[u] = "loaded" /\ pc' = [pc EXCEPT ![u] = "stored"]
          /\ local' = local /\ x' = With(u, local[u].x) /\ p' = p
      BY <1>2 DEF StoreState, Goto
    <2>2. \A v \in Users : v # u => pc[v] \notin Inside /\ pc'[v] = pc[v]
      BY <2>1, <1>t, UsersAreThreads DEF LockInv, Inside, PcTypes
    <2>3. pc'[u] = "stored" /\ local[u].p = p
      BY <2>1, <1>t, UsersAreThreads DEF PcTypes, FilterInv
    <2> QED BY <2>1, <2>2, <2>3 DEF FilterInv, Inside, With
  <1>3. ASSUME NEW u \in Users, StoreCovariance(u) PROVE FilterInv'
    <2>1. pc[u] = "stored" /\ pc' = [pc EXCEPT ![u] = "done"]
      BY <1>3 DEF StoreCovariance, Goto
    <2>2. \A v \in Users : v # u => pc[v] \notin Inside /\ pc'[v] = pc[v]
      BY <2>1, <1>t, UsersAreThreads DEF LockInv, Inside, PcTypes
    <2>3. pc'[u] = "done"
      BY <2>1, <1>t, UsersAreThreads DEF PcTypes
    <2> QED BY <2>2, <2>3 DEF FilterInv, Inside
  <1>4. ASSUME NEW u \in Users, Release(u) PROVE FilterInv'
    <2>1. UNCHANGED filterVars
      BY <1>4 DEF Release
    <2>2. \E next \in {"idle", "predicted"} : Signal(u, next)
      BY <1>4 DEF Release
    <2>3. CASE queue = <<>>
      <3>1. \E next \in {"idle", "predicted"} : pc' = [pc EXCEPT ![u] = next]
        BY <2>2, <2>3 DEF Signal, Goto
      <3> QED BY <1>0, <2>1, <3>1, <1>t, UsersAreThreads DEF PcTypes
    <2>4. CASE queue # <<>>
      <3>1. \E next \in {"idle", "predicted"} :
              pc' = [pc EXCEPT ![u] = next, ![Head(queue)] = "locked"]
        BY <2>2, <2>4 DEF Signal
      <3>2. Head(queue) \in Threads
        BY <2>4, <1>t, UsersAreThreads
      <3> QED BY <1>0, <2>1, <3>1, <3>2, <1>t, UsersAreThreads DEF PcTypes
    <2> QED BY <2>3, <2>4
  <1>5. ASSUME NEW u \in Users, Acquire(u) PROVE FilterInv'
    <2>1. UNCHANGED filterVars /\ \E place \in {"locked", "queued"} : pc' = [pc EXCEPT ![u] = place]
      BY <1>5 DEF Acquire, Wait, Goto
    <2> QED BY <1>0, <2>1, <1>t, UsersAreThreads DEF PcTypes
  <1>6. CASE RunState
    BY <1>0, <1>6, <1>t, UsersAreThreads DEF RunState, Goto, PcTypes
  <1>7. ASSUME NEW t \in {"baro", "magno"}, BusLock(t) \/ BusUnlock(t) PROVE FilterInv'
    <2>1. UNCHANGED filterVars /\ \E place \in {"bus", "idle"} : pc' = [pc EXCEPT ![t] = place]
      BY <1>7 DEF BusLock, BusUnlock, Goto
    <2> QED BY <1>0, <2>1, <1>t, UsersAreThreads DEF PcTypes
  <1>8. CASE CheckFlag
    <2>1. UNCHANGED filterVars /\ (pc' = [pc EXCEPT !["baro"] = "trusted"] \/ pc' = pc)
      BY <1>8 DEF CheckFlag, Goto
    <2> QED BY <1>0, <2>1, <1>t, UsersAreThreads DEF PcTypes
  <1>9. CASE Tick \/ UNCHANGED vars
    BY <1>0, <1>9 DEF Tick, vars
  <1> QED
    BY <1>1, <1>2, <1>3, <1>4, <1>5, <1>6, <1>7, <1>8, <1>9, UsersAreThreads
       DEF Next, Update, MissionCalls, AccelCalls, BaroCalls, Users

EstimatorInv == TypeInv /\ LockInv /\ FilterInv

LEMMA EstimatorInvHolds == Spec => []EstimatorInv
  <1>1. Init => EstimatorInv
    BY TypeInvInit, LockInvInit DEF EstimatorInv
  <1>2. EstimatorInv /\ [Next]_vars => EstimatorInv'
    BY TypeInvStep, LockInvStep, FilterInvStep DEF EstimatorInv
  <1> QED BY <1>1, <1>2, PTL DEF Spec

-----------------------------------------------------------------------------
(* A pressure that was let through before the flag was cleared is the only one. *)
OnItsWay == {"trusted", "queued", "locked", "loaded"}

StaleInv == stale <= 1 /\ (~trust /\ pc["baro"] \in OnItsWay => stale = 0)

LEMMA StaleInvStep == EstimatorInv /\ StaleInv /\ [Next]_vars => StaleInv'
  <1> SUFFICES ASSUME EstimatorInv, StaleInv, [Next]_vars PROVE StaleInv'
    OBVIOUS
  <1>t. PcTypes /\ LockInv /\ queue \in Seq(Users) /\ stale \in 0..2
    BY DEF EstimatorInv, TypeInv, TypeOK, PcTypes
  <1>0. ASSUME UNCHANGED <<stale, trust>>, pc'["baro"] \in OnItsWay => pc["baro"] \in OnItsWay
        PROVE  StaleInv'
    BY <1>0 DEF StaleInv
  <1>1. ASSUME NEW u \in Users, Load(u) PROVE StaleInv'
    <2>1. UNCHANGED <<stale, trust>> /\ pc[u] = "locked" /\ pc' = [pc EXCEPT ![u] = "loaded"]
      BY <1>1 DEF Load, Goto, flightVars
    <2> QED BY <2>1, <1>0, <1>t, UsersAreThreads DEF PcTypes, OnItsWay
  <1>2. ASSUME NEW u \in Users, StoreState(u) PROVE StaleInv'
    <2>1. pc[u] = "loaded" /\ pc' = [pc EXCEPT ![u] = "stored"] /\ UNCHANGED trust
          /\ stale' = (IF u = "baro" /\ ~trust /\ stale < 2 THEN stale + 1 ELSE stale)
      BY <1>2 DEF StoreState, Goto, flightVars
    <2>2. CASE u = "baro"
      <3>1. pc'["baro"] \notin OnItsWay /\ pc["baro"] \in OnItsWay
        BY <2>1, <2>2, <1>t, UsersAreThreads DEF PcTypes, OnItsWay
      <3>2. ~trust => stale = 0
        BY <3>1 DEF StaleInv
      <3>3. stale' <= 1
        BY <2>1, <3>2, <1>t DEF StaleInv
      <3> QED BY <3>1, <3>3 DEF StaleInv
    <2>3. CASE u # "baro"
      BY <2>1, <2>3, <1>0, <1>t, UsersAreThreads DEF PcTypes
    <2> QED BY <2>2, <2>3
  <1>3. ASSUME NEW u \in Users, StoreCovariance(u) PROVE StaleInv'
    <2>1. UNCHANGED <<stale, trust>> /\ pc' = [pc EXCEPT ![u] = "done"]
      BY <1>3 DEF StoreCovariance, Goto, flightVars
    <2> QED BY <2>1, <1>0, <1>t, UsersAreThreads DEF PcTypes, OnItsWay
  <1>4. ASSUME NEW u \in Users, Release(u) PROVE StaleInv'
    <2>1. UNCHANGED <<stale, trust>> /\ \E next \in {"idle", "predicted"} : Signal(u, next)
      BY <1>4 DEF Release, flightVars
    <2>2. CASE queue = <<>>
      <3>1. \E next \in {"idle", "predicted"} : pc' = [pc EXCEPT ![u] = next]
        BY <2>1, <2>2 DEF Signal, Goto
      <3> QED BY <1>0, <2>1, <3>1, <1>t, UsersAreThreads DEF PcTypes, OnItsWay
    <2>3. CASE queue # <<>>
      <3>1. \E next \in {"idle", "predicted"} :
              pc' = [pc EXCEPT ![u] = next, ![Head(queue)] = "locked"]
        BY <2>1, <2>3 DEF Signal
      <3>2. Head(queue) \in Threads /\ pc[Head(queue)] = "queued"
        BY <2>3, <1>t, UsersAreThreads DEF LockInv
      <3> QED BY <1>0, <2>1, <3>1, <3>2, <1>t, UsersAreThreads DEF PcTypes, OnItsWay
    <2> QED BY <2>2, <2>3
  <1>5. ASSUME NEW u \in Users, Acquire(u), u = "baro" => pc["baro"] = "trusted" PROVE StaleInv'
    <2>1. UNCHANGED <<stale, trust>>
          /\ \E place \in {"locked", "queued"} : pc' = [pc EXCEPT ![u] = place]
      BY <1>5 DEF Acquire, Wait, Goto, flightVars
    <2> QED BY <1>0, <1>5, <2>1, <1>t, UsersAreThreads DEF PcTypes, OnItsWay
  <1>6. CASE RunState
    <2>1. trust' = (phase # "burn") /\ pc' = [pc EXCEPT !["mission"] = "idle"]
          /\ stale' = (IF trust /\ phase = "burn" THEN 0 ELSE stale)
      BY <1>6 DEF RunState, Goto
    <2>2. pc'["baro"] = pc["baro"]
      BY <2>1, <1>t, UsersAreThreads DEF PcTypes
    <2>3. stale' <= 1
      BY <2>1 DEF StaleInv
    <2>4. ASSUME ~trust', pc'["baro"] \in OnItsWay PROVE stale' = 0
      BY <2>1, <2>2, <2>4 DEF StaleInv
    <2> QED BY <2>3, <2>4 DEF StaleInv
  <1>7. ASSUME NEW t \in {"baro", "magno"}, BusLock(t) \/ BusUnlock(t) PROVE StaleInv'
    <2>1. UNCHANGED <<stale, trust>> /\ \E place \in {"bus", "idle"} : pc' = [pc EXCEPT ![t] = place]
      BY <1>7 DEF BusLock, BusUnlock, Goto, flightVars
    <2> QED BY <1>0, <2>1, <1>t, UsersAreThreads DEF PcTypes, OnItsWay
  <1>8. CASE CheckFlag
    <2>1. UNCHANGED <<stale, trust>> /\ (trust \/ pc' = pc)
      BY <1>8 DEF CheckFlag, Goto, flightVars
    <2> QED BY <2>1 DEF StaleInv
  <1>9. CASE Tick \/ UNCHANGED vars
    BY <1>0, <1>9 DEF Tick, vars, flightVars
  <1>10. ASSUME NEW u \in Accels, AccelCalls(u) PROVE StaleInv'
    BY <1>5, <1>10 DEF AccelCalls, Users
  <1>11. CASE MissionCalls \/ BaroCalls
    BY <1>5, <1>11, UsersAreThreads DEF MissionCalls, BaroCalls
  <1> QED
    BY <1>1, <1>2, <1>3, <1>4, <1>6, <1>7, <1>8, <1>9, <1>10, <1>11 DEF Next, Update

(* Of the pressures read before ignition at most one enters while the barometer is masked,
   however many threads are at the lock. *)
THEOREM OneStalePressure == Spec => []AtMostOneStalePressure
  <1>1. Init => StaleInv
    BY DEF Init, StaleInv
  <1>2. StaleInv => AtMostOneStalePressure
    BY DEF StaleInv, AtMostOneStalePressure
  <1> QED BY <1>1, <1>2, StaleInvStep, EstimatorInvHolds, PTL DEF Spec

-----------------------------------------------------------------------------
LEMMA NothingStored ==
  ASSUME \A v \in Users : pc[v] # "stored" PROVE VisibleState = x
  BY DEF VisibleState

LEMMA OneStored ==
  ASSUME LockInv, NEW u \in Users, pc[u] = "stored" PROVE VisibleState = local[u].x
  <1>1. \A v \in Users : pc[v] = "stored" => v = u
    BY UsersAreThreads DEF LockInv, Inside
  <1>2. (CHOOSE v \in Users : pc[v] = "stored") = u
    BY <1>1
  <1> QED BY <1>2 DEF VisibleState

(* For any users, every step is an update of the atomic filter or is invisible to it. *)
THEOREM Refinement == Spec => ImplementsAtomicFilter
  <1>1. Init => Filter!Init
    BY NothingStored, UsersAreThreads DEF Init, Filter!Init
  <1>2. EstimatorInv /\ EstimatorInv' /\ [Next]_vars => [Filter!Next]_<<VisibleState, p>>
    <2> SUFFICES ASSUME EstimatorInv, EstimatorInv', [Next]_vars
                 PROVE  [Filter!Next]_<<VisibleState, p>>
      OBVIOUS
    <2>t. PcTypes /\ PcTypes' /\ LockInv /\ LockInv' /\ FilterInv /\ queue \in Seq(Users)
          /\ local \in [Users -> [x : SUBSET Users, p : SUBSET Users]]
      BY DEF EstimatorInv, TypeInv, TypeOK, PcTypes
    <2>0. ASSUME UNCHANGED p, UNCHANGED x,
                 \A v \in Users : pc'[v] = "stored" <=> pc[v] = "stored",
                 \A v \in Users : pc[v] = "stored" => local'[v] = local[v]
          PROVE  UNCHANGED <<VisibleState, p>>
      <3>1. CASE \A v \in Users : pc[v] # "stored"
        <4>1. VisibleState = x
          BY <3>1, NothingStored
        <4>2. VisibleState' = x'
          BY <3>1, <2>0 DEF VisibleState
        <4> QED BY <4>1, <4>2, <2>0
      <3>2. ASSUME NEW v \in Users, pc[v] = "stored" PROVE UNCHANGED <<VisibleState, p>>
        <4>1. VisibleState = local[v].x
          BY <3>2, <2>t, OneStored
        <4>2. pc'[v] = "stored"
          BY <3>2, <2>0
        <4>3. \A w \in Users : pc'[w] = "stored" => w = v
          BY <4>2, <2>t, UsersAreThreads DEF LockInv, Inside
        <4>4. (CHOOSE w \in Users : pc'[w] = "stored") = v
          BY <4>2, <4>3
        <4>5. VisibleState' = local'[v].x
          BY <4>2, <4>4 DEF VisibleState
        <4> QED BY <4>1, <4>5, <3>2, <2>0
      <3> QED BY <3>1, <3>2
    <2>1. ASSUME NEW u \in Users, Load(u) PROVE UNCHANGED <<VisibleState, p>>
      <3>1. /\ pc[u] = "locked" /\ pc' = [pc EXCEPT ![u] = "loaded"]
            /\ local' = [local EXCEPT ![u] = [x |-> x, p |-> p]] /\ x' = x /\ p' = p
        BY <2>1 DEF Load, Goto
      <3> QED BY <3>1, <2>0, <2>t, UsersAreThreads DEF PcTypes
    <2>2. ASSUME NEW u \in Users, StoreState(u) PROVE UNCHANGED <<VisibleState, p>>
      <3>1. /\ pc[u] = "loaded" /\ pc' = [pc EXCEPT ![u] = "stored"]
            /\ local' = local /\ x' = With(u, local[u].x) /\ p' = p
        BY <2>2 DEF StoreState, Goto
      <3>2. VisibleState = x /\ local[u].x = x
        BY <3>1, <2>t, NothingStored, UsersAreThreads DEF LockInv, Inside, FilterInv
      <3>3. \A w \in Users : pc'[w] = "stored" <=> w = u
        BY <3>1, <2>t, UsersAreThreads DEF LockInv, Inside, PcTypes
      <3>4. (CHOOSE w \in Users : pc'[w] = "stored") = u
        BY <3>3
      <3>5. VisibleState' = local'[u].x
        BY <3>3, <3>4 DEF VisibleState
      <3> QED BY <3>1, <3>2, <3>5
    <2>3. ASSUME NEW u \in Users, StoreCovariance(u) PROVE Filter!Update(u)
      <3>1. /\ pc[u] = "stored" /\ pc' = [pc EXCEPT ![u] = "done"]
            /\ x' = x /\ p' = With(u, local[u].p)
        BY <2>3 DEF StoreCovariance, Goto
      <3>2. VisibleState = local[u].x
        BY <3>1, <2>t, OneStored
      <3>3. \A w \in Users : pc'[w] # "stored"
        BY <3>1, <2>t, UsersAreThreads DEF LockInv, Inside, PcTypes
      <3>4. VisibleState' = x'
        BY <3>3 DEF VisibleState
      <3>5. x = With(u, local[u].x) /\ p = local[u].p
        BY <3>1, <2>t DEF FilterInv
      <3> QED BY <3>1, <3>2, <3>4, <3>5 DEF Filter!Update, Filter!With, With
    <2>4. ASSUME NEW u \in Users, Release(u) PROVE UNCHANGED <<VisibleState, p>>
      <3>1. UNCHANGED filterVars /\ pc[u] = "done"
            /\ \E next \in {"idle", "predicted"} : Signal(u, next)
        BY <2>4 DEF Release
      <3>2. CASE queue = <<>>
        <4>1. \E next \in {"idle", "predicted"} : pc' = [pc EXCEPT ![u] = next]
          BY <3>1, <3>2 DEF Signal, Goto
        <4> QED BY <2>0, <3>1, <4>1, <2>t, UsersAreThreads DEF PcTypes, filterVars
      <3>3. CASE queue # <<>>
        <4>1. \E next \in {"idle", "predicted"} :
                pc' = [pc EXCEPT ![u] = next, ![Head(queue)] = "locked"]
          BY <3>1, <3>3 DEF Signal
        <4>2. Head(queue) \in Threads /\ pc[Head(queue)] = "queued"
          BY <3>3, <2>t, UsersAreThreads DEF LockInv
        <4> QED BY <2>0, <3>1, <4>1, <4>2, <2>t, UsersAreThreads DEF PcTypes, filterVars
      <3> QED BY <3>2, <3>3
    <2>5. ASSUME NEW u \in Users, pc[u] # "stored", Acquire(u) PROVE UNCHANGED <<VisibleState, p>>
      <3>1. UNCHANGED filterVars
            /\ \E place \in {"locked", "queued"} : pc' = [pc EXCEPT ![u] = place]
        BY <2>5 DEF Acquire, Wait, Goto
      <3> QED BY <2>0, <2>5, <3>1, <2>t, UsersAreThreads DEF PcTypes, filterVars
    <2>6. CASE RunState
      BY <2>0, <2>6, <2>t, UsersAreThreads DEF RunState, Goto, PcTypes, filterVars
    <2>7. ASSUME NEW t \in {"baro", "magno"}, BusLock(t) \/ BusUnlock(t)
          PROVE  UNCHANGED <<VisibleState, p>>
      <3>1. UNCHANGED filterVars /\ pc[t] # "stored"
            /\ \E place \in {"bus", "idle"} : pc' = [pc EXCEPT ![t] = place]
        BY <2>7 DEF BusLock, BusUnlock, Goto
      <3> QED BY <2>0, <3>1, <2>t, UsersAreThreads DEF PcTypes, filterVars
    <2>8. CASE CheckFlag
      <3>1. UNCHANGED filterVars /\ pc["baro"] = "idle"
            /\ (pc' = [pc EXCEPT !["baro"] = "trusted"] \/ pc' = pc)
        BY <2>8 DEF CheckFlag, Goto
      <3> QED BY <2>0, <3>1, <2>t, UsersAreThreads DEF PcTypes, filterVars
    <2>9. CASE Tick \/ UNCHANGED vars
      BY <2>0, <2>9 DEF Tick, vars, filterVars
    <2> QED
      BY <2>1, <2>2, <2>3, <2>4, <2>5, <2>6, <2>7, <2>8, <2>9, UsersAreThreads
         DEF Next, Update, MissionCalls, AccelCalls, BaroCalls, Users, Filter!Next
  <1> QED BY <1>1, <1>2, EstimatorInvHolds, PTL DEF Spec, ImplementsAtomicFilter, Filter!Spec
=============================================================================
