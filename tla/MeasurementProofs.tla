------------------------- MODULE MeasurementProofs --------------------------
(***************************************************************************)
(* Proofs about how a measurement is come by and what is made of it.       *)
(*                                                                         *)
(* Wakeups: the invariants of the drivers' wake-ups, for any set of drivers.*)
(*                                                                         *)
(* Kalman: the updates in place, for all matrices.  AccelIsExact and       *)
(* PredictionIsInPlace use nothing of the arithmetic: what is shown is that*)
(* every operand still has the value it had when the function was called,  *)
(* in the order the code goes through the elements, so rounding does not   *)
(* matter either.  PredictionIsExact does the algebra that remains.        *)
(***************************************************************************)
EXTENDS Wakeups, Kalman, TLAPS

(* Every variable keeps its type (adxl3x5.c, l3g4200d.c, hmc5883l.c). *)
THEOREM WakeupsTypeCorrect == Spec => []TypeOK
<1>1. Init => TypeOK
  BY DEF Init, TypeOK, Where, Statuses
<1>2. TypeOK /\ [Next]_vars => TypeOK'
  <2> SUFFICES ASSUME TypeOK, [Next]_vars PROVE TypeOK'
    OBVIOUS
  <2> USE DEF TypeOK, Where, Statuses, Goto, Set, device, Signalled, Latched, Adxl
  <2>1. ASSUME NEW d \in Drivers, AdxlStart(d) \/ AdxlSad(d) \/ AdxlInit(d)
        PROVE TypeOK'
    BY <2>1 DEF AdxlStart, AdxlSad, AdxlInit, BSemInit, Enable, Up
  <2>2. ASSUME NEW d \in Drivers, AdxlSettle(d) \/ ReadAccel(d)
        PROVE TypeOK'
    BY <2>2 DEF AdxlSettle, ReadAccel, TakeSample
  <2>3. ASSUME NEW d \in Drivers, IdCheck(d) \/ Wait(d) \/ Awake(d) \/ Timeout(d) \/ Sample(d)
        PROVE TypeOK'
    <3>1. CASE Wait(d)
      BY <3>1 DEF Wait, BSemWait
    <3>2. CASE Awake(d)
      BY <3>2 DEF Awake
    <3>3. CASE Timeout(d)
      BY <3>3 DEF Timeout
    <3>4. CASE Sample(d)
      BY <3>4 DEF Sample, BSemSignal
    <3>5. CASE IdCheck(d)
      BY <3>5 DEF IdCheck
    <3> QED
      BY <2>3, <3>1, <3>2, <3>3, <3>4, <3>5
  <2>4. ASSUME "gyro" \in Drivers, GyroStart \/ GyroInitFails \/ GyroInit
        PROVE TypeOK'
    BY <2>4 DEF GyroStart, GyroInitFails, GyroInit, BSemInit, Enable, Up
  <2>5. ASSUME "gyro" \in Drivers, GyroReceive
        PROVE TypeOK'
    <3>1. CASE TakeSample("gyro") /\ UNCHANGED status
      <4>1. PICK again \in {FALSE, data["gyro"]} :
              /\ data' = [data EXCEPT !["gyro"] = again]
              /\ missed' = [missed EXCEPT !["gyro"] = again]
        BY <3>1 DEF TakeSample
      <4>2. again \in BOOLEAN
        BY <2>5
      <4>3. data' \in [Signalled -> BOOLEAN] /\ missed' \in [Signalled -> BOOLEAN]
        BY <4>1, <4>2
      <4> QED
        BY <2>5, <3>1, <4>3 DEF GyroReceive
    <3>2. CASE Set("gyro", "ERR_READING") /\ missed' = [missed EXCEPT !["gyro"] = Up("gyro")]
               /\ UNCHANGED data
      <4>1. Up("gyro") \in BOOLEAN
        BY DEF Up
      <4>2. missed' \in [Signalled -> BOOLEAN]
        BY <3>2, <4>1
      <4>3. pc' \in [Drivers -> Where] /\ status' \in [Drivers -> Statuses]
        BY <2>5, <3>2 DEF GyroReceive
      <4> QED
        BY <2>5, <3>2, <4>2, <4>3 DEF GyroReceive
    <3> QED
      BY <2>5, <3>1, <3>2 DEF GyroReceive
  <2>6. ASSUME "magno" \in Drivers,
               MagnoStart \/ MagnoInitFails \/ MagnoInit \/ MagnoSleep \/ MagnoReceive
        PROVE TypeOK'
    BY <2>6 DEF MagnoStart, MagnoInitFails, MagnoInit, MagnoSleep, MagnoReceive
  <2>7. CASE MagnoWakeup
    BY <2>7 DEF MagnoWakeup
  <2>8. CASE UNCHANGED vars
    BY <2>8 DEF vars
  <2> QED
    BY <2>1, <2>2, <2>3, <2>4, <2>5, <2>6, <2>7, <2>8 DEF Next, Step
<1> QED
  BY <1>1, <1>2, PTL DEF Spec

-----------------------------------------------------------------------------
(* NoWakeupLost, extended to the initialisation that may lead straight to the
   wait. *)
Told ==
  \A d \in Signalled :
    pc[d] \in {"check", "init", "wait", "asleep"} /\ Up(d) /\ bs[d] = 0 => missed[d]

(* A thread never sleeps beside an unread sample whose interrupt was given after
   its semaphore was initialised (adxl3x5.c:293, l3g4200d.c:244). *)
THEOREM WakeupsAreKept == Spec => []NoWakeupLost
<1>1. Init => Told
  BY DEF Init, Told, Signalled
<1>2. TypeOK /\ Told /\ [Next]_vars => Told'
  <2> SUFFICES ASSUME TypeOK, Told, [Next]_vars,
                      NEW e \in Signalled,
                      pc'[e] \in {"check", "init", "wait", "asleep"}, Up(e)', bs'[e] = 0
               PROVE missed'[e]
    BY DEF Told
  <2> USE DEF TypeOK, Told, Up, Goto, device, Signalled, Latched, Adxl
  <2>1. ASSUME NEW d \in Drivers, AdxlStart(d) \/ AdxlSad(d) \/ AdxlInit(d)
        PROVE missed'[e]
    BY <2>1 DEF AdxlStart, AdxlSad, AdxlInit, BSemInit, Enable
  <2>2. ASSUME NEW d \in Drivers, AdxlSettle(d) \/ ReadAccel(d)
        PROVE missed'[e]
    BY <2>2 DEF AdxlSettle, ReadAccel, TakeSample
  <2>3. ASSUME NEW d \in Drivers, IdCheck(d) \/ Wait(d) \/ Awake(d) \/ Timeout(d) \/ Sample(d)
        PROVE missed'[e]
    <3>1. CASE Wait(d)
      BY <3>1 DEF Wait, BSemWait
    <3>2. CASE Awake(d)
      BY <3>2 DEF Awake
    <3>3. CASE Timeout(d)
      BY <3>3 DEF Timeout
    <3>4. CASE Sample(d)
      BY <3>4 DEF Sample, BSemSignal
    <3>5. CASE IdCheck(d)
      BY <3>5 DEF IdCheck
    <3> QED
      BY <2>3, <3>1, <3>2, <3>3, <3>4, <3>5
  <2>4. ASSUME "gyro" \in Drivers, GyroStart \/ GyroInitFails \/ GyroInit
        PROVE missed'[e]
    BY <2>4 DEF GyroStart, GyroInitFails, GyroInit, BSemInit, Enable
  <2>5. ASSUME "gyro" \in Drivers, GyroReceive
        PROVE missed'[e]
    BY <2>5 DEF GyroReceive, TakeSample
  <2>6. ASSUME "magno" \in Drivers,
               MagnoStart \/ MagnoInitFails \/ MagnoInit \/ MagnoSleep \/ MagnoReceive
        PROVE missed'[e]
    BY <2>6 DEF MagnoStart, MagnoInitFails, MagnoInit, MagnoSleep, MagnoReceive
  <2>7. CASE MagnoWakeup
    BY <2>7 DEF MagnoWakeup
  <2>8. CASE UNCHANGED vars
    BY <2>8 DEF vars
  <2> QED
    BY <2>1, <2>2, <2>3, <2>4, <2>5, <2>6, <2>7, <2>8 DEF Next, Step
<1>3. Told => NoWakeupLost
  BY DEF Told, NoWakeupLost
<1> QED
  BY <1>1, <1>2, <1>3, WakeupsTypeCorrect, PTL DEF Spec

-----------------------------------------------------------------------------
(* The pointer is there only while the thread sleeps or has just been timed
   out. *)
PointerInv ==
  /\ broken = 0
  /\ "magno" \in Drivers /\ tp => pc["magno"] \in {"asleep", "awake"}

(* The handler readies only a thread that is asleep (hmc5883l.c:173). *)
THEOREM OnlySleepersAreReadied == Spec => []ReadyListIntact
<1>1. Init => PointerInv
  BY DEF Init, PointerInv
<1>2. TypeOK /\ PointerInv /\ [Next]_vars => PointerInv'
  <2> SUFFICES ASSUME TypeOK, PointerInv, [Next]_vars PROVE PointerInv'
    OBVIOUS
  <2> USE DEF TypeOK, PointerInv, Goto, device, Latched, Adxl
  <2>1. ASSUME NEW d \in Drivers,
               AdxlStart(d) \/ AdxlSad(d) \/ AdxlInit(d) \/ AdxlSettle(d) \/ ReadAccel(d)
        PROVE PointerInv'
    BY <2>1 DEF AdxlStart, AdxlSad, AdxlInit, AdxlSettle, ReadAccel
  <2>2. ASSUME NEW d \in Drivers, IdCheck(d) \/ Wait(d) \/ Awake(d) \/ Timeout(d) \/ Sample(d)
        PROVE PointerInv'
    <3>1. CASE Wait(d)
      BY <3>1 DEF Wait, BSemWait
    <3>2. CASE Awake(d)
      <4>1. CASE d = "magno"
        BY <3>2, <4>1 DEF Awake
      <4>2. CASE d # "magno"
        BY <3>2, <4>2 DEF Awake
      <4> QED
        BY <4>1, <4>2
    <3>3. CASE Timeout(d)
      BY <3>3 DEF Timeout
    <3>4. CASE Sample(d)
      BY <3>4 DEF Sample, BSemSignal
    <3>5. CASE IdCheck(d)
      BY <3>5 DEF IdCheck
    <3> QED
      BY <2>2, <3>1, <3>2, <3>3, <3>4, <3>5
  <2>3. ASSUME "gyro" \in Drivers, GyroStart \/ GyroInitFails \/ GyroInit \/ GyroReceive
        PROVE PointerInv'
    BY <2>3 DEF GyroStart, GyroInitFails, GyroInit, GyroReceive
  <2>4. ASSUME "magno" \in Drivers,
               MagnoStart \/ MagnoInitFails \/ MagnoInit \/ MagnoSleep \/ MagnoReceive
        PROVE PointerInv'
    BY <2>4 DEF MagnoStart, MagnoInitFails, MagnoInit, MagnoSleep, MagnoReceive
  <2>5. CASE MagnoWakeup
    BY <2>5 DEF MagnoWakeup
  <2>6. CASE UNCHANGED vars
    BY <2>6 DEF vars
  <2> QED
    BY <2>1, <2>2, <2>3, <2>4, <2>5, <2>6 DEF Next, Step
<1>3. PointerInv => ReadyListIntact
  BY DEF PointerInv, ReadyListIntact
<1> QED
  BY <1>1, <1>2, <1>3, WakeupsTypeCorrect, PTL DEF Spec

-----------------------------------------------------------------------------
(* Kalman. *)

IsMatrix(m) == DOMAIN m = I /\ \A i \in I : DOMAIN m[i] = I

Shapes ==
  /\ n \in 0..9
  /\ IsMatrix(p) /\ IsMatrix(p0)

(* The element in row i and column j is done. *)
Done(i, j) == 3 * i + j < n

(* Storing element n leaves the others alone. *)
LEMMA StoreElement ==
  ASSUME IsMatrix(p), n \in 0..8, NEW v, Store(v)
  PROVE /\ IsMatrix(p')
        /\ \A i, j \in I : p'[i][j] = IF 3 * i + j = n THEN v ELSE p[i][j]
<1>1. Row(n) \in I /\ Col(n) \in I
  BY DEF Row, Col, I
<1>2. \A i, j \in I : 3 * i + j = n <=> i = Row(n) /\ j = Col(n)
  BY DEF Row, Col, I
<1>3. p' = [p EXCEPT ![Row(n)][Col(n)] = v]
  BY DEF Store
<1> QED
  BY <1>1, <1>2, <1>3 DEF IsMatrix

-----------------------------------------------------------------------------
(* Halfway through an acceleration's update, the elements done are corrected and
   the others untouched. *)
AccelSoFar ==
  op = "accel" =>
    /\ k = [i \in I |-> p0[i][2] ** s_inv]
    /\ \A i, j \in I :
         p[i][j] = IF Done(i, j) THEN p0[i][j] - (p0[i][2] ** s_inv) ** p0[2][j]
                                 ELSE p0[i][j]

(* The matrices keep their shape and the elements are done within range
   (state_estimation.c). *)
THEOREM ShapesKept == KalmanSpec => []Shapes
<1>1. KalmanInit => Shapes
  BY FloatAssumption DEF KalmanInit, Shapes, IsMatrix
<1>2. Shapes /\ [KalmanNext]_kalmanVars => Shapes'
  <2> SUFFICES ASSUME Shapes, [KalmanNext]_kalmanVars PROVE Shapes'
    OBVIOUS
  <2> USE DEF Shapes
  <2>1. ASSUME NEW f, Call(f) PROVE Shapes'
    BY <2>1 DEF Call, IsMatrix
  <2>2. CASE PredictElement
    <3>1. n \in 0..8 /\ n' = n + 1 /\ n < 9 /\ UNCHANGED p0
      BY <2>2 DEF PredictElement, Store
    <3>2. IsMatrix(p')
      BY <2>2, <3>1, StoreElement DEF PredictElement
    <3> QED
      BY <3>1, <3>2 DEF IsMatrix
  <2>3. CASE AddNoise
    BY <2>3 DEF AddNoise, IsMatrix
  <2>4. ASSUME NEW f, NEW m, UpdateElement(f, m) PROVE Shapes'
    <3>1. n \in 0..8 /\ n' = n + 1 /\ n < 9 /\ UNCHANGED p0
      BY <2>4 DEF UpdateElement, NextElement, Store
    <3>2. IsMatrix(p')
      BY <2>4, <3>1, StoreElement DEF UpdateElement
    <3> QED
      BY <3>1, <3>2 DEF IsMatrix
  <2>5. CASE Return \/ UNCHANGED kalmanVars
    BY <2>5 DEF Return, kalmanVars, IsMatrix
  <2> QED
    BY <2>1, <2>2, <2>3, <2>4, <2>5 DEF KalmanNext, GetState, NewPressure, UpdateAccel, Measure
<1> QED
  BY <1>1, <1>2, PTL DEF KalmanSpec

(* The covariance left by an acceleration is (I - K H) P of the values before
   it, although it is overwritten in place (state_estimation.c:465). *)
THEOREM AccelIsExact == KalmanSpec => []AccelAsDocumented
<1>1. KalmanInit => AccelSoFar
  BY DEF KalmanInit, AccelSoFar
<1>2. Shapes /\ AccelSoFar /\ [KalmanNext]_kalmanVars => AccelSoFar'
  <2> SUFFICES ASSUME Shapes, AccelSoFar, [KalmanNext]_kalmanVars PROVE AccelSoFar'
    OBVIOUS
  <2> USE DEF AccelSoFar, Done
  <2>1. CASE GetState \/ NewPressure
    BY <2>1 DEF GetState, NewPressure, Measure, Call
  <2>2. CASE UpdateAccel
    BY <2>2 DEF UpdateAccel, Measure, Call, I
  <2>3. CASE PredictElement
    BY <2>3 DEF PredictElement, Store
  <2>4. CASE AddNoise
    BY <2>4 DEF AddNoise
  <2>5. CASE UpdateElement("pressure", 0)
    BY <2>5 DEF UpdateElement, Store
  <2>6. CASE UpdateElement("accel", 2)
    <3>1. /\ op = "accel" /\ op' = "accel" /\ n \in 0..8 /\ n' = n + 1
          /\ UNCHANGED <<k, s_inv, p0>>
      BY <2>6 DEF UpdateElement, NextElement, Store, locals, Shapes
    <3>2. \A i, j \in I :
            p'[i][j] = IF 3 * i + j = n THEN p[Row(n)][Col(n)] - k[Row(n)] ** p[2][Col(n)]
                                        ELSE p[i][j]
      BY <2>6, <3>1, StoreElement DEF UpdateElement, Shapes
    <3>3. \A i, j \in I : 3 * i + j = n => i = Row(n) /\ j = Col(n)
      BY <3>1 DEF Row, Col, I
    <3>4. ASSUME NEW i \in I, NEW j \in I
          PROVE p'[i][j] = IF 3 * i + j < n'
                             THEN p0[i][j] - (p0[i][2] ** s_inv) ** p0[2][j]
                             ELSE p0[i][j]
      <4>1. CASE 3 * i + j = n
        <5>1. p'[i][j] = p[i][j] - k[i] ** p[2][j]
          BY <3>2, <3>3, <4>1
        <5>2. ~(3 * i + j < n) /\ ~(3 * 2 + j < n) /\ 2 \in I
          BY <3>1, <4>1 DEF I
        <5>3. p[i][j] = p0[i][j] /\ p[2][j] = p0[2][j]
          BY <3>1, <5>2
        <5>4. k[i] = p0[i][2] ** s_inv
          BY <3>1
        <5> QED
          BY <3>1, <4>1, <5>1, <5>3, <5>4 DEF I
      <4>2. CASE 3 * i + j # n
        <5>1. p'[i][j] = p[i][j]
          BY <3>2, <4>2
        <5>2. 3 * i + j < n' <=> 3 * i + j < n
          BY <3>1, <4>2 DEF I
        <5> QED
          BY <3>1, <5>1, <5>2
      <4> QED
        BY <4>1, <4>2
    <3> QED
      BY <3>1, <3>4
  <2>7. CASE Return \/ UNCHANGED kalmanVars
    BY <2>7 DEF Return, kalmanVars, locals
  <2> QED
    BY <2>1, <2>2, <2>3, <2>4, <2>5, <2>6, <2>7 DEF KalmanNext
<1>3. Shapes /\ AccelSoFar => AccelAsDocumented
  BY DEF AccelSoFar, AccelAsDocumented, Corrected, Done, I
<1> QED
  BY <1>1, <1>2, <1>3, ShapesKept, PTL DEF KalmanSpec

-----------------------------------------------------------------------------
(* Every element that the prediction has done was computed from the elements at
   the call. *)
PredictedInPlace ==
  op = "predict" /\ n <= 8 =>
    \A i, j \in I :
      p[i][j] = IF Done(i, j) THEN p0[i][j] + Increment(p0, 3 * i + j) ELSE p0[i][j]

(* state_estimation.c:164: "the form means we can update each element
   in-place". *)
THEOREM PredictionIsInPlace == KalmanSpec => []PredictedInPlace
<1>1. KalmanInit => PredictedInPlace
  BY DEF KalmanInit, PredictedInPlace
<1>2. Shapes /\ PredictedInPlace /\ [KalmanNext]_kalmanVars => PredictedInPlace'
  <2> SUFFICES ASSUME Shapes, PredictedInPlace, [KalmanNext]_kalmanVars PROVE PredictedInPlace'
    OBVIOUS
  <2> USE DEF PredictedInPlace, Done
  <2>1. CASE GetState
    BY <2>1 DEF GetState, Call, I
  <2>2. CASE NewPressure \/ UpdateAccel
    BY <2>2 DEF NewPressure, UpdateAccel, Measure, Call
  <2>3. CASE PredictElement
    <3>1. /\ op = "predict" /\ n \in 0..7 /\ n' = n + 1
          /\ UNCHANGED <<op, dt, p0>>
      BY <2>3 DEF PredictElement, Store, locals, Shapes
    <3>2. \A i, j \in I :
            p'[i][j] = IF 3 * i + j = n THEN p[Row(n)][Col(n)] + Increment(p, n)
                                        ELSE p[i][j]
      BY <2>3, <3>1, StoreElement DEF PredictElement, Shapes
    <3>3. \A i, j \in I : 3 * i + j = n => i = Row(n) /\ j = Col(n)
      BY <3>1 DEF Row, Col, I
    <3>4. \A i, j \in I : 3 * i + j >= n => p[i][j] = p0[i][j]
      BY <3>1 DEF I
    <3>5. Increment(p, n) = Increment(p0, n)
      <4> n \in 0..7
        BY <3>1
      <4> QED
        BY <3>4 DEF Increment, I
    <3>6. \A c \in 0..8 : Increment(p0, c)' = Increment(p0, c)
      BY <3>1 DEF Increment, dt2_2
    <3>7. ASSUME NEW i \in I, NEW j \in I
          PROVE p'[i][j] = IF 3 * i + j < n' THEN p0[i][j] + Increment(p0, 3 * i + j)
                                             ELSE p0[i][j]
      <4>1. CASE 3 * i + j = n
        BY <3>1, <3>2, <3>3, <3>4, <3>5, <4>1 DEF I
      <4>2. CASE 3 * i + j # n
        <5>1. p'[i][j] = p[i][j]
          BY <3>2, <4>2
        <5>2. 3 * i + j < n' <=> 3 * i + j < n
          BY <3>1, <4>2 DEF I
        <5> QED
          BY <3>1, <5>1, <5>2
      <4> QED
        BY <4>1, <4>2
    <3>8. \A i, j \in I : 3 * i + j \in 0..8
      BY DEF I
    <3> QED
      BY <3>1, <3>6, <3>7, <3>8
  <2>4. CASE AddNoise
    BY <2>4 DEF AddNoise
  <2>5. CASE UpdateElement("pressure", 0) \/ UpdateElement("accel", 2)
    BY <2>5 DEF UpdateElement, Store
  <2>6. CASE Return
    BY <2>6 DEF Return
  <2>7. CASE UNCHANGED kalmanVars
    BY <2>7 DEF kalmanVars, locals, Increment, dt2_2
  <2> QED
    BY <2>1, <2>2, <2>3, <2>4, <2>5, <2>6, <2>7 DEF KalmanNext
<1> QED
  BY <1>1, <1>2, ShapesKept, PTL DEF KalmanSpec
-----------------------------------------------------------------------------
(* The prediction against the equations in the comments.  For times that are an even
   number of units no operation on them rounds, and products with them are products of
   integers.  Both sides being polynomials in the time, they agree for all. *)

WholeTimes == \A d \in Dts : \E e \in Int : d = (2 * e) * Unit

LEMMA Quotient == \A u \in Nat \ {0}, q \in Int : (u * q) \div u = q
  OBVIOUS

LEMMA UnitFactor ==
  ASSUME NEW c \in Int, NEW m \in Int
  PROVE  (c * Unit) ** m = c * m /\ m ** (c * Unit) = c * m
<1>0. Unit \in Nat \ {0}
  BY FloatAssumption
<1>1. (c * Unit) * m = Unit * (c * m) /\ m * (c * Unit) = Unit * (c * m)
  BY <1>0
<1>2. c * m \in Int
  OBVIOUS
<1> QED
  BY <1>0, <1>1, <1>2, Quotient DEF **

(* Products with a time, its half square, 1 and 0. *)
LEMMA TimeProducts ==
  ASSUME NEW e \in Int, NEW d, d = (2 * e) * Unit
  PROVE  /\ \A m \in Int : d ** m = (2 * e) * m /\ m ** d = (2 * e) * m
         /\ \A m \in Int : /\ ((d ** d) \div 2) ** m = (2 * (e * e)) * m
                           /\ m ** ((d ** d) \div 2) = (2 * (e * e)) * m
         /\ \A m \in Int : (d ** d ** m) \div 2 = (2 * (e * e)) * m
         /\ \A m \in Int : Unit ** m = m /\ m ** Unit = m /\ 0 ** m = 0 /\ m ** 0 = 0
<1>0. Unit \in Nat \ {0}
  BY FloatAssumption
<1>1. 2 * e \in Int /\ 2 * (e * e) \in Int /\ (2 * (e * e)) * Unit \in Int /\ d \in Int
  BY <1>0
<1>2. \A m \in Int : d ** m = (2 * e) * m /\ m ** d = (2 * e) * m
  BY <1>1, UnitFactor
<1>3. d ** d = 2 * ((2 * (e * e)) * Unit) /\ d ** d = (2 * (2 * (e * e))) * Unit
  BY <1>0, <1>1, <1>2
<1>4. ((d ** d) \div 2) = (2 * (e * e)) * Unit
  BY <1>1, <1>3, Quotient
<1>5. \A m \in Int : ((d ** d) \div 2) ** m = (2 * (e * e)) * m /\ m ** ((d ** d) \div 2) = (2 * (e * e)) * m
  BY <1>1, <1>4, UnitFactor
<1>6. ASSUME NEW m \in Int PROVE (d ** d ** m) \div 2 = (2 * (e * e)) * m
  <2>1. 2 * (2 * (e * e)) \in Int
    BY <1>1
  <2>2. d ** d ** m = (2 * (2 * (e * e))) * m
    BY <1>3, <2>1, UnitFactor
  <2>3. (2 * (2 * (e * e))) * m = 2 * ((2 * (e * e)) * m) /\ (2 * (e * e)) * m \in Int
    OBVIOUS
  <2> QED
    BY <2>2, <2>3, Quotient
<1>7. ASSUME NEW m \in Int PROVE Unit ** m = m /\ m ** Unit = m /\ 0 ** m = 0 /\ m ** 0 = 0
  <2>1. PICK one, none \in Int : one = 1 /\ none = 0
    OBVIOUS
  <2>2. /\ (one * Unit) ** m = one * m /\ m ** (one * Unit) = one * m
        /\ (none * Unit) ** m = none * m /\ m ** (none * Unit) = none * m
    BY UnitFactor
  <2>3. one * Unit = Unit /\ none * Unit = 0 /\ one * m = m /\ none * m = 0
    BY <1>0, <2>1
  <2> QED
    BY <2>2, <2>3
<1> QED
  BY <1>1, <1>2, <1>4, <1>5, <1>6, <1>7

(* The elements of F P F'. *)
LEMMA Reference ==
  ASSUME NEW e \in Int, dt = (2 * e) * Unit, p0 \in [I -> [I -> Int]]
  PROVE  \E r, h \in Int, R \in [I -> [I -> Int]] :
           /\ r = 2 * e /\ h = 2 * (e * e)
           /\ \A i \in I : /\ R[i][0] = p0[i][0] + r * p0[i][1] + h * p0[i][2]
                           /\ R[i][1] = p0[i][1] + r * p0[i][2]
                           /\ R[i][2] = p0[i][2]
           /\ \A j \in I : /\ FPF[0][j] = R[0][j] + r * R[1][j] + h * R[2][j]
                           /\ FPF[1][j] = R[1][j] + r * R[2][j]
                           /\ FPF[2][j] = R[2][j]
<1> DEFINE R == MatMul(p0, Transposed(F))
<1>0. I = {0, 1, 2}
  BY DEF I
<1>r. PICK r, h \in Int : r = 2 * e /\ h = 2 * (e * e)
  OBVIOUS
<1>1. /\ \A m \in Int : dt ** m = r * m /\ m ** dt = r * m
      /\ \A m \in Int : dt2_2 ** m = h * m /\ m ** dt2_2 = h * m
      /\ \A m \in Int : Unit ** m = m /\ m ** Unit = m /\ 0 ** m = 0 /\ m ** 0 = 0
  BY <1>r, TimeProducts DEF dt2_2
<1>2. /\ F[0][0] = Unit /\ F[0][1] = dt /\ F[0][2] = dt2_2
      /\ F[1][0] = 0 /\ F[1][1] = Unit /\ F[1][2] = dt
      /\ F[2][0] = 0 /\ F[2][1] = 0 /\ F[2][2] = Unit
  BY <1>0 DEF F
<1>3. \A m1, m2 : MatMul(m1, m2) \in [I -> [I -> {MatMul(m1, m2)[i][j] : i, j \in I}]]
  BY DEF MatMul
<1>4. ASSUME NEW m1, NEW m2, NEW i \in I, NEW j \in I
      PROVE MatMul(m1, m2)[i][j] = m1[i][0] ** m2[0][j] + m1[i][1] ** m2[1][j] + m1[i][2] ** m2[2][j]
  BY <1>0, <1>4 DEF MatMul, Sum
<1>5. \A l, j \in I : Transposed(F)[l][j] = F[j][l]
  BY DEF Transposed
<1>6. \A i, j \in I : R[i][j] = p0[i][0] ** F[j][0] + p0[i][1] ** F[j][1] + p0[i][2] ** F[j][2]
  BY <1>0, <1>4, <1>5
<1>7. \A i \in I : p0[i][0] \in Int /\ p0[i][1] \in Int /\ p0[i][2] \in Int
  BY <1>0
<1>8. \A i \in I : /\ R[i][0] = p0[i][0] + r * p0[i][1] + h * p0[i][2]
                   /\ R[i][1] = p0[i][1] + r * p0[i][2]
                   /\ R[i][2] = p0[i][2]
  <2> TAKE i \in I
  <2> HIDE DEF R
  <2>1. R[i][0] = p0[i][0] ** Unit + p0[i][1] ** dt + p0[i][2] ** dt2_2
    BY <1>0, <1>2, <1>6
  <2>2. R[i][1] = p0[i][0] ** 0 + p0[i][1] ** Unit + p0[i][2] ** dt
    BY <1>0, <1>2, <1>6
  <2>3. R[i][2] = p0[i][0] ** 0 + p0[i][1] ** 0 + p0[i][2] ** Unit
    BY <1>0, <1>2, <1>6
  <2> QED
    BY <1>1, <1>7, <2>1, <2>2, <2>3
<1>9. R \in [I -> [I -> Int]]
  <2>1. \A i, j \in I : R[i][j] \in Int
    <3> HIDE DEF R
    <3> QED
      BY <1>0, <1>7, <1>8
  <2>2. R = [i \in I |-> [j \in I |-> R[i][j]]]
    BY DEF MatMul
  <2> HIDE DEF R
  <2> QED
    BY <2>1, <2>2
<1>10. FPF = MatMul(F, R)
  BY DEF FPF
<1> HIDE DEF R
<1>11. ASSUME NEW j \in I
       PROVE  /\ FPF[0][j] = R[0][j] + r * R[1][j] + h * R[2][j]
              /\ FPF[1][j] = R[1][j] + r * R[2][j]
              /\ FPF[2][j] = R[2][j]
  <2>0. R[0][j] \in Int /\ R[1][j] \in Int /\ R[2][j] \in Int
    BY <1>0, <1>9
  <2>1. FPF[0][j] = Unit ** R[0][j] + dt ** R[1][j] + dt2_2 ** R[2][j]
    BY <1>0, <1>2, <1>4, <1>10
  <2>2. FPF[1][j] = 0 ** R[0][j] + Unit ** R[1][j] + dt ** R[2][j]
    BY <1>0, <1>2, <1>4, <1>10
  <2>3. FPF[2][j] = 0 ** R[0][j] + 0 ** R[1][j] + Unit ** R[2][j]
    BY <1>0, <1>2, <1>4, <1>10
  <2> QED
    BY <1>1, <2>0, <2>1, <2>2, <2>3
<1> QED
  BY <1>r, <1>8, <1>9, <1>11

(* What the prediction adds to an element, the first one aside, is what is missing to
   that of F P F'. *)
LEMMA IncrementIsExact ==
  ASSUME NEW e \in Int, dt = (2 * e) * Unit, p0 \in [I -> [I -> Int]],
         NEW i \in I, NEW j \in I, <<i, j>> # <<0, 0>>
  PROVE  FPF[i][j] = IF 3 * i + j < 8 THEN p0[i][j] + Increment(p0, 3 * i + j) ELSE p0[i][j]
<1>0. I = {0, 1, 2}
  BY DEF I
<1>2. PICK r, h \in Int, R \in [I -> [I -> Int]] :
        /\ r = 2 * e /\ h = 2 * (e * e)
        /\ \A a \in I : /\ R[a][0] = p0[a][0] + r * p0[a][1] + h * p0[a][2]
                        /\ R[a][1] = p0[a][1] + r * p0[a][2]
                        /\ R[a][2] = p0[a][2]
        /\ \A b \in I : /\ FPF[0][b] = R[0][b] + r * R[1][b] + h * R[2][b]
                        /\ FPF[1][b] = R[1][b] + r * R[2][b]
                        /\ FPF[2][b] = R[2][b]
  BY Reference
<1>3. PICK m00, m01, m02, m10, m11, m12, m20, m21, m22 \in Int :
        /\ m00 = p0[0][0] /\ m01 = p0[0][1] /\ m02 = p0[0][2]
        /\ m10 = p0[1][0] /\ m11 = p0[1][1] /\ m12 = p0[1][2]
        /\ m20 = p0[2][0] /\ m21 = p0[2][1] /\ m22 = p0[2][2]
  BY <1>0
<1>4. /\ \A m \in Int : dt ** m = r * m
      /\ \A m \in Int : dt2_2 ** m = h * m
  BY <1>2, TimeProducts DEF dt2_2
<1>5. r * r = 2 * h
  BY <1>2
<1>6. CASE i = 0 /\ j = 1
  <2>1. FPF[0][1] = (m01 + r * m02) + r * (m11 + r * m12) + h * (m21 + r * m22)
    BY <1>0, <1>2, <1>3
  <2>2. Increment(p0, 1) = r * m11 + h * m21 + r * (m02 + r * m12 + h * m22)
    BY <1>3, <1>4 DEF Increment
  <2> QED
    BY <1>3, <1>6, <2>1, <2>2
<1>7. CASE i = 0 /\ j = 2
  <2>1. FPF[0][2] = m02 + r * m12 + h * m22
    BY <1>0, <1>2, <1>3
  <2>2. Increment(p0, 2) = r * m12 + h * m22
    BY <1>3, <1>4 DEF Increment
  <2> QED
    BY <1>3, <1>7, <2>1, <2>2
<1>8. CASE i = 1 /\ j = 0
  <2>1. FPF[1][0] = (m10 + r * m11 + h * m12) + r * (m20 + r * m21 + h * m22)
    BY <1>0, <1>2, <1>3
  <2>2. Increment(p0, 3) = r * m20 + r * (m11 + r * m21) + h * (m12 + r * m22)
    BY <1>3, <1>4 DEF Increment
  <2> QED
    BY <1>3, <1>8, <2>1, <2>2
<1>9. CASE i = 1 /\ j = 1
  <2>1. FPF[1][1] = (m11 + r * m12) + r * (m21 + r * m22)
    BY <1>0, <1>2, <1>3
  <2>2. Increment(p0, 4) = r * m21 + r * (m12 + r * m22)
    BY <1>3, <1>4 DEF Increment
  <2> QED
    BY <1>3, <1>9, <2>1, <2>2
<1>10. CASE i = 1 /\ j = 2
  <2>1. FPF[1][2] = m12 + r * m22
    BY <1>0, <1>2, <1>3
  <2>2. Increment(p0, 5) = r * m22
    BY <1>3, <1>4 DEF Increment
  <2> QED
    BY <1>3, <1>10, <2>1, <2>2
<1>11. CASE i = 2 /\ j = 0
  <2>1. FPF[2][0] = m20 + r * m21 + h * m22
    BY <1>0, <1>2, <1>3
  <2>2. Increment(p0, 6) = r * m21 + h * m22
    BY <1>3, <1>4 DEF Increment
  <2> QED
    BY <1>3, <1>11, <2>1, <2>2
<1>12. CASE i = 2 /\ j = 1
  <2>1. FPF[2][1] = m21 + r * m22
    BY <1>0, <1>2, <1>3
  <2>2. Increment(p0, 7) = r * m22
    BY <1>3, <1>4 DEF Increment
  <2> QED
    BY <1>3, <1>12, <2>1, <2>2
<1>13. CASE i = 2 /\ j = 2
  BY <1>0, <1>2, <1>13
<1> QED
  BY <1>0, <1>6, <1>7, <1>8, <1>9, <1>10, <1>11, <1>12, <1>13

(* All elements are numbers: a type invariant. *)
Numbers ==
  /\ n \in 0..9
  /\ x \in [I -> Int] /\ x0 \in [I -> Int]
  /\ p \in [I -> [I -> Int]] /\ p0 \in [I -> [I -> Int]]
  /\ dt \in Int /\ s_inv \in Int /\ y \in Int /\ k \in [I -> Int]

LEMMA Closed == \A b, c \in Int : b ** c \in Int /\ (c > 0 => b // c \in Int)
  BY FloatAssumption DEF **, //

LEMMA StoreNumber ==
  ASSUME Numbers, n < 9, NEW v \in Int, Store(v)
  PROVE  p' \in [I -> [I -> Int]]
<1>1. Row(n) \in I /\ Col(n) \in I
  BY DEF Row, Col, I, Numbers
<1> QED
  BY <1>1 DEF Store, Numbers

(* The values of the filter stay numbers, and a call begins with what the last one left
   (state_estimation.c). *)
THEOREM NumbersKept == KalmanSpec => []Numbers
<1>0. /\ Unit \in Nat \ {0} /\ Dts \subseteq Int /\ Noise \in Int /\ Readings \subseteq Int
      /\ Precisions \subseteq Nat \ {0}
      /\ 0 \in I /\ 1 \in I /\ 2 \in I
  BY FloatAssumption DEF I
<1>1. KalmanInit => Numbers
  BY FloatAssumption DEF KalmanInit, Numbers
<1>2. Numbers /\ [KalmanNext]_kalmanVars => Numbers'
  <2> SUFFICES ASSUME Numbers, [KalmanNext]_kalmanVars PROVE Numbers'
    OBVIOUS
  <2>n. n' \in 0..9
    BY DEF KalmanNext, kalmanVars, GetState, PredictElement, AddNoise, NewPressure, UpdateAccel,
           Measure, Call, UpdateElement, NextElement, Return, Numbers
  <2>1. CASE GetState
    <3>1. PICK d \in Int :
            /\ dt' = d
            /\ x' = [x EXCEPT ![0] = x[0] + d ** x[1] + (d ** d ** x[2]) \div 2,
                              ![1] = x[1] + d ** x[2]]
      BY <1>0, <2>1 DEF GetState
    <3>2. x[0] \in Int /\ x[1] \in Int /\ x[2] \in Int
      BY <1>0 DEF Numbers
    <3>3. /\ x[0] + d ** x[1] + (d ** d ** x[2]) \div 2 \in Int
          /\ x[1] + d ** x[2] \in Int
      <4>1. d ** x[1] \in Int /\ d ** x[2] \in Int /\ d ** d \in Int
        BY <3>2, Closed
      <4>2. d ** d ** x[2] \in Int
        BY <3>2, <4>1, Closed
      <4> QED
        BY <3>2, <4>1, <4>2
    <3>4. x' \in [I -> Int]
      BY <3>1, <3>3 DEF Numbers
    <3> QED
      BY <2>n, <2>1, <3>1, <3>4 DEF GetState, Call, Numbers
  <2>2. CASE PredictElement
    <3>1. dt2_2 \in Int
      BY Closed DEF dt2_2, Numbers
    <3>2. \A i, j \in I : p[i][j] \in Int
      BY DEF Numbers
    <3>3. n \in 0..7
      BY <2>2 DEF PredictElement, Numbers
    <3>4. Increment(p, n) \in Int
      <4>1. dt \in Int
        BY DEF Numbers
      <4> QED
        BY <1>0, <3>1, <3>2, <3>3, <4>1, Closed DEF Increment
    <3>5. Row(n) \in I /\ Col(n) \in I
      BY <3>3 DEF Row, Col, I
    <3>6. p' \in [I -> [I -> Int]]
      BY <2>2, <3>2, <3>3, <3>4, <3>5, StoreNumber DEF PredictElement
    <3> QED
      BY <2>n, <2>2, <3>6 DEF PredictElement, Store, locals, Numbers
  <2>3. CASE AddNoise
    <3>1. \A i, j \in I : Q(dt)[i][j] \in Int
      <4> DEFINE d2 == dt ** dt
                 d3 == dt ** d2
                 d4 == dt ** d3
                 d5 == dt ** d4
                 d6 == dt ** d5
      <4>1. d2 \in Int
        BY Closed DEF Numbers
      <4>2. d3 \in Int
        BY <4>1, Closed DEF Numbers
      <4>3. d4 \in Int
        BY <4>2, Closed DEF Numbers
      <4>4. d5 \in Int
        BY <4>3, Closed DEF Numbers
      <4>5. d6 \in Int
        BY <4>4, Closed DEF Numbers
      <4> HIDE DEF d2, d3, d4, d5, d6
      <4>6. /\ (Noise ** d6) \div 36 \in Int /\ (Noise ** d5) \div 12 \in Int
            /\ (Noise ** d4) \div 6 \in Int /\ (Noise ** d4) \div 4 \in Int
            /\ (Noise ** d3) \div 2 \in Int /\ Noise ** d2 \in Int
        <5>1. /\ Noise ** d6 \in Int /\ Noise ** d5 \in Int /\ Noise ** d4 \in Int
              /\ Noise ** d3 \in Int /\ Noise ** d2 \in Int
          BY <1>0, <4>1, <4>2, <4>3, <4>4, <4>5, Closed
        <5> QED
          BY <5>1
      <4>7. Q(dt) = [i \in I |-> [j \in I |->
                       CASE i + j = 0 -> (Noise ** d6) \div 36
                         [] i + j = 1 -> (Noise ** d5) \div 12
                         [] i + j = 2 /\ i # j -> (Noise ** d4) \div 6
                         [] i + j = 2 /\ i = j -> (Noise ** d4) \div 4
                         [] i + j = 3 -> (Noise ** d3) \div 2
                         [] i + j = 4 -> Noise ** d2]]
        BY DEF Q, d2, d3, d4, d5, d6
      <4> QED
        BY <4>6, <4>7 DEF I
    <3>2. p' \in [I -> [I -> Int]]
      BY <2>3, <3>1 DEF AddNoise, Numbers
    <3> QED
      BY <2>n, <2>3, <3>2 DEF AddNoise, locals, Numbers
  <2>4. ASSUME NEW f, NEW m \in I, Measure(f, m) PROVE Numbers'
    <3>1. PICK z \in Readings, s \in Precisions : y' = z - x[m] /\ s_inv' = Unit // s
      BY <2>4 DEF Measure
    <3>2. y' \in Int /\ s_inv' \in Int
      <4>1. z \in Int /\ s \in Int /\ s > 0 /\ x[m] \in Int /\ Unit \in Int
        BY <1>0 DEF Numbers
      <4>2. Unit // s \in Int
        BY <4>1, Closed
      <4> QED
        BY <3>1, <4>1, <4>2
    <3>3. k' \in [I -> Int]
      BY <2>4, <3>2, Closed DEF Measure, Numbers
    <3>4. x' \in [I -> Int]
      <4>1. \A i \in I : x[i] \in Int /\ k'[i] ** y' \in Int
        BY <3>2, <3>3, Closed DEF Numbers
      <4>2. x' = [i \in I |-> x[i] + k'[i] ** y']
        BY <2>4 DEF Measure
      <4> QED
        BY <4>1, <4>2
    <3> QED
      BY <2>n, <2>4, <3>2, <3>3, <3>4 DEF Measure, Call, Numbers
  <2>5. ASSUME NEW f, NEW m \in I, UpdateElement(f, m) PROVE Numbers'
    <3>1. n < 9 /\ n \in Nat
      BY <2>5 DEF UpdateElement, NextElement, Numbers
    <3>2. Row(n) \in I /\ Col(n) \in I
      BY <3>1 DEF Row, Col, I
    <3>3. p[Row(n)][Col(n)] \in Int /\ k[Row(n)] \in Int /\ p[m][Col(n)] \in Int
      BY <3>2 DEF Numbers
    <3>4. p[Row(n)][Col(n)] - k[Row(n)] ** p[m][Col(n)] \in Int
      <4>1. k[Row(n)] ** p[m][Col(n)] \in Int
        BY <3>3, Closed
      <4> QED
        BY <3>3, <4>1
    <3>5. p' \in [I -> [I -> Int]]
      BY <2>5, <3>1, <3>4, StoreNumber DEF UpdateElement
    <3> QED
      BY <2>n, <2>5, <3>5 DEF UpdateElement, Store, locals, Numbers
  <2>6. CASE Return \/ UNCHANGED kalmanVars
    BY <2>6 DEF Return, kalmanVars, locals, Numbers
  <2> QED
    BY <1>0, <2>1, <2>2, <2>3, <2>4, <2>5, <2>6 DEF KalmanNext, NewPressure, UpdateAccel
<1> QED
  BY <1>1, <1>2, PTL DEF KalmanSpec

(* The state as the comment has it, and the covariance once the noise is added. *)
Predicted ==
  op = "predict" =>
    /\ dt \in Dts
    /\ x = [i \in I |-> Sum([l \in I |-> F[i][l] ** x0[l]])]
    /\ n = 9 => \A i, j \in I : <<i, j>> # <<0, 0>> => p[i][j] = FPF[i][j] + Q(dt)[i][j]

(* The state that the prediction leaves is F x, its covariance F P F' + Q but for the
   first element, whatever they were (state_estimation.c:151, 161). *)
THEOREM PredictionIsExact == ASSUME WholeTimes PROVE KalmanSpec => []PredictionAsDocumented
<1>1. KalmanInit => Predicted
  BY DEF KalmanInit, Predicted
<1>2. Numbers /\ PredictedInPlace /\ Predicted /\ [KalmanNext]_kalmanVars => Predicted'
  <2> SUFFICES ASSUME Numbers, PredictedInPlace, Predicted, [KalmanNext]_kalmanVars
               PROVE Predicted'
    OBVIOUS
  <2>0. I = {0, 1, 2}
    BY DEF I
  <2>1. CASE GetState
    <3>1. /\ dt' \in Dts /\ n' = 0 /\ x0' = x
          /\ x' = [x EXCEPT ![0] = x[0] + dt' ** x[1] + (dt' ** dt' ** x[2]) \div 2,
                            ![1] = x[1] + dt' ** x[2]]
      BY <2>1 DEF GetState, Call
    <3>2. PICK e \in Int : dt' = (2 * e) * Unit
      BY <3>1 DEF WholeTimes
    <3>3. /\ \A m \in Int : dt' ** m = (2 * e) * m
          /\ \A m \in Int : dt2_2' ** m = (2 * (e * e)) * m
          /\ \A m \in Int : (dt' ** dt' ** m) \div 2 = (2 * (e * e)) * m
          /\ \A m \in Int : Unit ** m = m /\ 0 ** m = 0
      BY <3>2, TimeProducts DEF dt2_2
    <3>4. x[0] \in Int /\ x[1] \in Int /\ x[2] \in Int
      BY <2>0 DEF Numbers
    <3>5. /\ F'[0][0] = Unit /\ F'[0][1] = dt' /\ F'[0][2] = dt2_2'
          /\ F'[1][0] = 0 /\ F'[1][1] = Unit /\ F'[1][2] = dt'
          /\ F'[2][0] = 0 /\ F'[2][1] = 0 /\ F'[2][2] = Unit
      BY <2>0 DEF F
    <3>6. \A i \in I : Sum([l \in I |-> F'[i][l] ** x0'[l]]) =
                         F'[i][0] ** x[0] + F'[i][1] ** x[1] + F'[i][2] ** x[2]
      BY <2>0, <3>1 DEF Sum
    <3>7. /\ x'[0] = x[0] + dt' ** x[1] + (dt' ** dt' ** x[2]) \div 2
          /\ x'[1] = x[1] + dt' ** x[2] /\ x'[2] = x[2]
      BY <2>0, <3>1 DEF Numbers
    <3>8. PICK r, h \in Int : r = 2 * e /\ h = 2 * (e * e)
      OBVIOUS
    <3>9. /\ x'[0] = F'[0][0] ** x[0] + F'[0][1] ** x[1] + F'[0][2] ** x[2]
          /\ x'[1] = F'[1][0] ** x[0] + F'[1][1] ** x[1] + F'[1][2] ** x[2]
          /\ x'[2] = F'[2][0] ** x[0] + F'[2][1] ** x[1] + F'[2][2] ** x[2]
      BY <3>3, <3>4, <3>5, <3>7, <3>8
    <3>10. DOMAIN x' = I /\ x' = [i \in I |-> x'[i]]
      BY <3>1 DEF Numbers
    <3>11. x' = [i \in I |-> Sum([l \in I |-> F'[i][l] ** x0'[l]])]
      <4>1. \A i \in I : x'[i] = Sum([l \in I |-> F'[i][l] ** x0'[l]])
        BY <2>0, <3>6, <3>9
      <4> QED
        BY <3>10, <4>1
    <3>12. n' # 9
      BY <3>1
    <3> QED
      BY <3>1, <3>11, <3>12 DEF Predicted
  <2>2. CASE PredictElement
    <3>1. op = "predict" /\ UNCHANGED <<x, x0, dt, op>> /\ n' # 9
      BY <2>2 DEF PredictElement, Store, locals, Numbers
    <3>2. F' = F
      BY <3>1 DEF F, dt2_2
    <3> QED
      BY <3>1, <3>2 DEF Predicted
  <2>3. CASE AddNoise
    <3>1. /\ op = "predict" /\ n = 8 /\ UNCHANGED <<x, x0, p0, dt, op>>
          /\ p' = [i \in I |-> [j \in I |-> p[i][j] + Q(dt)[i][j]]]
      BY <2>3 DEF AddNoise, locals
    <3>2. F' = F /\ Q(dt)' = Q(dt)
      BY <3>1 DEF F, dt2_2, Q
    <3>3. FPF' = FPF
      BY <3>1, <3>2 DEF FPF
    <3>4. PICK e \in Int : dt = (2 * e) * Unit
      BY <3>1 DEF WholeTimes, Predicted
    <3>5. ASSUME NEW i \in I, NEW j \in I, <<i, j>> # <<0, 0>>
          PROVE p'[i][j] = FPF[i][j] + Q(dt)[i][j]
      <4>1. p[i][j] = IF 3 * i + j < 8 THEN p0[i][j] + Increment(p0, 3 * i + j) ELSE p0[i][j]
        BY <3>1 DEF PredictedInPlace, Done
      <4>2. p[i][j] = FPF[i][j]
        BY <3>4, <3>5, <4>1, IncrementIsExact DEF Numbers
      <4> QED
        BY <3>1, <4>2
    <3> QED
      BY <3>1, <3>2, <3>3, <3>5 DEF Predicted
  <2>4. CASE NewPressure \/ UpdateAccel
    BY <2>4 DEF NewPressure, UpdateAccel, Measure, Call, Predicted
  <2>5. CASE UpdateElement("pressure", 0) \/ UpdateElement("accel", 2)
    BY <2>5 DEF UpdateElement, Store, Predicted
  <2>6. CASE Return
    BY <2>6 DEF Return, Predicted
  <2>7. CASE UNCHANGED kalmanVars
    <3>1. UNCHANGED <<op, n, x, p, dt, x0, p0>>
      BY <2>7 DEF kalmanVars
    <3>2. F' = F /\ Q(dt)' = Q(dt)
      BY <3>1 DEF F, dt2_2, Q
    <3>3. FPF' = FPF
      BY <3>1, <3>2 DEF FPF
    <3> QED
      BY <3>1, <3>2, <3>3 DEF Predicted
  <2> QED
    BY <2>1, <2>2, <2>3, <2>4, <2>5, <2>6, <2>7 DEF KalmanNext
<1>3. Predicted => PredictionAsDocumented
  BY DEF Predicted, PredictionAsDocumented
<1> QED
  BY <1>1, <1>2, <1>3, NumbersKept, PredictionIsInPlace, PTL DEF KalmanSpec
=============================================================================
