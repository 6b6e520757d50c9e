------------------------------- MODULE Kalman -------------------------------
(***************************************************************************)
(* The arithmetic of the altitude filter                                   *)
(* (m2fc/firmware/state_estimation.c): the prediction of get_state and the *)
(* two measurement updates, which overwrite the state x and its covariance *)
(* p in place, one element after the other.  The comments of the source    *)
(* give the matrix equations that each is to compute; what can go wrong is *)
(* that an element is used after it was overwritten.                       *)
(*                                                                         *)
(* A function holds kalman_lock from its first access of x and p to its    *)
(* last, so they run one at a time.  A pressure that is not trusted or not *)
(* in the atmosphere's range, and a clipped acceleration, change nothing.  *)
(*                                                                         *)
(* A float is a number of Unit-ths: a binary fraction, like the real one,  *)
(* of values for which the operations do not round.                        *)
(***************************************************************************)
EXTENDS Integers

CONSTANTS
  Unit,       \* 1.0
  States,     \* values of x at the first call
  Matrices,   \* values of p at the first call
  Dts,        \* elapsed times
  Noise,      \* q
  Readings,   \* accelerations and altitudes that are measured
  Precisions, \* values of p[2][2] + r and p[0][0] + r
  MaxCalls    \* bound of the model

I == 0..2

ASSUME FloatAssumption ==
  /\ Unit \in Nat \ {0}
  /\ States \subseteq [I -> Int]
  /\ Matrices \subseteq [I -> [I -> Int]]
  /\ Dts \subseteq Int /\ Noise \in Int /\ Readings \subseteq Int
  /\ Precisions \subseteq Nat \ {0} /\ MaxCalls \in Nat

a ** b == (a * b) \div Unit
a // b == (a * Unit) \div b

VARIABLES
  op,      \* the function that holds the lock, or "none"
  n,       \* elements of p it has done, row by row
  x, p,
  dt, s_inv, y, k,  \* its local variables
  calls,
  x0, p0   \* history: x and p when it was called

kalmanVars == <<op, n, x, p, dt, s_inv, y, k, calls, x0, p0>>
locals == <<dt, s_inv, y, k>>

KalmanInit ==
  /\ op = "none" /\ n = 0
  /\ x \in States /\ p \in Matrices
  /\ dt = 0 /\ s_inv = 0 /\ y = 0 /\ k = [i \in I |-> 0]
  /\ calls = 0
  /\ x0 = x /\ p0 = p

Row(m) == m \div 3
Col(m) == m % 3

Call(f) ==
  /\ op = "none" /\ calls < MaxCalls
  /\ op' = f /\ n' = 0 /\ calls' = calls + 1
  /\ x0' = x /\ p0' = p
  /\ UNCHANGED p

Store(value) ==
  /\ p' = [p EXCEPT ![Row(n)][Col(n)] = value]
  /\ UNCHANGED <<op, x, locals, calls, x0, p0>>

(* Fault: the last row first. *)
NextElement_LastRow ==
  n < 9 /\ n' = IF n = 0 THEN 6 ELSE IF n = 8 THEN 1 ELSE IF n = 5 THEN 9 ELSE n + 1

NextElement == n < 9 /\ n' = n + 1

Return ==
  /\ op # "none" /\ n = 9
  /\ op' = "none"
  /\ UNCHANGED <<n, x, p, locals, calls, x0, p0>>

-----------------------------------------------------------------------------
(* state_estimation_get_state *)

GetState ==
  /\ Call("predict")
  /\ dt' \in Dts
  /\ x' = [x EXCEPT ![0] = x[0] + dt' ** x[1] + (dt' ** dt' ** x[2]) \div 2,
                    ![1] = x[1] + dt' ** x[2]]
  /\ UNCHANGED <<s_inv, y, k>>

dt2_2 == (dt ** dt) \div 2

(* The right-hand side of the += on element c; the last element has none. *)
Increment(m, c) ==
  CASE c = 0 -> dt ** m[1][0] + dt2_2 ** m[2][0]
                + dt ** (m[0][1] + dt ** m[1][1] ** dt2_2 ** m[2][1])
                + dt2_2 ** (m[0][2] + dt ** m[1][2] + dt2_2 ** m[2][2])
    [] c = 1 -> dt ** m[1][1] + dt2_2 ** m[2][1]
                + dt ** (m[0][2] + dt ** m[1][2] + dt2_2 ** m[2][2])
    [] c = 2 -> dt ** m[1][2] + dt2_2 ** m[2][2]
    [] c = 3 -> dt ** m[2][0] + dt ** (m[1][1] + dt ** m[2][1])
                + dt2_2 ** (m[1][2] + dt ** m[2][2])
    [] c = 4 -> dt ** m[2][1] + dt ** (m[1][2] + dt ** m[2][2])
    [] c = 5 -> dt ** m[2][2]
    [] c = 6 -> dt ** m[2][1] + dt2_2 ** m[2][2]
    [] c = 7 -> dt ** m[2][2]

(* Fault: the last row is overwritten before the first is done. *)
PredictElement_LastRow ==
  /\ op = "predict" /\ n < 8
  /\ n' = IF n = 0 THEN 6 ELSE IF n = 7 THEN 1 ELSE IF n = 5 THEN 8 ELSE n + 1
  /\ Store(p[Row(n)][Col(n)] + Increment(p, n))

PredictElement ==
  /\ op = "predict" /\ n < 8
  /\ n' = n + 1
  /\ Store(p[Row(n)][Col(n)] + Increment(p, n))

(* The covariance of an unknown jerk over the time d. *)
Q(d) ==
  LET d2 == d ** d  d3 == d ** d2  d4 == d ** d3  d5 == d ** d4  d6 == d ** d5 IN
  [i \in I |-> [j \in I |->
     CASE i + j = 0 -> (Noise ** d6) \div 36
       [] i + j = 1 -> (Noise ** d5) \div 12
       [] i + j = 2 /\ i # j -> (Noise ** d4) \div 6
       [] i + j = 2 /\ i = j -> (Noise ** d4) \div 4
       [] i + j = 3 -> (Noise ** d3) \div 2
       [] i + j = 4 -> Noise ** d2]]

AddNoise ==
  /\ op = "predict" /\ n = 8
  /\ n' = 9
  /\ p' = [i \in I |-> [j \in I |-> p[i][j] + Q(dt)[i][j]]]
  /\ UNCHANGED <<op, x, locals, calls, x0, p0>>

-----------------------------------------------------------------------------
(* The updates: m is the element of the state that is measured. *)

Measure(f, m) ==
  /\ Call(f)
  /\ \E z \in Readings, s \in Precisions :
       /\ y' = z - x[m]
       /\ s >= p[m][m] /\ s_inv' = Unit // s
  /\ k' = [i \in I |-> p[i][m] ** s_inv']
  /\ x' = [i \in I |-> x[i] + k'[i] ** y']
  /\ UNCHANGED dt

NewPressure == Measure("pressure", 0)
UpdateAccel == Measure("accel", 2)

UpdateElement(f, m) ==
  /\ op = f
  /\ NextElement
  /\ Store(p[Row(n)][Col(n)] - k[Row(n)] ** p[m][Col(n)])

KalmanNext ==
  \/ GetState \/ PredictElement \/ AddNoise
  \/ NewPressure \/ UpdateElement("pressure", 0)
  \/ UpdateAccel \/ UpdateElement("accel", 2)
  \/ Return
  \/ calls = MaxCalls /\ op = "none" /\ UNCHANGED kalmanVars   \* end of the model

KalmanSpec == KalmanInit /\ [][KalmanNext]_kalmanVars

-----------------------------------------------------------------------------
(***************************************************************************)
(* Properties.  Each compares what is left in x or p when a function       *)
(* returns with the equation in the comment above it.                      *)
(***************************************************************************)

Sum(f) == f[0] + f[1] + f[2]
MatMul(m1, m2) ==
  [i \in I |-> [j \in I |-> Sum([l \in I |-> m1[i][l] ** m2[l][j]])]]
Transposed(m) == [i \in I |-> [j \in I |-> m[j][i]]]

(* The state transition, state_estimation.c:58. *)
F == [i \in I |-> [j \in I |->
        CASE i > j -> 0 [] i = j -> Unit [] j = i + 1 -> dt [] j = i + 2 -> dt2_2]]

FPF == MatMul(F, MatMul(p0, Transposed(F)))

(* The state becomes F.x and its covariance F.P.F' + Q, each computed in the place of
   what it is computed from (state_estimation.c:151, and 161: "we can update each
   element in-place").  Of the covariance it holds for all elements but the first. *)
PredictionAsDocumented ==
  op = "predict" /\ n = 9 =>
    /\ x = [i \in I |-> Sum([l \in I |-> F[i][l] ** x0[l]])]
    /\ \A i, j \in I : <<i, j>> # <<0, 0>> => p[i][j] = FPF[i][j] + Q(dt)[i][j]

(* (I - K H) P with K = P H' / s. *)
Corrected(m) ==
  \A i, j \in I : p[i][j] = p0[i][j] - (p0[i][m] ** s_inv) ** p0[m][j]

(* The covariance after an acceleration, state_estimation.c:434. *)
AccelAsDocumented == op = "accel" /\ n = 9 => Corrected(2)

(* The covariance after a pressure, state_estimation.c:252: "P_{k|k} = (I - K H)
   P_{k|k-1}". *)
PressureAsDocumented == op = "pressure" /\ n = 9 => Corrected(0)
=============================================================================
