---------------------------- MODULE AtomicFilter ----------------------------
(***************************************************************************)
(* What the lock of the state estimator promises: predictions and          *)
(* measurements enter the filter one at a time, each on top of all before  *)
(* it, state and covariance together.                                      *)
(***************************************************************************)
CONSTANT Users    \* who predicts or measures

(* The updates that are in the state and in the covariance, each user's modulo two. *)
VARIABLES x, p

With(u, f) == (f \ {u}) \union ({u} \ f)

Init == x = {} /\ p = {}

Update(u) == x' = With(u, x) /\ p' = With(u, p)

Next == \E u \in Users : Update(u)

Spec == Init /\ [][Next]_<<x, p>>
=============================================================================
