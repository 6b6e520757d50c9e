---------------------------- MODULE MCEstimator -----------------------------
(* Three threads at the lock, so that two wait; a counter of two values; two
   transactions for a pressure. *)
EXTENDS Estimator

MCAccels == {"lg"}

=============================================================================
