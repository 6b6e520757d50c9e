----------------------------- MODULE FlightPlan -----------------------------
(***************************************************************************)
(* What the mission thread promises, without clocks, samples or threads: a *)
(* flight goes through its phases in one direction, and each charge is     *)
(* fired exactly at the boundary of the two phases it separates.           *)
(***************************************************************************)
EXTENDS Sequences

VARIABLES
  phase,    \* "pad", "boost", "coast", "drogue", "main" or "down"
  charges   \* the charges fired so far, in order

planVars == <<phase, charges>>

PlanInit == phase = "pad" /\ charges = <<>>

Launch  == phase = "pad"    /\ phase' = "boost"  /\ UNCHANGED charges
Burnout == phase = "boost"  /\ phase' = "coast"  /\ UNCHANGED charges
Drogue  == phase = "coast"  /\ phase' = "drogue" /\ charges' = Append(charges, "drogue")
Main    == phase = "drogue" /\ phase' = "main"   /\ charges' = Append(charges, "main")
Land    == phase = "main"   /\ phase' = "down"   /\ UNCHANGED charges

PlanNext == Launch \/ Burnout \/ Drogue \/ Main \/ Land

PlanSpec == PlanInit /\ [][PlanNext]_planVars
=============================================================================
