----------------------------- MODULE MCMission -----------------------------
(* Values for Mission: times of a few ticks, chosen so that each transition
   can be taken both by its sensor and by its timeout. *)
EXTENDS Mission

MCEstimates == [h : {0, 2}, v : {-1, 0, 1}, a : {-1, 1}]

=============================================================================
