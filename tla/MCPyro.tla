------------------------------- MODULE MCPyro -------------------------------
(* Three channels, one of each role, two pulses per call, and a shell whose
   command can overlap either firing of the mission. *)
EXTENDS Pyro

MCRole == <<"drogue", "main", "unused">>

=============================================================================
