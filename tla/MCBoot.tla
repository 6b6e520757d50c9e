------------------------------- MODULE MCBoot -------------------------------
(* A configuration of two lines: a file may end after the first. *)
EXTENDS Boot

=============================================================================
