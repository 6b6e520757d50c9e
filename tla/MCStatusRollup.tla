--------------------------- MODULE MCStatusRollup ---------------------------
(* The mission, the thread of the magnetometer, at the same priority, and the
   magnetometer's interrupt handler, which reports the same status as that thread
   and can overtake both in mid-scan (mission.c:151-169, hmc5883l.c:176-228). *)
EXTENDS StatusRollup

MCThreads == {"mission", "magno", "handler"}
MCPrio == [mission |-> 1, magno |-> 1, handler |-> 2]
MCOwns == [mission |-> {1}, magno |-> {2}, handler |-> {2}]
MCSays == [mission |-> {OK, 2}, magno |-> {OK, 2, Worst}, handler |-> {Worst}]

=============================================================================
