----------------------------- MODULE MCDownlink -----------------------------
(* A sensor that reports OK and an error, and the mission, of the same priority,
   which goes on reporting that it is well.  Texts of one and two characters, and
   with an error one that is too long for an index that wraps after three. *)
EXTENDS Downlink

MCThreads == {"mission", "sensor"}
MCPrio == [mission |-> 1, sensor |-> 1]
MCOwns == [mission |-> {2}, sensor |-> {1}]
MCSays == [mission |-> {OK}, sensor |-> Status]
MCTextLengths == [s \in Status |-> IF s = OK THEN {1} ELSE {2, 3}]

=============================================================================
