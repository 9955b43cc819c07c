--------------------------- MODULE MCSimExecutor ---------------------------
(* SimExecutor for TLC: a register that stages an event and a gauge, and a *)
(* memory that stages a group of two events.                                *)
EXTENDS SimExecutor

MCGroups == {{1}, {2}, {3, 4}}
MCSlotsOf == [m \in Modules |-> IF m = 1 THEN {1, 2} ELSE {3, 4}]
=============================================================================
