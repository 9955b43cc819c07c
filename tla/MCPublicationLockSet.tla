------------------------ MODULE MCPublicationLockSet ------------------------
(* PublicationLockSet for TLC: three destinations; commands whose inputs and *)
(* outputs overlap in both path orders.                                      *)
EXTENDS PublicationLockSet

MCRequests ==
  { [inputs |-> {}, output |-> 1],
    [inputs |-> {}, output |-> 3],
    [inputs |-> {1, 3}, output |-> 2],
    [inputs |-> {2}, output |-> 3] }
=============================================================================
