--------------------------- MODULE MCMemLockstep ---------------------------
(* Two entries of one byte, one entry of two bytes, and two read ports.    *)
EXTENDS MemLockstep

MCShapes ==
  { [depth |-> 2, lanes |-> 1, ports |-> 1],
    [depth |-> 1, lanes |-> 2, ports |-> 1],
    [depth |-> 1, lanes |-> 1, ports |-> 2] }
=============================================================================
