--------------------------- MODULE MCFifoLockstep ---------------------------
(* Lanes of three shapes: a latency that uses the whole range of the       *)
(* timestamps, one that does not, and one that needs no timestamps.        *)
EXTENDS FifoLockstep

MCShapes ==
  { [depth |-> 2, latency |-> 4, policy |-> "DownstreamPop"],
    [depth |-> 2, latency |-> 3, policy |-> "LocalOccupancy"],
    [depth |-> 3, latency |-> 1, policy |-> "DownstreamPop"] }
=============================================================================
