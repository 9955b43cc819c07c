---------------------------- MODULE MCPublication ----------------------------
(* Publication for TLC.  Contents a1, a2 belong to one owner of a directory *)
(* artifact, b1 to an owner of a single file.                               *)
EXTENDS Publication, TLC

CONSTANTS a1, a2, b1, ownerA, ownerB

MCOwnerOf == (a1 :> ownerA) @@ (a2 :> ownerA) @@ (b1 :> ownerB)

ProcSymmetry == Permutations(Procs)
=============================================================================
