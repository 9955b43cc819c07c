-------------------------- MODULE PublishedArtifact --------------------------
(***************************************************************************)
(* What publication promises of one destination: at every moment it has    *)
(* one committed value, absent or a complete artifact, and a publication   *)
(* replaces it by another complete artifact of the same owner in a single  *)
(* step.  Crashes, failures, cancellations and recoveries are not steps.   *)
(***************************************************************************)
CONSTANTS Contents, Owners, OwnerOf, Absent

VARIABLE value

Complete(c) == [content |-> c, whole |-> TRUE]

Init == value = Absent

Publish(c) ==
  /\ value = Absent \/ OwnerOf[value.content] = OwnerOf[c]
  /\ value' = Complete(c)

Next == \E c \in Contents : Publish(c)

Spec == Init /\ [][Next]_value
=============================================================================
