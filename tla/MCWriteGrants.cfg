SPECIFICATION Spec
CONSTANTS
    Designs <- MCDesigns
    Ordinals = {0, 1}
    Fields = {"f", "g"}
INVARIANTS
    GrantsExclusive
    CommitExact
\* A refused design is not compiled further.
CHECK_DEADLOCK FALSE
