CONSTANTS
    Owners = {r}
    Queues = {q}
    Memories = {m}
    Authored = {"1", "x"}
    MaxDepth = 2
    MaxLength = 4
SPECIFICATION MCSpec
INVARIANTS
    AdmissionExact
    EffectsExact
    CandidatesSound
    ProposalsExact
    ResourcesHeld
    WaivedOnlyIfRefused
\* A rule of MaxLength statements is complete.
CHECK_DEADLOCK FALSE
