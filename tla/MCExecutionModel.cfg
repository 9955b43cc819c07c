CONSTANTS
    Rows <- MCRows
    MaxRows = 5
    Profiles <- MCProfiles
    Starts = {0, 8}
    CounterModulus = 4
SPECIFICATION Spec
INVARIANTS
    SerialExecution
    FailsAtFirstUnknown
PROPERTY
    Drains
\* A run ends with a status.
CHECK_DEADLOCK FALSE
