CONSTANTS
    States = {0, 1, 2}
    Known = {0, 1}
    Reset = 0
    None = None
    Answers <- MCAnswers
    Configs <- MCConfigs
    MaxCycles = 5
    MaxQueries = 8
    MaxAnswers = 3
SPECIFICATION Spec
INVARIANT FoldingExact
PROPERTY RunEnds
\* A run ends.
CHECK_DEADLOCK FALSE
