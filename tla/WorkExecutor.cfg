CONSTANTS
  Callers = {c1, c2}
  Workers = {w1, w2}
  MaxItems = 3
  MaxRuns = 2
  Owner = owner
  NoThread = none
SPECIFICATION FairSpec
INVARIANTS
  BorrowedWhileExecuting
  DestroyedIsQuiet
PROPERTIES
  BatchResult
  RunReturns
  StopJoins
