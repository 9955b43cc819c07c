SPECIFICATION Spec
CONSTANTS
  Groups <- MCGroups
  Gauges <- MCGauges
  MaxLimit = 3
INVARIANTS
  StreamFaithful
  SuccessMeansComplete
PROPERTY
  RunEnds
