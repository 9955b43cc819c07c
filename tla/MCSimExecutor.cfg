CONSTANTS
  Groups <- MCGroups
  GaugeSlots = {2}
  EventCapacity = 2
  Known = {0}
  Unknown = Unknown
  Empty = Empty
  Modules = {1, 2}
  Memories = {2}
  Data = {0, 1}
  PowerUp = 0
  ResetData = 1
  NoNext = NoNext
  SlotsOf <- MCSlotsOf
  CounterMax = 2
  Limits = {0, 1, 2}
  None = None
SPECIFICATION Spec
INVARIANTS
  ObservationsCurrent
  NothingOutlivesCall
  FirstFailureKept
PROPERTY ImplementsApi
