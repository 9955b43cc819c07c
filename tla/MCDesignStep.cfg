CONSTANTS
  Size <- MCSize
  Data = {v1}
  Unknown = Unknown

SPECIFICATION Spec

INVARIANTS
  NothingPrepared
  VerilogAgrees

PROPERTY
  ImplementsRegisters
