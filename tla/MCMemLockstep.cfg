CONSTANTS
  Values = {zero, v1}
  Zero = zero
  Unknown = x
  Shapes <- MCShapes
SPECIFICATION LockstepSpec
INVARIANT VerilogAgrees
PROPERTY ImplementsMemory
