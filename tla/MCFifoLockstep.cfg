CONSTANTS
  Tokens = {t1}
  Shapes <- MCShapes
  Unknown = x
SPECIFICATION LockstepSpec
INVARIANT VerilogAgrees
PROPERTY ImplementsQueue
