CONSTANTS
  Procs = {p1, p2}
  a1 = a1
  a2 = a2
  b1 = b1
  ownerA = ownerA
  ownerB = ownerB
  Contents = {a1, a2, b1}
  Owners = {ownerA, ownerB}
  OwnerOf <- MCOwnerOf
  FileOwners = {ownerB}
  Absent = Absent
  MaxCommands = 3
  MaxFaults = 2
  MaxCrashes = 2
SPECIFICATION Spec
SYMMETRY ProcSymmetry
INVARIANTS
  NeverRefused
  TruthfulOutcome
  ReadsCommitted
PROPERTIES
  AtomicPublication
  NothingLostEarly
