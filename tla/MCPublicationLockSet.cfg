CONSTANTS
  Procs = {p1, p2}
  Dests = {1, 2, 3}
  Owners = {ownerA, ownerB}
  Absent = Absent
  Requests <- MCRequests
  Published = {1, 3}
  MaxIssued = 3
  MaxFaults = 2
  MaxCrashes = 1
SPECIFICATION FairSpec
INVARIANTS
  SnapshotHolds
  TransactionUndisturbed
PROPERTY CommandsEnd
