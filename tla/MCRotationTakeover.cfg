SPECIFICATION Spec
CONSTANTS
  Rows = {r1, r2}
  Calls = {c1, c2}
  Writers = {w1}
  NoCall = NoCall
  BatchSize = 1
  Lease = 1
  Quiescence = 1
  WorkLease = 1
  MaxOps = 1
  MaxWrites = 1
  MaxFaults = 2
INVARIANT TypeOK
INVARIANT RowsAreReadable
INVARIANT WalkStaysClosed
INVARIANT FenceHasRotation
PROPERTY SettledIsFinal
PROPERTY RekeyingKeepsData
SYMMETRY Symmetric
