SPECIFICATION Spec
CONSTANTS
  Rows = {r1, r2}
  Calls = {c1}
  Writers = {w1}
  NoCall = NoCall
  BatchSize = 1
  Lease = 1
  Quiescence = 1
  WorkLease = 2
  MaxOps = 1
  MaxWrites = 1
  MaxFaults = 1
INVARIANT DeletionCommandOpens
