SPECIFICATION Spec
CONSTANTS
  Exports = {x}
  Deletion = Deletion
  Calls = {c1, c2}
  Lease = 1
  RetryDelay = 1
  ExportTtl = 2
  FenceTtl = 2
  CallLife = 1
  MaxRetries = 2
  MaxAttempts = 2
  MaxClaims = 3
  MaxDisplaced = 3
  MaxDeaths = 0
  MaxThrows = 1
SYMMETRY Symmetry
CHECK_DEADLOCK FALSE
INVARIANT FailedExportIsRemoved
