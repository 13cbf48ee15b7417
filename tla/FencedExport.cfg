SPECIFICATION Spec
CONSTANTS
  Exports = {x}
  Deletion = Deletion
  Calls = {c1, c2}
  Lease = 1
  RetryDelay = 1
  ExportTtl = 2
  FenceTtl = 2
  CallLife = 1
  MaxRetries = 2
  MaxAttempts = 2
  MaxClaims = 1
  MaxDisplaced = 1
  MaxDeaths = 0
  MaxThrows = 0
SYMMETRY Symmetry
CHECK_DEADLOCK FALSE
INVARIANT QueuedExportOutlivesFence
