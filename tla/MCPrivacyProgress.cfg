SPECIFICATION FairSpec
CONSTANTS
  Exports = {}
  Deletion = Deletion
  Calls = {c1, c2}
  Lease = 1
  RetryDelay = 1
  ExportTtl = 2
  FenceTtl = 2
  CallLife = 1
  MaxRetries = 2
  MaxAttempts = 2
  MaxClaims = 5
  MaxDisplaced = 1
  MaxDeaths = 1
  MaxThrows = 1
CHECK_DEADLOCK FALSE
PROPERTY DeletionCompletes
