SPECIFICATION FairSpec
CONSTANTS
  Exports = {x}
  Deletion = Deletion
  Calls = {c1}
  Lease = 2
  RetryDelay = 1
  ExportTtl = 2
  FenceTtl = 2
  CallLife = 1
  MaxRetries = 2
  MaxAttempts = 2
  MaxClaims = 4
  MaxDisplaced = 4
  MaxDeaths = 1
  MaxThrows = 1
CHECK_DEADLOCK FALSE
PROPERTIES DeletionCompletes ExportsAreAnswered
