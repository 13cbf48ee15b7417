SPECIFICATION PlaneSpec
CONSTANTS
  Jobs <- TwoJobs
  Tokens = {t1, t2}
  NoToken = NoToken
  LeaseLength = 1
  UploadExtension = 3
  RetryDelay = 1
  MaxLag = 1
  MaxTime = 2
  Claims = {c1, c2}
  NoClaim = NoClaim
  MaxAttempts = 2
  DailyCallLimit = 1
  MaxSends = 2
  Departures = {}
  Interruptions = {}
  MaxPauses = 0
  MaxDeaths = 0
  MaxThrows = 0
SYMMETRY Symmetry
CHECK_DEADLOCK FALSE
INVARIANTS PlaneTypeOK SpendIsBounded QueuedOwnerIsReachable
