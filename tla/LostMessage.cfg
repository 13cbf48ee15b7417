SPECIFICATION PlaneSpec
CONSTANTS
  Jobs <- OneJob
  Tokens = {t1}
  NoToken = NoToken
  LeaseLength = 2
  UploadExtension = 3
  RetryDelay = 1
  MaxLag = 1
  MaxTime = 3
  Claims = {c1, c2}
  NoClaim = NoClaim
  MaxAttempts = 1
  DailyCallLimit = 1
  MaxSends = 1
  Departures = {}
  Interruptions = {}
  MaxPauses = 0
  MaxDeaths = 0
  MaxThrows = 1
SYMMETRY Symmetry
CHECK_DEADLOCK FALSE
INVARIANT LostMessageOnlyDelays
