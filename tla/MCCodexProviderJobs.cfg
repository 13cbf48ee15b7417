SPECIFICATION JobsSpec
CONSTANTS
  Jobs = {j1, j2}
  Tokens = {t1, t2, t3}
  NoToken = NoToken
  LeaseLength = 2
  UploadExtension = 1
  RetryDelay = 1
  MaxLag = 1
  MaxTime = 4
SYMMETRY Symmetry
INVARIANTS TypeOK TokenDiscipline UploadsAreFenced
PROPERTIES NoSeizureOfLiveLease TerminalIsFinal ImplementsExchange
CHECK_DEADLOCK FALSE
