SPECIFICATION Spec
CONSTANTS
  Gens = {1, 2}
  Execs = {e1}
  NoGen = 0
  NoExec = noexec
  PlannerMax = 1
  WriterMax = 2
  VerifierMax = 1
  MaxAttempts <- MCMaxAttempts
  MaxConsents = 2
  MaxSource = 1
INVARIANTS TypeOK LiveGenerationHoldsClaim ReservationIsLive JobAndStageAgree OnePatternPerChart DocumentMatchesClaim CallsAreBounded
PROPERTIES PublicationIsAuthorized ClaimMovesLegally
CHECK_DEADLOCK FALSE
