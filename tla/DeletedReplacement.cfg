SPECIFICATION Spec
CONSTANTS
  Gens = {1, 2}
  Execs = {e1}
  NoGen = 0
  NoExec = noexec
  PlannerMax = 1
  WriterMax = 1
  VerifierMax = 1
  MaxAttempts <- MCMaxAttempts
  MaxConsents = 2
  MaxSource = 1
INVARIANT DeletedPatternIsGone
CHECK_DEADLOCK FALSE
