SPECIFICATION Spec
CONSTANTS
  Gens = {1, 2}
  Execs = {e1, e2}
  NoGen = 0
  NoExec = noexec
  PlannerMax = 1
  WriterMax = 1
  VerifierMax = 1
  MaxAttempts <- MCMaxAttempts
  MaxConsents = 2
  MaxSource = 1
SYMMETRY ExecSymmetry
INVARIANTS LiveGenerationHoldsClaim JobAndStageAgree OnePatternPerChart
CHECK_DEADLOCK FALSE
