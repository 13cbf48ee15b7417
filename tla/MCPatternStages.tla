-------------------------- MODULE MCPatternStages --------------------------
(* Ceilings and generation ids for the model checker *)
EXTENDS PatternStages, TLC

CONSTANTS PlannerMax, WriterMax, VerifierMax

ExecSymmetry == Permutations(Execs)

MCMaxAttempts == [planner |-> PlannerMax, writer |-> WriterMax, verifier |-> VerifierMax]
=============================================================================
