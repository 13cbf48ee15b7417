------------------------ MODULE MCCodexProviderJobs ------------------------
(* Bounded instance of the provider-job table.  Tokens are interchangeable *)
(* random values and jobs are interchangeable coordinates.                 *)
EXTENDS CodexProviderJobs, TLC

Symmetry == Permutations(Tokens) \cup Permutations(Jobs)
=============================================================================
