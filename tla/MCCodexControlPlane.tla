------------------------ MODULE MCCodexControlPlane ------------------------
(* Bounded instances of the control plane.  Lease tokens are random values *)
(* and invocations have no identity: both are interchangeable.             *)
EXTENDS CodexControlPlane, TLC

OneJob == 1 .. 1
TwoJobs == 1 .. 2
Symmetry == Permutations(Tokens) \cup Permutations(Claims)
=============================================================================
