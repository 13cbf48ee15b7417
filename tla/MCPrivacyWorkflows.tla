-------------------------- MODULE MCPrivacyWorkflows --------------------------
EXTENDS PrivacyWorkflows, TLC
Symmetry == Permutations(Calls) \cup Permutations(Exports)
=============================================================================
