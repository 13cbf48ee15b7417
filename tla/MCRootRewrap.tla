---------------------------- MODULE MCRootRewrap ----------------------------
EXTENDS RootRewrap, TLC

Symmetric == Permutations(Users) \cup Permutations(Calls)
=============================================================================
