-------------------------- MODULE MCCryptoRotation ---------------------------
EXTENDS CryptoRotation, TLC

Symmetric == Permutations(Rows) \cup Permutations(Calls)
=============================================================================
