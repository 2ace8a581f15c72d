---------------------------- MODULE MCChallenge ----------------------------
EXTENDS Challenge, TLC
MCSymmetry == Permutations(Ids) \cup Permutations(Requests)
=============================================================================
