---------------------------- MODULE MCProfileLift ----------------------------
EXTENDS ProfileLift, TLC
Alike == Permutations(Names) \cup Permutations(Files)
=============================================================================
