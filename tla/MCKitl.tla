------------------------------- MODULE MCKitl -------------------------------
EXTENDS Kitl, TLC
CONSTANTS s1, s2, r1
Alike == Permutations(Senders)
=============================================================================
