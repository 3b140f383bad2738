---------------------------- MODULE MCClaLedger ----------------------------
EXTENDS ClaLedger, TLC
CONSTANTS w1, w2
Requests == Permutations(Writers)
============================================================================
