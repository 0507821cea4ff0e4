---------------------------- MODULE MCCapServer ----------------------------
EXTENDS CapRegistry, TLC

CONSTANTS c1, c2

ClientSymmetry == Permutations(Clients)
=============================================================================
