----------------------------- MODULE MCDispatch -----------------------------
EXTENDS Dispatch, TLC

CONSTANTS c1, c2, group

EveryoneListens == [c \in Clients |-> {group}]

ClientSymmetry == Permutations(Clients)
=============================================================================
