--------------------------- MODULE MCCapProtocol ---------------------------
EXTENDS CapProtocol

CONSTANTS c1, c2

OneCall == [c \in Clients |-> 1]

\* One client retries, the other does not.
TwoCallsOfC1 == [c \in Clients |-> IF c = c1 THEN 2 ELSE 1]
=============================================================================
