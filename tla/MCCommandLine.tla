--------------------------- MODULE MCCommandLine ---------------------------
EXTENDS CommandLine

CONSTANTS l1, l2

MCCounts == {-1, 0, 2}
=============================================================================
