---------------------------- MODULE MCClientLife ----------------------------
EXTENDS ClientLife

CONSTANTS l1, l2
=============================================================================
