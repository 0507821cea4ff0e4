--------------------------- MODULE MCPipeTransfer ---------------------------
EXTENDS PipeTransfer, TLC

CONSTANTS s1, s2, r1, r2

\* A large frame and a small one; a receive in a loop and one that is made once.
MCSize == s1 :> 4 @@ s2 :> 2
MCPatience == r1 :> 2 @@ r2 :> 1
=============================================================================
