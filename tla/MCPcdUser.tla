----------------------------- MODULE MCPcdUser -----------------------------
EXTENDS PcdUser, TLC

Perms == Permutations(Blocks) \cup Permutations(Threads \ {Entry})
=============================================================================
