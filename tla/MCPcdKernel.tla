---------------------------- MODULE MCPcdKernel ----------------------------
EXTENDS PcdKernel, TLC

Perms == Permutations(Blocks) \cup Permutations(Objs) \cup Permutations(Cids)
=============================================================================
