---------------------------- MODULE MCLocalDeploy ----------------------------
EXTENDS LocalDeploy, TLC
CONSTANTS v1, v2, v3
Symmetry == Permutations(Images)
===============================================================================
