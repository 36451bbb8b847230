---------------------------- MODULE MCSelfHealedDeploy ----------------------------
EXTENDS SelfHealedDeploy, TLC
CONSTANTS v1, v2, v3
Symmetry == Permutations(Images)
===============================================================================
