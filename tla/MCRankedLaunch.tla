--------------------------- MODULE MCRankedLaunch ---------------------------
EXTENDS RankedLaunch, TLC

Symmetry == Permutations(Drills) \cup Permutations(Replicas) \cup Permutations(Workers)
=============================================================================
