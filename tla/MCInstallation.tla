--------------------------- MODULE MCInstallation ---------------------------
EXTENDS Installation, TLC

Symmetry == Permutations(Procs)
=============================================================================
