------------------------------- MODULE MCInstall -------------------------------
EXTENDS Install, TLC

Symmetry == Permutations(Wizards) \cup Permutations(Handlers) \cup Permutations(Databases)
=============================================================================
