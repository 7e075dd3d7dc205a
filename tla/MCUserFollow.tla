----------------------------- MODULE MCUserFollow -----------------------------
EXTENDS UserFollow, TLC

Symmetry == Permutations(Users) \cup Permutations(Handlers)
=============================================================================
