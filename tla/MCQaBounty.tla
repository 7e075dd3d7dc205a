------------------------------ MODULE MCQaBounty ------------------------------
(* Two users, two requests on stale copies, one question and one comment.   *)
EXTENDS QaBounty, TLC

Symmetry == Permutations(Users) \cup Permutations(Handlers) \cup Permutations(Topics)
=============================================================================
