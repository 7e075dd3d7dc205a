---------------------------- MODULE MCDailyReview ----------------------------
(* Two publishers with two requests: a request of its own each, or a resend *)
(* next to the request it repeats.  Liveness is checked: no symmetry.       *)
EXTENDS DailyReview, TLC
=============================================================================
