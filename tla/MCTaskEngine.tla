---------------------------- MODULE MCTaskEngine ----------------------------
(* Task 1: daily, two events, twice a day, experience and the badge.  Task   *)
(* 2: lifetime, one event, once, points, experience and the badge.  Both     *)
(* write the row of the user, and the row of task 2 is common to all days.   *)
EXTENDS TaskEngine, TLC

MCLifetime == {2}
MCEventCount == <<2, 1>>
MCMaxFinish == <<2, 1>>
MCNeedExp == <<0, 1, 2>>

Symmetry == Permutations(Handlers)
=============================================================================
