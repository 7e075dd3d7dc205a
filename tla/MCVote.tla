------------------------------- MODULE MCVote -------------------------------
(* Two users, two concurrent requests, and three option ids of which the    *)
(* vote has two, so that an id of another vote is submitted.                *)
EXTENDS Vote
=============================================================================
