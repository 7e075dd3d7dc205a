------------------------------ MODULE MCUserFeed ------------------------------
(* The topics of one author and a user who follows.                         *)
EXTENDS UserFeed

MCAuthor == <<"author", "author">>
=============================================================================
