------------------------------- MODULE BallotBox -------------------------------
(***************************************************************************)
(* What casting on a vote promises, without rows to lock and counters to   *)
(* keep: a request is admitted while the vote is open, and takes effect at *)
(* one instant, together with the numbers that are shown, or is refused    *)
(* for a reason that holds at that instant, or fails without a trace.  An  *)
(* error may also be told of a ballot that took effect.                    *)
(***************************************************************************)
EXTENDS Integers, FiniteSets

CONSTANTS
  Handlers, Users, OptionIds,
  Offers       \* the votes that may be opened

VARIABLES
  time,
  box,         \* {} or the one vote
  ballots,     \* what was cast
  result,      \* the numbers shown
  asked,       \* by handler: {} or the one request it serves
  answer       \* the last one given

boxVars == <<time, box, ballots, result, asked, answer>>

Tally(B) == [total |-> Cardinality(B),
             each |-> [o \in OptionIds |-> Cardinality({b \in B : o \in b.options})]]

BoxInit ==
  /\ time = 0 /\ box = {} /\ ballots = {} /\ result = Tally({})
  /\ asked = [h \in Handlers |-> {}] /\ answer = "none"

Open(v) ==
  /\ box = {} /\ time < v.expiredAt /\ 1 <= v.voteNum /\ v.voteNum <= Cardinality(v.options)
  /\ box' = {v}
  /\ UNCHANGED <<time, ballots, result, asked, answer>>

Ask(h, u, options) ==
  /\ asked[h] = {} /\ options # {}
  /\ asked' = [asked EXCEPT ![h] = {[user |-> u, options |-> options, admitted |-> FALSE]}]
  /\ UNCHANGED <<time, box, ballots, result, answer>>

\* What a ballot must be, whenever it is cast.
Fits(v, request) ==
  /\ request.options \subseteq v.options /\ Cardinality(request.options) <= v.voteNum
  /\ \A b \in ballots : b.user # request.user

MayCast(v, request) == Fits(v, request) /\ time <= v.expiredAt

Admit(h, request) ==
  /\ \E v \in box : MayCast(v, request)
  /\ asked' = [asked EXCEPT ![h] =
                  {[user |-> request.user, options |-> request.options, admitted |-> TRUE]}]
  /\ UNCHANGED <<time, box, ballots, result, answer>>

\* The vote may close between the admission and this instant; nothing else may change.
CastBallot(h, request) ==
  /\ request.admitted /\ \E v \in box : Fits(v, request)
  /\ ballots' = ballots \cup {[user |-> request.user, options |-> request.options]}
  /\ result' = Tally(ballots')
  /\ asked' = [asked EXCEPT ![h] = {}] /\ answer' \in {"cast", "failed"}
  /\ UNCHANGED <<time, box>>

Refuse(h, request) ==
  /\ ~ \E v \in box : MayCast(v, request)
  /\ asked' = [asked EXCEPT ![h] = {}] /\ answer' = "refused"
  /\ UNCHANGED <<time, box, ballots, result>>

\* "Not found" or a database error: that says nothing of the vote.
GiveUp(h) ==
  /\ asked' = [asked EXCEPT ![h] = {}] /\ answer' = "failed"
  /\ UNCHANGED <<time, box, ballots, result>>

Pass == time' = time + 1 /\ UNCHANGED <<box, ballots, result, asked, answer>>

BoxNext ==
  \/ Pass
  \/ \E v \in Offers : Open(v)
  \/ \E h \in Handlers :
       \/ \E u \in Users, options \in SUBSET OptionIds : Ask(h, u, options)
       \/ \E request \in asked[h] :
            Admit(h, request) \/ CastBallot(h, request) \/ Refuse(h, request) \/ GiveUp(h)

BoxSpec == BoxInit /\ [][BoxNext]_boxVars
=============================================================================
