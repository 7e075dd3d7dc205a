-------------------------------- MODULE Vote --------------------------------
(***************************************************************************)
(* A vote attached to a topic: created with its options by the publishing  *)
(* transaction, then cast on by HTTP handlers that run concurrently.       *)
(*                                                                         *)
(* A cast validates the form outside the transaction, then locks the vote  *)
(* row (SELECT ... FOR UPDATE), checks and writes under that lock.  The    *)
(* checks and the writes are separate steps: what protects the second from *)
(* the first being stale is the row lock alone.                            *)
(* The database may fail any statement (a wait that is too long, a         *)
(* deadlock, a lost connection): nothing of the cast remains.              *)
(***************************************************************************)
EXTENDS Integers, FiniteSets, Sequences, SequencesExt

CONSTANTS
  Users,      \* voters
  Handlers,   \* goroutines serving POST /api/vote/cast
  OptionIds,  \* ids of t_vote_option, of this vote and of others
  OwnIds,     \* those the vote may get when it is created
  MaxIds,     \* bound: length of the option list of a request
  MaxTime,    \* bound: the clock stops here
  None        \* no lock holder

ASSUME VoteAssumption ==
  /\ IsFiniteSet(Users) /\ IsFiniteSet(OptionIds)
  /\ OwnIds \subseteq OptionIds
  /\ MaxIds \in Nat /\ MaxTime \in Nat
  /\ None \notin Handlers

VoteTypes == {"single", "multiple"}

VARIABLES
  clock,        \* dates.NowTimestamp()
  vote,         \* {} or the one row of t_vote
  records,      \* t_vote_record
  voteCount,    \* t_vote.vote_count
  optionCount,  \* t_vote_option.vote_count, by option id
  rowLock,      \* who holds the lock of the vote row
  cast,         \* the request of each handler and how far it is
  told          \* the last answer given

vars == <<clock, vote, records, voteCount, optionCount, rowLock, cast, told>>

\* "refused" is one of the answers of the checks; "failed" is any other error.
Answers == {"none", "cast", "refused", "failed"}

VoteRow == [type : VoteTypes, options : SUBSET OptionIds,
            voteNum : Nat, expiredAt : Nat]
VoteRecord == [user : Users, options : SUBSET OptionIds]

Idle == [pc |-> "idle"]
Cast == {Idle} \cup
        [pc : {"begin", "locked", "checked"}, user : Users, selected : SUBSET OptionIds]

TypeOK ==
  /\ clock \in Nat
  /\ vote \in SUBSET VoteRow /\ IsFiniteSet(vote)
  /\ records \in SUBSET VoteRecord /\ IsFiniteSet(records)
  /\ voteCount \in Nat
  /\ optionCount \in [OptionIds -> Nat]
  /\ rowLock \in Handlers \cup {None}
  /\ cast \in [Handlers -> Cast]
  /\ told \in Answers

Init ==
  /\ clock = 0
  /\ vote = {}
  /\ records = {}
  /\ voteCount = 0
  /\ optionCount = [o \in OptionIds |-> 0]
  /\ rowLock = None
  /\ cast = [h \in Handlers |-> Idle]
  /\ told = "none"

-----------------------------------------------------------------------------
(* Creation: CheckCreateForm forces voteNum to 1 for a single-choice vote. *)

CheckCreateForm(form) ==
  /\ Cardinality(form.options) \in 2..20
  /\ form.expiredAt > clock
  /\ \/ form.type = "single" /\ form.voteNum = 1
     \/ form.type = "multiple" /\ form.voteNum \in 1..Cardinality(form.options)

CreateWithOptionsTx(form) ==
  /\ vote = {}
  /\ CheckCreateForm(form)
  /\ vote' = {form}
  /\ UNCHANGED <<clock, records, voteCount, optionCount, rowLock, cast, told>>

-----------------------------------------------------------------------------
(* Cast *)

\* The first loop of Cast keeps one copy of every id of the request.
Dedup(optionIds) == ToSet(optionIds)

Submit(h, u, optionIds) ==
  /\ cast[h] = Idle
  /\ Dedup(optionIds) # {}
  /\ cast' = [cast EXCEPT ![h] = [pc |-> "begin", user |-> u, selected |-> Dedup(optionIds)]]
  /\ UNCHANGED <<clock, vote, records, voteCount, optionCount, rowLock, told>>

\* Variant for mutation: a return path that keeps the transaction open.
AnswerLeavingLock(h, what) ==
  /\ UNCHANGED rowLock
  /\ cast' = [cast EXCEPT ![h] = Idle]
  /\ told' = what

\* The transaction ends: the lock is released and the handler answers.
Answer(h, what) ==
  /\ rowLock' = IF rowLock = h THEN None ELSE rowLock
  /\ cast' = [cast EXCEPT ![h] = Idle]
  /\ told' = what

\* Variant for mutation: the row is read without FOR UPDATE.
ReadVoteUnlocked(h) ==
  /\ cast[h].pc = "begin"
  /\ vote # {}
  /\ cast' = [cast EXCEPT ![h].pc = "locked"]
  /\ UNCHANGED <<clock, vote, records, voteCount, optionCount, rowLock, told>>

LockVote(h) ==
  /\ cast[h].pc = "begin"
  /\ vote # {} /\ rowLock = None
  /\ rowLock' = h
  /\ cast' = [cast EXCEPT ![h].pc = "locked"]
  /\ UNCHANGED <<clock, vote, records, voteCount, optionCount, told>>

VoteNotFound(h) ==
  /\ cast[h].pc = "begin"
  /\ vote = {}
  /\ Answer(h, "failed")
  /\ UNCHANGED <<clock, vote, records, voteCount, optionCount>>

\* The locking read (answered as "vote not found"), a read (as "option not found")
\* or a write fails, and everything is rolled back.
DatabaseError(h) ==
  /\ cast[h] # Idle
  /\ Answer(h, "failed")
  /\ UNCHANGED <<clock, vote, records, voteCount, optionCount>>

\* Variant for mutation: ExpiredAt is not compared.
AdmissibleAnyTime(v, u, selected) ==
  /\ ~ \E r \in records : r.user = u
  /\ selected \subseteq v.options
  /\ IF v.type = "single" THEN Cardinality(selected) = 1
                          ELSE Cardinality(selected) <= v.voteNum

\* Variant for mutation: optionMap is not consulted.
AdmissibleAnyOption(v, u, selected) ==
  /\ clock <= v.expiredAt
  /\ ~ \E r \in records : r.user = u
  /\ IF v.type = "single" THEN Cardinality(selected) = 1
                          ELSE Cardinality(selected) <= v.voteNum

Admissible(v, u, selected) ==
  /\ clock <= v.expiredAt
  /\ ~ \E r \in records : r.user = u
  /\ selected \subseteq v.options
  /\ IF v.type = "single" THEN Cardinality(selected) = 1
                          ELSE Cardinality(selected) <= v.voteNum

CheckVote(h) ==
  /\ cast[h].pc = "locked"
  /\ \E v \in vote : Admissible(v, cast[h].user, cast[h].selected)
  /\ cast' = [cast EXCEPT ![h].pc = "checked"]
  /\ UNCHANGED <<clock, vote, records, voteCount, optionCount, rowLock, told>>

RejectVote(h) ==
  /\ cast[h].pc = "locked"
  /\ ~ \E v \in vote : Admissible(v, cast[h].user, cast[h].selected)
  /\ Answer(h, "refused")
  /\ UNCHANGED <<clock, vote, records, voteCount, optionCount>>

\* The unique index idx_user_vote(user_id, vote_id) is not a guard here: the
\* property OneBallotPerUser says that the lock alone already keeps it silent.
\* Variant for mutation: vote_count counts selected options.
WriteVoteBy(h, step) ==
  LET c == cast[h] IN
  /\ c.pc = "checked"
  /\ records' = records \cup {[user |-> c.user, options |-> c.selected]}
  /\ voteCount' = voteCount + step
  /\ optionCount' = [o \in OptionIds |->
                       IF o \in c.selected THEN optionCount[o] + 1 ELSE optionCount[o]]
  /\ \E what \in {"cast", "failed"} : Answer(h, what)
  /\ UNCHANGED <<clock, vote>>
WriteVotePerOption(h) == WriteVoteBy(h, Cardinality(cast[h].selected))

\* Record, vote counter, one option counter per selected option; commit.
\* The commit may succeed and its answer be lost.
WriteVote(h) ==
  LET c == cast[h] IN
  /\ c.pc = "checked"
  /\ records' = records \cup {[user |-> c.user, options |-> c.selected]}
  /\ voteCount' = voteCount + 1
  /\ optionCount' = [o \in OptionIds |->
                       IF o \in c.selected THEN optionCount[o] + 1 ELSE optionCount[o]]
  /\ \E what \in {"cast", "failed"} : Answer(h, what)
  /\ UNCHANGED <<clock, vote>>

Tick ==
  /\ clock < MaxTime
  /\ clock' = clock + 1
  /\ UNCHANGED <<vote, records, voteCount, optionCount, rowLock, cast, told>>

-----------------------------------------------------------------------------
\* Votes that close before the clock stops.
Forms == [type : VoteTypes, options : SUBSET OwnIds,
          voteNum : 1..Cardinality(OwnIds), expiredAt : 1..(MaxTime - 1)]

HandlerStep(h) ==
  \/ VoteNotFound(h) \/ LockVote(h) \/ CheckVote(h) \/ RejectVote(h) \/ WriteVote(h)
  \/ DatabaseError(h)

Next ==
  \/ Tick
  \/ \E form \in Forms : CreateWithOptionsTx(form)
  \/ \E h \in Handlers, u \in Users, ids \in BoundedSeq(OptionIds, MaxIds) : Submit(h, u, ids)
  \/ \E h \in Handlers : HandlerStep(h)

Spec == Init /\ [][Next]_vars

(***************************************************************************)
(* A handler that can run does run; a row lock that is released again and  *)
(* again is granted in the end (InnoDB and PostgreSQL queue the waiters).  *)
(* The database owes no errors.                                            *)
(***************************************************************************)
Fairness == \A h \in Handlers :
  /\ WF_vars(VoteNotFound(h) \/ CheckVote(h) \/ RejectVote(h) \/ WriteVote(h))
  /\ SF_vars(LockVote(h))

FairSpec == Spec /\ Fairness

-----------------------------------------------------------------------------
(* Properties *)

\* The denormalised counters shown to readers equal what the records say:
\* vote_count is the number of ballots and each option's vote_count is the
\* number of ballots that name it, also when a request repeats an option id
\* or names an option of another vote (Cast).
CountsMatchRecords ==
  /\ voteCount = Cardinality(records)
  /\ \A o \in OptionIds : optionCount[o] = Cardinality({r \in records : o \in r.options})

\* Nobody has two ballots, although "exists" is read in one step and the
\* record is inserted in a later one: two requests of one user are kept apart
\* by the row lock, so the unique index of t_vote_record never has to refuse.
OneBallotPerUser ==
  \A r, s \in records : r.user = s.user => r = s

\* Every ballot is one the vote allows: options of this vote only, one option
\* of a single-choice vote, at most vote_num of a multiple-choice one.
BallotsLegal ==
  \A v \in vote, r \in records :
    /\ r.options # {} /\ r.options \subseteq v.options
    /\ Cardinality(r.options) <= v.voteNum

\* The requests as a voter sees them: being served, and past the checks or not.
Asked == [h \in Handlers |->
  IF cast[h] = Idle THEN {}
  ELSE {[user |-> cast[h].user, options |-> cast[h].selected,
         admitted |-> cast[h].pc = "checked"]}]

Box == INSTANCE BallotBox WITH
  Offers <- Forms, time <- clock, box <- vote, ballots <- records, asked <- Asked, answer <- told,
  result <- [total |-> voteCount, each |-> optionCount]

\* Casting is atomic, however casts overlap: a request is admitted before the vote
\* closes, its ballot and every number shown change at one instant, at which its user
\* still has no other, before the user is told so; who is told that the vote has ended,
\* is used or does not allow the options is told the truth; and any other answer leaves
\* the ballot whole or absent (Cast: checks and writes under one row lock).
CastIsAtomic == Box!BoxSpec

\* Every cast is answered: no early return of the transaction leaves the vote
\* row locked for the voters that queue behind it.
EveryCastAnswered ==
  \A h \in Handlers : cast[h].pc = "begin" ~> cast[h].pc = "idle"
=============================================================================
