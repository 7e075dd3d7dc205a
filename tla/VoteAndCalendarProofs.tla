------------------------- MODULE VoteAndCalendarProofs -------------------------
(***************************************************************************)
(* Proofs about Vote and about CalendarPage, two components that share no  *)
(* state.  Vote: its type invariant, and that ballots and counters agree   *)
(* for any set of voters, handlers and options.  CalendarPage: its type    *)
(* invariant, that the list is the beginning of one listing, that the      *)
(* details are those of the selected event, and that at rest the page      *)
(* shows what was chosen last, for any dates, kinds and listings.          *)
(***************************************************************************)
EXTENDS Vote, CalendarPage, FiniteSetTheorems, SequenceTheorems, TLAPS

-----------------------------------------------------------------------------
(* Vote                                                                    *)

(***************************************************************************)
(* The inductive invariant.  CountsMatchRecords is not inductive alone: a  *)
(* second ballot of a user could be lost in the set of records.  It needs  *)
(* OneBallotPerUser, and that needs that a handler past its check still    *)
(* holds the lock under which it read "no record of this user".            *)
(***************************************************************************)
LockHeld == \A h \in Handlers : cast[h].pc \in {"locked", "checked"} => rowLock = h

CheckStillTrue == \A h \in Handlers : cast[h].pc = "checked" =>
  /\ ~ \E r \in records : r.user = cast[h].user
  /\ \E v \in vote : /\ cast[h].selected \subseteq v.options
                     /\ Cardinality(cast[h].selected) <= v.voteNum

SelectedNonEmpty == \A h \in Handlers : cast[h].pc # "idle" => cast[h].selected # {}

AtMostOneVote == /\ \A v, w \in vote : v = w
                 /\ vote = {} => records = {}
                 /\ \A v \in vote : v.type = "single" => v.voteNum = 1

IInv ==
  /\ TypeOK
  /\ LockHeld
  /\ CheckStillTrue
  /\ SelectedNonEmpty
  /\ AtMostOneVote
  /\ CountsMatchRecords
  /\ OneBallotPerUser
  /\ BallotsLegal

-----------------------------------------------------------------------------
\* Adding one ballot moves the count of ballots by one, and the count of the
\* ballots that name o by one exactly when the new ballot names o.
LEMMA CountAfterInsert ==
  ASSUME NEW R, IsFiniteSet(R), NEW r, r \notin R, NEW o
  PROVE  /\ Cardinality(R \cup {r}) = Cardinality(R) + 1
         /\ Cardinality({x \in R \cup {r} : o \in x.options}) =
              IF o \in r.options THEN Cardinality({x \in R : o \in x.options}) + 1
                                 ELSE Cardinality({x \in R : o \in x.options})
         /\ Cardinality({x \in R : o \in x.options}) \in Nat
<1> DEFINE S == {x \in R : o \in x.options}
<1>1. Cardinality(R \cup {r}) = Cardinality(R) + 1
  BY FS_AddElement
<1>2. IsFiniteSet(S) /\ Cardinality(S) \in Nat
  BY FS_Subset, FS_CardinalityType, S \subseteq R
<1>3. CASE o \in r.options
  <2>1. {x \in R \cup {r} : o \in x.options} = S \cup {r}
    BY <1>3
  <2>2. Cardinality(S \cup {r}) = Cardinality(S) + 1
    BY <1>2, FS_AddElement
  <2> QED BY <1>1, <1>2, <1>3, <2>1, <2>2
<1>4. CASE o \notin r.options
  <2>1. {x \in R \cup {r} : o \in x.options} = S
    BY <1>4
  <2> QED BY <1>1, <1>2, <1>4, <2>1
<1> QED BY <1>3, <1>4

LEMMA VoteInit == Init => IInv
<1> SUFFICES ASSUME Init PROVE IInv
  OBVIOUS
<1> USE DEF Init
<1>1. TypeOK
  BY FS_EmptySet, VoteAssumption DEF TypeOK, Cast, Idle, Answers
<1>2. CountsMatchRecords
  <2>1. \A o \in OptionIds : {r \in records : o \in r.options} = {}
    OBVIOUS
  <2> QED BY <2>1, FS_EmptySet DEF CountsMatchRecords
<1>3. LockHeld /\ CheckStillTrue /\ SelectedNonEmpty
  BY DEF LockHeld, CheckStillTrue, SelectedNonEmpty, Idle
<1> QED
  BY <1>1, <1>2, <1>3 DEF IInv, AtMostOneVote, OneBallotPerUser, BallotsLegal

-----------------------------------------------------------------------------
LEMMA CreateStep ==
  ASSUME IInv, NEW form \in Forms, CreateWithOptionsTx(form)
  PROVE  IInv'
<1> USE DEF IInv, CreateWithOptionsTx
<1>1. form \in VoteRow /\ form.voteNum \in Nat
  BY FS_CardinalityType, VoteAssumption DEF Forms, VoteRow
<1>2. TypeOK'
  BY <1>1, FS_Singleton DEF TypeOK
<1>3. records = {}
  BY DEF AtMostOneVote
<1>4. BallotsLegal' /\ OneBallotPerUser'
  BY <1>3 DEF BallotsLegal, OneBallotPerUser
<1>5. CountsMatchRecords'
  BY DEF CountsMatchRecords
<1>6. AtMostOneVote'
  BY <1>3 DEF AtMostOneVote, CheckCreateForm
<1>7. LockHeld' /\ SelectedNonEmpty'
  BY DEF LockHeld, SelectedNonEmpty
<1>8. CheckStillTrue'
  BY DEF CheckStillTrue
<1> QED BY <1>2, <1>4, <1>5, <1>6, <1>7, <1>8

LEMMA SubmitStep ==
  ASSUME IInv, NEW h \in Handlers, NEW u \in Users, NEW ids \in BoundedSeq(OptionIds, MaxIds),
         Submit(h, u, ids)
  PROVE  IInv'
<1> USE DEF IInv, Submit
<1>1. Dedup(ids) \subseteq OptionIds
  <2>1. PICK n \in 0..MaxIds : ids \in [1..n -> OptionIds]
    BY DEF BoundedSeq, SeqOf
  <2> QED BY <2>1 DEF Dedup, ToSet
<1>2. TypeOK'
  BY <1>1 DEF TypeOK, Cast
<1>3. \A k \in Handlers : k # h => cast'[k] = cast[k]
  BY DEF TypeOK
<1>4. cast'[h] = [pc |-> "begin", user |-> u, selected |-> Dedup(ids)]
  BY DEF TypeOK
<1>5. LockHeld' /\ CheckStillTrue' /\ SelectedNonEmpty'
  BY <1>3, <1>4 DEF LockHeld, CheckStillTrue, SelectedNonEmpty
<1> QED
  BY <1>2, <1>5 DEF CountsMatchRecords, OneBallotPerUser, BallotsLegal, AtMostOneVote

\* A step that ends the transaction of h without writing.
LEMMA AnswerStep ==
  ASSUME IInv, NEW h \in Handlers, NEW what \in Answers, Answer(h, what),
         UNCHANGED <<clock, vote, records, voteCount, optionCount>>
  PROVE  IInv'
<1> USE DEF IInv, Answer
<1>1. TypeOK'
  BY DEF TypeOK, Cast
<1>2. \A k \in Handlers : k # h => cast'[k] = cast[k]
  BY DEF TypeOK
<1>3. cast'[h] = Idle
  BY DEF TypeOK
<1>4. LockHeld' /\ CheckStillTrue' /\ SelectedNonEmpty'
  BY <1>2, <1>3 DEF LockHeld, CheckStillTrue, SelectedNonEmpty, Idle
<1> QED
  BY <1>1, <1>4 DEF CountsMatchRecords, OneBallotPerUser, BallotsLegal, AtMostOneVote

LEMMA LockStep ==
  ASSUME IInv, NEW h \in Handlers, LockVote(h)
  PROVE  IInv'
<1> USE DEF IInv, LockVote
<1>1. cast[h] \in [pc : {"begin", "locked", "checked"}, user : Users, selected : SUBSET OptionIds]
  BY DEF TypeOK, Cast, Idle
<1>2. TypeOK'
  BY <1>1 DEF TypeOK, Cast
<1>3. \A k \in Handlers : k # h => cast'[k] = cast[k]
  BY DEF TypeOK
<1>4. /\ cast'[h].pc = "locked"
      /\ cast'[h].selected = cast[h].selected
  BY <1>1 DEF TypeOK
<1>5. \A k \in Handlers : cast[k].pc \notin {"locked", "checked"}
  BY VoteAssumption DEF LockHeld
<1>6. LockHeld' /\ CheckStillTrue' /\ SelectedNonEmpty'
  BY <1>3, <1>4, <1>5 DEF LockHeld, CheckStillTrue, SelectedNonEmpty
<1> QED
  BY <1>2, <1>6 DEF CountsMatchRecords, OneBallotPerUser, BallotsLegal, AtMostOneVote

LEMMA CheckStep ==
  ASSUME IInv, NEW h \in Handlers, CheckVote(h)
  PROVE  IInv'
<1> USE DEF IInv, CheckVote
<1>1. cast[h] \in [pc : {"begin", "locked", "checked"}, user : Users, selected : SUBSET OptionIds]
  BY DEF TypeOK, Cast, Idle
<1>2. TypeOK'
  BY <1>1 DEF TypeOK, Cast
<1>3. \A k \in Handlers : k # h => cast'[k] = cast[k]
  BY DEF TypeOK
<1>4. /\ cast'[h].pc = "checked"
      /\ cast'[h].selected = cast[h].selected
      /\ cast'[h].user = cast[h].user
  BY <1>1 DEF TypeOK
<1>5. PICK v \in vote : Admissible(v, cast[h].user, cast[h].selected)
  OBVIOUS
<1>6. Cardinality(cast[h].selected) <= v.voteNum
  BY <1>5 DEF Admissible, AtMostOneVote, TypeOK, VoteRow, VoteTypes
<1>7. LockHeld' /\ SelectedNonEmpty'
  BY <1>3, <1>4 DEF LockHeld, SelectedNonEmpty
<1>8. CheckStillTrue'
  BY <1>3, <1>4, <1>5, <1>6 DEF CheckStillTrue, Admissible
<1> QED
  BY <1>2, <1>7, <1>8 DEF CountsMatchRecords, OneBallotPerUser, BallotsLegal, AtMostOneVote

LEMMA WriteStep ==
  ASSUME IInv, NEW h \in Handlers, WriteVote(h)
  PROVE  IInv'
<1> DEFINE c == cast[h]
           r == [user |-> c.user, options |-> c.selected]
<1> USE DEF IInv
<1>1. /\ c \in [pc : {"begin", "locked", "checked"}, user : Users, selected : SUBSET OptionIds]
      /\ c.pc = "checked" /\ r \in VoteRecord
  BY DEF WriteVote, TypeOK, Cast, Idle, VoteRecord
<1>2. \A s \in records : s.user # c.user
  BY <1>1 DEF CheckStillTrue
<1>3. r \notin records
  BY <1>2
<1>4. records' = records \cup {r} /\ UNCHANGED <<clock, vote>>
  BY DEF WriteVote
<1>5. TypeOK'
  <2>1. records' \in SUBSET VoteRecord /\ IsFiniteSet(records')
    BY <1>1, <1>4, FS_AddElement DEF TypeOK
  <2>2. voteCount' \in Nat /\ optionCount' \in [OptionIds -> Nat]
    BY DEF TypeOK, WriteVote
  <2>3. rowLock' \in Handlers \cup {None} /\ cast' \in [Handlers -> Cast] /\ told' \in Answers
    BY DEF TypeOK, WriteVote, Answer, Answers, Cast
  <2> QED BY <1>4, <2>1, <2>2, <2>3 DEF TypeOK
<1>6. CountsMatchRecords'
  <2>1. IsFiniteSet(records) /\ voteCount = Cardinality(records)
    BY DEF TypeOK, CountsMatchRecords
  <2>2. voteCount' = Cardinality(records')
    BY <1>3, <1>4, <2>1, FS_AddElement DEF WriteVote
  <2>3. ASSUME NEW o \in OptionIds
        PROVE  optionCount'[o] = Cardinality({x \in records' : o \in x.options})
    <3>1. optionCount'[o] = IF o \in r.options THEN optionCount[o] + 1 ELSE optionCount[o]
      BY DEF WriteVote
    <3>2. optionCount[o] = Cardinality({x \in records : o \in x.options})
      BY DEF CountsMatchRecords
    <3> HIDE DEF r
    <3>3. /\ Cardinality({x \in records \cup {r} : o \in x.options}) =
              IF o \in r.options THEN Cardinality({x \in records : o \in x.options}) + 1
                                 ELSE Cardinality({x \in records : o \in x.options})
      BY <1>3, <2>1, CountAfterInsert
    <3>4. {x \in records' : o \in x.options} = {x \in records \cup {r} : o \in x.options}
      BY <1>4
    <3> QED BY <3>1, <3>2, <3>3, <3>4
  <2> QED BY <2>2, <2>3 DEF CountsMatchRecords
<1>7. OneBallotPerUser'
  BY <1>2, <1>4 DEF OneBallotPerUser
<1>8. BallotsLegal'
  <2>1. PICK v \in vote : /\ c.selected \subseteq v.options
                          /\ Cardinality(c.selected) <= v.voteNum
    BY <1>1 DEF CheckStillTrue
  <2>2. c.selected # {}
    BY <1>1 DEF SelectedNonEmpty
  <2> QED BY <1>4, <2>1, <2>2 DEF BallotsLegal, AtMostOneVote
<1>9. /\ \A k \in Handlers : k # h => cast'[k] = cast[k]
      /\ cast'[h] = Idle
  BY DEF WriteVote, Answer, TypeOK
<1>10. \A k \in Handlers : k # h => cast[k].pc # "checked"
  BY <1>1 DEF LockHeld
<1>11. LockHeld' /\ CheckStillTrue' /\ SelectedNonEmpty'
  BY <1>9, <1>10, <1>1 DEF LockHeld, CheckStillTrue, SelectedNonEmpty, Idle, WriteVote, Answer
<1>12. AtMostOneVote'
  <2>1. vote # {}
    BY <1>1 DEF CheckStillTrue
  <2> QED BY <1>4, <2>1 DEF AtMostOneVote
<1> QED BY <1>5, <1>6, <1>7, <1>8, <1>11, <1>12

LEMMA TickStep ==
  ASSUME IInv, Tick \/ UNCHANGED vars
  PROVE  IInv'
<1> USE DEF IInv, Tick, vars
<1>1. TypeOK'
  BY VoteAssumption DEF TypeOK
<1> QED
  BY <1>1 DEF LockHeld, CheckStillTrue, SelectedNonEmpty, CountsMatchRecords,
              OneBallotPerUser, BallotsLegal, AtMostOneVote

-----------------------------------------------------------------------------
LEMMA VoteStep == IInv /\ [Next]_vars => IInv'
<1> SUFFICES ASSUME IInv, [Next]_vars PROVE IInv'
  OBVIOUS
<1>1. CASE Tick \/ UNCHANGED vars
  BY <1>1, TickStep
<1>2. CASE \E form \in Forms : CreateWithOptionsTx(form)
  BY <1>2, CreateStep
<1>3. CASE \E h \in Handlers, u \in Users, ids \in BoundedSeq(OptionIds, MaxIds) : Submit(h, u, ids)
  BY <1>3, SubmitStep
<1>4. CASE \E h \in Handlers : HandlerStep(h)
  <2>1. PICK h \in Handlers : HandlerStep(h)
    BY <1>4
  <2>2. CASE VoteNotFound(h) \/ RejectVote(h) \/ DatabaseError(h)
    BY <2>2, AnswerStep DEF VoteNotFound, RejectVote, DatabaseError, Answers
  <2>3. CASE LockVote(h)
    BY <2>3, LockStep
  <2>4. CASE CheckVote(h)
    BY <2>4, CheckStep
  <2>5. CASE WriteVote(h)
    BY <2>5, WriteStep
  <2> QED BY <2>1, <2>2, <2>3, <2>4, <2>5 DEF HandlerStep
<1> QED BY <1>1, <1>2, <1>3, <1>4 DEF Next

\* Every variable of the vote component keeps its type (Vote!TypeOK).
THEOREM VoteTypes_Invariant == Spec => []TypeOK
<1>1. IInv => TypeOK
  BY DEF IInv
<1> QED BY VoteInit, VoteStep, <1>1, PTL DEF Spec

\* In every reachable state the counters readers see equal the ballots on
\* record: Cast never miscounts, whatever the number of voters and requests.
THEOREM VoteCounts == Spec => []CountsMatchRecords
<1>1. IInv => CountsMatchRecords
  BY DEF IInv
<1> QED BY VoteInit, VoteStep, <1>1, PTL DEF Spec

\* No user ever has two ballots: the row lock keeps "has this user voted" true
\* from the check to the insert (vote_service.go: Cast).
THEOREM VoteBallots == Spec => []OneBallotPerUser
<1>1. IInv => OneBallotPerUser
  BY DEF IInv
<1> QED BY VoteInit, VoteStep, <1>1, PTL DEF Spec

\* Every ballot is legal for its vote, however the options in the request are
\* repeated or mixed with those of others (vote_service.go: Cast).
THEOREM VoteLegal == Spec => []BallotsLegal
<1>1. IInv => BallotsLegal
  BY DEF IInv
<1> QED BY VoteInit, VoteStep, <1>1, PTL DEF Spec

-----------------------------------------------------------------------------
(***************************************************************************)
(* Vote implements BallotBox: the check under the lock admits a request,   *)
(* the write casts its ballot, and taking the lock is a stutter.           *)
(***************************************************************************)
Request(h) == [user |-> cast[h].user, options |-> cast[h].selected,
               admitted |-> cast[h].pc = "checked"]

LEMMA RequestIdle ==
  ASSUME IInv, NEW h \in Handlers, cast[h] # Idle
  PROVE  cast[h].pc # "idle"
BY DEF IInv, TypeOK, Cast

LEMMA RequestIs ==
  ASSUME IInv, NEW h \in Handlers, cast[h].pc # "idle"
  PROVE  /\ cast[h] \in [pc : {"begin", "locked", "checked"}, user : Users,
                         selected : SUBSET OptionIds]
         /\ Asked[h] = {Request(h)} /\ cast[h].selected # {}
<1>1. cast[h] # Idle
  BY DEF Idle
<1> QED BY <1>1 DEF IInv, TypeOK, Cast, Asked, Request, SelectedNonEmpty

\* BallotBox counts with the same Cardinality.
LEMMA SameSize == ASSUME NEW S PROVE Box!Cardinality(S) = Cardinality(S)
BY DEF Box!Cardinality, Cardinality

\* The check of Cast is the admission of the ballot box.
LEMMA SameCheck ==
  ASSUME IInv, NEW h \in Handlers, cast[h].pc # "idle", NEW v \in vote
  PROVE  Admissible(v, cast[h].user, cast[h].selected) <=> Box!MayCast(v, Request(h))
<1> DEFINE S == cast[h].selected
<1>1. S \subseteq OptionIds /\ S # {}
  BY RequestIs
<1>2. IsFiniteSet(S) /\ Cardinality(S) \in Nat /\ Cardinality(S) # 0
  <2>1. IsFiniteSet(S)
    BY <1>1, VoteAssumption, FS_Subset
  <2> QED BY <1>1, <2>1, FS_CardinalityType, FS_EmptySet
<1>3. v \in VoteRow /\ (v.type = "single" => v.voteNum = 1)
  BY DEF IInv, TypeOK, AtMostOneVote
<1>4. (IF v.type = "single" THEN Cardinality(S) = 1 ELSE Cardinality(S) <= v.voteNum)
        <=> Cardinality(S) <= v.voteNum
  BY <1>2, <1>3
<1>5. (~ \E r \in records : r.user = cast[h].user) <=> \A r \in records : r.user # Request(h).user
  BY DEF Request
<1>6. Request(h).options = S
  BY DEF Request
<1> QED BY <1>4, <1>5, <1>6, SameSize DEF Admissible, Box!MayCast, Box!Fits

\* Only the handler that moves has another request.
LEMMA AskedMoves ==
  ASSUME IInv, NEW h \in Handlers, NEW new, cast' = [cast EXCEPT ![h] = new]
  PROVE  Asked' = [Asked EXCEPT ![h] =
           IF new = Idle THEN {}
           ELSE {[user |-> new.user, options |-> new.selected, admitted |-> new.pc = "checked"]}]
<1>1. cast'[h] = new /\ \A k \in Handlers : k # h => cast'[k] = cast[k]
  BY DEF IInv, TypeOK
<1> QED BY <1>1 DEF Asked

\* The end of a transaction forgets the request.
LEMMA AskedAnswered ==
  ASSUME IInv, NEW h \in Handlers, NEW what, Answer(h, what)
  PROVE  Asked' = [Asked EXCEPT ![h] = {}]
<1>1. cast' = [cast EXCEPT ![h] = Idle]
  BY DEF Answer
<1> QED BY <1>1, AskedMoves

LEMMA HandlerRefines ==
  ASSUME IInv, IInv', NEW h \in Handlers, HandlerStep(h)
  PROVE  \/ \E request \in Asked[h] :
              \/ Box!Admit(h, request) \/ Box!CastBallot(h, request)
              \/ Box!Refuse(h, request) \/ Box!GiveUp(h)
         \/ UNCHANGED Box!boxVars
<1>0. cast[h].pc # "idle"
  BY RequestIdle DEF HandlerStep, DatabaseError, VoteNotFound, LockVote, CheckVote, RejectVote, WriteVote
<1>1. /\ cast[h] \in [pc : {"begin", "locked", "checked"}, user : Users,
                      selected : SUBSET OptionIds]
      /\ Asked[h] = {Request(h)}
  BY <1>0, RequestIs
<1>2. CASE VoteNotFound(h) \/ DatabaseError(h)
  <2>1. Answer(h, "failed") /\ UNCHANGED <<clock, vote, records, voteCount, optionCount>>
    BY <1>2 DEF VoteNotFound, DatabaseError
  <2>2. Box!GiveUp(h)
    BY <2>1, AskedAnswered DEF Answer, Box!GiveUp
  <2> QED BY <1>1, <2>2
<1>3. CASE LockVote(h)
  <2> DEFINE new == [cast[h] EXCEPT !.pc = "locked"]
             asking == [user |-> new.user, options |-> new.selected,
                        admitted |-> new.pc = "checked"]
  <2>1. cast' = [cast EXCEPT ![h] = new] /\ UNCHANGED <<clock, vote, records, voteCount, optionCount, told>>
    BY <1>3 DEF LockVote
  <2>2. /\ new # Idle /\ new.user = cast[h].user /\ new.selected = cast[h].selected
        /\ (new.pc = "checked") = (cast[h].pc = "checked")
    BY <1>1, <1>3 DEF LockVote, Idle
  <2>3. asking = Request(h)
    BY <2>2 DEF Request
  <2> HIDE DEF new
  <2>4. Asked' = [Asked EXCEPT ![h] = IF new = Idle THEN {} ELSE {asking}]
    BY <2>1, AskedMoves
  <2> HIDE DEF asking
  <2>5. Asked' = [Asked EXCEPT ![h] = {Request(h)}]
    BY <2>2, <2>3, <2>4
  <2>6. Asked' = Asked
    BY <1>1, <2>5 DEF Asked
  <2> QED BY <2>1, <2>6 DEF Box!boxVars
<1>4. CASE CheckVote(h)
  <2> DEFINE new == [cast[h] EXCEPT !.pc = "checked"]
             asking == [user |-> new.user, options |-> new.selected,
                        admitted |-> new.pc = "checked"]
  <2>1. cast' = [cast EXCEPT ![h] = new] /\ UNCHANGED <<clock, vote, records, voteCount, optionCount, told>>
    BY <1>4 DEF CheckVote
  <2>2. /\ new # Idle /\ new.user = cast[h].user /\ new.selected = cast[h].selected
        /\ (new.pc = "checked") = TRUE
    BY <1>1 DEF Idle
  <2> DEFINE past == [user |-> Request(h).user, options |-> Request(h).options, admitted |-> TRUE]
  <2>3. asking = past
    <3>1. Request(h).user = cast[h].user /\ Request(h).options = cast[h].selected
      BY DEF Request
    <3> QED BY <2>2, <3>1, Zenon
  <2> HIDE DEF new
  <2>4. Asked' = [Asked EXCEPT ![h] = IF new = Idle THEN {} ELSE {asking}]
    BY <2>1, AskedMoves
  <2> HIDE DEF asking, past
  <2>5. Asked' = [Asked EXCEPT ![h] = {past}]
    BY <2>2, <2>3, <2>4
  <2>6. \E v \in vote : Box!MayCast(v, Request(h))
    BY <1>0, <1>4, SameCheck DEF CheckVote
  <2>7. Box!Admit(h, Request(h))
    BY <2>1, <2>5, <2>6 DEF Box!Admit, past
  <2> QED BY <1>1, <2>7
<1>5. CASE RejectVote(h)
  <2>1. ~ \E v \in vote : Box!MayCast(v, Request(h))
    BY <1>0, <1>5, SameCheck DEF RejectVote
  <2>2. Box!Refuse(h, Request(h))
    BY <1>5, <2>1, AskedAnswered DEF RejectVote, Answer, Box!Refuse
  <2> QED BY <1>1, <2>2
<1>6. CASE WriteVote(h)
  <2>1. /\ records' = records \cup {[user |-> cast[h].user, options |-> cast[h].selected]}
        /\ cast[h].pc = "checked" /\ (\E what \in {"cast", "failed"} : Answer(h, what))
        /\ UNCHANGED <<clock, vote>>
    BY <1>6 DEF WriteVote
  <2>2. /\ Request(h).admitted /\ Request(h).user = cast[h].user
        /\ Request(h).options = cast[h].selected
    BY <2>1 DEF Request
  <2>3. \E v \in vote : Box!Fits(v, Request(h))
    BY <2>1, <2>2, SameSize DEF IInv, CheckStillTrue, Box!Fits
  <2>4. voteCount' = Cardinality(records')
        /\ optionCount' = [o \in OptionIds |-> Cardinality({b \in records' : o \in b.options})]
    BY DEF IInv, TypeOK, CountsMatchRecords
  <2>5. [total |-> voteCount', each |-> optionCount'] = Box!Tally(records')
    <3>1. \A o \in OptionIds : Box!Cardinality({b \in records' : o \in b.options})
                                = Cardinality({b \in records' : o \in b.options})
      BY SameSize
    <3> QED BY <2>4, <3>1, SameSize DEF Box!Tally
  <2>6. Box!CastBallot(h, Request(h))
    BY <2>1, <2>2, <2>3, <2>5, AskedAnswered DEF Answer, Box!CastBallot
  <2> QED BY <1>1, <2>6
<1> QED BY <1>2, <1>3, <1>4, <1>5, <1>6 DEF HandlerStep

LEMMA VoteRefines == IInv /\ IInv' /\ [Next]_vars => [Box!BoxNext]_Box!boxVars
<1> SUFFICES ASSUME IInv, IInv', [Next]_vars PROVE [Box!BoxNext]_Box!boxVars
  OBVIOUS
<1>1. CASE Tick
  <2>1. Asked' = Asked
    BY <1>1 DEF Tick, Asked
  <2> QED BY <1>1, <2>1 DEF Tick, Box!BoxNext, Box!Pass
<1>2. ASSUME NEW form \in Forms, CreateWithOptionsTx(form) PROVE [Box!BoxNext]_Box!boxVars
  <2>1. Asked' = Asked
    BY <1>2 DEF CreateWithOptionsTx, Asked
  <2>2. form.expiredAt > clock /\ 1 <= form.voteNum /\ form.voteNum <= Cardinality(form.options)
    BY <1>2 DEF CreateWithOptionsTx, CheckCreateForm
  <2>3. clock < form.expiredAt
    BY <2>2 DEF Forms, IInv, TypeOK
  <2>4. Box!Open(form)
    BY <1>2, <2>1, <2>2, <2>3, SameSize DEF CreateWithOptionsTx, Box!Open
  <2> QED BY <2>4 DEF Box!BoxNext
<1>3. ASSUME NEW h \in Handlers, NEW u \in Users, NEW ids \in BoundedSeq(OptionIds, MaxIds),
             Submit(h, u, ids)
      PROVE  [Box!BoxNext]_Box!boxVars
  <2> DEFINE S == Dedup(ids)
             new == [pc |-> "begin", user |-> u, selected |-> S]
  <2>1. S \subseteq OptionIds
    <3>1. PICK n \in 0..MaxIds : ids \in [1..n -> OptionIds]
      BY DEF BoundedSeq, SeqOf
    <3> QED BY <3>1 DEF Dedup, ToSet
  <2>2. /\ cast[h] = Idle /\ S # {} /\ cast' = [cast EXCEPT ![h] = new]
        /\ UNCHANGED <<clock, vote, records, voteCount, optionCount, told>>
    BY <1>3 DEF Submit
  <2>3. Asked[h] = {}
    BY <2>2 DEF Asked
  <2>4. new # Idle /\ new.user = u /\ new.selected = S /\ (new.pc = "checked") = FALSE
    BY DEF Idle
  <2> HIDE DEF S, new
  <2>5. Asked' = [Asked EXCEPT ![h] = {[user |-> u, options |-> S, admitted |-> FALSE]}]
    BY <2>2, <2>4, AskedMoves
  <2>6. Box!Ask(h, u, S)
    BY <2>2, <2>3, <2>5 DEF Box!Ask
  <2> QED BY <2>1, <2>6 DEF Box!BoxNext
<1>4. ASSUME NEW h \in Handlers, HandlerStep(h) PROVE [Box!BoxNext]_Box!boxVars
  BY <1>4, HandlerRefines DEF Box!BoxNext
<1>5. CASE UNCHANGED vars
  <2>1. Asked' = Asked
    BY <1>5 DEF vars, Asked
  <2> QED BY <1>5, <2>1 DEF vars, Box!boxVars
<1> QED BY <1>1, <1>2, <1>3, <1>4, <1>5 DEF Next

\* Casting is atomic for any number of voters, requests and options: the steps of Cast under
\* the row lock implement a ballot box in which a ballot and all the numbers change at one
\* instant, in which no refusal of the checks is without its reason, and in which a
\* failure of the database leaves nothing of a ballot (vote_service.go: Cast).
THEOREM VoteAtomic == Spec => CastIsAtomic
<1>1. Init => Box!BoxInit
  <2> SUFFICES ASSUME Init PROVE Box!BoxInit
    OBVIOUS
  <2>1. \A o \in OptionIds : {b \in {} : o \in b.options} = {}
    OBVIOUS
  <2>2. [total |-> voteCount, each |-> optionCount] = Box!Tally({})
    <3>1. \A o \in OptionIds : Box!Cardinality({b \in {} : o \in b.options}) = 0
      BY <2>1, FS_EmptySet, SameSize
    <3> QED BY <3>1, FS_EmptySet, SameSize DEF Init, Box!Tally
  <2>3. Asked = [h \in Handlers |-> {}]
    BY DEF Init, Asked
  <2> QED BY <2>2, <2>3 DEF Init, Box!BoxInit
<1>2. IInv /\ [Next]_vars => IInv' /\ [Box!BoxNext]_Box!boxVars
  BY VoteStep, VoteRefines
<1> QED BY <1>1, <1>2, VoteInit, PTL DEF Spec, CastIsAtomic, Box!BoxSpec

-----------------------------------------------------------------------------
(* CalendarPage                                                            *)

(* What the helpers return. *)

LEMMA ListingFacts ==
  ASSUME NEW q \in Queries, NEW v \in Versions
  PROVE  /\ Listing(q, v) \in Seq(Events)
         /\ \A i \in 1 .. Len(Listing(q, v)) : Listing(q, v)[i][1] = q.date
         /\ \A i, j \in 1 .. Len(Listing(q, v)) :
              Listing(q, v)[i] = Listing(q, v)[j] => i = j
<1> DEFINE l == Listing(q, v)
<1>1. <<q, v>> \in Queries \X Versions /\ Listings \in [Queries \X Versions -> Seq(Events)]
  BY CalendarAssumption
<1>2. l = Listings[<<q, v>>]
  BY DEF Listing
<1>3. l \in Seq(Events)
  BY <1>1, <1>2
<1>4. /\ \A i \in DOMAIN l : l[i][1] = q.date
      /\ \A i, j \in DOMAIN l : l[i] = l[j] => i = j
  BY CalendarAssumption DEF Listing
<1> HIDE DEF l
<1>5. DOMAIN l = 1 .. Len(l)
  BY <1>3, LenProperties
<1> QED BY <1>3, <1>4, <1>5 DEF l

LEMMA ParseFacts ==
  ASSUME today \in Dates, NEW u \in Urls
  PROVE  Parse(u) \in Queries /\ (u # Bare => Parse(u) = u)
  BY CalendarAssumption DEF Parse, Queries, Urls

LEMMA PageFromFacts ==
  ASSUME NEW l \in Seq(Events), NEW start \in 0 .. Len(l)
  PROVE  /\ PageFrom(l, start) \in Pages
         /\ \E n \in start .. Len(l) :
              /\ PageFrom(l, start).events = SubSeq(l, start + 1, n)
              /\ PageFrom(l, start).cursor \in {Null, [offset |-> n, print |-> l]}
<1> DEFINE end == IF start + PageSize > Len(l) THEN Len(l) ELSE start + PageSize
           ev == SubSeq(l, start + 1, end)
           cur == IF end < Len(l) THEN [offset |-> end, print |-> l] ELSE Null
<1>0. Len(l) \in Nat /\ start \in Nat /\ PageSize \in Nat
  BY CalendarAssumption, LenProperties
<1>1. Len(l) \in Nat /\ start \in Nat /\ end \in start .. Len(l)
  BY <1>0
<1>2. ev \in Seq(Events)
  <2>1. \A i \in (start + 1) .. end : l[i] \in Events
    BY <1>1, ElementOfSeq
  <2> HIDE DEF end
  <2> QED BY <1>1, <2>1, SubSeqProperties
<1>3. cur \in Cursors \cup {Null}
  BY <1>1 DEF Cursors
<1>4. PageFrom(l, start) = [events |-> ev, cursor |-> cur]
  BY DEF PageFrom
<1>5. cur \in {Null, [offset |-> end, print |-> l]}
  OBVIOUS
<1> HIDE DEF end, ev, cur
<1>6. PageFrom(l, start) \in Pages
  BY <1>2, <1>3, <1>4 DEF Pages
<1> QED BY <1>1, <1>4, <1>5, <1>6 DEF ev

LEMMA ListEventsFirst ==
  ASSUME feed \in [Dates -> Versions], NEW q \in Queries
  PROVE  /\ feed[q.date] \in Versions
         /\ ListEvents(q, Null) = PageFrom(Listing(q, feed[q.date]), 0)
         /\ ListEvents(q, Null) \in Pages
<1>1. feed[q.date] \in Versions
  BY DEF Queries
<1>2. ListEvents(q, Null) = PageFrom(Listing(q, feed[q.date]), 0)
  BY DEF ListEvents, IsStale
<1>3. Listing(q, feed[q.date]) \in Seq(Events)
  BY <1>1, ListingFacts
<1> DEFINE l == Listing(q, feed[q.date])
<1> HIDE DEF l
<1>4. 0 \in 0 .. Len(l) /\ l \in Seq(Events)
  BY <1>3, LenProperties DEF l
<1>5. PageFrom(l, 0) \in Pages
  BY <1>4, PageFromFacts
<1> QED BY <1>1, <1>2, <1>5 DEF l

LEMMA ListEventsNext ==
  ASSUME feed \in [Dates -> Versions], NEW q \in Queries, NEW c \in Cursors
  PROVE  \/ ListEvents(q, c) = Stale
         \/ /\ ListEvents(q, c) = PageFrom(c.print, c.offset)
            /\ ListEvents(q, c) \in Pages
<1>1. feed[q.date] \in Versions /\ c # Null /\ c.print \in Seq(Events) /\ c.offset \in Nat
  BY CalendarAssumption DEF Queries, Cursors
<1> DEFINE l == Listing(q, feed[q.date])
<1>2. l \in Seq(Events)
  BY <1>1, ListingFacts
<1>3. CASE IsStale(c, l)
  BY <1>3 DEF ListEvents
<1>4. CASE ~ IsStale(c, l)
  <2>1. ListEvents(q, c) = PageFrom(l, c.offset)
    BY <1>1, <1>4 DEF ListEvents
  <2>2. c.print = l /\ c.offset <= Len(l) /\ Len(l) \in Nat
    BY <1>1, <1>2, <1>4 DEF IsStale
  <2> HIDE DEF l
  <2>3. c.offset \in 0 .. Len(l)
    BY <1>1, <2>2
  <2> QED BY <1>2, <2>1, <2>2, <2>3, PageFromFacts
<1> QED BY <1>3, <1>4

LEMMA LoadOfFacts ==
  ASSUME today \in Dates, NEW to \in Urls, NEW reval \in BOOLEAN
  PROVE  /\ LoadOf(to, reval) \in Loads /\ LoadOf(to, reval) # Null
         /\ LoadOf(to, reval).to = to /\ LoadOf(to, reval).reval = reval
         /\ LoadOf(to, reval).query = Parse(to) /\ LoadOf(to, reval).reply = Null
<1>1. Parse(to) \in Queries
  BY ParseFacts
<1>2. LoadOf(to, reval) \in Loads
  BY <1>1 DEF LoadOf, Loads
<1> QED BY <1>2, CalendarAssumption DEF LoadOf

LEMMA RevalidatedFacts ==
  ASSUME PageTypeOK
  PROVE  /\ Revalidated \in Loads /\ Revalidated # Null /\ Revalidated.reply = Null
         /\ Revalidated.query = Parse(Revalidated.to)
         /\ IF Navigating THEN ~ Revalidated.reval /\ Revalidated.to = load.to
                          ELSE Revalidated.reval /\ Revalidated.to = url
<1>1. CASE Navigating
  <2>1. load.to \in Urls
    BY <1>1 DEF Navigating, PageTypeOK, Loads
  <2> QED BY <1>1, <2>1, LoadOfFacts DEF Revalidated, PageTypeOK
<1>2. CASE ~ Navigating
  BY <1>2, LoadOfFacts DEF Revalidated, PageTypeOK
<1> QED BY <1>1, <1>2

LEMMA MergeType ==
  ASSUME PageTypeOK, NEW patch \in Patches
  PROVE  Merge(patch) \in Queries
  BY DEF PageTypeOK, Patches, Merge, Queries

LEMMA AbortedDetailsType ==
  ASSUME NEW ds \in SUBSET [event : Events, aborted : BOOLEAN]
  PROVE  /\ AbortDetails(ds) \subseteq [event : Events, aborted : BOOLEAN]
         /\ \A c \in AbortDetails(ds) : c.aborted
<1>1. ASSUME NEW c \in [event : Events, aborted : BOOLEAN]
      PROVE  [c EXCEPT !.aborted = TRUE] \in [event : Events, aborted : BOOLEAN]
             /\ [c EXCEPT !.aborted = TRUE].aborted
  OBVIOUS
<1> QED BY <1>1 DEF AbortDetails, Aborted

LEMMA AbortedMoreFacts ==
  ASSUME NEW rs \in SUBSET Requests
  PROVE  /\ AbortMore(rs) \subseteq Requests
         /\ \A c \in AbortMore(rs) : c.aborted /\ \E d \in rs : c.reply = d.reply /\ c.cursor = d.cursor
<1>1. ASSUME NEW c \in Requests
      PROVE  /\ [c EXCEPT !.aborted = TRUE] \in Requests
             /\ [c EXCEPT !.aborted = TRUE].aborted
             /\ [c EXCEPT !.aborted = TRUE].reply = c.reply
             /\ [c EXCEPT !.aborted = TRUE].cursor = c.cursor
  BY DEF Requests
<1> QED BY <1>1 DEF AbortMore, Aborted

-----------------------------------------------------------------------------
(* Types. *)

LEMMA ListTypes ==
  PageTypeOK => events \in Seq(Events) /\ cursor \in Cursors \cup {Null}
  BY DEF PageTypeOK, Pages

LEMMA PageInitTypes == PageInit => PageTypeOK
<1> SUFFICES ASSUME PageInit PROVE PageTypeOK
  OBVIOUS
<1>1. feed \in [Dates -> Versions] /\ today \in Dates /\ url \in Urls
  BY DEF PageInit
<1>2. PICK rendered \in Dates :
        LET q == IF url = Bare THEN [Parse(url) EXCEPT !.date = rendered] ELSE url IN
        data = [query |-> q, page |-> ListEvents(q, Null)]
  BY DEF PageInit
<1> DEFINE q == IF url = Bare THEN [Parse(url) EXCEPT !.date = rendered] ELSE url
<1>3. Parse(url) \in Queries
  BY <1>1, ParseFacts
<1>4. q \in Queries
  BY <1>1, <1>3 DEF Queries, Urls
<1>5. data = [query |-> q, page |-> ListEvents(q, Null)]
  BY <1>2
<1> HIDE DEF q
<1>6. data \in Loaded /\ data.query \in Queries /\ data.page \in Pages
  BY <1>1, <1>4, <1>5, ListEventsFirst DEF Loaded
<1>7. [events |-> events, cursor |-> cursor] \in Pages
  BY <1>6 DEF PageInit, Pages
<1>8. MaxEvents \in 0 .. MaxEvents
  BY CalendarAssumption
<1> QED BY <1>1, <1>3, <1>6, <1>7, <1>8 DEF PageInit, PageTypeOK, Queries, Urls

LEMMA ServerTypes ==
  ASSUME PageTypeOK, Server
  PROVE  PageTypeOK'
<1>1. feed' \in [Dates -> Versions] /\ today' \in Dates
  BY DEF Server, Refetch, Midnight, PageTypeOK
<1>2. UNCHANGED <<router, search, list, sheet, dirty, history>>
  BY DEF Server, Refetch, Midnight
<1> QED BY <1>1, <1>2 DEF PageTypeOK, router, search, list, sheet, history

LEMMA AnswerLoadTypes ==
  ASSUME PageTypeOK, NEW ok \in BOOLEAN, AnswerLoad(ok)
  PROVE  /\ PageTypeOK'
         /\ load' \in Loads /\ load'.to = load.to /\ load'.query = load.query
         /\ load'.reval = load.reval
         /\ load'.reply \in Loaded /\ load'.reply.query = load.query
         /\ load'.reply.page \in {NoPage, ListEvents(load.query, Null)}
<1>1. load \in Loads /\ load.query \in Queries
  BY DEF AnswerLoad, PageTypeOK, Loads
<1> DEFINE page == IF ok THEN ListEvents(load.query, Null) ELSE NoPage
           reply == [query |-> load.query, page |-> page]
<1>2. load' = [load EXCEPT !.reply = reply]
  BY DEF AnswerLoad
<1>3. NoPage \in Pages
  BY DEF NoPage, Pages
<1>4. page \in Pages /\ page \in {NoPage, ListEvents(load.query, Null)}
  BY <1>1, <1>3, ListEventsFirst DEF PageTypeOK
<1> HIDE DEF page
<1>5. reply \in Loaded /\ reply.query = load.query /\ reply.page = page
  BY <1>1, <1>4 DEF Loaded
<1> HIDE DEF reply
<1>6. /\ load' \in Loads /\ load'.to = load.to /\ load'.query = load.query
      /\ load'.reval = load.reval /\ load'.reply = reply
  BY <1>1, <1>2, <1>5 DEF Loads
<1>7. UNCHANGED <<server, url, data, search, list, sheet, dirty, history>>
  BY DEF AnswerLoad
<1>8. PageTypeOK'
  BY <1>6, <1>7 DEF PageTypeOK, server, search, list, sheet, history
<1> QED BY <1>4, <1>5, <1>6, <1>8

LEMMA CommitTypes ==
  ASSUME PageTypeOK, Commit
  PROVE  PageTypeOK'
<1>1. load \in Loads /\ load.to \in Urls /\ load.reply \in Loaded
  BY DEF Commit, PageTypeOK, Loads
<1>2. url' = load.to /\ data' = load.reply /\ load' = Null
  BY DEF Commit
<1>3. urlQuery' \in Queries
  BY <1>1, ParseFacts DEF Commit, PageTypeOK
<1>4. dirty' \subseteq {"url", "data", "key"} /\ slip' \in {"no", "hurried", "lost"}
  BY DEF Commit, PageTypeOK
<1>5. UNCHANGED <<server, query, accepted, requested, observed, list, sheet, wanted, left>>
  BY DEF Commit
<1> QED BY <1>1, <1>2, <1>3, <1>4, <1>5 DEF PageTypeOK, server, list, sheet

LEMMA UrlEffectTypes ==
  ASSUME PageTypeOK, UrlEffect
  PROVE  /\ query' \in Queries /\ accepted' \in Urls /\ requested' \in Urls \cup {Null}
         /\ observed' \in BOOLEAN /\ load' \in Loads \cup {Null}
<1>1. CASE "url" \in dirty /\ UrlAgrees
  BY <1>1 DEF UrlAgrees, PageTypeOK
<1>2. CASE "url" \in dirty /\ UrlDiffers
  <2>1. query' \in Queries /\ accepted' \in Urls
    BY <1>2 DEF UrlDiffers, PageTypeOK
  <2>2. LoadOf(urlQuery, FALSE) \in Loads
    BY LoadOfFacts DEF PageTypeOK, Urls
  <2>3. Seen \in BOOLEAN
    BY DEF Seen, Navigating, PageTypeOK
  <2>4. load' \in Loads \cup {Null} /\ requested' \in Urls \cup {Null}
    BY <1>2, <2>2 DEF UrlDiffers, PageTypeOK, Urls
  <2>5. observed' \in BOOLEAN
    BY <1>2, <2>3 DEF UrlDiffers
  <2> QED BY <2>1, <2>4, <2>5
<1>3. CASE "url" \notin dirty
  BY <1>3 DEF UrlEffect, PageTypeOK
<1> QED BY <1>1, <1>2, <1>3 DEF UrlEffect

LEMMA DataEffectTypes ==
  ASSUME PageTypeOK, DataEffect
  PROVE  /\ events' \in Seq(Events) /\ cursor' \in Cursors \cup {Null}
         /\ loadingMore' \in BOOLEAN /\ eventsQuery' \in Queries /\ keyRef' \in Queries
         /\ more' \subseteq Requests
<1>1. data.query \in Queries /\ data.page.events \in Seq(Events)
      /\ data.page.cursor \in Cursors \cup {Null}
  BY DEF PageTypeOK, Loaded, Pages
<1>2. more \subseteq Requests
  BY DEF PageTypeOK
<1>3. AbortMore(more) \subseteq Requests
  BY <1>2, AbortedMoreFacts
<1> QED BY <1>1, <1>3, ListTypes DEF DataEffect, PageTypeOK, list

LEMMA EffectsTypes ==
  ASSUME PageTypeOK, Effects
  PROVE  PageTypeOK'
<1>1. /\ query' \in Queries /\ accepted' \in Urls /\ requested' \in Urls \cup {Null}
      /\ observed' \in BOOLEAN /\ load' \in Loads \cup {Null}
  BY UrlEffectTypes DEF Effects
<1>2. /\ events' \in Seq(Events) /\ cursor' \in Cursors \cup {Null}
      /\ loadingMore' \in BOOLEAN /\ eventsQuery' \in Queries /\ keyRef' \in Queries
      /\ more' \subseteq Requests
  BY DataEffectTypes DEF Effects
<1>3. /\ selected' \in Events \cup {Null} /\ detail' \in Events \cup {Null}
      /\ details' \subseteq [event : Events, aborted : BOOLEAN]
  BY AbortedDetailsType DEF Effects, KeyEffect, Closed, sheet, PageTypeOK
<1>4. dirty' \subseteq {"url", "data", "key"}
  BY DEF Effects
<1>5. UNCHANGED <<server, url, data, urlQuery, history>>
  BY DEF Effects
<1>6. [events |-> events', cursor |-> cursor'] \in Pages
  BY <1>2 DEF Pages
<1> QED BY <1>1, <1>2, <1>3, <1>4, <1>5, <1>6 DEF PageTypeOK, server, history

LEMMA UserTypes ==
  ASSUME PageTypeOK, User
  PROVE  PageTypeOK'
<1>0. left' \in 0 .. MaxEvents
  <2>1. Acts
    BY DEF User, UpdateQuery, OtherNavigation, OpenEvent, Refresh, LoadMore, CloseDetails
  <2> QED BY <2>1, CalendarAssumption DEF Acts, PageTypeOK
<1>1. ASSUME NEW patch \in Patches, UpdateQuery(patch) PROVE PageTypeOK'
  <2>1. query' \in Queries /\ query' = Merge(patch)
    BY <1>1, MergeType DEF UpdateQuery
  <2>2. wanted' = query'
    BY <1>1, <2>1 DEF UpdateQuery, Merge
  <2>3. load' \in Loads
    BY <1>1, <2>1, LoadOfFacts DEF UpdateQuery, PageTypeOK, Urls
  <2>4. requested' = query' /\ observed' = FALSE /\ dirty' \subseteq {"url", "data", "key"}
        /\ slip' \in {"no", "hurried", "lost"}
    BY <1>1, <2>1 DEF UpdateQuery, StateChange
  <2>5. UNCHANGED <<server, url, data, urlQuery, accepted, list, sheet>>
    BY <1>1 DEF UpdateQuery
  <2> QED BY <1>0, <2>1, <2>2, <2>3, <2>4, <2>5 DEF PageTypeOK, Urls, server, list, sheet
<1>2. ASSUME NEW to \in Urls, OtherNavigation(to) PROVE PageTypeOK'
  <2>1. load' \in Loads
    BY <1>2, LoadOfFacts DEF OtherNavigation, PageTypeOK
  <2>2. wanted' = to /\ dirty' \subseteq {"url", "data", "key"} /\ slip' \in {"no", "hurried", "lost"}
    BY <1>2 DEF OtherNavigation, StateChange
  <2>3. UNCHANGED <<server, url, data, search, list, sheet>>
    BY <1>2 DEF OtherNavigation
  <2> QED BY <1>0, <2>1, <2>2, <2>3 DEF PageTypeOK, server, search, list, sheet
<1>3. CASE Refresh
  <2>1. load' \in Loads
    BY <1>3, RevalidatedFacts DEF Refresh
  <2>2. UNCHANGED <<server, url, data, search, list, sheet, dirty, wanted, slip>>
    BY <1>3 DEF Refresh
  <2> QED BY <1>0, <2>1, <2>2 DEF PageTypeOK, server, search, list, sheet
<1>4. CASE LoadMore
  <2>1. cursor \in Cursors
    BY <1>4, ListTypes DEF LoadMore
  <2>2. [query |-> query, cursor |-> cursor, aborted |-> FALSE, reply |-> Null] \in Requests
    BY <2>1 DEF Requests, PageTypeOK
  <2>3. more' \subseteq Requests /\ loadingMore' \in BOOLEAN
    BY <1>4, <2>2, AbortedMoreFacts DEF LoadMore, PageTypeOK
  <2>4. UNCHANGED <<server, router, search, events, eventsQuery, cursor, keyRef, sheet, dirty,
                    wanted, slip>>
    BY <1>4 DEF LoadMore
  <2> QED BY <1>0, <2>3, <2>4 DEF PageTypeOK, server, router, search, sheet
<1>5. ASSUME NEW i \in DOMAIN events, OpenEvent(events[i]) PROVE PageTypeOK'
  <2>1. events[i] \in Events
    BY ListTypes, LenProperties, ElementOfSeq
  <2>2. /\ selected' \in Events \cup {Null} /\ detail' \in Events \cup {Null}
        /\ details' \subseteq [event : Events, aborted : BOOLEAN]
    <3>1. details \subseteq [event : Events, aborted : BOOLEAN]
      BY DEF PageTypeOK
    <3>2. [event |-> events[i], aborted |-> FALSE] \in [event : Events, aborted : BOOLEAN]
      BY <2>1
    <3>3. AbortDetails(details) \subseteq [event : Events, aborted : BOOLEAN]
      BY <3>1, AbortedDetailsType
    <3> QED BY <1>5, <2>1, <3>2, <3>3 DEF OpenEvent
  <2>3. UNCHANGED <<server, router, search, list, dirty, wanted, slip>>
    BY <1>5 DEF OpenEvent
  <2> QED BY <1>0, <2>2, <2>3 DEF PageTypeOK, server, router, search, list
<1>6. CASE CloseDetails
  <2>1. /\ selected' \in Events \cup {Null} /\ detail' \in Events \cup {Null}
        /\ details' \subseteq [event : Events, aborted : BOOLEAN]
    BY <1>6, AbortedDetailsType DEF CloseDetails, Closed, PageTypeOK
  <2>2. UNCHANGED <<server, router, search, list, dirty, wanted, slip>>
    BY <1>6 DEF CloseDetails
  <2> QED BY <1>0, <2>1, <2>2 DEF PageTypeOK, server, router, search, list
<1> QED BY <1>1, <1>2, <1>3, <1>4, <1>5, <1>6 DEF User

LEMMA AnswerMoreFacts ==
  ASSUME PageTypeOK, NEW c \in more, NEW ok \in BOOLEAN, AnswerMore(c, ok)
  PROVE  \E a \in Requests :
           /\ more' = (more \ {c}) \cup {a}
           /\ a.query = c.query /\ a.cursor = c.cursor /\ a.aborted = c.aborted
           /\ a.reply \in {Failed, Stale, PageFrom(c.cursor.print, c.cursor.offset)}
<1>1. c \in Requests /\ c.query \in Queries /\ c.cursor \in Cursors
  BY DEF PageTypeOK, Requests
<1> DEFINE reply == IF ok THEN ListEvents(c.query, c.cursor) ELSE Failed
           a == [c EXCEPT !.reply = reply]
<1>2. reply \in Pages \cup {Failed, Stale}
  BY <1>1, ListEventsNext DEF PageTypeOK
<1>3. reply \in {Failed, Stale, PageFrom(c.cursor.print, c.cursor.offset)}
  BY <1>1, ListEventsNext DEF PageTypeOK
<1>4. more' = (more \ {c}) \cup {a}
  BY DEF AnswerMore
<1> HIDE DEF reply
<1>5. /\ a \in Requests
      /\ a.query = c.query /\ a.cursor = c.cursor /\ a.aborted = c.aborted /\ a.reply = reply
  BY <1>1, <1>2 DEF Requests
<1> HIDE DEF a
<1> QED BY <1>3, <1>4, <1>5

LEMMA AnswerMoreTypes ==
  ASSUME PageTypeOK, NEW c \in more, NEW ok \in BOOLEAN, AnswerMore(c, ok)
  PROVE  PageTypeOK'
<1>1. more' \subseteq Requests
  BY AnswerMoreFacts DEF PageTypeOK
<1>2. UNCHANGED <<server, router, search, events, eventsQuery, cursor, loadingMore, keyRef,
                  sheet, dirty, history>>
  BY DEF AnswerMore
<1> QED BY <1>1, <1>2 DEF PageTypeOK, server, router, search, sheet, history

LEMMA ReceiveDetailTypes ==
  ASSUME PageTypeOK, NEW c \in details, NEW ok \in BOOLEAN, ReceiveDetail(c, ok)
  PROVE  PageTypeOK'
<1>1. c \in [event : Events, aborted : BOOLEAN]
  BY DEF PageTypeOK
<1>2. details' \subseteq [event : Events, aborted : BOOLEAN] /\ detail' \in Events \cup {Null}
  BY <1>1 DEF ReceiveDetail, PageTypeOK
<1>3. UNCHANGED <<server, router, search, list, selected, dirty, history>>
  BY DEF ReceiveDetail
<1> QED BY <1>2, <1>3 DEF PageTypeOK, server, router, search, list, history

-----------------------------------------------------------------------------
(***************************************************************************)
(* The list.  Everything that may become the list - what is shown, the     *)
(* data of the location, the answer of a loader - is the beginning of one  *)
(* listing with the cursor where it ends.  A request for the next page     *)
(* that is not aborted asks from the cursor of the list, and what it is    *)
(* answered goes on from there in the listing that the cursor was made of. *)
(***************************************************************************)
Beginning(q, ev, cur) ==
  \E v \in Versions : LET l == Listing(q, v) IN
    /\ Len(ev) <= Len(l) /\ ev = SubSeq(l, 1, Len(ev))
    /\ cur # Null => cur = [offset |-> Len(ev), print |-> l]

ListInv ==
  /\ Beginning(eventsQuery, events, cursor)
  /\ Beginning(data.query, data.page.events, data.page.cursor)
  /\ load # Null /\ load.reply # Null =>
       /\ load.reply.query = load.query
       /\ Beginning(load.query, load.reply.page.events, load.reply.page.cursor)

MoreInv ==
  /\ \A c \in more :
       c.reply \in {Null, Failed, Stale, PageFrom(c.cursor.print, c.cursor.offset)}
  /\ \A c \in more : ~ c.aborted => c.cursor = cursor /\ cursor # Null
  /\ \A c, d \in more : ~ c.aborted /\ ~ d.aborted => c = d

LEMMA FirstPageBegins ==
  ASSUME feed \in [Dates -> Versions], NEW q \in Queries,
         NEW page \in {NoPage, ListEvents(q, Null)}
  PROVE  Beginning(q, page.events, page.cursor)
<1>1. feed[q.date] \in Versions
  BY DEF Queries
<1>2. CASE page = NoPage
  <2>1. page.events = <<>> /\ page.cursor = Null /\ Len(<<>>) = 0
    BY <1>2 DEF NoPage
  <2>2. Len(Listing(q, feed[q.date])) \in Nat
    BY <1>1, ListingFacts, LenProperties
  <2>3. SubSeq(Listing(q, feed[q.date]), 1, 0) = <<>>
    BY SubSeqEmpty
  <2> QED BY <1>1, <2>1, <2>2, <2>3 DEF Beginning
<1>3. CASE page = ListEvents(q, Null)
  <2> DEFINE l == Listing(q, feed[q.date])
  <2>1. l \in Seq(Events)
    BY <1>1, ListingFacts
  <2>2. page = PageFrom(l, 0)
    BY <1>3, ListEventsFirst
  <2>3. \E v \in Versions : Listing(q, v) = l
    BY <1>1
  <2> HIDE DEF l
  <2>4. Len(l) \in Nat /\ 0 \in 0 .. Len(l)
    BY <2>1, LenProperties
  <2>5. PICK n \in 0 .. Len(l) : /\ page.events = SubSeq(l, 0 + 1, n)
                                 /\ page.cursor \in {Null, [offset |-> n, print |-> l]}
    BY <2>1, <2>2, <2>4, PageFromFacts
  <2>6. Len(SubSeq(l, 1, n)) = n
    <3>1. \A i \in 1 .. n : l[i] \in Events
      BY <2>1, <2>4, ElementOfSeq
    <3> QED BY <2>4, <3>1, SubSeqProperties
  <2>7. Len(page.events) = n /\ page.events = SubSeq(l, 1, n) /\ n <= Len(l)
    BY <2>4, <2>5, <2>6
  <2> QED BY <2>3, <2>5, <2>7 DEF Beginning
<1> QED BY <1>2, <1>3

\* The next page of the listing: nothing in it is in the list already, and the
\* list with it is again the beginning of that listing.
LEMMA NextPageAppends ==
  ASSUME PageTypeOK, Beginning(eventsQuery, events, cursor), cursor # Null,
         NEW page, page = PageFrom(cursor.print, cursor.offset)
  PROVE  /\ Appended(page) \in Seq(Events) /\ page.cursor \in Cursors \cup {Null}
         /\ Beginning(eventsQuery, Appended(page), page.cursor)
<1>1. PICK v \in Versions : LET l == Listing(eventsQuery, v) IN
        /\ Len(events) <= Len(l) /\ events = SubSeq(l, 1, Len(events))
        /\ cursor = [offset |-> Len(events), print |-> l]
  BY DEF Beginning
<1> DEFINE l == Listing(eventsQuery, v)  m == Len(events)
<1>2. /\ l \in Seq(Events)
      /\ \A i, j \in 1 .. Len(l) : l[i] = l[j] => i = j
  BY ListingFacts DEF PageTypeOK
<1>3. events \in Seq(Events) /\ m \in Nat /\ Len(l) \in Nat /\ m <= Len(l)
  BY <1>1, <1>2, ListTypes, LenProperties
<1>4. events = SubSeq(l, 1, m) /\ page = PageFrom(l, m)
  BY <1>1
<1>5. \E w \in Versions : Listing(eventsQuery, w) = l
  OBVIOUS
<1> HIDE DEF l, m
<1>6. m \in 0 .. Len(l)
  BY <1>3
<1>7. PICK n \in m .. Len(l) : /\ page.events = SubSeq(l, m + 1, n)
                               /\ page.cursor \in {Null, [offset |-> n, print |-> l]}
  BY <1>2, <1>4, <1>6, PageFromFacts
<1>8. page \in Pages
  BY <1>2, <1>4, <1>6, PageFromFacts
<1>9. \A i \in 1 .. Len(l) : l[i] \in Events
  BY <1>2, ElementOfSeq
<1>10. /\ SubSeq(l, 1, m) \in Seq(Events) /\ Len(SubSeq(l, 1, m)) = m
       /\ \A i \in 1 .. m : SubSeq(l, 1, m)[i] = l[i]
  <2>1. \A i \in 1 .. m : l[i] \in Events
    BY <1>3, <1>9
  <2> QED BY <1>3, <2>1, SubSeqProperties
<1>11. /\ SubSeq(l, m + 1, n) \in Seq(Events) /\ Len(SubSeq(l, m + 1, n)) = n - m
       /\ \A i \in 1 .. n - m : SubSeq(l, m + 1, n)[i] = l[m + i]
  <2>1. \A i \in m + 1 .. n : l[i] \in Events
    BY <1>3, <1>9
  <2> QED BY <1>3, <2>1, SubSeqProperties
<1>12. \A i \in DOMAIN page.events : ~ Has(page.events[i])
  <2> SUFFICES ASSUME NEW i \in DOMAIN page.events, NEW j \in DOMAIN events,
                      events[j] = page.events[i]
               PROVE  FALSE
    BY DEF Has
  <2>1. i \in 1 .. n - m /\ j \in 1 .. m
    BY <1>4, <1>7, <1>10, <1>11, LenProperties
  <2>2. events[j] = l[j]
    BY <1>4, <1>10, <2>1
  <2>3. page.events[i] = l[m + i]
    BY <1>7, <1>11, <2>1
  <2>4. j \in 1 .. Len(l) /\ m + i \in 1 .. Len(l) /\ j # m + i
    BY <1>3, <2>1
  <2> QED BY <1>2, <2>2, <2>3, <2>4
<1>13. Appended(page) = SubSeq(l, 1, m) \o SubSeq(l, m + 1, n)
  BY <1>4, <1>7, <1>12 DEF Appended
<1>14. SubSeq(l, 1, m) \o SubSeq(l, m + 1, n) = SubSeq(l, 1, n)
  BY <1>2, <1>3, ConcatAdjacentSubSeq
<1>15. SubSeq(l, 1, n) \in Seq(Events) /\ Len(SubSeq(l, 1, n)) = n
  <2>1. \A i \in 1 .. n : l[i] \in Events
    BY <1>3, <1>9
  <2> QED BY <1>3, <2>1, SubSeqProperties
<1>16. Len(Appended(page)) = n /\ Appended(page) = SubSeq(l, 1, n) /\ n <= Len(l)
  BY <1>3, <1>13, <1>14, <1>15
<1>17. Beginning(eventsQuery, Appended(page), page.cursor)
  BY <1>5, <1>7, <1>16 DEF Beginning
<1> QED BY <1>8, <1>15, <1>16, <1>17 DEF Pages

\* The two sides of a received page.
LEMMA ReceiveMoreFacts ==
  ASSUME PageTypeOK, ListInv, MoreInv, NEW c \in more, ReceiveMore(c)
  PROVE  /\ events' \in Seq(Events) /\ cursor' \in Cursors \cup {Null}
         /\ Beginning(eventsQuery, events', cursor')
         /\ load' = load \/ load' = Revalidated
         /\ c.aborted => cursor' = cursor
<1>1. CASE c.aborted \/ keyRef # c.query
  BY <1>1, ListTypes DEF ReceiveMore, ListInv
<1>2. CASE ~ (c.aborted \/ keyRef # c.query)
  <2>1. CASE c.reply = Failed /\ UNCHANGED <<load, events, cursor>>
    BY <1>2, <2>1, ListTypes DEF ListInv
  <2>2. CASE c.reply = Stale /\ cursor' = Null /\ load' = Revalidated /\ UNCHANGED events
    <3>1. Beginning(eventsQuery, events, Null)
      BY DEF ListInv, Beginning
    <3> QED BY <1>2, <2>2, <3>1, ListTypes
  <2>3. CASE /\ c.reply \notin {Failed, Stale}
             /\ events' = Appended(c.reply) /\ cursor' = c.reply.cursor
             /\ UNCHANGED load
    <3>1. c.cursor = cursor /\ cursor # Null
      BY <1>2 DEF MoreInv
    <3>2. c.reply = PageFrom(cursor.print, cursor.offset)
      BY <2>3, <3>1 DEF ReceiveMore, MoreInv
    <3> QED BY <1>2, <2>3, <3>1, <3>2, NextPageAppends DEF ListInv
  <2> QED BY <1>2, <2>1, <2>2, <2>3 DEF ReceiveMore
<1> QED BY <1>1, <1>2

LEMMA ReceiveMoreTypes ==
  ASSUME PageTypeOK, ListInv, MoreInv, NEW c \in more, ReceiveMore(c)
  PROVE  PageTypeOK'
<1>1. [events |-> events', cursor |-> cursor'] \in Pages
  BY ReceiveMoreFacts DEF Pages
<1>2. load' \in Loads \cup {Null}
  BY ReceiveMoreFacts, RevalidatedFacts DEF PageTypeOK
<1>3. more' \subseteq Requests /\ loadingMore' \in BOOLEAN
  BY DEF ReceiveMore, PageTypeOK
<1>4. UNCHANGED <<server, url, data, search, eventsQuery, keyRef, sheet, dirty, history>>
  BY DEF ReceiveMore
<1> QED BY <1>1, <1>2, <1>3, <1>4 DEF PageTypeOK, server, search, sheet, history

LEMMA PageTypesStep ==
  ASSUME PageTypeOK, ListInv, MoreInv, [PageNext]_pageVars
  PROVE  PageTypeOK'
<1>1. CASE UNCHANGED pageVars
  BY <1>1 DEF PageTypeOK, pageVars, server, router, search, list, sheet, history
<1>2. CASE Responses
  BY <1>2, AnswerLoadTypes, ReceiveMoreTypes, AnswerMoreTypes, ReceiveDetailTypes DEF Responses
<1> QED BY <1>1, <1>2, ServerTypes, UserTypes, EffectsTypes, CommitTypes DEF PageNext

LEMMA PageInitList == PageInit => ListInv /\ MoreInv
<1> SUFFICES ASSUME PageInit PROVE ListInv /\ MoreInv
  OBVIOUS
<1>1. PageTypeOK
  BY PageInitTypes
<1>2. data.query \in Queries /\ feed \in [Dates -> Versions]
  BY <1>1 DEF PageTypeOK, Loaded
<1>3. data.page = ListEvents(data.query, Null)
  BY DEF PageInit
<1>4. Beginning(data.query, data.page.events, data.page.cursor)
  BY <1>2, <1>3, FirstPageBegins
<1> QED BY <1>4 DEF PageInit, ListInv, MoreInv

LEMMA ListStep ==
  ASSUME PageTypeOK, ListInv, MoreInv, [PageNext]_pageVars
  PROVE  ListInv'
<1>1. CASE UNCHANGED <<data, load, events, eventsQuery, cursor>>
  BY <1>1 DEF ListInv, Beginning
<1>2. ASSUME UNCHANGED <<data, events, eventsQuery, cursor>>, load' # Null => load'.reply = Null
      PROVE  ListInv'
  BY <1>2 DEF ListInv, Beginning
<1>3. CASE Server
  BY <1>1, <1>3 DEF Server, Refetch, Midnight, router, list
<1>4. CASE User
  <2>1. UNCHANGED <<data, events, eventsQuery, cursor>>
    BY <1>4 DEF User, UpdateQuery, OtherNavigation, OpenEvent, Refresh, LoadMore, CloseDetails,
       router, list
  <2>2. load' = load \/ load'.reply = Null
    <3>1. ASSUME NEW patch \in Patches, UpdateQuery(patch) PROVE load'.reply = Null
      BY <3>1 DEF UpdateQuery, LoadOf
    <3>2. ASSUME NEW to \in Urls, OtherNavigation(to) PROVE load'.reply = Null
      BY <3>2 DEF OtherNavigation, LoadOf
    <3>3. Refresh => load'.reply = Null
      BY RevalidatedFacts DEF Refresh
    <3> QED BY <1>4, <3>1, <3>2, <3>3 DEF User, OpenEvent, LoadMore, CloseDetails, router
  <2> QED BY <1>1, <1>2, <2>1, <2>2
<1>5. CASE Effects
  <2>1. UNCHANGED data /\ DataEffect
    BY <1>5 DEF Effects
  <2>2. load' = load \/ (load'.reply = Null)
    <3>1. load' = load \/ load' = LoadOf(urlQuery, FALSE)
      BY <1>5 DEF Effects, UrlEffect, UrlAgrees, UrlDiffers
    <3> QED BY <3>1 DEF LoadOf
  <2>3. Beginning(eventsQuery', events', cursor')
    BY <2>1 DEF DataEffect, ListInv, Beginning, list
  <2> QED BY <2>1, <2>2, <2>3 DEF ListInv, Beginning
<1>6. CASE Commit
  <2>1. load # Null /\ load.reply # Null /\ data' = load.reply /\ load' = Null
        /\ UNCHANGED <<events, eventsQuery, cursor>>
    BY <1>6 DEF Commit, list
  <2>2. data'.query = load.query
    BY <2>1 DEF ListInv
  <2> QED BY <2>1, <2>2 DEF ListInv, Beginning
<1>7. ASSUME NEW ok \in BOOLEAN, AnswerLoad(ok) PROVE ListInv'
  <2>1. UNCHANGED <<data, events, eventsQuery, cursor>>
    BY <1>7 DEF AnswerLoad, list
  <2>2. /\ load'.query = load.query /\ load'.reply.query = load.query
        /\ load'.reply.page \in {NoPage, ListEvents(load.query, Null)}
    BY <1>7, AnswerLoadTypes
  <2>3. load.query \in Queries /\ feed \in [Dates -> Versions]
    BY <1>7 DEF AnswerLoad, PageTypeOK, Loads
  <2>4. Beginning(load.query, load'.reply.page.events, load'.reply.page.cursor)
    BY <2>2, <2>3, FirstPageBegins
  <2> QED BY <2>1, <2>2, <2>4 DEF ListInv, Beginning
<1>8. ASSUME NEW c \in more, ReceiveMore(c) PROVE ListInv'
  <2>1. /\ Beginning(eventsQuery, events', cursor') /\ UNCHANGED <<data, eventsQuery>>
        /\ load' = load \/ load'.reply = Null
    BY <1>8, ReceiveMoreFacts, RevalidatedFacts DEF ReceiveMore
  <2> QED BY <2>1 DEF ListInv, Beginning
<1>9. ASSUME NEW c \in more, NEW ok \in BOOLEAN, AnswerMore(c, ok) PROVE ListInv'
  BY <1>1, <1>9 DEF AnswerMore, router
<1>10. ASSUME NEW c \in details, NEW ok \in BOOLEAN, ReceiveDetail(c, ok) PROVE ListInv'
  BY <1>1, <1>10 DEF ReceiveDetail, router, list
<1>11. CASE UNCHANGED pageVars
  BY <1>1, <1>11 DEF pageVars, router, list
<1> QED BY <1>3, <1>4, <1>5, <1>6, <1>7, <1>8, <1>9, <1>10, <1>11 DEF PageNext, Responses

LEMMA MoreStep ==
  ASSUME PageTypeOK, ListInv, MoreInv, [PageNext]_pageVars
  PROVE  MoreInv'
<1>1. CASE UNCHANGED <<more, cursor>>
  BY <1>1 DEF MoreInv
<1>2. /\ \A c \in AbortMore(more) : c.aborted
      /\ \A c \in AbortMore(more) :
           c.reply \in {Null, Failed, Stale, PageFrom(c.cursor.print, c.cursor.offset)}
  BY AbortedMoreFacts DEF PageTypeOK, MoreInv
<1>3. CASE LoadMore
  <2> DEFINE a == [query |-> query, cursor |-> cursor, aborted |-> FALSE, reply |-> Null]
  <2>1. more' = AbortMore(more) \cup {a} /\ cursor' = cursor /\ cursor # Null
    BY <1>3 DEF LoadMore
  <2>2. a.aborted = FALSE /\ a.reply = Null /\ a.cursor = cursor
    OBVIOUS
  <2> HIDE DEF a
  <2> QED BY <1>2, <2>1, <2>2 DEF MoreInv
<1>4. CASE Effects
  <2>1. DataEffect
    BY <1>4 DEF Effects
  <2>2. CASE "data" \in dirty
    BY <1>2, <2>1, <2>2 DEF DataEffect, MoreInv
  <2>3. CASE "data" \notin dirty
    BY <1>1, <2>1, <2>3 DEF DataEffect, list
  <2> QED BY <2>2, <2>3
<1>5. ASSUME NEW c \in more, NEW ok \in BOOLEAN, AnswerMore(c, ok) PROVE MoreInv'
  <2>1. PICK a \in Requests :
           /\ more' = (more \ {c}) \cup {a}
           /\ a.query = c.query /\ a.cursor = c.cursor /\ a.aborted = c.aborted
           /\ a.reply \in {Failed, Stale, PageFrom(c.cursor.print, c.cursor.offset)}
    BY <1>5, AnswerMoreFacts
  <2>2. cursor' = cursor
    BY <1>5 DEF AnswerMore
  <2> QED BY <2>1, <2>2 DEF MoreInv
<1>6. ASSUME NEW c \in more, ReceiveMore(c) PROVE MoreInv'
  <2>1. more' = more \ {c} /\ (c.aborted => cursor' = cursor)
    BY <1>6, ReceiveMoreFacts DEF ReceiveMore
  <2>2. \A d \in more' : ~ d.aborted => c.aborted
    BY <2>1 DEF MoreInv
  <2> QED BY <2>1, <2>2 DEF MoreInv
<1>7. ASSUME NEW patch \in Patches, UpdateQuery(patch) PROVE MoreInv'
  BY <1>1, <1>7 DEF UpdateQuery, list
<1>8. ASSUME NEW to \in Urls, OtherNavigation(to) PROVE MoreInv'
  BY <1>1, <1>8 DEF OtherNavigation, list
<1>9. ASSUME NEW e, OpenEvent(e) PROVE MoreInv'
  BY <1>1, <1>9 DEF OpenEvent, list
<1>10. CASE Refresh \/ CloseDetails \/ Commit \/ Server \/ UNCHANGED pageVars
  BY <1>1, <1>10 DEF Refresh, CloseDetails, Commit, Server, Refetch, Midnight, pageVars, list
<1>11. ASSUME NEW ok \in BOOLEAN, AnswerLoad(ok) PROVE MoreInv'
  BY <1>1, <1>11 DEF AnswerLoad, list
<1>12. ASSUME NEW c \in details, NEW ok \in BOOLEAN, ReceiveDetail(c, ok) PROVE MoreInv'
  BY <1>1, <1>12 DEF ReceiveDetail, list
<1> QED BY <1>3, <1>4, <1>5, <1>6, <1>7, <1>8, <1>9, <1>10, <1>11, <1>12
        DEF PageNext, User, Responses

-----------------------------------------------------------------------------
(***************************************************************************)
(* The sheet with the details.  A request that is not aborted is for the   *)
(* selected event.  What is selected was taken from the list of the query  *)
(* shown; once the query changes, the effect that closes the sheet is due, *)
(* and until it has run the list is not that of the new query.             *)
(***************************************************************************)
SheetInv ==
  /\ detail = selected
  /\ \A c \in details : ~ c.aborted => c.event = selected
  /\ selected # Null =>
       IF "key" \in dirty THEN eventsQuery # query
       ELSE eventsQuery = query /\ selected[1] = query.date

LEMMA PageInitSheet == PageInit => SheetInv
  BY DEF PageInit, SheetInv

\* The events of the list are of its date.
LEMMA ListDated ==
  ASSUME PageTypeOK, Beginning(eventsQuery, events, cursor), NEW i \in DOMAIN events
  PROVE  events[i][1] = eventsQuery.date
<1>1. PICK v \in Versions : LET l == Listing(eventsQuery, v) IN
        Len(events) <= Len(l) /\ events = SubSeq(l, 1, Len(events))
  BY DEF Beginning
<1> DEFINE l == Listing(eventsQuery, v)
<1>2. l \in Seq(Events) /\ \A k \in 1 .. Len(l) : l[k][1] = eventsQuery.date
  BY ListingFacts DEF PageTypeOK
<1>3. Len(events) <= Len(l) /\ events = SubSeq(l, 1, Len(events))
  BY <1>1
<1> HIDE DEF l
<1>4. Len(events) \in Nat /\ Len(l) \in Nat /\ i \in 1 .. Len(events)
  BY <1>2, ListTypes, LenProperties
<1>5. \A k \in 1 .. Len(events) : l[k] \in Events
  BY <1>2, <1>3, <1>4, ElementOfSeq
<1>6. SubSeq(l, 1, Len(events))[i] = l[i]
  BY <1>4, <1>5, SubSeqProperties
<1> QED BY <1>2, <1>3, <1>4, <1>6

LEMMA SheetStep ==
  ASSUME PageTypeOK, ListInv, SheetInv, [PageNext]_pageVars
  PROVE  SheetInv'
<1>1. CASE UNCHANGED <<sheet, dirty, eventsQuery, query>>
  BY <1>1 DEF SheetInv, sheet
<1>2. \A c \in AbortDetails(details) : c.aborted
  BY AbortedDetailsType DEF PageTypeOK
<1>3. ASSUME NEW patch \in Patches, UpdateQuery(patch) PROVE SheetInv'
  <2>1. UNCHANGED <<sheet, eventsQuery>> /\ dirty = {}
    BY <1>3 DEF UpdateQuery, Acts, list
  <2>2. "key" \in dirty' <=> query' # query
    BY <1>3 DEF UpdateQuery, StateChange
  <2> QED BY <2>1, <2>2 DEF SheetInv, sheet
<1>4. ASSUME NEW to \in Urls, OtherNavigation(to) PROVE SheetInv'
  <2>1. UNCHANGED <<sheet, eventsQuery, query>> /\ dirty = {}
    BY <1>4 DEF OtherNavigation, Acts, list, search
  <2>2. "key" \notin dirty'
    BY <1>4 DEF OtherNavigation, StateChange
  <2> QED BY <2>1, <2>2 DEF SheetInv, sheet
<1>5. ASSUME NEW i \in DOMAIN events, OpenEvent(events[i]) PROVE SheetInv'
  <2>1. events[i][1] = query.date /\ eventsQuery = query
    BY <1>5, ListDated DEF OpenEvent, ResultsAreCurrent, ListInv
  <2>2. UNCHANGED <<dirty, query, eventsQuery>> /\ dirty = {}
    BY <1>5 DEF OpenEvent, Acts, list, search
  <2>3. /\ selected' = events[i] /\ detail' = events[i]
        /\ details' = AbortDetails(details) \cup {[event |-> events[i], aborted |-> FALSE]}
    BY <1>5 DEF OpenEvent
  <2> QED BY <1>2, <2>1, <2>2, <2>3 DEF SheetInv
<1>6. CASE Closed
  BY <1>2, <1>6 DEF Closed, SheetInv
<1>7. CASE Effects
  <2>1. CASE "key" \in dirty
    BY <1>6, <1>7, <2>1 DEF Effects, KeyEffect
  <2>2. CASE "key" \notin dirty
    <3>1. UNCHANGED sheet
      BY <1>7, <2>2 DEF Effects, KeyEffect
    <3>2. "key" \in dirty' <=> query' # query
      BY <1>7 DEF Effects
    <3>3. eventsQuery' = eventsQuery \/ eventsQuery' = query
      BY <1>7 DEF Effects, DataEffect, list
    <3>4. selected # Null => eventsQuery' = query
      BY <2>2, <3>3 DEF SheetInv
    <3> QED BY <2>2, <3>1, <3>2, <3>4 DEF SheetInv, sheet
  <2> QED BY <2>1, <2>2
<1>8. CASE Commit
  <2>1. UNCHANGED <<sheet, query, eventsQuery>> /\ dirty = {} /\ "key" \notin dirty'
    BY <1>8 DEF Commit, list
  <2> QED BY <2>1 DEF SheetInv, sheet
<1>9. ASSUME NEW c \in details, NEW ok \in BOOLEAN, ReceiveDetail(c, ok) PROVE SheetInv'
  <2>1. UNCHANGED <<selected, dirty, query, eventsQuery>>
    BY <1>9 DEF ReceiveDetail, search, list
  <2>2. details' = details \ {c} /\ detail' = selected
    BY <1>9 DEF ReceiveDetail, SheetInv
  <2> QED BY <2>1, <2>2 DEF SheetInv
<1>10. ASSUME NEW c \in more, ReceiveMore(c) PROVE SheetInv'
  BY <1>1, <1>10 DEF ReceiveMore, search
<1>11. ASSUME NEW c \in more, NEW ok \in BOOLEAN, AnswerMore(c, ok) PROVE SheetInv'
  BY <1>1, <1>11 DEF AnswerMore, search
<1>12. ASSUME NEW ok \in BOOLEAN, AnswerLoad(ok) PROVE SheetInv'
  BY <1>1, <1>12 DEF AnswerLoad, search, list
<1>13. CASE Refresh \/ LoadMore \/ Server \/ UNCHANGED pageVars
  BY <1>1, <1>13 DEF Refresh, LoadMore, Server, Refetch, Midnight, pageVars, search, list
<1>14. CASE CloseDetails
  BY <1>6, <1>14 DEF CloseDetails
<1> QED BY <1>3, <1>4, <1>5, <1>7, <1>8, <1>9, <1>10, <1>11, <1>12, <1>13, <1>14
        DEF PageNext, User, Responses

-----------------------------------------------------------------------------
(***************************************************************************)
(* The query, the URL and what was chosen.  Without an effect due and      *)
(* without a navigation the URL and the query agree, unless a request for  *)
(* another URL is open whose navigation the page has not seen; such a      *)
(* request comes from a choice made during a navigation ("hurried"), and   *)
(* that navigation either goes to the query or changes the URL.            *)
(***************************************************************************)

\* What is known of a location follows from it.
UrlInv == url # Bare => data.query = url /\ urlQuery = url

LoadInv == load # Null =>
  /\ load.to # Bare => load.query = load.to
  /\ load.reval => load.to = url

FollowInv == "data" \notin dirty /\ data.query = query => eventsQuery = query

\* When the effect on the URL is due.
DueInv ==
  /\ accepted # url => "url" \in dirty /\ ~ Navigating
  /\ requested = Null /\ url # query =>
       "url" \in dirty /\ ~ Navigating /\ (accepted # url \/ url = Bare)
  /\ ~ Navigating /\ "url" \notin dirty /\ slip # "lost" => url = query

\* A request whose navigation was not seen.
RequestInv ==
  /\ Navigating /\ "url" \notin dirty /\ slip = "no" /\ requested # Null => observed
  /\ slip = "hurried" => Navigating /\ (load.to = query \/ load.to # url)
  /\ "url" \in dirty /\ ~ Navigating /\ slip # "lost" /\ requested # Null /\ ~ observed =>
       url = query \/ accepted # url

WantedInv == wanted # Bare => IF Navigating THEN load.to = wanted ELSE url = wanted

SearchInv == UrlInv /\ LoadInv /\ FollowInv /\ DueInv /\ RequestInv /\ WantedInv

LEMMA PageInitSearch == PageInit => SearchInv
<1> SUFFICES ASSUME PageInit PROVE SearchInv
  OBVIOUS
<1>1. url # Bare => data.query = url
  BY DEF PageInit
<1>2. /\ url # Bare => urlQuery = url /\ query = url
      /\ load = Null /\ eventsQuery = data.query /\ dirty = {"url", "data", "key"}
      /\ accepted = url /\ requested = Null /\ wanted = url /\ slip = "no"
  BY DEF PageInit, Parse
<1> QED BY <1>1, <1>2 DEF SearchInv, UrlInv, LoadInv, FollowInv, DueInv, RequestInv, WantedInv,
           Navigating

\* A step that leaves the navigation alone, if there is one.
LEMMA SearchSame ==
  ASSUME SearchInv, LoadInv', Navigating' <=> Navigating, Navigating => load'.to = load.to,
         UNCHANGED <<url, data, search, eventsQuery, dirty, wanted, slip>>
  PROVE  SearchInv'
<1>1. UNCHANGED <<url, data, query, urlQuery, accepted, requested, observed, eventsQuery, dirty,
                  wanted, slip>>
  BY DEF search
<1> DEFINE nav == Navigating
<1>2. nav' <=> nav
  OBVIOUS
<1>3. UrlInv' /\ FollowInv'
  BY <1>1 DEF SearchInv, UrlInv, FollowInv
<1>4. DueInv'
  BY <1>1, <1>2 DEF SearchInv, DueInv
<1>5. RequestInv'
  BY <1>1, <1>2 DEF SearchInv, RequestInv
<1>6. WantedInv'
  BY <1>1, <1>2 DEF SearchInv, WantedInv
<1> QED BY <1>3, <1>4, <1>5, <1>6 DEF SearchInv

LEMMA SearchRevalidated ==
  ASSUME PageTypeOK, SearchInv, load' = Revalidated,
         UNCHANGED <<url, data, search, eventsQuery, dirty, wanted, slip>>
  PROVE  SearchInv'
<1>1. /\ load' \in Loads /\ load' # Null /\ load'.query = Parse(load'.to)
      /\ IF Navigating THEN ~ load'.reval /\ load'.to = load.to
                       ELSE load'.reval /\ load'.to = url
  BY RevalidatedFacts
<1>2. load'.to # Bare => load'.query = load'.to
  BY <1>1 DEF Parse
<1>3. LoadInv'
  BY <1>1, <1>2 DEF LoadInv
<1>4. Navigating' <=> Navigating
  BY <1>1 DEF Navigating
<1> QED BY <1>1, <1>3, <1>4, SearchSame

LEMMA SearchUpdateQuery ==
  ASSUME PageTypeOK, SearchInv, NEW patch \in Patches, UpdateQuery(patch)
  PROVE  SearchInv'
<1> DEFINE next == Merge(patch)
<1>1. next \in Queries /\ next \in Urls /\ next # Null
  BY MergeType, CalendarAssumption DEF Urls
<1>2. /\ dirty = {} /\ query' = next /\ requested' = next /\ observed' = FALSE
      /\ load' = LoadOf(next, FALSE) /\ wanted' = next
      /\ dirty' = StateChange \cup (IF next # query THEN {"data", "key"} ELSE {})
      /\ slip' = IF Navigating THEN "hurried" ELSE "no"
      /\ UNCHANGED <<url, data, urlQuery, accepted, eventsQuery>>
  BY DEF UpdateQuery, Acts, Merge, list
<1> HIDE DEF next
<1>3. /\ load' # Null /\ load'.to = next /\ ~ load'.reval /\ load'.query = Parse(next)
      /\ Navigating'
  BY <1>1, <1>2, LoadOfFacts DEF PageTypeOK, Navigating
<1>4. UrlInv' /\ WantedInv'
  BY <1>2, <1>3 DEF SearchInv, UrlInv, WantedInv
<1>5. LoadInv'
  BY <1>3 DEF LoadInv, Parse
<1>6. FollowInv'
  BY <1>2 DEF SearchInv, FollowInv
<1>7. DueInv'
  BY <1>1, <1>2, <1>3 DEF SearchInv, DueInv
<1>8. RequestInv'
  BY <1>2, <1>3 DEF RequestInv, StateChange
<1> QED BY <1>4, <1>5, <1>6, <1>7, <1>8 DEF SearchInv

LEMMA SearchOtherNavigation ==
  ASSUME PageTypeOK, SearchInv, NEW to \in Urls, OtherNavigation(to)
  PROVE  SearchInv'
<1>1. /\ dirty = {} /\ load' = LoadOf(to, FALSE) /\ dirty' = StateChange /\ wanted' = to
      /\ slip' = IF Navigating /\ slip # "no" THEN IF to = url THEN "lost" ELSE "hurried"
                 ELSE "no"
      /\ UNCHANGED <<url, data, query, urlQuery, accepted, requested, observed, eventsQuery>>
  BY DEF OtherNavigation, Acts, search, list
<1>2. /\ load' # Null /\ load'.to = to /\ ~ load'.reval /\ load'.query = Parse(to)
      /\ Navigating'
  BY <1>1, LoadOfFacts DEF PageTypeOK, Navigating
<1>3. UrlInv' /\ WantedInv'
  BY <1>1, <1>2 DEF SearchInv, UrlInv, WantedInv
<1>4. LoadInv'
  BY <1>2 DEF LoadInv, Parse
<1>5. FollowInv'
  BY <1>1 DEF SearchInv, FollowInv
<1>6. DueInv'
  BY <1>1, <1>2 DEF SearchInv, DueInv
<1>7. RequestInv'
  BY <1>1, <1>2 DEF SearchInv, RequestInv, StateChange
<1> QED BY <1>3, <1>4, <1>5, <1>6, <1>7 DEF SearchInv

LEMMA SearchCommit ==
  ASSUME PageTypeOK, ListInv, SearchInv, Commit
  PROVE  SearchInv'
<1>1. /\ dirty = {} /\ load # Null /\ load.reply # Null
      /\ url' = load.to /\ data' = load.reply /\ load' = Null
      /\ urlQuery' = (IF load.to = url THEN urlQuery ELSE Parse(load.to))
      /\ dirty' = {"data"} \cup (IF load.reval THEN {} ELSE {"url"})
      /\ slip' = (IF slip = "lost" THEN slip ELSE "no")
      /\ UNCHANGED <<query, accepted, requested, observed, wanted>>
  BY DEF Commit
<1>2. ~ Navigating' /\ (Navigating <=> ~ load.reval)
  BY <1>1 DEF Navigating
<1>3. /\ accepted = url
      /\ requested = Null => url = query
      /\ load.reval => load.to = url
      /\ slip \in {"no", "hurried", "lost"}
  BY <1>1 DEF SearchInv, DueInv, LoadInv, PageTypeOK
<1>4. UrlInv'
  <2>1. load.to # Bare => data'.query = load.to
    BY <1>1 DEF SearchInv, LoadInv, ListInv
  <2>2. load.to # Bare => urlQuery' = load.to
    BY <1>1 DEF SearchInv, UrlInv, Parse
  <2> QED BY <1>1, <2>1, <2>2 DEF UrlInv
<1>5. LoadInv' /\ FollowInv'
  BY <1>1 DEF LoadInv, FollowInv
<1>6. DueInv'
  <2>1. CASE load.reval
    BY <1>1, <1>2, <1>3, <2>1 DEF SearchInv, DueInv
  <2>2. CASE ~ load.reval
    BY <1>1, <1>2, <1>3, <2>2 DEF DueInv
  <2> QED BY <2>1, <2>2
<1>7. RequestInv'
  BY <1>1, <1>2, <1>3 DEF SearchInv, RequestInv
<1>8. WantedInv'
  BY <1>1, <1>2, <1>3 DEF SearchInv, WantedInv
<1> QED BY <1>4, <1>5, <1>6, <1>7, <1>8 DEF SearchInv

LEMMA SearchEffects ==
  ASSUME PageTypeOK, SearchInv, Effects
  PROVE  SearchInv'
<1>1. /\ UrlEffect /\ DataEffect
      /\ dirty' = (IF query' # query THEN {"data", "key"} ELSE {})
                  \cup (IF load' # load THEN {"url"} ELSE {})
      /\ UNCHANGED <<url, data, urlQuery, wanted, slip>>
  BY DEF Effects, history
<1>2. UrlInv'
  BY <1>1 DEF SearchInv, UrlInv
<1>3. FollowInv'
  <2>1. CASE query' = query
    BY <1>1, <2>1 DEF DataEffect, SearchInv, FollowInv, list
  <2>2. CASE query' # query
    BY <1>1, <2>2 DEF FollowInv
  <2> QED BY <2>1, <2>2
<1>4. urlQuery \in Queries /\ urlQuery \in Urls /\ urlQuery # Bare /\ urlQuery # Null
  BY CalendarAssumption DEF PageTypeOK, Urls
<1>5. CASE UNCHANGED <<query, accepted, requested, observed, load>> /\ "url" \notin dirty
  <2>1. dirty' = {} /\ (Navigating' <=> Navigating)
    BY <1>1, <1>5 DEF Navigating
  <2>2. LoadInv' /\ WantedInv'
    BY <1>1, <1>5, <2>1 DEF SearchInv, LoadInv, WantedInv
  <2>3. DueInv'
    BY <1>1, <1>5, <2>1 DEF SearchInv, DueInv
  <2>4. RequestInv'
    BY <1>1, <1>5, <2>1 DEF SearchInv, RequestInv
  <2> QED BY <1>2, <1>3, <2>2, <2>3, <2>4 DEF SearchInv
<1>6. CASE "url" \in dirty /\ UrlAgrees
  <2>1. /\ url = query /\ accepted' = url /\ requested' = Null /\ UNCHANGED <<query, load>>
        /\ dirty' = {} /\ (Navigating' <=> Navigating)
    BY <1>1, <1>6 DEF UrlAgrees, Navigating
  <2>2. LoadInv' /\ WantedInv'
    BY <1>1, <2>1 DEF SearchInv, LoadInv, WantedInv
  <2>3. DueInv' /\ RequestInv'
    BY <1>1, <2>1 DEF SearchInv, DueInv, RequestInv
  <2> QED BY <1>2, <1>3, <2>2, <2>3 DEF SearchInv
<1>7. CASE "url" \in dirty /\ UrlDiffers /\ (FollowUrl \/ Canonical) /\ urlQuery # url
  <2>1. /\ load' = LoadOf(urlQuery, FALSE) /\ requested' = urlQuery /\ ~ Navigating
        /\ accepted' \in {accepted, url} /\ (FollowUrl => accepted' = url)
    BY <1>7 DEF UrlDiffers, FollowUrl, Canonical
  <2>2. /\ load' # Null /\ load'.to = urlQuery /\ ~ load'.reval /\ load'.query = Parse(urlQuery)
        /\ Navigating'
    BY <1>4, <2>1, LoadOfFacts DEF PageTypeOK, Navigating
  <2>3. load' # load /\ "url" \in dirty'
    BY <1>1, <2>1, <2>2 DEF Navigating
  <2>4. accepted' = url
    BY <2>1 DEF FollowUrl
  <2>5. url = Bare /\ wanted = Bare /\ slip # "hurried"
    BY <1>7, <2>1 DEF SearchInv, UrlInv, WantedInv, RequestInv
  <2>6. LoadInv' /\ WantedInv'
    BY <1>1, <1>4, <2>2, <2>5 DEF LoadInv, WantedInv, Parse
  <2>7. DueInv' /\ RequestInv'
    BY <1>1, <1>4, <2>1, <2>2, <2>3, <2>4, <2>5 DEF DueInv, RequestInv
  <2> QED BY <1>2, <1>3, <2>6, <2>7 DEF SearchInv
<1>8. CASE "url" \in dirty /\ UrlDiffers /\ FollowUrl /\ urlQuery = url
  <2>1. /\ query' = url /\ accepted' = url /\ load' = load /\ requested' = Null /\ ~ Navigating
        /\ "url" \notin dirty' /\ ~ Navigating'
    BY <1>1, <1>8 DEF UrlDiffers, FollowUrl, Navigating
  <2>2. LoadInv' /\ WantedInv'
    BY <1>1, <2>1 DEF SearchInv, LoadInv, WantedInv
  <2>3. DueInv' /\ RequestInv'
    BY <1>1, <2>1 DEF SearchInv, DueInv, RequestInv
  <2> QED BY <1>2, <1>3, <2>2, <2>3 DEF SearchInv
<1>9. CASE "url" \in dirty /\ UrlDiffers /\ ~ FollowUrl /\ (Canonical => urlQuery = url)
  <2>1. /\ url # query /\ UNCHANGED <<query, accepted, load, requested>> /\ observed' = Seen
        /\ dirty' = {} /\ (Navigating' <=> Navigating)
    BY <1>1, <1>9 DEF UrlDiffers, Canonical, Navigating
  <2>2. accepted = url
    BY <1>9 DEF SearchInv, DueInv, FollowUrl
  <2>3. requested # Null
    BY <1>4, <1>9, <2>1, <2>2 DEF SearchInv, DueInv, Canonical
  <2>4. ~ Navigating => slip = "lost"
    BY <1>9, <2>1, <2>2, <2>3 DEF SearchInv, RequestInv, FollowUrl, Seen
  <2>5. LoadInv' /\ WantedInv'
    BY <1>1, <2>1 DEF SearchInv, LoadInv, WantedInv
  <2>6. DueInv'
    BY <1>1, <2>1, <2>2, <2>3, <2>4 DEF DueInv
  <2>7. RequestInv'
    BY <1>1, <2>1, <2>3 DEF SearchInv, RequestInv, Seen
  <2> QED BY <1>2, <1>3, <2>5, <2>6, <2>7 DEF SearchInv
<1> QED BY <1>1, <1>5, <1>6, <1>7, <1>8, <1>9 DEF UrlEffect, Canonical

LEMMA SearchStep ==
  ASSUME PageTypeOK, ListInv, SearchInv, [PageNext]_pageVars
  PROVE  SearchInv'
<1>1. CASE UNCHANGED <<url, load, data, search, eventsQuery, dirty, wanted, slip>>
  <2>1. LoadInv' /\ (Navigating' <=> Navigating)
    BY <1>1 DEF SearchInv, LoadInv, Navigating
  <2> QED BY <1>1, <2>1, SearchSame
<1>2. CASE Refresh
  BY <1>2, SearchRevalidated DEF Refresh, list
<1>3. ASSUME NEW c \in more, ReceiveMore(c) PROVE SearchInv'
  <2>1. UNCHANGED <<url, data, search, eventsQuery, dirty, wanted, slip>>
        /\ (load' = load \/ load' = Revalidated)
    BY <1>3 DEF ReceiveMore, history
  <2> QED BY <1>1, <2>1, SearchRevalidated
<1>4. ASSUME NEW ok \in BOOLEAN, AnswerLoad(ok) PROVE SearchInv'
  <2>1. /\ load # Null /\ load' # Null /\ load'.to = load.to /\ load'.query = load.query
        /\ load'.reval = load.reval
    BY <1>4, AnswerLoadTypes, CalendarAssumption DEF AnswerLoad
  <2>2. UNCHANGED <<url, data, search, eventsQuery, dirty, wanted, slip>>
    BY <1>4 DEF AnswerLoad, list, history
  <2>3. LoadInv' /\ (Navigating' <=> Navigating)
    BY <2>1, <2>2 DEF SearchInv, LoadInv, Navigating
  <2> QED BY <2>1, <2>2, <2>3, SearchSame
<1>5. ASSUME NEW c \in more, NEW ok \in BOOLEAN, AnswerMore(c, ok) PROVE SearchInv'
  BY <1>1, <1>5 DEF AnswerMore, router, history
<1>6. ASSUME NEW c \in details, NEW ok \in BOOLEAN, ReceiveDetail(c, ok) PROVE SearchInv'
  BY <1>1, <1>6 DEF ReceiveDetail, router, list, history
<1>7. ASSUME NEW e, OpenEvent(e) PROVE SearchInv'
  BY <1>1, <1>7 DEF OpenEvent, router, list
<1>8. CASE LoadMore \/ CloseDetails
  BY <1>1, <1>8 DEF LoadMore, CloseDetails, router, list
<1>9. CASE Server \/ UNCHANGED pageVars
  BY <1>1, <1>9 DEF Server, Refetch, Midnight, pageVars, router, list, history
<1> QED BY <1>2, <1>3, <1>4, <1>5, <1>6, <1>7, <1>8, <1>9, SearchUpdateQuery,
        SearchOtherNavigation, SearchCommit, SearchEffects DEF PageNext, User, Responses

-----------------------------------------------------------------------------
(* The invariant and what it gives. *)
PageInv == PageTypeOK /\ ListInv /\ MoreInv /\ SheetInv /\ SearchInv

LEMMA PageInvariant == PageSpec => []PageInv
<1>1. PageInit => PageInv
  BY PageInitTypes, PageInitList, PageInitSheet, PageInitSearch DEF PageInv
<1>2. PageInv /\ [PageNext]_pageVars => PageInv'
  BY PageTypesStep, ListStep, MoreStep, SheetStep, SearchStep DEF PageInv
<1> QED BY <1>1, <1>2, PTL DEF PageSpec

\* Every variable of the page keeps its type: the list holds events, a cursor points
\* into a listing or is absent, a load or a request carries what its answer needs
\* (calendar-workbench.tsx, calendar-event-list.tsx, calendar_service.go).
THEOREM CalendarTypes == PageSpec => []PageTypeOK
<1>1. PageInv => PageTypeOK
  BY DEF PageInv
<1> QED BY <1>1, PageInvariant, PTL

\* However pages, loads and aborts overlap, and however often the feed changes, the
\* list is the beginning of one listing (calendar-workbench.tsx: loadMore, effect on
\* the data; calendar_service.go: ListEvents).
THEOREM CalendarOneListing == PageSpec => []OneListing
<1>1. PageInv => OneListing
  BY DEF PageInv, ListInv, Beginning, OneListing
<1> QED BY <1>1, PageInvariant, PTL

\* The details shown are those of the selected event, and it is of the date shown
\* (calendar-workbench.tsx: openEvent, closeDetails, effect on the key).
THEOREM CalendarDetail == PageSpec => []DetailIsSelected
<1>1. PageInv => DetailIsSelected
  BY DEF PageInv, SheetInv, DetailIsSelected, ResultsAreCurrent
<1> QED BY <1>1, PageInvariant, PTL

\* Once the page is at rest it shows the query of its URL, with data and events of
\* that query, and this is what the user chose last, however choices, links and loads
\* overlapped; unless the choice was lost as SettledShowsChoice says
\* (calendar-workbench.tsx: updateQuery, effect on the URL).
THEOREM CalendarSettled == PageSpec => []SettledShowsChoice
<1>1. PageInv => SettledShowsChoice
  <2> SUFFICES ASSUME PageInv, dirty = {}, load = Null, slip # "lost"
               PROVE  url = query /\ ResultsAreCurrent /\ (wanted # Bare => query = wanted)
    BY DEF SettledShowsChoice
  <2>1. url = query /\ ~ Navigating
    BY DEF PageInv, SearchInv, DueInv, Navigating
  <2>2. url # Bare
    BY <2>1, CalendarAssumption DEF PageInv, PageTypeOK
  <2>3. ResultsAreCurrent
    BY <2>1, <2>2 DEF PageInv, SearchInv, UrlInv, FollowInv, ResultsAreCurrent
  <2> QED BY <2>1, <2>3 DEF PageInv, SearchInv, WantedInv
<1> QED BY <1>1, PageInvariant, PTL
=============================================================================
