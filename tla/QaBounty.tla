------------------------------- MODULE QaBounty -------------------------------
(***************************************************************************)
(* Questions with a bounty: publishing debits the asker, accepting an      *)
(* answer pays its author, deleting an unanswered question refunds the     *)
(* asker; with them the topic's status and its visible events, and the     *)
(* other movements of the same balances.                                   *)
(*                                                                         *)
(* Every handler reads rows first, outside its transaction, and decides on *)
(* that copy.  Writes take effect at the commit; an UPDATE waits while     *)
(* another transaction holds the row.  A transaction that waits can be     *)
(* ended by the database (deadlock victim, lock wait timeout).             *)
(***************************************************************************)
EXTENDS Integers, FiniteSets

CONSTANTS
  Users, Topics, Comments,
  Handlers,        \* request goroutines
  BountySettings,  \* values SysConfig enableQaBounty takes over time
  MaxScore,        \* bound: earned points and bounties
  MaxRows,         \* bound: repetitions that add rows of one kind for a topic
  None

ASSUME QaAssumption ==
  /\ IsFiniteSet(Topics)
  /\ BountySettings \subseteq BOOLEAN /\ MaxScore \in Nat /\ MaxRows \in Nat
  /\ None \notin Users /\ None \notin Topics /\ None \notin Comments /\ None \notin Handlers

VARIABLES
  score,                           \* t_user.score
  other,                           \* sum of the score log rows of other sources
  topicStatus, asker, bounty,      \* t_topic ("none": no row)
  accepted, solved,                \* accepted_comment_id, qa_status
  author, about, live,             \* t_comment: user, topic, status ok
  debits, rewards, refunds,        \* numbers of score log rows qa_bounty (< 0, > 0), qa_bounty_refund
  events,                          \* number of rows of t_topic_visible_event
  userLock, topicLock,             \* row locks held until commit
  op                               \* the request each handler serves

money    == <<score, other, debits, rewards, refunds>>
topic    == <<topicStatus, asker, bounty, accepted, solved, events>>
comments == <<author, about, live>>
locks    == <<userLock, topicLock>>
vars     == <<money, topic, comments, locks, op>>

Idle == [pc |-> "idle", user |-> None, topic |-> None, comment |-> None, amount |-> 0]

Pcs == {"idle", "publish", "accept", "accept_marked", "unaccept", "solve", "unsolve",
        "delete", "delete_refunded", "ban"}

Op == [pc : Pcs, user : Users \cup {None}, topic : Topics \cup {None},
       comment : Comments \cup {None}, amount : Int]

TypeOK ==
  /\ score \in [Users -> Int] /\ other \in [Users -> Int]
  /\ topicStatus \in [Topics -> {"none", "ok", "review", "deleted"}]
  /\ asker \in [Topics -> Users \cup {None}]
  /\ bounty \in [Topics -> Nat]
  /\ accepted \in [Topics -> Comments \cup {None}]
  /\ solved \in [Topics -> BOOLEAN]
  /\ author \in [Comments -> Users \cup {None}]
  /\ about \in [Comments -> Topics \cup {None}]
  /\ live \in [Comments -> BOOLEAN]
  /\ debits \in [Topics -> Nat] /\ refunds \in [Topics -> Nat]
  /\ rewards \in [Topics \X Users -> Nat]
  /\ events \in [Topics -> Nat]
  /\ userLock \in [Users -> Handlers \cup {None}]
  /\ topicLock \in [Topics -> Handlers \cup {None}]
  /\ op \in [Handlers -> Op]

Init ==
  /\ score = [u \in Users |-> 0] /\ other = [u \in Users |-> 0]
  /\ topicStatus = [t \in Topics |-> "none"]
  /\ asker = [t \in Topics |-> None]
  /\ bounty = [t \in Topics |-> 0]
  /\ accepted = [t \in Topics |-> None]
  /\ solved = [t \in Topics |-> FALSE]
  /\ author = [c \in Comments |-> None]
  /\ about = [c \in Comments |-> None]
  /\ live = [c \in Comments |-> FALSE]
  /\ debits = [t \in Topics |-> 0] /\ refunds = [t \in Topics |-> 0]
  /\ rewards = [x \in Topics \X Users |-> 0]
  /\ events = [t \in Topics |-> 0]
  /\ userLock = [u \in Users |-> None]
  /\ topicLock = [t \in Topics |-> None]
  /\ op = [h \in Handlers |-> Idle]

-----------------------------------------------------------------------------
Start(h, request) == op[h] = Idle /\ op' = [op EXCEPT ![h] = request]

Goto(h, pc) == op' = [op EXCEPT ![h].pc = pc]

Unlocked(lock, h) == [x \in DOMAIN lock |-> IF lock[x] = h THEN None ELSE lock[x]]

Finish(h) ==
  /\ op' = [op EXCEPT ![h] = Idle]
  /\ userLock' = Unlocked(userLock, h)
  /\ topicLock' = Unlocked(topicLock, h)

\* The database ends a transaction that waits; nothing of it remains.
Abort(h) ==
  /\ op[h].pc \in {"accept_marked", "delete_refunded"}
  /\ Finish(h)
  /\ UNCHANGED <<money, topic, comments>>

\* The UPDATE adds to the column and cannot refuse: balances may go negative.
\* Variant for mutation: a balance stops at zero.
AddScoreToZero(u, amount) ==
  score' = [score EXCEPT ![u] = IF @ + amount < 0 THEN 0 ELSE @ + amount]

AddScore(u, amount) == score' = [score EXCEPT ![u] = @ + amount]

-----------------------------------------------------------------------------
(* Publishing a question.                                                  *)

\* checkParams; with bounties disabled it clears the bounty of its own copy of
\* the form only, and the publication goes on with the bounty sent, unchecked.
CheckParams(u, amount, enabled) ==
  enabled => amount >= 0 /\ (amount > 0 => score[u] >= amount)

PublishCheck(h, u, t, amount, enabled) ==
  /\ topicStatus[t] = "none"
  /\ \A k \in Handlers : op[k].pc = "publish" => op[k].topic # t
  /\ CheckParams(u, amount, enabled)
  /\ Start(h, [Idle EXCEPT !.pc = "publish", !.user = u, !.topic = t, !.amount = amount])
  /\ UNCHANGED <<money, topic, comments, locks>>

\* Variant for mutation: the bounty is stored as it was sent.
BountyAsSent(amount) == amount

BountyOf(amount) == IF amount > 0 THEN amount ELSE 0

\* Variant for mutation: the bounty of a topic under review is not debited.
PublishCommitOkOnly(h, status) ==
  LET r == op[h] IN
  /\ r.pc = "publish"
  /\ userLock[r.user] = None
  /\ topicStatus' = [topicStatus EXCEPT ![r.topic] = status]
  /\ asker' = [asker EXCEPT ![r.topic] = r.user]
  /\ bounty' = [bounty EXCEPT ![r.topic] = BountyOf(r.amount)]
  /\ IF r.amount > 0 /\ status = "ok"
       THEN AddScore(r.user, -r.amount) /\ debits' = [debits EXCEPT ![r.topic] = @ + 1]
       ELSE UNCHANGED <<score, debits>>
  /\ events' = IF status = "ok" THEN [events EXCEPT ![r.topic] = @ + 1] ELSE events
  /\ Finish(h)
  /\ UNCHANGED <<other, rewards, refunds, accepted, solved, comments>>

PublishCommit(h, status) ==
  LET r == op[h] IN
  /\ r.pc = "publish"
  /\ userLock[r.user] = None
  /\ topicStatus' = [topicStatus EXCEPT ![r.topic] = status]
  /\ asker' = [asker EXCEPT ![r.topic] = r.user]
  /\ bounty' = [bounty EXCEPT ![r.topic] = BountyOf(r.amount)]
  /\ IF r.amount > 0
       THEN AddScore(r.user, -r.amount) /\ debits' = [debits EXCEPT ![r.topic] = @ + 1]
       ELSE UNCHANGED <<score, debits>>
  /\ events' = IF status = "ok" THEN [events EXCEPT ![r.topic] = @ + 1] ELSE events
  /\ Finish(h)
  /\ UNCHANGED <<other, rewards, refunds, accepted, solved, comments>>

-----------------------------------------------------------------------------
(* Comments: answering updates the topic row; nothing checks its status.   *)

Reply(u, t, c) ==
  /\ author[c] = None /\ topicStatus[t] # "none" /\ topicLock[t] = None
  /\ author' = [author EXCEPT ![c] = u]
  /\ about' = [about EXCEPT ![c] = t]
  /\ live' = [live EXCEPT ![c] = TRUE]
  /\ UNCHANGED <<money, topic, locks, op>>

DeleteComment(c) ==
  /\ live[c]
  /\ live' = [live EXCEPT ![c] = FALSE]
  /\ UNCHANGED <<money, topic, author, about, locks, op>>

-----------------------------------------------------------------------------
(* Accepting, by the asker or an owner.                                    *)

\* An answer accepted before is no obstacle.
AcceptRead(h, t, c) ==
  /\ topicStatus[t] = "ok"
  /\ live[c] /\ about[c] = t
  /\ rewards[<<t, author[c]>>] < MaxRows
  /\ Start(h, [Idle EXCEPT !.pc = "accept", !.topic = t, !.comment = c])
  /\ UNCHANGED <<money, topic, comments, locks>>

\* Variant for mutation: the topic is updated in a transaction of its own.
AcceptMarkAlone(h) ==
  LET r == op[h] IN
  /\ r.pc = "accept"
  /\ topicLock[r.topic] = None
  /\ accepted' = [accepted EXCEPT ![r.topic] = r.comment]
  /\ solved' = [solved EXCEPT ![r.topic] = TRUE]
  /\ Goto(h, "accept_marked")
  /\ UNCHANGED <<money, topicStatus, asker, bounty, events, comments, locks>>

AcceptMark(h) ==
  LET r == op[h] IN
  /\ r.pc = "accept"
  /\ topicLock[r.topic] = None
  /\ topicLock' = [topicLock EXCEPT ![r.topic] = h]
  /\ Goto(h, "accept_marked")
  /\ UNCHANGED <<money, topic, comments, userLock>>

\* No bounty for one's own answer.
Pays(t, c) == bounty[t] > 0 /\ author[c] # asker[t]

AcceptCommit(h) ==
  LET r == op[h]  u == author[r.comment] IN
  /\ r.pc = "accept_marked"
  /\ accepted' = [accepted EXCEPT ![r.topic] = r.comment]
  /\ solved' = [solved EXCEPT ![r.topic] = TRUE]
  /\ IF Pays(r.topic, r.comment)
       THEN /\ userLock[u] = None
            /\ AddScore(u, bounty[r.topic])
            /\ rewards' = [rewards EXCEPT ![<<r.topic, u>>] = @ + 1]
       ELSE UNCHANGED <<score, rewards>>
  /\ Finish(h)
  /\ UNCHANGED <<other, debits, refunds, topicStatus, asker, bounty, events, comments>>

-----------------------------------------------------------------------------
(* Taking an acceptance back, and the administrators' force-set of the     *)
(* question's state: one UPDATE decided on an earlier copy of the topic.   *)

QaRead(h, t, pc) ==
  /\ topicStatus[t] = "ok"
  /\ Start(h, [Idle EXCEPT !.pc = pc, !.topic = t])
  /\ UNCHANGED <<money, topic, comments, locks>>

UnacceptRead(h, t) == QaRead(h, t, "unaccept")
ForceRead(h, t, qaStatus) == QaRead(h, t, qaStatus)

\* Variant for mutation: the acceptance is kept when the question is reopened.
ForceWriteKeeping(h) ==
  LET t == op[h].topic IN
  /\ op[h].pc \in {"solve", "unsolve"}
  /\ topicLock[t] = None
  /\ solved' = [solved EXCEPT ![t] = (op[h].pc = "solve")]
  /\ Finish(h)
  /\ UNCHANGED <<money, topicStatus, asker, bounty, accepted, events, comments>>

ForceWrite(h) ==
  LET t == op[h].topic IN
  /\ op[h].pc \in {"solve", "unsolve"}
  /\ topicLock[t] = None
  /\ solved' = [solved EXCEPT ![t] = (op[h].pc = "solve")]
  /\ accepted' = IF op[h].pc = "solve" THEN accepted ELSE [accepted EXCEPT ![t] = None]
  /\ Finish(h)
  /\ UNCHANGED <<money, topicStatus, asker, bounty, events, comments>>

UnacceptWrite(h) ==
  LET t == op[h].topic IN
  /\ op[h].pc = "unaccept"
  /\ topicLock[t] = None
  /\ solved' = [solved EXCEPT ![t] = FALSE]
  /\ accepted' = [accepted EXCEPT ![t] = None]
  /\ Finish(h)
  /\ UNCHANGED <<money, topicStatus, asker, bounty, events, comments>>

-----------------------------------------------------------------------------
(* Deleting and restoring.                                                 *)

\* The refund is decided on the copy read here.  An administrator may delete
\* what is deleted already.
DeleteRead(h, t) ==
  /\ topicStatus[t] # "none"
  /\ refunds[t] < MaxRows
  /\ Start(h, [Idle EXCEPT !.pc = "delete", !.topic = t,
                           !.amount = IF accepted[t] = None THEN bounty[t] ELSE 0])
  /\ UNCHANGED <<money, topic, comments, locks>>

\* Variant for mutation: the refund is a transaction of its own.
DeleteRefundAlone(h) ==
  LET r == op[h]  u == asker[r.topic] IN
  /\ r.pc = "delete" /\ r.amount > 0
  /\ userLock[u] = None
  /\ AddScore(u, r.amount)
  /\ refunds' = [refunds EXCEPT ![r.topic] = @ + 1]
  /\ op' = [op EXCEPT ![h].amount = 0]
  /\ UNCHANGED <<other, debits, rewards, topic, comments, locks>>

DeleteRefund(h) ==
  LET u == asker[op[h].topic] IN
  /\ op[h].pc = "delete" /\ op[h].amount > 0
  /\ userLock[u] = None
  /\ userLock' = [userLock EXCEPT ![u] = h]
  /\ Goto(h, "delete_refunded")
  /\ UNCHANGED <<money, topic, comments, topicLock>>

DeleteCommit(h) ==
  LET r == op[h] IN
  /\ r.pc = "delete_refunded" \/ (r.pc = "delete" /\ r.amount = 0)
  /\ topicLock[r.topic] = None
  /\ topicStatus' = [topicStatus EXCEPT ![r.topic] = "deleted"]
  /\ IF r.pc = "delete_refunded"
       THEN /\ AddScore(asker[r.topic], r.amount)
            /\ refunds' = [refunds EXCEPT ![r.topic] = @ + 1]
       ELSE UNCHANGED <<score, refunds>>
  /\ Finish(h)
  /\ UNCHANGED <<other, debits, rewards, asker, bounty, accepted, solved, events, comments>>

\* One conditional UPDATE; the event is written if it changed the row.
\* Variant for mutation: the condition is missing.
AppearAlways(t, from) ==
  /\ topicStatus[t] # "none" /\ topicLock[t] = None /\ events[t] < MaxRows
  /\ topicStatus' = [topicStatus EXCEPT ![t] = "ok"]
  /\ events' = [events EXCEPT ![t] = @ + 1]
  /\ UNCHANGED <<money, asker, bounty, accepted, solved, comments, locks, op>>

Appear(t, from) ==
  /\ topicStatus[t] \in from /\ topicLock[t] = None /\ events[t] < MaxRows
  /\ topicStatus' = [topicStatus EXCEPT ![t] = "ok"]
  /\ events' = [events EXCEPT ![t] = @ + 1]
  /\ UNCHANGED <<money, asker, bounty, accepted, solved, comments, locks, op>>

Undelete(t) == Appear(t, {"deleted"})
Audit(t)    == Appear(t, {"review", "deleted"})

-----------------------------------------------------------------------------
(* Other movements: points earned, and the permanent ban, which debits the *)
(* balance it finds in the user cache.                                     *)

Earn(u, amount) ==
  /\ userLock[u] = None
  /\ other[u] + amount <= MaxScore
  /\ AddScore(u, amount)
  /\ other' = [other EXCEPT ![u] = @ + amount]
  /\ UNCHANGED <<debits, rewards, refunds, topic, comments, locks, op>>

BanRead(h, u) ==
  /\ score[u] > 0
  /\ Start(h, [Idle EXCEPT !.pc = "ban", !.user = u, !.amount = score[u]])
  /\ UNCHANGED <<money, topic, comments, locks>>

BanDebit(h) ==
  LET r == op[h] IN
  /\ r.pc = "ban"
  /\ userLock[r.user] = None
  /\ AddScore(r.user, -r.amount)
  /\ other' = [other EXCEPT ![r.user] = @ - r.amount]
  /\ Finish(h)
  /\ UNCHANGED <<debits, rewards, refunds, topic, comments>>

-----------------------------------------------------------------------------
HandlerStep(h) ==
  \/ \E status \in {"ok", "review"} : PublishCommit(h, status)
  \/ AcceptMark(h) \/ AcceptCommit(h)
  \/ UnacceptWrite(h) \/ ForceWrite(h)
  \/ DeleteRefund(h) \/ DeleteCommit(h)
  \/ BanDebit(h)

Request(h) ==
  \/ \E u \in Users, t \in Topics, n \in -1..MaxScore, enabled \in BountySettings :
       PublishCheck(h, u, t, n, enabled)
  \/ \E t \in Topics, c \in Comments : AcceptRead(h, t, c)
  \/ \E t \in Topics : UnacceptRead(h, t) \/ DeleteRead(h, t)
  \/ \E t \in Topics, qaStatus \in {"solve", "unsolve"} : ForceRead(h, t, qaStatus)
  \/ \E u \in Users : BanRead(h, u)

Next ==
  \/ \E h \in Handlers : Request(h) \/ HandlerStep(h) \/ Abort(h)
  \/ \E u \in Users, t \in Topics, c \in Comments : Reply(u, t, c)
  \/ \E c \in Comments : DeleteComment(c)
  \/ \E t \in Topics : Undelete(t) \/ Audit(t)
  \/ \E u \in Users, n \in 1..MaxScore : Earn(u, n)

Spec == Init /\ [][Next]_vars

-----------------------------------------------------------------------------
(* Properties *)

\* The points that rows of the score log move, one element for each point: n[t]
\* rows of every topic t of S, b[t] points each.
Points(S, n, b) == UNION {{t} \X ((1..n[t]) \X (1..b[t])) : t \in S}

AskedBy(u) == {t \in Topics : asker[t] = u}
RewardsOf(u) == [t \in Topics |-> rewards[<<t, u>>]]

\* Every balance is the sum of its ledger: points from other sources, bounties
\* won, refunds received, less bounties set.  Rows of the log and updates of
\* the balance are written by different transactions that interleave.
LedgerBalanced ==
  \A u \in Users :
    score[u] = other[u] + Cardinality(Points(Topics, RewardsOf(u), bounty))
                        + Cardinality(Points(AskedBy(u), refunds, bounty))
                        - Cardinality(Points(AskedBy(u), debits, bounty))

\* A question takes its bounty from the asker exactly once, whether it is
\* published or sent to review, however it is audited, deleted and restored.
BountyDebitedOnce ==
  \A t \in Topics : debits[t] = IF topicStatus[t] # "none" /\ bounty[t] > 0 THEN 1 ELSE 0

\* While an answer is accepted the question is solved: accepted_comment_id and
\* qa_status are written by five operations that race on stale copies.
AcceptedIsSolved ==
  \A t \in Topics : accepted[t] # None => solved[t]

\* The author of an accepted answer has been paid the bounty, unless the
\* answer is the asker's own.
AcceptedAnswerPaid ==
  \A t \in Topics :
    accepted[t] # None /\ Pays(t, accepted[t]) => rewards[<<t, author[accepted[t]]>>] > 0

\* "TopicVisibleEvent records each transition that makes a topic visible": a
\* step adds an event if and only if it makes the topic visible, although
\* audits, restorations and deletions of one topic may race.
OneEventPerAppearance ==
  [][\A t \in Topics :
       events'[t] = events[t]
         + IF topicStatus[t] # "ok" /\ topicStatus'[t] = "ok" THEN 1 ELSE 0]_vars

\* A refund is paid only together with the deletion of its question.
RefundWithDeletion ==
  [][\A t \in Topics : refunds'[t] # refunds[t] => topicStatus'[t] = "deleted"]_vars

\* "帖子删除且未采纳答案时退给题主": the bounty is returned if the question is
\* deleted and no answer was accepted.
RefundOnlyUnaccepted ==
  [][\A t \in Topics : refunds'[t] # refunds[t] => accepted[t] = None]_vars
=============================================================================
