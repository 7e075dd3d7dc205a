---------------------------- MODULE QaBountyProofs ----------------------------
(* Proofs about QaBounty for any number of users, questions, comments and   *)
(* concurrent requests.                                                     *)
EXTENDS QaBounty, FiniteSetTheorems, TLAPS

(***************************************************************************)
(* The inductive invariant adds, to the properties of the rows, what is    *)
(* true of the copies that the requests in flight work on: a topic or a    *)
(* comment once read stays there, and a topic being published is not there *)
(* yet and is published by one request only.                               *)
(***************************************************************************)
Exists(t) == t \in Topics /\ topicStatus[t] # "none"
Written(c) == c \in Comments /\ author[c] \in Users

OpOf(h) == LET r == op[h] IN
  /\ r.pc = "publish" =>
       /\ r.user \in Users /\ r.topic \in Topics /\ topicStatus[r.topic] = "none"
       /\ \A k \in Handlers : op[k].pc = "publish" /\ k # h => op[k].topic # r.topic
  /\ r.pc \in {"accept", "accept_marked"} => Exists(r.topic) /\ Written(r.comment)
  /\ r.pc \in {"unaccept", "solve", "unsolve", "delete", "delete_refunded"} => Exists(r.topic)
  /\ r.pc = "ban" => r.user \in Users

RowsOf(t) ==
  /\ topicStatus[t] # "none" => asker[t] \in Users
  /\ accepted[t] # None => Exists(t) /\ Written(accepted[t])

LiveWritten == \A c \in Comments : live[c] => Written(c)

Properties == BountyDebitedOnce /\ AcceptedIsSolved /\ AcceptedAnswerPaid

IInv == TypeOK /\ Properties /\ LiveWritten /\ (\A t \in Topics : RowsOf(t)) /\ \A h \in Handlers : OpOf(h)

-----------------------------------------------------------------------------
LEMMA QaInit == Init => IInv
  BY QaAssumption DEF Init, IInv, TypeOK, Properties, BountyDebitedOnce, AcceptedIsSolved,
     AcceptedAnswerPaid, LiveWritten, RowsOf, OpOf, Idle, Op, Pcs

LEMMA IdleOp == Idle \in Op
  BY DEF Idle, Op, Pcs

LEMMA StartEffect ==
  ASSUME TypeOK, NEW h \in Handlers, NEW r \in Op, Start(h, r)
  PROVE  /\ op' \in [Handlers -> Op] /\ op'[h] = r
         /\ \A k \in Handlers : k # h => op'[k] = op[k]
  BY DEF Start, TypeOK

LEMMA GotoEffect ==
  ASSUME TypeOK, NEW h \in Handlers, NEW pc \in Pcs, Goto(h, pc)
  PROVE  /\ op' \in [Handlers -> Op] /\ op'[h].pc = pc
         /\ op'[h].user = op[h].user /\ op'[h].comment = op[h].comment
         /\ op'[h].topic = op[h].topic
         /\ \A k \in Handlers : k # h => op'[k] = op[k]
<1> DEFINE r == [op[h] EXCEPT !.pc = pc]
<1>1. op[h] \in Op /\ op \in [Handlers -> Op]
  BY DEF TypeOK
<1>2. /\ r \in Op /\ r.pc = pc /\ r.user = op[h].user /\ r.comment = op[h].comment
      /\ r.topic = op[h].topic
  BY <1>1 DEF Op
<1>3. op' = [op EXCEPT ![h] = r]
  BY DEF Goto
<1> HIDE DEF r
<1> QED BY <1>1, <1>2, <1>3

LEMMA FinishEffect ==
  ASSUME TypeOK, NEW h \in Handlers, Finish(h)
  PROVE  /\ op' \in [Handlers -> Op] /\ op'[h] = Idle
         /\ \A k \in Handlers : k # h => op'[k] = op[k]
         /\ userLock' \in [Users -> Handlers \cup {None}]
         /\ topicLock' \in [Topics -> Handlers \cup {None}]
  BY IdleOp DEF Finish, Unlocked, TypeOK

LEMMA IdleFine ==
  ASSUME NEW h \in Handlers, op'[h] = Idle
  PROVE  OpOf(h)'
  BY DEF OpOf, Idle

\* Topics stay, and so do the authors of comments.
Monotone ==
  /\ \A t \in Topics : topicStatus[t] # "none" => topicStatus'[t] # "none"
  /\ \A c \in Comments : author[c] \in Users => author'[c] \in Users

LEMMA OtherFine ==
  ASSUME IInv, NEW h \in Handlers, NEW k \in Handlers, k # h,
         \A j \in Handlers : j # h => op'[j] = op[j], Monotone,
         op[k].pc = "publish" =>
           /\ topicStatus'[op[k].topic] = "none"
           /\ op'[h].pc = "publish" => op'[h].topic # op[k].topic
  PROVE  OpOf(k)'
<1>1. op'[k] = op[k] /\ OpOf(k)
  BY DEF IInv
<1>2. op[k].pc = "publish" =>
        \A j \in Handlers : op'[j].pc = "publish" /\ j # k => op'[j].topic # op[k].topic
  BY <1>1 DEF OpOf
<1> QED BY <1>1, <1>2 DEF OpOf, Monotone, Exists, Written

-----------------------------------------------------------------------------
\* A step that changes only what one request holds: a beginning, a lock.
LEMMA PrivateStep ==
  ASSUME IInv, NEW h \in Handlers, UNCHANGED <<money, topic, comments>>,
         op' \in [Handlers -> Op], \A k \in Handlers : k # h => op'[k] = op[k],
         userLock' \in [Users -> Handlers \cup {None}],
         topicLock' \in [Topics -> Handlers \cup {None}],
         op'[h].pc = "publish" =>
           \A k \in Handlers : op[k].pc = "publish" => op'[h].topic # op[k].topic,
         OpOf(h)'
  PROVE  IInv'
<1> USE DEF IInv
<1>1. TypeOK'
  BY DEF TypeOK, money, topic, comments
<1>2. Properties'
  BY DEF Properties, BountyDebitedOnce, AcceptedIsSolved, AcceptedAnswerPaid, Pays, money, topic,
         comments
<1>3. LiveWritten' /\ \A t \in Topics : RowsOf(t)'
  BY DEF LiveWritten, RowsOf, Exists, Written, topic, comments
<1>4. Monotone
  BY DEF Monotone, topic, comments
<1>5. ASSUME NEW k \in Handlers, k # h PROVE OpOf(k)'
  <2>1. op[k].pc = "publish" =>
           /\ topicStatus'[op[k].topic] = "none"
           /\ op'[h].pc = "publish" => op'[h].topic # op[k].topic
    BY DEF OpOf, topic
  <2> QED BY <1>4, <1>5, <2>1, OtherFine
<1> QED BY <1>1, <1>2, <1>3, <1>5

\* A commit of h.
LEMMA CommitStep ==
  ASSUME IInv, NEW h \in Handlers, Finish(h), Monotone,
         \A k \in Handlers : k # h /\ op[k].pc = "publish" => topicStatus'[op[k].topic] = "none"
  PROVE  \A k \in Handlers : OpOf(k)'
<1>1. \A j \in Handlers : j # h => op'[j] = op[j]
  BY FinishEffect DEF IInv
<1>2. op'[h] = Idle
  BY FinishEffect DEF IInv
<1>3. OpOf(h)'
  BY <1>2, IdleFine
<1>4. ASSUME NEW k \in Handlers, k # h PROVE OpOf(k)'
  <2>1. op'[h].pc # "publish"
    BY <1>2 DEF Idle
  <2> QED BY <1>1, <1>4, <2>1, OtherFine
<1> QED BY <1>3, <1>4

\* A statement of no request.
LEMMA StatementStep ==
  ASSUME IInv, UNCHANGED op, Monotone,
         \A t \in Topics : (topicStatus[t] = "none") <=> (topicStatus'[t] = "none")
  PROVE  \A k \in Handlers : OpOf(k)'
  BY DEF IInv, OpOf, Monotone, Exists, Written

-----------------------------------------------------------------------------
(* Beginnings of requests. *)

LEMMA RequestStep ==
  ASSUME IInv, NEW h \in Handlers, Request(h)
  PROVE  IInv'
<1> USE DEF IInv
<1>1. ASSUME NEW r \in Op, Start(h, r), UNCHANGED <<money, topic, comments, locks>>,
             r.pc \in {"publish", "accept", "unaccept", "solve", "unsolve", "delete", "ban"},
             r.pc = "publish" =>
               /\ r.user \in Users /\ r.topic \in Topics /\ topicStatus[r.topic] = "none"
               /\ \A k \in Handlers : op[k].pc = "publish" => op[k].topic # r.topic,
             r.pc = "accept" => Written(r.comment),
             r.pc \in {"accept", "unaccept", "solve", "unsolve", "delete"} => Exists(r.topic),
             r.pc = "ban" => r.user \in Users
      PROVE  IInv'
  <2>1. /\ op' \in [Handlers -> Op] /\ op'[h] = r
        /\ \A k \in Handlers : k # h => op'[k] = op[k]
    BY <1>1, StartEffect
  <2>2. OpOf(h)'
    BY <1>1, <2>1 DEF OpOf, Exists, Written, topic, comments
  <2> QED BY <1>1, <2>1, <2>2, PrivateStep DEF locks, TypeOK
<1>2. ASSUME NEW u \in Users, NEW t \in Topics, NEW n \in -1..MaxScore, NEW e \in BountySettings,
             PublishCheck(h, u, t, n, e)
      PROVE  IInv'
  <2> DEFINE r == [Idle EXCEPT !.pc = "publish", !.user = u, !.topic = t, !.amount = n]
  <2>0. n \in Int
    BY QaAssumption
  <2>1. r \in Op /\ r.pc = "publish" /\ r.user = u /\ r.topic = t
    BY <2>0, IdleOp DEF Op, Pcs
  <2>2. Start(h, r)
    BY <1>2 DEF PublishCheck
  <2> HIDE DEF r
  <2> QED BY <1>1, <1>2, <2>1, <2>2 DEF PublishCheck
<1>3. ASSUME NEW t \in Topics, NEW c \in Comments, AcceptRead(h, t, c)
      PROVE  IInv'
  <2> DEFINE r == [Idle EXCEPT !.pc = "accept", !.topic = t, !.comment = c]
  <2>1. r \in Op /\ r.pc = "accept" /\ r.comment = c /\ r.topic = t
    BY IdleOp DEF Op, Pcs
  <2>2. Start(h, r)
    BY <1>3 DEF AcceptRead
  <2> HIDE DEF r
  <2>3. Written(c)
    BY <1>3 DEF AcceptRead, LiveWritten, Written
  <2> QED BY <1>1, <1>3, <2>1, <2>2, <2>3 DEF AcceptRead, Exists
<1>4. ASSUME NEW t \in Topics, NEW pc \in {"unaccept", "solve", "unsolve"}, QaRead(h, t, pc)
      PROVE  IInv'
  <2> DEFINE r == [Idle EXCEPT !.pc = pc, !.topic = t]
  <2>1. r \in Op /\ r.pc = pc /\ r.topic = t
    BY IdleOp DEF Op, Pcs
  <2>2. Start(h, r)
    BY <1>4 DEF QaRead
  <2> HIDE DEF r
  <2> QED BY <1>1, <1>4, <2>1, <2>2 DEF QaRead, Exists
<1>5. ASSUME NEW t \in Topics, DeleteRead(h, t)
      PROVE  IInv'
  <2> DEFINE n == IF accepted[t] = None THEN bounty[t] ELSE 0
             r == [Idle EXCEPT !.pc = "delete", !.topic = t, !.amount = n]
  <2>0. n \in Int
    BY DEF TypeOK
  <2>2. Start(h, r)
    BY <1>5 DEF DeleteRead
  <2> HIDE DEF n
  <2>1. r \in Op /\ r.pc = "delete" /\ r.topic = t
    BY <2>0, IdleOp DEF Op, Pcs
  <2> HIDE DEF r
  <2> QED BY <1>1, <1>5, <2>1, <2>2 DEF DeleteRead, Exists
<1>6. ASSUME NEW u \in Users, BanRead(h, u)
      PROVE  IInv'
  <2> DEFINE r == [Idle EXCEPT !.pc = "ban", !.user = u, !.amount = score[u]]
  <2>0. score[u] \in Int
    BY DEF TypeOK
  <2>1. r \in Op /\ r.pc = "ban" /\ r.user = u
    BY <2>0, IdleOp DEF Op, Pcs
  <2>2. Start(h, r)
    BY <1>6 DEF BanRead
  <2> HIDE DEF r
  <2> QED BY <1>1, <1>6, <2>1, <2>2 DEF BanRead
<1> QED BY <1>2, <1>3, <1>4, <1>5, <1>6 DEF Request, UnacceptRead, ForceRead

-----------------------------------------------------------------------------
(* Steps inside a transaction and roll-backs. *)

LEMMA LockingStep ==
  ASSUME IInv, NEW h \in Handlers, AcceptMark(h) \/ DeleteRefund(h)
  PROVE  IInv'
<1> USE DEF IInv
<1>1. CASE AcceptMark(h)
  <2>1. /\ op' \in [Handlers -> Op] /\ op'[h].pc = "accept_marked" /\ op[h].pc = "accept"
        /\ op'[h].topic = op[h].topic /\ op'[h].comment = op[h].comment
        /\ \A k \in Handlers : k # h => op'[k] = op[k]
    BY <1>1, GotoEffect DEF AcceptMark, Pcs
  <2>2. OpOf(h)'
    BY <1>1, <2>1 DEF AcceptMark, OpOf, Exists, Written, topic, comments
  <2>3. topicLock' \in [Topics -> Handlers \cup {None}] /\ userLock' = userLock
    BY <1>1 DEF AcceptMark, TypeOK
  <2> QED BY <1>1, <2>1, <2>2, <2>3, PrivateStep DEF AcceptMark, TypeOK
<1>2. CASE DeleteRefund(h)
  <2>1. /\ op' \in [Handlers -> Op] /\ op'[h].pc = "delete_refunded" /\ op[h].pc = "delete"
        /\ op'[h].topic = op[h].topic
        /\ \A k \in Handlers : k # h => op'[k] = op[k]
    BY <1>2, GotoEffect DEF DeleteRefund, Pcs
  <2>2. OpOf(h)'
    BY <1>2, <2>1 DEF DeleteRefund, OpOf, Exists, topic
  <2>3. userLock' \in [Users -> Handlers \cup {None}] /\ topicLock' = topicLock
    BY <1>2 DEF DeleteRefund, TypeOK
  <2> QED BY <1>2, <2>1, <2>2, <2>3, PrivateStep DEF DeleteRefund, TypeOK
<1> QED BY <1>1, <1>2

LEMMA AbortStep ==
  ASSUME IInv, NEW h \in Handlers, Abort(h)
  PROVE  IInv'
<1> USE DEF IInv
<1>1. /\ op' \in [Handlers -> Op] /\ op'[h] = Idle
      /\ \A k \in Handlers : k # h => op'[k] = op[k]
      /\ userLock' \in [Users -> Handlers \cup {None}]
      /\ topicLock' \in [Topics -> Handlers \cup {None}]
  BY FinishEffect DEF Abort
<1>2. OpOf(h)'
  BY <1>1, IdleFine
<1> QED BY <1>1, <1>2, PrivateStep DEF Abort, Idle

-----------------------------------------------------------------------------
(* Commits. *)

LEMMA AddScoreType ==
  ASSUME TypeOK, NEW u \in Users, NEW n \in Int, AddScore(u, n)
  PROVE  score' \in [Users -> Int]
  BY DEF AddScore, TypeOK

LEMMA OpAmount ==
  ASSUME TypeOK, NEW h \in Handlers
  PROVE  op[h].amount \in Int /\ -op[h].amount \in Int /\ op[h].topic \in Topics \cup {None}
         /\ op[h].comment \in Comments \cup {None}
  BY DEF TypeOK, Op

LEMMA PublishCommitStep ==
  ASSUME IInv, NEW h \in Handlers, NEW status \in {"ok", "review"}, PublishCommit(h, status)
  PROVE  IInv'
<1> USE DEF IInv
<1> DEFINE t == op[h].topic  u == op[h].user  n == op[h].amount
<1>1. /\ t \in Topics /\ u \in Users /\ topicStatus[t] = "none" /\ n \in Int
      /\ \A k \in Handlers : op[k].pc = "publish" /\ k # h => op[k].topic # t
  BY OpAmount DEF PublishCommit, OpOf
<1>2. BountyOf(n) \in Nat /\ (BountyOf(n) > 0 <=> n > 0)
  BY <1>1 DEF BountyOf
<1>3. score' \in [Users -> Int]
  <2>1. CASE n > 0
    BY <1>1, <2>1, OpAmount, AddScoreType DEF PublishCommit
  <2>2. CASE ~ (n > 0)
    BY <2>2 DEF PublishCommit, TypeOK
  <2> QED BY <2>1, <2>2
<1>4. /\ topicStatus' \in [Topics -> {"none", "ok", "review", "deleted"}]
      /\ topicStatus'[t] = status /\ \A s \in Topics : s # t => topicStatus'[s] = topicStatus[s]
      /\ asker' \in [Topics -> Users \cup {None}]
      /\ asker'[t] = u /\ \A s \in Topics : s # t => asker'[s] = asker[s]
      /\ bounty' \in [Topics -> Nat]
      /\ bounty'[t] = BountyOf(n) /\ \A s \in Topics : s # t => bounty'[s] = bounty[s]
  BY <1>1, <1>2 DEF PublishCommit, TypeOK
<1>5. /\ debits' \in [Topics -> Nat] /\ events' \in [Topics -> Nat]
      /\ debits'[t] = debits[t] + (IF n > 0 THEN 1 ELSE 0)
      /\ \A s \in Topics : s # t => debits'[s] = debits[s]
  BY <1>1 DEF PublishCommit, TypeOK
<1>6. TypeOK'
  BY <1>3, <1>4, <1>5, FinishEffect DEF PublishCommit, TypeOK, comments
<1>7. debits[t] = 0 /\ accepted[t] = None
  BY <1>1 DEF Properties, BountyDebitedOnce, RowsOf, Exists
<1>8. Properties'
  <2>1. BountyDebitedOnce'
    BY <1>1, <1>2, <1>4, <1>5, <1>7 DEF Properties, BountyDebitedOnce
  <2>2. AcceptedIsSolved'
    BY DEF PublishCommit, Properties, AcceptedIsSolved
  <2>3. AcceptedAnswerPaid'
    BY <1>4, <1>7 DEF PublishCommit, Properties, AcceptedAnswerPaid, Pays, comments
  <2> QED BY <2>1, <2>2, <2>3 DEF Properties
<1>9. LiveWritten' /\ \A s \in Topics : RowsOf(s)'
  BY <1>1, <1>4, <1>7 DEF PublishCommit, LiveWritten, RowsOf, Exists, Written, comments
<1>10. Monotone /\ \A k \in Handlers : k # h /\ op[k].pc = "publish" =>
                      topicStatus'[op[k].topic] = "none"
  BY <1>1, <1>4 DEF PublishCommit, OpOf, Monotone, comments
<1>11. Finish(h)
  BY DEF PublishCommit
<1>12. \A k \in Handlers : OpOf(k)'
  BY <1>10, <1>11, CommitStep
<1> QED BY <1>6, <1>8, <1>9, <1>12

\* Commits that neither create topics nor touch comments or what decides the
\* bounty: what is left to show is the types of the rows they write, that an
\* accepted answer is solved, paid and written, and that no topic vanishes.
LEMMA WriteStep ==
  ASSUME IInv, NEW h \in Handlers, Finish(h), UNCHANGED <<comments, asker, bounty, debits, events>>,
         score' \in [Users -> Int], other' \in [Users -> Int],
         rewards' \in [Topics \X Users -> Nat], refunds' \in [Topics -> Nat],
         topicStatus' \in [Topics -> {"none", "ok", "review", "deleted"}],
         accepted' \in [Topics -> Comments \cup {None}], solved' \in [Topics -> BOOLEAN],
         \A t \in Topics : (topicStatus[t] = "none") <=> (topicStatus'[t] = "none"),
         AcceptedIsSolved', AcceptedAnswerPaid',
         \A t \in Topics : accepted'[t] # None => Exists(t) /\ Written(accepted'[t])
  PROVE  IInv'
<1> USE DEF IInv
<1>1. TypeOK'
  BY FinishEffect DEF TypeOK, comments
<1>2. Properties'
  BY DEF Properties, BountyDebitedOnce
<1>3. LiveWritten' /\ \A t \in Topics : RowsOf(t)'
  BY DEF LiveWritten, RowsOf, Exists, Written, comments
<1>4. Monotone /\ \A k \in Handlers : k # h /\ op[k].pc = "publish" =>
                     topicStatus'[op[k].topic] = "none"
  BY DEF Monotone, OpOf, comments
<1> QED BY <1>1, <1>2, <1>3, <1>4, CommitStep

LEMMA AcceptCommitStep ==
  ASSUME IInv, NEW h \in Handlers, AcceptCommit(h)
  PROVE  IInv'
<1> USE DEF IInv
<1> DEFINE t == op[h].topic  c == op[h].comment  u == author[c]
<1>1. t \in Topics /\ topicStatus[t] # "none" /\ c \in Comments /\ u \in Users /\ c # None
  BY QaAssumption DEF AcceptCommit, OpOf, Exists, Written
<1>2. /\ accepted' \in [Topics -> Comments \cup {None}] /\ solved' \in [Topics -> BOOLEAN]
      /\ accepted'[t] = c /\ solved'[t] = TRUE
      /\ \A s \in Topics : s # t => accepted'[s] = accepted[s] /\ solved'[s] = solved[s]
  BY <1>1 DEF AcceptCommit, TypeOK
<1>3. /\ score' \in [Users -> Int] /\ rewards' \in [Topics \X Users -> Nat]
      /\ \A x \in Topics \X Users : rewards'[x] >= rewards[x]
      /\ Pays(t, c) => rewards'[<<t, u>>] > 0
  <2>1. CASE Pays(t, c)
    <3>1. bounty[t] \in Int
      BY <1>1 DEF TypeOK
    <3>2. score' \in [Users -> Int]
      BY <1>1, <2>1, <3>1, AddScoreType DEF AcceptCommit
    <3>3. rewards' = [rewards EXCEPT ![<<t, u>>] = @ + 1] /\ <<t, u>> \in Topics \X Users
      BY <1>1, <2>1 DEF AcceptCommit
    <3>4. rewards \in [Topics \X Users -> Nat]
      BY DEF TypeOK
    <3> DEFINE S == Topics \X Users  y == <<t, u>>
    <3> HIDE DEF S, y
    <3>5. y \in S /\ rewards \in [S -> Nat] /\ rewards' = [rewards EXCEPT ![y] = @ + 1]
      BY <3>3, <3>4 DEF S, y
    <3>6. rewards' \in [S -> Nat] /\ rewards'[y] > 0 /\ \A x \in S : rewards'[x] >= rewards[x]
      BY <3>5
    <3> QED BY <3>2, <3>6 DEF S, y
  <2>2. CASE ~ Pays(t, c)
    BY <2>2 DEF AcceptCommit, TypeOK
  <2> QED BY <2>1, <2>2
<1>4. AcceptedIsSolved'
  BY <1>2 DEF Properties, AcceptedIsSolved
<1>5. AcceptedAnswerPaid'
  <2> SUFFICES ASSUME NEW s \in Topics, accepted'[s] # None, Pays(s, accepted'[s])
               PROVE  rewards'[<<s, author[accepted'[s]]>>] > 0
    BY DEF AcceptedAnswerPaid, AcceptCommit, Pays, comments
  <2>1. CASE s = t
    BY <1>2, <1>3, <2>1
  <2>2. CASE s # t
    <3>1. accepted'[s] = accepted[s] /\ author[accepted[s]] \in Users
      BY <1>2, <2>2 DEF RowsOf, Written
    <3>2. rewards[<<s, author[accepted[s]]>>] > 0
      BY <3>1 DEF Properties, AcceptedAnswerPaid
    <3>3. <<s, author[accepted[s]]>> \in Topics \X Users /\ rewards \in [Topics \X Users -> Nat]
      BY <3>1 DEF TypeOK
    <3> QED BY <1>3, <3>1, <3>2, <3>3
  <2> QED BY <2>1, <2>2
<1>6. \A s \in Topics : accepted'[s] # None => Exists(s) /\ Written(accepted'[s])
  BY <1>1, <1>2 DEF RowsOf, Exists, Written
<1> QED BY <1>2, <1>3, <1>4, <1>5, <1>6, WriteStep DEF AcceptCommit, TypeOK

LEMMA ReopenStep ==
  ASSUME IInv, NEW h \in Handlers, UnacceptWrite(h) \/ ForceWrite(h)
  PROVE  IInv'
<1> USE DEF IInv
<1> DEFINE t == op[h].topic
<1>1. t \in Topics
  BY DEF UnacceptWrite, ForceWrite, OpOf, Exists
<1>2. /\ accepted' \in [Topics -> Comments \cup {None}] /\ solved' \in [Topics -> BOOLEAN]
      /\ \A s \in Topics : accepted'[s] # None =>
           accepted'[s] = accepted[s] /\ (solved'[s] = solved[s] \/ solved'[s] = TRUE)
  BY <1>1 DEF UnacceptWrite, ForceWrite, TypeOK
<1>3. UNCHANGED <<money, topicStatus, asker, bounty, events, comments>> /\ Finish(h)
  BY DEF UnacceptWrite, ForceWrite
<1>4. AcceptedIsSolved' /\ AcceptedAnswerPaid'
  BY <1>2, <1>3 DEF Properties, AcceptedIsSolved, AcceptedAnswerPaid, Pays, money, comments
<1>5. \A s \in Topics : accepted'[s] # None => Exists(s) /\ Written(accepted'[s])
  BY <1>2 DEF RowsOf
<1> QED BY <1>2, <1>3, <1>4, <1>5, WriteStep DEF TypeOK, money

LEMMA DeleteCommitStep ==
  ASSUME IInv, NEW h \in Handlers, DeleteCommit(h)
  PROVE  IInv'
<1> USE DEF IInv
<1> DEFINE t == op[h].topic
<1>1. t \in Topics /\ topicStatus[t] # "none" /\ asker[t] \in Users
  BY DEF DeleteCommit, OpOf, Exists, RowsOf
<1>2. score' \in [Users -> Int] /\ refunds' \in [Topics -> Nat]
  <2>1. CASE op[h].pc = "delete_refunded"
    BY <1>1, <2>1, OpAmount, AddScoreType DEF DeleteCommit, TypeOK
  <2>2. CASE op[h].pc # "delete_refunded"
    BY <2>2 DEF DeleteCommit, TypeOK
  <2> QED BY <2>1, <2>2
<1>3. /\ topicStatus' \in [Topics -> {"none", "ok", "review", "deleted"}]
      /\ \A s \in Topics : (topicStatus[s] = "none") <=> (topicStatus'[s] = "none")
  BY <1>1 DEF DeleteCommit, TypeOK
<1>4. AcceptedIsSolved' /\ AcceptedAnswerPaid'
  BY DEF DeleteCommit, Properties, AcceptedIsSolved, AcceptedAnswerPaid, Pays, comments
<1> QED BY <1>2, <1>3, <1>4, WriteStep DEF DeleteCommit, TypeOK, RowsOf

LEMMA BanDebitStep ==
  ASSUME IInv, NEW h \in Handlers, BanDebit(h)
  PROVE  IInv'
<1> USE DEF IInv
<1>1. op[h].user \in Users /\ op[h].amount \in Int
  BY OpAmount DEF BanDebit, OpOf
<1>2. score' \in [Users -> Int] /\ other' \in [Users -> Int]
  BY <1>1, OpAmount, AddScoreType DEF BanDebit, TypeOK
<1>3. AcceptedIsSolved' /\ AcceptedAnswerPaid'
  BY DEF BanDebit, Properties, AcceptedIsSolved, AcceptedAnswerPaid, Pays, topic, comments
<1> QED BY <1>2, <1>3, WriteStep DEF BanDebit, TypeOK, RowsOf, topic

-----------------------------------------------------------------------------
(* Statements of no request. *)

LEMMA ReplyStep ==
  ASSUME IInv, NEW u \in Users, NEW t \in Topics, NEW c \in Comments, Reply(u, t, c)
  PROVE  IInv'
<1> USE DEF IInv
<1>1. /\ author' \in [Comments -> Users \cup {None}] /\ author'[c] = u
      /\ \A d \in Comments : d # c => author'[d] = author[d]
      /\ about' \in [Comments -> Topics \cup {None}] /\ live' \in [Comments -> BOOLEAN]
      /\ \A d \in Comments : d # c => live'[d] = live[d]
  BY DEF Reply, TypeOK
<1>2. TypeOK'
  BY <1>1 DEF Reply, TypeOK, money, topic, locks
<1>3. \A s \in Topics : accepted[s] # None => accepted[s] # c /\ accepted[s] \in Comments
  BY QaAssumption DEF Reply, RowsOf, Written
<1>4. Properties'
  BY <1>1, <1>3 DEF Reply, Properties, BountyDebitedOnce, AcceptedIsSolved, AcceptedAnswerPaid, Pays,
     money, topic
<1>5. LiveWritten' /\ \A s \in Topics : RowsOf(s)'
  BY <1>1, <1>3 DEF Reply, LiveWritten, RowsOf, Exists, Written, topic
<1>6. \A k \in Handlers : OpOf(k)'
  BY <1>1, StatementStep DEF Reply, Monotone, topic
<1> QED BY <1>2, <1>4, <1>5, <1>6

LEMMA DeleteCommentStep ==
  ASSUME IInv, NEW c \in Comments, DeleteComment(c)
  PROVE  IInv'
<1> USE DEF IInv
<1>1. TypeOK'
  BY DEF DeleteComment, TypeOK, money, topic, locks
<1>2. Properties'
  BY DEF DeleteComment, Properties, BountyDebitedOnce, AcceptedIsSolved, AcceptedAnswerPaid, Pays,
     money, topic
<1>3. LiveWritten' /\ \A s \in Topics : RowsOf(s)'
  BY DEF DeleteComment, LiveWritten, RowsOf, Exists, Written, topic, TypeOK
<1>4. \A k \in Handlers : OpOf(k)'
  BY StatementStep DEF DeleteComment, Monotone, topic
<1> QED BY <1>1, <1>2, <1>3, <1>4

LEMMA AppearStep ==
  ASSUME IInv, NEW t \in Topics, NEW from \in SUBSET {"review", "deleted"}, Appear(t, from)
  PROVE  IInv'
<1> USE DEF IInv
<1>1. /\ topicStatus' \in [Topics -> {"none", "ok", "review", "deleted"}]
      /\ \A s \in Topics : (topicStatus[s] = "none") <=> (topicStatus'[s] = "none")
  BY DEF Appear, TypeOK
<1>2. TypeOK'
  BY <1>1 DEF Appear, TypeOK, money, comments, locks
<1>3. Properties'
  BY <1>1 DEF Appear, Properties, BountyDebitedOnce, AcceptedIsSolved, AcceptedAnswerPaid, Pays,
     money, comments
<1>4. LiveWritten' /\ \A s \in Topics : RowsOf(s)'
  BY <1>1 DEF Appear, LiveWritten, RowsOf, Exists, Written, comments
<1>5. \A k \in Handlers : OpOf(k)'
  BY <1>1, StatementStep DEF Appear, Monotone, comments
<1> QED BY <1>2, <1>3, <1>4, <1>5

LEMMA EarnStep ==
  ASSUME IInv, NEW u \in Users, NEW n \in 1..MaxScore, Earn(u, n)
  PROVE  IInv'
<1> USE DEF IInv
<1>1. score' \in [Users -> Int] /\ other' \in [Users -> Int]
  BY QaAssumption, AddScoreType DEF Earn, TypeOK
<1>2. TypeOK'
  BY <1>1 DEF Earn, TypeOK, topic, comments, locks
<1>3. Properties'
  BY DEF Earn, Properties, BountyDebitedOnce, AcceptedIsSolved, AcceptedAnswerPaid, Pays, topic,
     comments
<1>4. LiveWritten' /\ \A s \in Topics : RowsOf(s)'
  BY DEF Earn, LiveWritten, RowsOf, Exists, Written, topic, comments
<1>5. \A k \in Handlers : OpOf(k)'
  BY StatementStep DEF Earn, Monotone, topic, comments
<1> QED BY <1>2, <1>3, <1>4, <1>5

LEMMA QaStep == IInv /\ [Next]_vars => IInv'
<1> SUFFICES ASSUME IInv, [Next]_vars PROVE IInv'
  OBVIOUS
<1>1. CASE Next
  <2>1. ASSUME NEW h \in Handlers, HandlerStep(h) PROVE IInv'
    BY <2>1, PublishCommitStep, LockingStep, AcceptCommitStep, ReopenStep, DeleteCommitStep,
       BanDebitStep DEF HandlerStep
  <2>2. ASSUME NEW t \in Topics, Undelete(t) \/ Audit(t) PROVE IInv'
    BY <2>2, AppearStep DEF Undelete, Audit
  <2> QED BY <1>1, <2>1, <2>2, RequestStep, AbortStep, ReplyStep, DeleteCommentStep, EarnStep
          DEF Next
<1>2. CASE UNCHANGED vars
  BY <1>2 DEF vars, money, topic, comments, locks, IInv, TypeOK, Properties, BountyDebitedOnce,
     AcceptedIsSolved, AcceptedAnswerPaid, Pays, LiveWritten, RowsOf, Exists, Written, OpOf
<1> QED BY <1>1, <1>2

LEMMA QaInvariant == Spec => []IInv
  BY QaInit, QaStep, PTL DEF Spec

\* QaBounty is type correct for every set of users, topics and comments.
THEOREM QaTypes == Spec => []TypeOK
  BY QaInvariant, PTL DEF IInv

\* A published bounty has been taken from its asker exactly once.
THEOREM QaDebits == Spec => []BountyDebitedOnce
  BY QaInvariant, PTL DEF IInv, Properties

\* An accepted answer's question is solved.
THEOREM QaSolved == Spec => []AcceptedIsSolved
  BY QaInvariant, PTL DEF IInv, Properties

\* An accepted answer's author has been paid.
THEOREM QaPaid == Spec => []AcceptedAnswerPaid
  BY QaInvariant, PTL DEF IInv, Properties

-----------------------------------------------------------------------------
(* Action properties. *)

\* Which steps write a topic's status, its events or a refund.
LEMMA QuietSteps ==
  ASSUME Next
  PROVE  \/ UNCHANGED <<topicStatus, events, refunds>>
         \/ \E h \in Handlers, status \in {"ok", "review"} : PublishCommit(h, status)
         \/ \E h \in Handlers : DeleteCommit(h)
         \/ \E t \in Topics, from \in SUBSET {"review", "deleted"} : Appear(t, from)
<1>1. ASSUME NEW h \in Handlers, Request(h) PROVE UNCHANGED <<topicStatus, events, refunds>>
  BY <1>1 DEF Request, PublishCheck, AcceptRead, UnacceptRead, ForceRead, QaRead, DeleteRead,
     BanRead, money, topic
<1>2. ASSUME NEW h \in Handlers, Abort(h) PROVE UNCHANGED <<topicStatus, events, refunds>>
  BY <1>2 DEF Abort, money, topic
<1>3. ASSUME NEW h \in Handlers,
             \/ AcceptMark(h) \/ AcceptCommit(h) \/ UnacceptWrite(h) \/ ForceWrite(h)
             \/ DeleteRefund(h) \/ BanDebit(h)
      PROVE  UNCHANGED <<topicStatus, events, refunds>>
  BY <1>3 DEF AcceptMark, AcceptCommit, UnacceptWrite, ForceWrite, DeleteRefund, BanDebit, money,
     topic
<1>4. ASSUME NEW t \in Topics, Undelete(t) \/ Audit(t)
      PROVE  \E from \in SUBSET {"review", "deleted"} : Appear(t, from)
  BY <1>4 DEF Undelete, Audit
<1>5. ASSUME \/ \E u \in Users, t \in Topics, c \in Comments : Reply(u, t, c)
             \/ \E c \in Comments : DeleteComment(c)
             \/ \E u \in Users, n \in 1..MaxScore : Earn(u, n)
      PROVE  UNCHANGED <<topicStatus, events, refunds>>
  BY <1>5 DEF Reply, DeleteComment, Earn, money, topic
<1> QED BY <1>1, <1>2, <1>3, <1>4, <1>5 DEF Next, HandlerStep

\* Each transition that makes a topic visible is recorded, and nothing else.
THEOREM QaEvents == Spec => OneEventPerAppearance
<1> DEFINE A == \A t \in Topics :
                  events'[t] = events[t]
                    + IF topicStatus[t] # "ok" /\ topicStatus'[t] = "ok" THEN 1 ELSE 0
<1>1. ASSUME IInv, Next PROVE A
  <2>0. events \in [Topics -> Nat] /\ topicStatus \in [Topics -> {"none", "ok", "review", "deleted"}]
    BY <1>1 DEF IInv, TypeOK
  <2>1. CASE UNCHANGED <<topicStatus, events, refunds>>
    BY <2>0, <2>1
  <2>2. ASSUME NEW h \in Handlers, NEW status \in {"ok", "review"}, PublishCommit(h, status)
        PROVE A
    <3>1. topicStatus[op[h].topic] = "none" /\ op[h].topic \in Topics
      BY <1>1, <2>2 DEF PublishCommit, IInv, OpOf
    <3> QED BY <2>0, <2>2, <3>1 DEF PublishCommit
  <2>3. ASSUME NEW h \in Handlers, DeleteCommit(h) PROVE A
    <3>1. op[h].topic \in Topics
      BY <1>1, <2>3 DEF DeleteCommit, IInv, OpOf, Exists
    <3> QED BY <2>0, <2>3, <3>1 DEF DeleteCommit
  <2>4. ASSUME NEW t \in Topics, NEW from \in SUBSET {"review", "deleted"}, Appear(t, from)
        PROVE A
    BY <2>0, <2>4 DEF Appear
  <2> QED BY <1>1, <2>1, <2>2, <2>3, <2>4, QuietSteps
<1>2. IInv /\ [Next]_vars => [A]_vars
  BY <1>1
<1> QED BY <1>2, QaInvariant, PTL DEF Spec, OneEventPerAppearance

\* A refund is never paid without the deletion of its question.
THEOREM QaRefunds == Spec => RefundWithDeletion
<1> DEFINE A == \A t \in Topics : refunds'[t] # refunds[t] => topicStatus'[t] = "deleted"
<1>1. ASSUME IInv, Next PROVE A
  <2>0. /\ refunds \in [Topics -> Nat]
        /\ topicStatus \in [Topics -> {"none", "ok", "review", "deleted"}]
    BY <1>1 DEF IInv, TypeOK
  <2>1. ASSUME NEW h \in Handlers, DeleteCommit(h) PROVE A
    <3>1. op[h].topic \in Topics
      BY <1>1, <2>1 DEF DeleteCommit, IInv, OpOf, Exists
    <3> QED BY <2>0, <2>1, <3>1 DEF DeleteCommit
  <2>2. refunds' = refunds => A
    OBVIOUS
  <2> QED BY <1>1, <2>1, <2>2, QuietSteps DEF PublishCommit, Appear, money
<1>2. IInv /\ [Next]_vars => [A]_vars
  BY <1>1
<1> QED BY <1>2, QaInvariant, PTL DEF Spec, RefundWithDeletion
-----------------------------------------------------------------------------
(***************************************************************************)
(* The ledger.  Points has one element for each point that rows of the     *)
(* score log move: a row adds a block of as many new elements.             *)
(***************************************************************************)
Block(t, i, m) == {t} \X ({i} \X (1..m))

LEMMA PointsIn ==
  ASSUME NEW S, NEW n, NEW b, NEW x
  PROVE  x \in Points(S, n, b) <=> \E t \in S : x \in {t} \X ((1..n[t]) \X (1..b[t]))
  BY DEF Points

LEMMA BlockCount ==
  ASSUME NEW t, NEW i, NEW m \in Nat
  PROVE  IsFiniteSet(Block(t, i, m)) /\ Cardinality(Block(t, i, m)) = m
<1>1. IsFiniteSet(1..m) /\ Cardinality(1..m) = m
  BY FS_Interval
<1>2. /\ IsFiniteSet({t}) /\ Cardinality({t}) = 1
      /\ IsFiniteSet({i}) /\ Cardinality({i}) = 1
  BY FS_Singleton
<1> DEFINE B == {i} \X (1..m)
<1>3. IsFiniteSet(B) /\ Cardinality(B) = Cardinality({i}) * Cardinality(1..m)
  BY <1>1, <1>2, FS_Product, Zenon
<1>4. Cardinality(B) = m
  BY <1>1, <1>2, <1>3
<1> HIDE DEF B
<1>5. /\ IsFiniteSet({t} \X B)
      /\ Cardinality({t} \X B) = Cardinality({t}) * Cardinality(B)
  BY <1>2, <1>3, FS_Product, Zenon
<1>6. Cardinality({t} \X B) = m
  BY <1>2, <1>4, <1>5
<1>7. {t} \X B = Block(t, i, m)
  BY DEF B, Block
<1> QED BY <1>5, <1>6, <1>7, Zenon

LEMMA PointsFinite ==
  ASSUME NEW S \in SUBSET Topics, NEW n \in [Topics -> Nat], NEW b \in [Topics -> Nat]
  PROVE  IsFiniteSet(Points(S, n, b)) /\ Cardinality(Points(S, n, b)) \in Nat
<1> DEFINE rows == [t \in S |-> {t} \X ((1..n[t]) \X (1..b[t]))]
           R == {rows[t] : t \in S}
<1>1. IsFiniteSet(S)
  BY QaAssumption, FS_Subset
<1>2. IsFiniteSet(R)
  <2>1. rows \in Surjection(S, R)
    BY DEF Surjection
  <2> QED BY <1>1, <2>1, FS_Surjection
<1>3. ASSUME NEW T \in R PROVE IsFiniteSet(T)
  <2>1. PICK t \in S : T = {t} \X ((1..n[t]) \X (1..b[t]))
    OBVIOUS
  <2>2. n[t] \in Nat /\ b[t] \in Nat
    OBVIOUS
  <2>3. IsFiniteSet(1..n[t]) /\ IsFiniteSet(1..b[t])
    <3>1. \A k \in Nat : IsFiniteSet(1..k)
      BY FS_Interval
    <3> QED BY <2>2, <3>1
  <2>4. IsFiniteSet((1..n[t]) \X (1..b[t]))
    BY <2>3, FS_Product, Zenon
  <2>5. IsFiniteSet({t})
    BY FS_Singleton, Zenon
  <2> QED BY <2>1, <2>4, <2>5, FS_Product, Zenon
<1>4. Points(S, n, b) = UNION R
  BY DEF Points
<1> HIDE DEF R
<1> QED BY <1>2, <1>3, <1>4, FS_UNION, FS_CardinalityType

\* The same rows, of the same amounts.
LEMMA PointsSame ==
  ASSUME NEW S, NEW S2, NEW n \in [Topics -> Nat], NEW n2 \in [Topics -> Nat],
         NEW b \in [Topics -> Nat], NEW b2 \in [Topics -> Nat],
         S \subseteq Topics, S2 \subseteq Topics,
         \A t \in S : n[t] > 0 => t \in S2 /\ n2[t] = n[t] /\ b2[t] = b[t],
         \A t \in S2 : n2[t] > 0 => t \in S /\ n[t] > 0
  PROVE  Points(S2, n2, b2) = Points(S, n, b)
<1>1. ASSUME NEW x, x \in Points(S, n, b) PROVE x \in Points(S2, n2, b2)
  <2>1. PICK t \in S : x \in {t} \X ((1..n[t]) \X (1..b[t]))
    BY <1>1, PointsIn
  <2>2. n[t] \in Nat /\ n[t] > 0
    BY <2>1
  <2> QED BY <2>1, <2>2, PointsIn
<1>2. ASSUME NEW x, x \in Points(S2, n2, b2) PROVE x \in Points(S, n, b)
  <2>1. PICK t \in S2 : x \in {t} \X ((1..n2[t]) \X (1..b2[t]))
    BY <1>2, PointsIn
  <2>2. n2[t] \in Nat /\ n2[t] > 0
    BY <2>1
  <2> QED BY <2>1, <2>2, PointsIn
<1> QED BY <1>1, <1>2

\* One more row of the topic t, which had i - 1 of the same amount.
LEMMA PointsMore ==
  ASSUME NEW S, NEW S2, NEW n \in [Topics -> Nat], NEW n2 \in [Topics -> Nat],
         NEW b \in [Topics -> Nat], NEW b2 \in [Topics -> Nat],
         S \subseteq Topics, S2 \subseteq Topics, NEW t \in S2,
         \A s \in Topics : s # t => (s \in S <=> s \in S2) /\ n2[s] = n[s] /\ b2[s] = b[s],
         NEW i \in Nat \ {0}, n2[t] = i,
         t \in S => n[t] = i - 1,
         i > 1 => t \in S /\ b2[t] = b[t]
  PROVE  Cardinality(Points(S2, n2, b2)) = Cardinality(Points(S, n, b)) + b2[t]
<1> DEFINE P == Points(S, n, b)  P2 == Points(S2, n2, b2)  B == Block(t, i, b2[t])
<1>0. b2[t] \in Nat /\ t \in Topics
  OBVIOUS
<1>1. ASSUME NEW x, x \in P PROVE x \in P2 /\ x \notin B
  <2>1. PICK s \in S : x \in {s} \X ((1..n[s]) \X (1..b[s]))
    BY <1>1, PointsIn
  <2>2. CASE s # t
    <3>1. s \in S2 /\ n2[s] = n[s] /\ b2[s] = b[s]
      BY <2>2
    <3>2. x \in P2
      BY <2>1, <3>1, PointsIn
    <3> QED BY <2>1, <2>2, <3>2 DEF Block
  <2>3. CASE s = t
    <3>1. n[t] = i - 1 /\ 1..n[t] # {} /\ n[t] \in Nat
      BY <2>1, <2>3
    <3>2. i > 1 /\ b2[t] = b[t]
      BY <3>1
    <3>3. 1..n[t] \subseteq 1..n2[t] /\ i \notin 1..n[t]
      BY <3>1
    <3>4. x \in {t} \X ((1..n2[t]) \X (1..b2[t]))
      BY <2>1, <2>3, <3>2, <3>3
    <3> QED BY <2>1, <2>3, <3>3, <3>4, PointsIn DEF Block
  <2> QED BY <2>2, <2>3
<1>2. ASSUME NEW x \in B PROVE x \in P2
  <2>1. x \in {t} \X ((1..n2[t]) \X (1..b2[t]))
    BY DEF Block
  <2> QED BY <2>1, PointsIn
<1>3. ASSUME NEW x, x \in P2 PROVE x \in P \/ x \in B
  <2>1. PICK s \in S2 : x \in {s} \X ((1..n2[s]) \X (1..b2[s]))
    BY <1>3, PointsIn
  <2>2. CASE s # t
    <3>1. s \in S /\ n2[s] = n[s] /\ b2[s] = b[s]
      BY <2>2
    <3> QED BY <2>1, <3>1, PointsIn
  <2>3. CASE s = t
    <3>1. PICK j \in 1..i, k \in 1..b2[t] : x = <<t, <<j, k>>>>
      BY <2>1, <2>3
    <3>2. CASE j = i
      BY <3>1, <3>2 DEF Block
    <3>3. CASE j # i
      <4>1. j \in 1..(i - 1) /\ i > 1
        BY <3>3
      <4>2. t \in S /\ n[t] = i - 1 /\ b2[t] = b[t]
        BY <4>1
      <4> QED BY <3>1, <4>1, <4>2, PointsIn
    <3> QED BY <3>2, <3>3
  <2> QED BY <2>2, <2>3
<1>4. IsFiniteSet(P) /\ Cardinality(P) \in Nat
  BY PointsFinite
<1>5. IsFiniteSet(B) /\ Cardinality(B) = b2[t]
  BY <1>0, BlockCount
<1> HIDE DEF P, P2, B
<1>6. P2 = P \cup B /\ P \cap B = {}
  BY <1>1, <1>2, <1>3
<1>7. Cardinality(P2) = Cardinality(P) + Cardinality(B) - Cardinality({})
  BY <1>4, <1>5, <1>6, FS_Union
<1> QED BY <1>0, <1>4, <1>5, <1>7, FS_EmptySet DEF P, P2

(***************************************************************************)
(* What keeps the ledger: a topic that is not published yet has no rows    *)
(* and no asker, and a deletion in flight holds the bounty that the topic  *)
(* still has, or nothing.                                                  *)
(***************************************************************************)
NoRows(t) ==
  topicStatus[t] = "none" =>
    /\ asker[t] = None /\ debits[t] = 0 /\ refunds[t] = 0
    /\ \A u \in Users : rewards[<<t, u>>] = 0

RefundOf(h) == LET r == op[h] IN
  /\ r.pc = "delete" => r.amount \in {0, bounty[r.topic]}
  /\ r.pc = "delete_refunded" => r.amount = bounty[r.topic]

LInv == LedgerBalanced /\ (\A t \in Topics : NoRows(t)) /\ \A h \in Handlers : RefundOf(h)

LEMMA LedgerInit == Init => LInv
<1> SUFFICES ASSUME Init PROVE LInv
  OBVIOUS
<1> DEFINE zero == [t \in Topics |-> 0]
<1>1. ASSUME NEW S \in SUBSET Topics PROVE Points(S, zero, bounty) = {}
  BY PointsIn
<1>2. ASSUME NEW u \in Users PROVE RewardsOf(u) = zero
  BY DEF Init, RewardsOf
<1>3. refunds = zero /\ debits = zero /\ \A u \in Users : other[u] = 0 /\ score[u] = 0
  BY DEF Init
<1>4. Cardinality({}) = 0
  BY FS_EmptySet
<1> HIDE DEF zero
<1>5. LedgerBalanced
  <2> SUFFICES ASSUME NEW u \in Users
               PROVE  score[u] = other[u] + Cardinality(Points(Topics, RewardsOf(u), bounty))
                                   + Cardinality(Points(AskedBy(u), refunds, bounty))
                                   - Cardinality(Points(AskedBy(u), debits, bounty))
    BY DEF LedgerBalanced
  <2>1. /\ Cardinality(Points(Topics, RewardsOf(u), bounty)) = 0
        /\ Cardinality(Points(AskedBy(u), refunds, bounty)) = 0
        /\ Cardinality(Points(AskedBy(u), debits, bounty)) = 0
    BY <1>1, <1>2, <1>3, <1>4 DEF AskedBy
  <2> QED BY <1>3, <2>1
<1>6. \A t \in Topics : NoRows(t)
  BY DEF Init, NoRows
<1>7. \A h \in Handlers : RefundOf(h)
  BY DEF Init, RefundOf, Idle
<1> QED BY <1>5, <1>6, <1>7 DEF LInv

\* What the ledger of a user is made of.
LEMMA LedgerTypes ==
  ASSUME TypeOK, NEW u \in Users
  PROVE  /\ RewardsOf(u) \in [Topics -> Nat] /\ AskedBy(u) \in SUBSET Topics
         /\ Cardinality(Points(Topics, RewardsOf(u), bounty)) \in Nat
         /\ Cardinality(Points(AskedBy(u), refunds, bounty)) \in Nat
         /\ Cardinality(Points(AskedBy(u), debits, bounty)) \in Nat
<1>1. RewardsOf(u) \in [Topics -> Nat] /\ AskedBy(u) \in SUBSET Topics
  BY DEF TypeOK, RewardsOf, AskedBy
<1>2. bounty \in [Topics -> Nat] /\ refunds \in [Topics -> Nat] /\ debits \in [Topics -> Nat]
  BY DEF TypeOK
<1> QED BY <1>1, <1>2, PointsFinite

\* Most steps move no points.
LEMMA QuietLedger ==
  ASSUME LInv, UNCHANGED <<money, asker, bounty>>
  PROVE  LedgerBalanced'
<1>1. \A u \in Users : RewardsOf(u)' = RewardsOf(u) /\ AskedBy(u)' = AskedBy(u)
  BY DEF RewardsOf, AskedBy, money
<1> QED BY <1>1 DEF LInv, LedgerBalanced, money

\* Points from other sources, earned or lost.
LEMMA OtherLedger ==
  ASSUME TypeOK, LInv, NEW u \in Users, NEW n \in Int, AddScore(u, n),
         other' = [other EXCEPT ![u] = @ + n],
         UNCHANGED <<debits, rewards, refunds, asker, bounty>>
  PROVE  LedgerBalanced'
<1> SUFFICES ASSUME NEW w \in Users
             PROVE  (score[w] = other[w] + Cardinality(Points(Topics, RewardsOf(w), bounty))
                                   + Cardinality(Points(AskedBy(w), refunds, bounty))
                                   - Cardinality(Points(AskedBy(w), debits, bounty)))'
  BY DEF LedgerBalanced
<1>1. RewardsOf(w)' = RewardsOf(w) /\ AskedBy(w)' = AskedBy(w)
  BY DEF RewardsOf, AskedBy
<1>2. score'[w] - score[w] = other'[w] - other[w] /\ other[w] \in Int /\ score[w] \in Int
      /\ score'[w] \in Int /\ other'[w] \in Int
  BY DEF TypeOK, AddScore
<1> QED BY <1>1, <1>2, LedgerTypes DEF LInv, LedgerBalanced

\* A bounty won.
LEMMA RewardLedger ==
  ASSUME TypeOK, LInv, NEW u \in Users, NEW t \in Topics, AddScore(u, bounty[t]),
         rewards' = [rewards EXCEPT ![<<t, u>>] = @ + 1],
         UNCHANGED <<other, debits, refunds, asker, bounty>>
  PROVE  LedgerBalanced'
<1> SUFFICES ASSUME NEW w \in Users
             PROVE  (score[w] = other[w] + Cardinality(Points(Topics, RewardsOf(w), bounty))
                                   + Cardinality(Points(AskedBy(w), refunds, bounty))
                                   - Cardinality(Points(AskedBy(w), debits, bounty)))'
  BY DEF LedgerBalanced
<1> DEFINE n == RewardsOf(w)  n2 == RewardsOf(w)'
<1>0. bounty \in [Topics -> Nat] /\ rewards \in [Topics \X Users -> Nat]
      /\ score \in [Users -> Int] /\ other \in [Users -> Int]
  BY DEF TypeOK
<1>1. AskedBy(w)' = AskedBy(w)
  BY DEF AskedBy
<1>2. /\ n \in [Topics -> Nat] /\ n2 \in [Topics -> Nat]
      /\ n2[t] = IF w = u THEN n[t] + 1 ELSE n[t]
      /\ \A s \in Topics : s # t => n2[s] = n[s]
  BY <1>0 DEF RewardsOf
<1>3. Cardinality(Points(Topics, n2, bounty))
        = Cardinality(Points(Topics, n, bounty)) + IF w = u THEN bounty[t] ELSE 0
  <2> HIDE DEF n, n2
  <2>1. CASE w = u
    <3> DEFINE i == n2[t]
    <3>1. i \in Nat \ {0} /\ n[t] = i - 1
      BY <1>2, <2>1
    <3> HIDE DEF i
    <3> QED BY <1>0, <1>2, <2>1, <3>1, PointsMore DEF i
  <2>2. CASE w # u
    <3>1. n2 = n
      BY <1>2, <2>2
    <3>2. Cardinality(Points(Topics, n, bounty)) \in Nat
      BY <1>0, <1>2, PointsFinite
    <3> QED BY <2>2, <3>1, <3>2
  <2> QED BY <2>1, <2>2
<1>4. score'[w] = score[w] + IF w = u THEN bounty[t] ELSE 0
  BY <1>0 DEF AddScore
<1>5. score[w] \in Int /\ other[w] \in Int /\ bounty[t] \in Int /\ other' = other
      /\ refunds' = refunds /\ debits' = debits /\ bounty' = bounty
  BY <1>0
<1>6. score[w] = other[w] + Cardinality(Points(Topics, n, bounty))
                          + Cardinality(Points(AskedBy(w), refunds, bounty))
                          - Cardinality(Points(AskedBy(w), debits, bounty))
  BY DEF LInv, LedgerBalanced
<1> HIDE DEF n, n2
<1> QED BY <1>1, <1>3, <1>4, <1>5, <1>6, LedgerTypes DEF n, n2

\* A bounty returned to the asker.
LEMMA RefundLedger ==
  ASSUME TypeOK, LInv, NEW u \in Users, NEW t \in Topics, asker[t] = u, AddScore(u, bounty[t]),
         refunds' = [refunds EXCEPT ![t] = @ + 1],
         UNCHANGED <<other, debits, rewards, asker, bounty>>
  PROVE  LedgerBalanced'
<1> SUFFICES ASSUME NEW w \in Users
             PROVE  (score[w] = other[w] + Cardinality(Points(Topics, RewardsOf(w), bounty))
                                   + Cardinality(Points(AskedBy(w), refunds, bounty))
                                   - Cardinality(Points(AskedBy(w), debits, bounty)))'
  BY DEF LedgerBalanced
<1> DEFINE S == AskedBy(w)  n2 == refunds'
<1>0. /\ bounty \in [Topics -> Nat] /\ refunds \in [Topics -> Nat] /\ n2 \in [Topics -> Nat]
      /\ n2[t] = refunds[t] + 1 /\ \A s \in Topics : s # t => n2[s] = refunds[s]
      /\ score \in [Users -> Int] /\ other \in [Users -> Int] /\ S \subseteq Topics
  BY DEF TypeOK, AskedBy
<1>1. AskedBy(w)' = S /\ RewardsOf(w)' = RewardsOf(w)
  BY DEF AskedBy, RewardsOf
<1>2. t \in S <=> w = u
  BY DEF AskedBy
<1> HIDE DEF S, n2
<1>3. Cardinality(Points(S, n2, bounty))
        = Cardinality(Points(S, refunds, bounty)) + IF w = u THEN bounty[t] ELSE 0
  <2>1. CASE w = u
    <3> DEFINE i == n2[t]
    <3>1. i \in Nat \ {0} /\ refunds[t] = i - 1
      BY <1>0
    <3> HIDE DEF i
    <3> QED BY <1>0, <1>2, <2>1, <3>1, PointsMore DEF i
  <2>2. CASE w # u
    <3>1. Points(S, n2, bounty) = Points(S, refunds, bounty)
      BY <1>0, <1>2, <2>2, PointsSame
    <3>2. Cardinality(Points(S, refunds, bounty)) \in Nat
      BY <1>0, PointsFinite
    <3> QED BY <2>2, <3>1, <3>2
  <2> QED BY <2>1, <2>2
<1>4. score'[w] = score[w] + IF w = u THEN bounty[t] ELSE 0
  BY <1>0 DEF AddScore
<1>5. score[w] \in Int /\ other[w] \in Int /\ bounty[t] \in Int /\ other' = other
      /\ debits' = debits /\ bounty' = bounty
  BY <1>0
<1>6. score[w] = other[w] + Cardinality(Points(Topics, RewardsOf(w), bounty))
                          + Cardinality(Points(S, refunds, bounty))
                          - Cardinality(Points(S, debits, bounty))
  BY DEF LInv, LedgerBalanced, S
<1>7. /\ Cardinality(Points(Topics, RewardsOf(w), bounty)) \in Nat
      /\ Cardinality(Points(S, refunds, bounty)) \in Nat
      /\ Cardinality(Points(S, debits, bounty)) \in Nat
  BY LedgerTypes DEF S
<1> QED BY <1>1, <1>3, <1>4, <1>5, <1>6, <1>7 DEF n2

\* A question published, with a bounty or without.
LEMMA PublishLedger ==
  ASSUME IInv, LInv, NEW h \in Handlers, NEW status \in {"ok", "review"}, PublishCommit(h, status)
  PROVE  LedgerBalanced'
<1> DEFINE t == op[h].topic  u == op[h].user  m == op[h].amount
<1> SUFFICES ASSUME NEW w \in Users
             PROVE  (score[w] = other[w] + Cardinality(Points(Topics, RewardsOf(w), bounty))
                                   + Cardinality(Points(AskedBy(w), refunds, bounty))
                                   - Cardinality(Points(AskedBy(w), debits, bounty)))'
  BY DEF LedgerBalanced
<1> DEFINE b2 == bounty'  d2 == debits'  S == AskedBy(w)  S2 == AskedBy(w)'  n == RewardsOf(w)
<1>1. /\ t \in Topics /\ u \in Users /\ topicStatus[t] = "none" /\ m \in Int
      /\ asker[t] = None /\ debits[t] = 0 /\ refunds[t] = 0 /\ n[t] = 0
  BY OpAmount DEF PublishCommit, IInv, OpOf, LInv, NoRows, RewardsOf
<1>2. /\ score \in [Users -> Int] /\ other \in [Users -> Int] /\ n \in [Topics -> Nat]
      /\ refunds \in [Topics -> Nat] /\ debits \in [Topics -> Nat] /\ bounty \in [Topics -> Nat]
  BY DEF IInv, TypeOK, RewardsOf
<1>3. /\ b2 \in [Topics -> Nat] /\ b2[t] = (IF m > 0 THEN m ELSE 0)
      /\ \A s \in Topics : s # t => b2[s] = bounty[s]
  BY <1>1, <1>2 DEF PublishCommit, BountyOf
<1>4. /\ d2 \in [Topics -> Nat] /\ d2[t] = (IF m > 0 THEN 1 ELSE 0)
      /\ \A s \in Topics : s # t => d2[s] = debits[s]
  BY <1>1, <1>2 DEF PublishCommit
<1>5. /\ S \subseteq Topics /\ S2 \subseteq Topics /\ t \notin S /\ (t \in S2 <=> w = u)
      /\ \A s \in Topics : s # t => (s \in S <=> s \in S2)
  BY <1>1, QaAssumption DEF PublishCommit, AskedBy, IInv, TypeOK
<1>6. RewardsOf(w)' = n /\ refunds' = refunds /\ other' = other
  BY DEF PublishCommit, RewardsOf
<1>7. score'[w] = score[w] - IF w = u /\ m > 0 THEN m ELSE 0
  BY <1>1, <1>2 DEF PublishCommit, AddScore
<1>8. score[w] = other[w] + Cardinality(Points(Topics, n, bounty))
                          + Cardinality(Points(S, refunds, bounty))
                          - Cardinality(Points(S, debits, bounty))
  BY DEF LInv, LedgerBalanced
<1> HIDE DEF t, u, m, b2, d2, S, S2, n
<1>9. Points(Topics, n, b2) = Points(Topics, n, bounty)
  BY <1>1, <1>2, <1>3, PointsSame
<1>10. Points(S2, refunds, b2) = Points(S, refunds, bounty)
  BY <1>1, <1>2, <1>3, <1>5, PointsSame
<1>11. Cardinality(Points(S2, d2, b2))
         = Cardinality(Points(S, debits, bounty)) + IF w = u /\ m > 0 THEN m ELSE 0
  <2>1. CASE w = u /\ m > 0
    <3>1. t \in S2 /\ d2[t] = 1 /\ b2[t] = m /\ 1 \in Nat \ {0}
      BY <1>3, <1>4, <1>5, <2>1
    <3>2. Cardinality(Points(S2, d2, b2)) = Cardinality(Points(S, debits, bounty)) + b2[t]
      BY <1>2, <1>3, <1>4, <1>5, <3>1, PointsMore
    <3> QED BY <2>1, <3>1, <3>2
  <2>2. CASE ~ (w = u /\ m > 0)
    <3>1. \A s \in S2 : d2[s] > 0 => s # t
      BY <1>1, <1>4, <1>5, <2>2
    <3>2. Points(S2, d2, b2) = Points(S, debits, bounty)
      BY <1>1, <1>2, <1>3, <1>4, <1>5, <3>1, PointsSame
    <3>3. Cardinality(Points(S, debits, bounty)) \in Nat
      BY <1>2, <1>5, PointsFinite
    <3> QED BY <2>2, <3>2, <3>3
  <2> QED BY <2>1, <2>2
<1>12. /\ Cardinality(Points(Topics, n, bounty)) \in Nat
       /\ Cardinality(Points(S, refunds, bounty)) \in Nat
       /\ Cardinality(Points(S, debits, bounty)) \in Nat
  BY <1>2, <1>5, PointsFinite
<1>13. score[w] \in Int /\ other[w] \in Int /\ m \in Int
  BY <1>1, <1>2
<1> QED BY <1>6, <1>7, <1>8, <1>9, <1>10, <1>11, <1>12, <1>13 DEF b2, d2, S2

LEMMA IdleRefund ==
  ASSUME NEW h \in Handlers, op'[h] = Idle
  PROVE  RefundOf(h)'
  BY DEF RefundOf, Idle

\* The requests that a step does not serve keep what they hold.
LEMMA OtherRefunds ==
  ASSUME IInv, LInv, NEW k \in Handlers, op'[k] = op[k],
         \A t \in Topics : topicStatus[t] # "none" => bounty'[t] = bounty[t]
  PROVE  RefundOf(k)'
  BY DEF IInv, LInv, OpOf, Exists, RefundOf

LEMMA QuietRows ==
  ASSUME LInv, UNCHANGED <<money, asker>>,
         \A t \in Topics : (topicStatus[t] = "none") <=> (topicStatus'[t] = "none")
  PROVE  \A t \in Topics : NoRows(t)'
  BY DEF LInv, NoRows, money

\* The beginning of a request: a deletion reads the bounty it will return.
LEMMA RequestLedger ==
  ASSUME IInv, LInv, NEW h \in Handlers, Request(h)
  PROVE  LInv'
<1>1. UNCHANGED <<money, topic, comments, locks>> /\ \E r : Start(h, r)
  BY DEF Request, PublishCheck, AcceptRead, UnacceptRead, ForceRead, QaRead, DeleteRead, BanRead
<1>2. op \in [Handlers -> Op] /\ bounty \in [Topics -> Nat]
  BY DEF IInv, TypeOK
<1>3. \A k \in Handlers : k # h => op'[k] = op[k]
  BY <1>1, <1>2 DEF Start
<1>4. op'[h].pc \notin {"delete", "delete_refunded"}
        \/ (op'[h].pc = "delete" /\ op'[h].amount \in {0, bounty[op'[h].topic]})
  <2>1. ASSUME NEW t \in Topics, DeleteRead(h, t)
        PROVE  op'[h].pc = "delete" /\ op'[h].amount \in {0, bounty[op'[h].topic]}
    BY <1>2, <2>1 DEF DeleteRead, Start, Idle
  <2>2. ASSUME NEW u \in Users, NEW t \in Topics, NEW n \in -1..MaxScore, NEW e \in BountySettings,
               PublishCheck(h, u, t, n, e)
        PROVE  op'[h].pc = "publish"
    BY <1>2, <2>2 DEF PublishCheck, Start, Idle
  <2>3. ASSUME NEW t \in Topics, NEW c \in Comments, AcceptRead(h, t, c) PROVE op'[h].pc = "accept"
    BY <1>2, <2>3 DEF AcceptRead, Start, Idle
  <2>4. ASSUME NEW t \in Topics, NEW pc \in {"unaccept", "solve", "unsolve"}, QaRead(h, t, pc)
        PROVE  op'[h].pc = pc
    BY <1>2, <2>4 DEF QaRead, Start, Idle
  <2>5. ASSUME NEW u \in Users, BanRead(h, u) PROVE op'[h].pc = "ban"
    BY <1>2, <2>5 DEF BanRead, Start, Idle
  <2> QED BY <2>1, <2>2, <2>3, <2>4, <2>5 DEF Request, UnacceptRead, ForceRead
<1>5. RefundOf(h)'
  BY <1>1, <1>4 DEF RefundOf, topic
<1>6. ASSUME NEW k \in Handlers, k # h PROVE RefundOf(k)'
  BY <1>1, <1>3, <1>6, OtherRefunds DEF topic
<1> QED BY <1>1, <1>5, <1>6, QuietLedger, QuietRows DEF LInv, topic

\* The points an UPDATE inside a transaction will add are those it was given.
LEMMA LockingLedger ==
  ASSUME IInv, LInv, NEW h \in Handlers, AcceptMark(h) \/ DeleteRefund(h)
  PROVE  LInv'
<1>1. UNCHANGED <<money, topic, comments>>
  BY DEF AcceptMark, DeleteRefund
<1>2. op \in [Handlers -> Op]
  BY DEF IInv, TypeOK
<1>3. \A k \in Handlers : k # h => op'[k] = op[k]
  BY <1>2 DEF AcceptMark, DeleteRefund, Goto
<1>4. RefundOf(h)'
  <2>1. CASE AcceptMark(h)
    BY <1>2, <2>1, GotoEffect DEF AcceptMark, RefundOf, IInv, Pcs
  <2>2. CASE DeleteRefund(h)
    <3>1. op'[h] = [op[h] EXCEPT !.pc = "delete_refunded"] /\ op[h] \in Op
      BY <1>2, <2>2 DEF DeleteRefund, Goto
    <3>2. op'[h].pc = "delete_refunded" /\ op'[h].amount = op[h].amount
          /\ op'[h].topic = op[h].topic
      BY <3>1 DEF Op
    <3>3. op[h].amount = bounty[op[h].topic]
      BY <2>2 DEF DeleteRefund, LInv, RefundOf
    <3> QED BY <1>1, <3>2, <3>3 DEF RefundOf, topic
  <2> QED BY <2>1, <2>2
<1>5. ASSUME NEW k \in Handlers, k # h PROVE RefundOf(k)'
  BY <1>1, <1>3, <1>5, OtherRefunds DEF topic
<1> QED BY <1>1, <1>4, <1>5, QuietLedger, QuietRows DEF LInv, topic

\* A transaction ends.
LEMMA FinishLedger ==
  ASSUME IInv, LInv, NEW h \in Handlers, Finish(h), LedgerBalanced',
         \A t \in Topics : NoRows(t)',
         \A t \in Topics : topicStatus[t] # "none" => bounty'[t] = bounty[t]
  PROVE  LInv'
<1>1. op'[h] = Idle /\ \A k \in Handlers : k # h => op'[k] = op[k]
  BY FinishEffect DEF IInv
<1>2. RefundOf(h)'
  BY <1>1, IdleRefund
<1>3. \A k \in Handlers : k # h => RefundOf(k)'
  BY <1>1, OtherRefunds
<1> QED BY <1>2, <1>3 DEF LInv

LEMMA PublishCommitLedger ==
  ASSUME IInv, LInv, NEW h \in Handlers, NEW status \in {"ok", "review"}, PublishCommit(h, status)
  PROVE  LInv'
<1> DEFINE t == op[h].topic
<1>1. t \in Topics /\ topicStatus[t] = "none" /\ Finish(h)
  BY DEF PublishCommit, IInv, OpOf
<1>2. /\ topicStatus'[t] # "none"
      /\ \A s \in Topics : s # t =>
           /\ topicStatus'[s] = topicStatus[s] /\ asker'[s] = asker[s] /\ debits'[s] = debits[s]
           /\ bounty'[s] = bounty[s]
      /\ refunds' = refunds /\ rewards' = rewards
  BY <1>1 DEF PublishCommit, IInv, TypeOK
<1>3. \A s \in Topics : NoRows(s)'
  BY <1>2 DEF LInv, NoRows
<1> QED BY <1>1, <1>2, <1>3, PublishLedger, FinishLedger

LEMMA AcceptCommitLedger ==
  ASSUME IInv, LInv, NEW h \in Handlers, AcceptCommit(h)
  PROVE  LInv'
<1> DEFINE t == op[h].topic  u == author[op[h].comment]
<1>1. t \in Topics /\ topicStatus[t] # "none" /\ u \in Users /\ Finish(h)
  BY DEF AcceptCommit, IInv, OpOf, Exists, Written
<1>2. UNCHANGED <<other, debits, refunds, topicStatus, asker, bounty>>
  BY DEF AcceptCommit
<1>3. CASE Pays(t, op[h].comment)
  <2>1. AddScore(u, bounty[t]) /\ rewards' = [rewards EXCEPT ![<<t, u>>] = @ + 1]
    BY <1>3 DEF AcceptCommit
  <2>2. LedgerBalanced'
    BY <1>1, <1>2, <2>1, RewardLedger DEF IInv
  <2>3. ASSUME NEW s \in Topics, topicStatus[s] = "none", NEW w \in Users
        PROVE  rewards'[<<s, w>>] = rewards[<<s, w>>]
    <3>1. <<s, w>> # <<t, u>> /\ <<s, w>> \in Topics \X Users
      BY <1>1, <2>3
    <3>2. rewards \in [Topics \X Users -> Nat]
      BY DEF IInv, TypeOK
    <3> QED BY <2>1, <3>1, <3>2, Zenon
  <2>4. \A s \in Topics : NoRows(s)'
    BY <1>2, <2>3 DEF LInv, NoRows
  <2> QED BY <1>1, <1>2, <2>2, <2>4, FinishLedger
<1>4. CASE ~ Pays(t, op[h].comment)
  <2>1. UNCHANGED <<money, asker, bounty, topicStatus>>
    BY <1>2, <1>4 DEF AcceptCommit, money
  <2> QED BY <1>1, <2>1, QuietLedger, QuietRows, FinishLedger
<1> QED BY <1>3, <1>4

LEMMA DeleteCommitLedger ==
  ASSUME IInv, LInv, NEW h \in Handlers, DeleteCommit(h)
  PROVE  LInv'
<1> DEFINE t == op[h].topic  u == asker[t]
<1>1. t \in Topics /\ topicStatus[t] # "none" /\ u \in Users /\ Finish(h)
  BY DEF DeleteCommit, IInv, OpOf, Exists, RowsOf
<1>2. UNCHANGED <<other, debits, rewards, asker, bounty>>
  BY DEF DeleteCommit
<1>3. \A s \in Topics : (topicStatus[s] = "none") <=> (topicStatus'[s] = "none")
  BY <1>1 DEF DeleteCommit, IInv, TypeOK
<1>4. CASE op[h].pc = "delete_refunded"
  <2>1. AddScore(u, bounty[t]) /\ refunds' = [refunds EXCEPT ![t] = @ + 1]
    BY <1>4 DEF DeleteCommit, LInv, RefundOf
  <2>2. LedgerBalanced'
    BY <1>1, <1>2, <2>1, RefundLedger DEF IInv
  <2>3. \A s \in Topics : topicStatus[s] = "none" => refunds'[s] = refunds[s]
    BY <1>1, <2>1 DEF IInv, TypeOK
  <2>4. \A s \in Topics : NoRows(s)'
    BY <1>2, <1>3, <2>3 DEF LInv, NoRows
  <2> QED BY <1>1, <1>2, <2>2, <2>4, FinishLedger
<1>5. CASE op[h].pc # "delete_refunded"
  <2>1. UNCHANGED <<money, asker, bounty>>
    BY <1>2, <1>5 DEF DeleteCommit, money
  <2> QED BY <1>1, <1>3, <2>1, QuietLedger, QuietRows, FinishLedger
<1> QED BY <1>4, <1>5

\* The permanent ban and points earned.
LEMMA BanLedger ==
  ASSUME IInv, LInv, NEW h \in Handlers, BanDebit(h)
  PROVE  LInv'
<1> DEFINE u == op[h].user  n == op[h].amount
<1>1. u \in Users /\ n \in Int /\ -n \in Int
  BY OpAmount DEF BanDebit, IInv, OpOf
<1>2. /\ AddScore(u, -n) /\ Finish(h) /\ UNCHANGED <<debits, rewards, refunds, topic>>
      /\ other' = [other EXCEPT ![u] = @ - n]
  BY DEF BanDebit
<1>3. other' = [other EXCEPT ![u] = @ + (-n)]
  BY <1>1, <1>2 DEF IInv, TypeOK
<1>4. LedgerBalanced'
  BY <1>1, <1>2, <1>3, OtherLedger DEF IInv, topic
<1>5. \A t \in Topics : NoRows(t)'
  BY <1>2 DEF LInv, NoRows, topic
<1> QED BY <1>2, <1>4, <1>5, FinishLedger DEF topic

LEMMA EarnLedger ==
  ASSUME IInv, LInv, NEW u \in Users, NEW n \in 1..MaxScore, Earn(u, n)
  PROVE  LInv'
<1>1. n \in Int
  BY QaAssumption
<1>2. LedgerBalanced'
  BY <1>1, OtherLedger DEF Earn, IInv, topic
<1>3. \A t \in Topics : NoRows(t)'
  BY DEF Earn, LInv, NoRows, topic
<1>4. \A h \in Handlers : RefundOf(h)'
  BY OtherRefunds DEF Earn, topic
<1> QED BY <1>2, <1>3, <1>4 DEF LInv

\* Steps that end no transaction and move no points.
LEMMA QuietStep ==
  ASSUME IInv, LInv, UNCHANGED <<money, asker, bounty, op>>,
         \A t \in Topics : (topicStatus[t] = "none") <=> (topicStatus'[t] = "none")
  PROVE  LInv'
  BY QuietLedger, QuietRows, OtherRefunds DEF LInv

LEMMA LedgerStep == IInv /\ LInv /\ [Next]_vars => LInv'
<1> SUFFICES ASSUME IInv, LInv, [Next]_vars PROVE LInv'
  OBVIOUS
<1>1. ASSUME NEW h \in Handlers, HandlerStep(h) PROVE LInv'
  <2>1. ASSUME UnacceptWrite(h) \/ ForceWrite(h) PROVE LInv'
    <3>1. Finish(h) /\ UNCHANGED <<money, asker, bounty, topicStatus>>
      BY <2>1 DEF UnacceptWrite, ForceWrite
    <3> QED BY <3>1, QuietLedger, QuietRows, FinishLedger
  <2> QED BY <1>1, <2>1, PublishCommitLedger, LockingLedger, AcceptCommitLedger,
             DeleteCommitLedger, BanLedger DEF HandlerStep
<1>2. ASSUME NEW h \in Handlers, Abort(h) PROVE LInv'
  <2>1. Finish(h) /\ UNCHANGED <<money, topic>>
    BY <1>2 DEF Abort
  <2> QED BY <2>1, QuietLedger, QuietRows, FinishLedger DEF topic
<1>3. ASSUME NEW u \in Users, NEW t \in Topics, NEW c \in Comments, Reply(u, t, c)
      PROVE  LInv'
  BY <1>3, QuietStep DEF Reply, topic
<1>4. ASSUME NEW t \in Topics, Undelete(t) \/ Audit(t) PROVE LInv'
  <2>1. PICK from \in SUBSET {"review", "deleted"} : Appear(t, from)
    BY <1>4 DEF Undelete, Audit
  <2>2. \A s \in Topics : (topicStatus[s] = "none") <=> (topicStatus'[s] = "none")
    BY <2>1 DEF Appear, IInv, TypeOK
  <2> QED BY <2>1, <2>2, QuietStep DEF Appear
<1>5. CASE UNCHANGED vars
  BY <1>5, QuietStep DEF vars, topic
<1>6. ASSUME NEW c \in Comments, DeleteComment(c) PROVE LInv'
  BY <1>6, QuietStep DEF DeleteComment, topic
<1> QED BY <1>1, <1>2, <1>3, <1>4, <1>5, <1>6, RequestLedger, EarnLedger DEF Next

\* Every balance is the sum of its ledger, for any number of users, questions
\* and concurrent requests on stale copies.
THEOREM QaLedger == Spec => []LedgerBalanced
  BY QaInvariant, QaInit, LedgerInit, LedgerStep, PTL DEF Spec, LInv

-----------------------------------------------------------------------------
(***************************************************************************)
(* RefundOnlyUnaccepted is what overlapping requests break (MCQaRefundRace *)
(* has the behaviour).  With one request at a time it holds, although a    *)
(* deletion still decides on the copy of the topic it read in an earlier   *)
(* step: nothing but another request accepts an answer meanwhile.          *)
(***************************************************************************)
RefundDue(h) ==
  /\ op[h].pc \in {"delete", "delete_refunded"} /\ op[h].amount # 0 => accepted[op[h].topic] = None
  /\ op[h].pc = "delete_refunded" => op[h].amount # 0

\* Steps that leave the request and the accepted answers as they are.
LEMMA DueStays ==
  ASSUME NEW h, RefundDue(h), UNCHANGED <<accepted, op>>
  PROVE  RefundDue(h)'
  BY DEF RefundDue

\* The step of a request: it reads the topic, goes on with what it read, or ends.
LEMMA DueServed ==
  ASSUME IInv, NEW h \in Handlers, RefundDue(h), Request(h) \/ HandlerStep(h) \/ Abort(h)
  PROVE  RefundDue(h)'
<1>0. op \in [Handlers -> Op] /\ op[h] \in Op
  BY DEF IInv, TypeOK
<1>1. CASE op'[h] = Idle
  BY <1>1 DEF RefundDue, Idle
<1>2. CASE Request(h)
  <2>1. ASSUME NEW t \in Topics, DeleteRead(h, t) PROVE RefundDue(h)'
    <3>1. /\ op'[h].pc = "delete" /\ op'[h].topic = t
          /\ op'[h].amount = IF accepted[t] = None THEN bounty[t] ELSE 0
          /\ accepted' = accepted
      BY <1>0, <2>1 DEF DeleteRead, Start, Idle, topic
    <3> QED BY <3>1 DEF RefundDue
  <2>2. ASSUME NEW u \in Users, NEW t \in Topics, NEW n \in -1..MaxScore, NEW e \in BountySettings,
               PublishCheck(h, u, t, n, e)
        PROVE  op'[h].pc = "publish"
    BY <1>0, <2>2 DEF PublishCheck, Start, Idle
  <2>3. ASSUME NEW t \in Topics, NEW c \in Comments, AcceptRead(h, t, c) PROVE op'[h].pc = "accept"
    BY <1>0, <2>3 DEF AcceptRead, Start, Idle
  <2>4. ASSUME NEW t \in Topics, NEW pc \in {"unaccept", "solve", "unsolve"}, QaRead(h, t, pc)
        PROVE  op'[h].pc = pc
    BY <1>0, <2>4 DEF QaRead, Start, Idle
  <2>5. ASSUME NEW u \in Users, BanRead(h, u) PROVE op'[h].pc = "ban"
    BY <1>0, <2>5 DEF BanRead, Start, Idle
  <2>6. op'[h].pc \notin {"delete", "delete_refunded"} => RefundDue(h)'
    BY DEF RefundDue
  <2> QED BY <1>2, <2>1, <2>2, <2>3, <2>4, <2>5, <2>6 DEF Request, UnacceptRead, ForceRead
<1>3. CASE AcceptMark(h)
  BY <1>3, GotoEffect DEF AcceptMark, RefundDue, IInv, Pcs
<1>4. CASE DeleteRefund(h)
  <2>1. op'[h] = [op[h] EXCEPT !.pc = "delete_refunded"]
    BY <1>0, <1>4 DEF DeleteRefund, Goto
  <2>2. /\ op'[h].pc = "delete_refunded" /\ op'[h].amount = op[h].amount
        /\ op'[h].topic = op[h].topic
    BY <1>0, <2>1 DEF Op
  <2>3. op[h].pc = "delete" /\ op[h].amount # 0 /\ accepted' = accepted
    BY <1>0, <1>4 DEF DeleteRefund, topic, Op
  <2> QED BY <2>2, <2>3 DEF RefundDue
<1>5. ASSUME Finish(h) PROVE RefundDue(h)'
  BY <1>1, <1>5, FinishEffect DEF IInv
<1>6. ASSUME NEW status \in {"ok", "review"}, PublishCommit(h, status) PROVE RefundDue(h)'
  BY <1>5, <1>6 DEF PublishCommit
<1>7. CASE AcceptCommit(h) \/ UnacceptWrite(h) \/ ForceWrite(h) \/ DeleteCommit(h) \/ BanDebit(h)
           \/ Abort(h)
  BY <1>5, <1>7 DEF AcceptCommit, UnacceptWrite, ForceWrite, DeleteCommit, BanDebit, Abort
<1> QED BY <1>2, <1>3, <1>4, <1>6, <1>7 DEF HandlerStep

\* With one request at a time a bounty is returned only if no answer is accepted: the
\* refund to the asker of a question whose answerer is paid needs a request that accepts
\* between the read and the commit of one that deletes (topic_service.go: Delete).
THEOREM QaRefundAlone ==
  ASSUME NEW one, Handlers = {one}
  PROVE  Spec => RefundOnlyUnaccepted
<1> DEFINE A == \A t \in Topics : refunds'[t] # refunds[t] => accepted[t] = None
           Due == \A h \in Handlers : RefundDue(h)
<1>1. Init => Due
  BY DEF Init, RefundDue, Idle
<1>2. ASSUME IInv, Due, Next PROVE Due'
  <2>1. ASSUME NEW h \in Handlers, Request(h) \/ HandlerStep(h) \/ Abort(h) PROVE Due'
    BY <1>2, <2>1, DueServed
  <2>2. ASSUME UNCHANGED <<accepted, op>> PROVE Due'
    BY <1>2, <2>2, DueStays
  <2> HIDE DEF Due
  <2> QED BY <1>2, <2>1, <2>2 DEF Next, Reply, DeleteComment, Undelete, Audit, Appear, Earn, topic
<1>3. ASSUME IInv, Due, Next PROVE A
  <2>1. ASSUME NEW h \in Handlers, DeleteCommit(h) PROVE A
    <3>1. CASE op[h].pc = "delete_refunded"
      <4>1. accepted[op[h].topic] = None
        BY <1>3, <3>1 DEF RefundDue
      <4> QED BY <1>3, <2>1, <3>1, <4>1 DEF DeleteCommit, IInv, TypeOK
    <3>2. CASE op[h].pc # "delete_refunded"
      BY <2>1, <3>2 DEF DeleteCommit
    <3> QED BY <3>1, <3>2
  <2>2. refunds' = refunds => A
    OBVIOUS
  <2> QED BY <1>3, <2>1, <2>2, QuietSteps DEF PublishCommit, Appear, money
<1>4. IInv /\ Due /\ [Next]_vars => Due' /\ [A]_vars
  <2>1. CASE UNCHANGED vars
    BY <2>1, DueStays DEF vars, topic
  <2> QED BY <1>2, <1>3, <2>1
<1>5. QED
  <2> HIDE DEF A, Due
  <2>1. Spec => [][A]_vars
    BY <1>1, <1>4, QaInvariant, PTL DEF Spec
  <2> QED BY <2>1 DEF RefundOnlyUnaccepted, A
=============================================================================
