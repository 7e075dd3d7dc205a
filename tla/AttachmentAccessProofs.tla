------------------------ MODULE AttachmentAccessProofs ------------------------
(* Proofs about AttachmentAccess for any number of users, attachments,      *)
(* topics and concurrent requests: types, one charge per unlock, and what   *)
(* an unlock may take.                                                      *)
EXTENDS AttachmentAccess, TLAPS

(***************************************************************************)
(* The inductive invariant says, of each request, which locks it holds and *)
(* what those locks keep true: once an unlock is approved, the attachment  *)
(* stays visible, unpaid and at the approved price, and the balance stays  *)
(* sufficient, until its own commit.                                       *)
(***************************************************************************)
Unlocking == {"access", "user_locked", "locked", "approved"}
Creating == {"publish", "publish_checked"}
Deleting == {"delete", "delete_marked"}

LocksOf(h) == LET r == op[h] IN
  /\ r.pc \in Unlocking => r.user \in Users /\ r.att \in Attachments
  /\ r.pc \in Unlocking \ {"access"} => userLock[r.user] = h
  /\ r.pc \in {"locked", "approved"} => attLock[r.att] = h

TopicOf(h) == LET r == op[h] IN
  /\ r.pc \in Creating => /\ r.topic \in Topics /\ topicStatus[r.topic] = "none"
                          /\ \A k \in Handlers : op[k].pc \in Creating /\ k # h =>
                               op[k].topic # r.topic
  /\ r.pc \in Deleting => r.topic \in Topics /\ topicStatus[r.topic] # "none"

ApprovedOf(h) == LET r == op[h] IN
  r.pc = "approved" => /\ Visible(r.att, r.user) /\ ~ HasAccess(r.att, r.user)
                       /\ r.amount = price[r.att] /\ score[r.user] >= r.amount

OpInv(h) == LocksOf(h) /\ TopicOf(h) /\ ApprovedOf(h)

IInv == TypeOK /\ ChargedOncePerDownload /\ \A h \in Handlers : OpInv(h)

-----------------------------------------------------------------------------
LEMMA AccessInit == Init => IInv
  BY AccessAssumption DEF Init, IInv, TypeOK, ChargedOncePerDownload, OpInv, LocksOf, TopicOf,
       ApprovedOf, Idle, Op, Pcs, Unlocking, Creating, Deleting

\* What a commit or a rollback of h does to the locks and to the requests.
LEMMA FinishEffect ==
  ASSUME TypeOK, NEW h \in Handlers, Finish(h)
  PROVE  /\ op' \in [Handlers -> Op] /\ op'[h] = Idle
         /\ \A k \in Handlers : k # h => op'[k] = op[k]
         /\ userLock' \in [Users -> Handlers \cup {None}]
         /\ attLock' \in [Attachments -> Handlers \cup {None}]
         /\ topicLock' \in [Topics -> Handlers \cup {None}]
         /\ \A k \in Handlers : k # h =>
              /\ \A u \in Users : userLock[u] = k => userLock'[u] = k
              /\ \A a \in Attachments : attLock[a] = k => attLock'[a] = k
  BY DEF Finish, Unlocked, TypeOK, Idle, Op, Pcs

\* A request that runs no transaction satisfies its part of the invariant.
LEMMA IdleFine ==
  ASSUME NEW h \in Handlers, op'[h] = Idle
  PROVE  OpInv(h)'
  BY DEF OpInv, LocksOf, TopicOf, ApprovedOf, Idle, Unlocking, Creating, Deleting

\* What of the invariant of k survives a step of another handler: its locks,
\* its topic, and its approval if the rows it read under its locks stay.
LEMMA OtherFine ==
  ASSUME IInv, NEW h \in Handlers, NEW k \in Handlers, k # h,
         \A j \in Handlers : j # h => op'[j] = op[j],
         \A u \in Users : userLock[u] = k => userLock'[u] = k,
         \A a \in Attachments : attLock[a] = k => attLock'[a] = k,
         \A t \in Topics : topicStatus[t] # "none" => topicStatus'[t] # "none",
         op[k].pc \in Creating =>
           /\ topicStatus'[op[k].topic] = "none"
           /\ op'[h].pc \in Creating => op'[h].topic # op[k].topic,
         op[k].pc = "approved" => ApprovedOf(k)'
  PROVE  OpInv(k)'
<1>1. op'[k] = op[k]
  OBVIOUS
<1>2. LocksOf(k)'
  BY <1>1 DEF IInv, OpInv, LocksOf, Unlocking
<1>3. TopicOf(k)'
  BY <1>1 DEF IInv, OpInv, TopicOf, Creating, Deleting
<1>4. ApprovedOf(k)'
  BY <1>1 DEF ApprovedOf
<1> QED BY <1>2, <1>3, <1>4 DEF OpInv

-----------------------------------------------------------------------------
(* Steps that leave all rows alone: beginnings of requests, locking steps  *)
(* and checks, and the rollbacks.                                          *)

RowsKept == UNCHANGED rows

LEMMA ApprovedKept ==
  ASSUME NEW k \in Handlers, RowsKept, ApprovedOf(k), op'[k] = op[k]
  PROVE  ApprovedOf(k)'
  BY DEF RowsKept, rows, ApprovedOf, Visible, HasAccess

\* What the beginning of a request does: h gets a request r of the right
\* shape, no row changes and no lock of another request.
Begun(h, r) ==
  /\ RowsKept /\ op[h] = Idle /\ op' \in [Handlers -> Op] /\ op'[h] = r
  /\ \A k \in Handlers : k # h => op'[k] = op[k]
  /\ r.pc \notin {"user_locked", "locked", "approved", "delete_marked"}
  /\ r.pc = "access" => r.user \in Users /\ r.att \in Attachments
  /\ r.pc \in Creating =>
       /\ r.topic \in Topics /\ topicStatus[r.topic] = "none"
       /\ \A k \in Handlers : op[k].pc \in Creating => op[k].topic # r.topic
  /\ r.pc = "delete" => r.topic \in Topics /\ topicStatus[r.topic] # "none"
  /\ userLock' \in [Users -> Handlers \cup {None}]
  /\ \A k \in Handlers : \A u \in Users : userLock[u] = k => userLock'[u] = k
  /\ UNCHANGED <<attLock, topicLock>>

LEMMA IdleOp == Idle \in Op
  BY DEF Idle, Op, Pcs

LEMMA StartEffect ==
  ASSUME TypeOK, NEW h \in Handlers, NEW r \in Op, Start(h, r)
  PROVE  /\ op[h] = Idle /\ op' \in [Handlers -> Op] /\ op'[h] = r
         /\ \A k \in Handlers : k # h => op'[k] = op[k]
  BY DEF Start, TypeOK

LEMMA RequestBegins ==
  ASSUME TypeOK, NEW h \in Handlers, Request(h)
  PROVE  \E r \in Op : Begun(h, r)
<1>1. CASE \E u \in Users, a \in Attachments : AccessBegin(h, u, a)
  <2>1. PICK u \in Users, a \in Attachments : AccessBegin(h, u, a)
    BY <1>1
  <2> DEFINE r == [Idle EXCEPT !.pc = "access", !.user = u, !.att = a]
  <2>2. r \in Op /\ r.pc = "access" /\ r.user = u /\ r.att = a
    BY IdleOp DEF Op, Pcs
  <2> HIDE DEF r
  <2>3. Begun(h, r)
    BY <2>1, <2>2, StartEffect DEF Begun, AccessBegin, RowsKept, locks, TypeOK, Creating, r
  <2> QED BY <2>2, <2>3
<1>2. CASE \E u \in Users, n \in 1..MaxScore : BountyCheck(h, u, n)
  <2>1. PICK u \in Users, n \in 1..MaxScore : BountyCheck(h, u, n)
    BY <1>2
  <2> DEFINE r == [Idle EXCEPT !.pc = "bounty", !.user = u, !.amount = n]
  <2>0. n \in Int
    BY AccessAssumption
  <2>2. r \in Op /\ r.pc = "bounty"
    BY <2>0, IdleOp DEF Op, Pcs
  <2> HIDE DEF r
  <2>3. Begun(h, r)
    BY <2>1, <2>2, StartEffect DEF Begun, BountyCheck, RowsKept, locks, TypeOK, Creating, r
  <2> QED BY <2>2, <2>3
<1>3. CASE \E u \in Users, a \in Attachments, n \in -1..MaxScore : PriceRead(h, u, a, n)
  <2>1. PICK u \in Users, a \in Attachments, n \in -1..MaxScore : PriceRead(h, u, a, n)
    BY <1>3
  <2> DEFINE r == [Idle EXCEPT !.pc = "price", !.att = a, !.amount = n]
  <2>0. n \in Int
    BY AccessAssumption
  <2>2. r \in Op /\ r.pc = "price"
    BY <2>0, IdleOp DEF Op, Pcs
  <2> HIDE DEF r
  <2>3. Begun(h, r)
    BY <2>1, <2>2, StartEffect DEF Begun, PriceRead, RowsKept, locks, TypeOK, Creating, r
  <2> QED BY <2>2, <2>3
<1>4. CASE \E u \in Users, t \in Topics, as \in SUBSET Attachments : PublishBegin(h, u, t, as)
  <2>1. PICK u \in Users, t \in Topics, as \in SUBSET Attachments : PublishBegin(h, u, t, as)
    BY <1>4
  <2> DEFINE r == [Idle EXCEPT !.pc = "publish", !.user = u, !.topic = t, !.atts = as]
  <2>2. r \in Op /\ r.pc = "publish" /\ r.topic = t
    BY IdleOp DEF Op, Pcs
  <2> HIDE DEF r
  <2>3. /\ userLock' \in [Users -> Handlers \cup {None}]
        /\ \A k \in Handlers : \A v \in Users : userLock[v] = k => userLock'[v] = k
    BY <2>1, AccessAssumption DEF PublishBegin, TypeOK
  <2>4. Begun(h, r)
    BY <2>1, <2>2, <2>3, StartEffect DEF Begun, PublishBegin, RowsKept, Creating, r
  <2> QED BY <2>2, <2>4
<1>5. CASE \E u \in Users, t \in Topics, as \in SUBSET Attachments : EditBegin(h, u, t, as)
  <2>1. PICK u \in Users, t \in Topics, as \in SUBSET Attachments : EditBegin(h, u, t, as)
    BY <1>5
  <2> DEFINE r == [Idle EXCEPT !.pc = "edit", !.user = u, !.topic = t, !.atts = as]
  <2>2. r \in Op /\ r.pc = "edit"
    BY IdleOp DEF Op, Pcs
  <2> HIDE DEF r
  <2>3. Begun(h, r)
    BY <2>1, <2>2, StartEffect DEF Begun, EditBegin, RowsKept, locks, TypeOK, Creating, r
  <2> QED BY <2>2, <2>3
<1>6. CASE \E t \in Topics : DeleteRead(h, t)
  <2>1. PICK t \in Topics : DeleteRead(h, t)
    BY <1>6
  <2> DEFINE r == [Idle EXCEPT !.pc = "delete", !.topic = t]
  <2>2. r \in Op /\ r.pc = "delete" /\ r.topic = t
    BY IdleOp DEF Op, Pcs
  <2> HIDE DEF r
  <2>3. Begun(h, r)
    BY <2>1, <2>2, StartEffect DEF Begun, DeleteRead, RowsKept, locks, TypeOK, Creating, r
  <2> QED BY <2>2, <2>3
<1> QED BY <1>1, <1>2, <1>3, <1>4, <1>5, <1>6 DEF Request

LEMMA RequestStep ==
  ASSUME IInv, NEW h \in Handlers, Request(h)
  PROVE  IInv'
<1> USE DEF IInv
<1>1. PICK r \in Op : Begun(h, r)
  BY RequestBegins
<1>2. TypeOK'
  BY <1>1 DEF TypeOK, Begun, RowsKept, rows
<1>3. ChargedOncePerDownload'
  BY <1>1 DEF ChargedOncePerDownload, Begun, RowsKept, rows
<1>4. \A k \in Handlers : k # h => op'[k] = op[k]
  BY <1>1 DEF Begun
<1>5. OpInv(h)'
  BY <1>1, <1>4 DEF Begun, OpInv, LocksOf, TopicOf, ApprovedOf, Unlocking, Creating, Deleting,
                    RowsKept, rows
<1>6. ASSUME NEW k \in Handlers, k # h PROVE OpInv(k)'
  <2>1. ApprovedOf(k)'
    BY <1>1, <1>4, <1>6, ApprovedKept DEF OpInv, Begun
  <2>2. op[k].pc \in Creating =>
           /\ topicStatus'[op[k].topic] = "none"
           /\ op'[h].pc \in Creating => op'[h].topic # op[k].topic
    BY <1>1, <1>6 DEF Begun, OpInv, TopicOf, RowsKept, rows
  <2> QED BY <1>1, <1>4, <1>6, <2>1, <2>2, OtherFine DEF Begun, RowsKept, rows
<1> QED BY <1>2, <1>3, <1>5, <1>6

LEMMA RollbackStep ==
  ASSUME IInv, NEW h \in Handlers, Finish(h), RowsKept
  PROVE  IInv'
<1> USE DEF IInv
<1>1. TypeOK'
  BY FinishEffect DEF TypeOK, RowsKept, rows
<1>2. ChargedOncePerDownload'
  BY DEF ChargedOncePerDownload, RowsKept, rows
<1>3. OpInv(h)'
  BY FinishEffect, IdleFine
<1>4. ASSUME NEW k \in Handlers, k # h PROVE OpInv(k)'
  <2>1. ApprovedOf(k)'
    BY <1>4, FinishEffect, ApprovedKept DEF OpInv
  <2>2. op[k].pc \in Creating =>
           /\ topicStatus'[op[k].topic] = "none"
           /\ op'[h].pc \in Creating => op'[h].topic # op[k].topic
    BY <1>4, FinishEffect DEF OpInv, TopicOf, RowsKept, rows, Idle, Creating
  <2> QED BY <1>4, <2>1, <2>2, FinishEffect, OtherFine DEF RowsKept, rows
<1> QED BY <1>1, <1>2, <1>3, <1>4

\* A step inside the transaction of h: its part of the invariant is to be
\* shown, the rest survives.
LEMMA AdvanceStep ==
  ASSUME IInv, NEW h \in Handlers, RowsKept,
         op' \in [Handlers -> Op],
         \A k \in Handlers : k # h => op'[k] = op[k],
         userLock' \in [Users -> Handlers \cup {None}],
         attLock' \in [Attachments -> Handlers \cup {None}],
         topicLock' \in [Topics -> Handlers \cup {None}],
         \A k \in Handlers : k # h =>
           /\ \A u \in Users : userLock[u] = k => userLock'[u] = k
           /\ \A a \in Attachments : attLock[a] = k => attLock'[a] = k,
         op'[h].pc \in Creating => op[h].pc \in Creating /\ op'[h].topic = op[h].topic,
         OpInv(h)'
  PROVE  IInv'
<1> USE DEF IInv
<1>1. TypeOK'
  BY DEF TypeOK, RowsKept, rows
<1>2. ChargedOncePerDownload'
  BY DEF ChargedOncePerDownload, RowsKept, rows
<1>3. ASSUME NEW k \in Handlers, k # h PROVE OpInv(k)'
  <2>1. ApprovedOf(k)'
    BY <1>3, ApprovedKept DEF OpInv
  <2>2. op[k].pc \in Creating =>
           /\ topicStatus'[op[k].topic] = "none"
           /\ op'[h].pc \in Creating => op'[h].topic # op[k].topic
    BY <1>3 DEF OpInv, TopicOf, RowsKept, rows
  <2> QED BY <1>3, <2>1, <2>2, OtherFine DEF RowsKept, rows
<1> QED BY <1>1, <1>2, <1>3

\* A commit of h: the rows it writes stay well typed, no other publication's
\* topic appears, and what another approved unlock relies on is not touched.
LEMMA CommitStep ==
  ASSUME IInv, NEW h \in Handlers, Finish(h),
         score' \in [Users -> Int],
         attOwner' \in [Attachments -> Users \cup {None}],
         attTopic' \in [Attachments -> Topics \cup {None}],
         attStatus' \in [Attachments -> {"ok", "deleted"}],
         price' \in [Attachments -> Nat],
         topicOwner' \in [Topics -> Users \cup {None}],
         topicStatus' \in [Topics -> {"none", "ok", "review", "deleted"}],
         charges' \in [Users \X Attachments -> Nat],
         downloads' \in SUBSET (Users \X Attachments),
         ChargedOncePerDownload',
         \A t \in Topics : topicStatus[t] # "none" => topicStatus'[t] # "none",
         \A k \in Handlers : k # h /\ op[k].pc \in Creating =>
           topicStatus'[op[k].topic] = "none",
         \A k \in Handlers : k # h /\ op[k].pc = "approved" => ApprovedOf(k)'
  PROVE  IInv'
<1> USE DEF IInv
<1>1. TypeOK'
  BY FinishEffect DEF TypeOK
<1>2. OpInv(h)'
  BY FinishEffect, IdleFine
<1>3. ASSUME NEW k \in Handlers, k # h PROVE OpInv(k)'
  <2>1. op'[h].pc \notin Creating
    BY FinishEffect DEF Idle, Creating
  <2>2. \A j \in Handlers : j # h => op'[j] = op[j]
    BY FinishEffect
  <2>3. /\ \A u \in Users : userLock[u] = k => userLock'[u] = k
        /\ \A a \in Attachments : attLock[a] = k => attLock'[a] = k
    BY <1>3, FinishEffect
  <2>4. op[k].pc \in Creating =>
           /\ topicStatus'[op[k].topic] = "none"
           /\ op'[h].pc \in Creating => op'[h].topic # op[k].topic
    BY <1>3, <2>1
  <2>5. op[k].pc = "approved" => ApprovedOf(k)'
    BY <1>3
  <2> QED BY <1>3, <2>2, <2>3, <2>4, <2>5, OtherFine
<1> QED BY <1>1, <1>2, <1>3

-----------------------------------------------------------------------------
(* The steps, one lemma each. *)

\* What moving on to another point of the transaction does to the requests.
LEMMA GotoEffect ==
  ASSUME TypeOK, NEW h \in Handlers, NEW pc \in Pcs, Goto(h, pc)
  PROVE  /\ op' \in [Handlers -> Op] /\ op'[h].pc = pc
         /\ op'[h].user = op[h].user /\ op'[h].att = op[h].att
         /\ op'[h].topic = op[h].topic
         /\ \A k \in Handlers : k # h => op'[k] = op[k]
<1> DEFINE r == [op[h] EXCEPT !.pc = pc]
<1>1. op[h] \in Op /\ op \in [Handlers -> Op]
  BY DEF TypeOK
<1>2. /\ r \in Op /\ r.pc = pc /\ r.user = op[h].user /\ r.att = op[h].att
      /\ r.topic = op[h].topic
  BY <1>1 DEF Op
<1>3. op' = [op EXCEPT ![h] = r]
  BY DEF Goto
<1> HIDE DEF r
<1> QED BY <1>1, <1>2, <1>3

LEMMA AccessLockUserStep ==
  ASSUME IInv, NEW h \in Handlers, AccessLockUser(h)
  PROVE  IInv'
<1> USE DEF IInv
<1>1. op[h].pc = "access" /\ op[h].user \in Users /\ op[h].att \in Attachments
  BY DEF AccessLockUser, OpInv, LocksOf, Unlocking
<1>2. op' \in [Handlers -> Op] /\ op'[h].pc = "user_locked"
      /\ op'[h].user = op[h].user /\ op'[h].att = op[h].att
  BY GotoEffect DEF AccessLockUser, Pcs
<1>3. \A k \in Handlers : k # h => op'[k] = op[k]
  BY GotoEffect DEF AccessLockUser, Pcs
<1>4. userLock' \in [Users -> Handlers \cup {None}] /\ userLock'[op[h].user] = h
      /\ \A k \in Handlers : \A u \in Users : userLock[u] = k => userLock'[u] = k
  BY <1>1, AccessAssumption DEF AccessLockUser, TypeOK
<1>5. OpInv(h)'
  BY <1>1, <1>2, <1>4 DEF OpInv, LocksOf, TopicOf, ApprovedOf, Unlocking, Creating, Deleting
<1> QED BY <1>2, <1>3, <1>4, <1>5, AdvanceStep DEF AccessLockUser, RowsKept, TypeOK, Creating

LEMMA AccessLockAttachmentStep ==
  ASSUME IInv, NEW h \in Handlers, AccessLockAttachment(h)
  PROVE  IInv'
<1> USE DEF IInv
<1>1. /\ op[h].pc = "user_locked" /\ op[h].user \in Users /\ op[h].att \in Attachments
      /\ userLock[op[h].user] = h
  BY DEF AccessLockAttachment, OpInv, LocksOf, Unlocking
<1>2. op' \in [Handlers -> Op] /\ op'[h].pc = "locked"
      /\ op'[h].user = op[h].user /\ op'[h].att = op[h].att
  BY GotoEffect DEF AccessLockAttachment, Pcs
<1>3. \A k \in Handlers : k # h => op'[k] = op[k]
  BY GotoEffect DEF AccessLockAttachment, Pcs
<1>4. attLock' \in [Attachments -> Handlers \cup {None}] /\ attLock'[op[h].att] = h
      /\ \A k \in Handlers : \A a \in Attachments : attLock[a] = k => attLock'[a] = k
  BY <1>1, AccessAssumption DEF AccessLockAttachment, TypeOK
<1>5. OpInv(h)'
  BY <1>1, <1>2, <1>4 DEF AccessLockAttachment, OpInv, LocksOf, TopicOf, ApprovedOf, Unlocking,
                          Creating, Deleting
<1> QED BY <1>2, <1>3, <1>4, <1>5, AdvanceStep DEF AccessLockAttachment, RowsKept, TypeOK, Creating

LEMMA AccessApproveStep ==
  ASSUME IInv, NEW h \in Handlers, AccessApprove(h)
  PROVE  IInv'
<1> USE DEF IInv
<1>1. /\ op[h].pc = "locked" /\ op[h].user \in Users /\ op[h].att \in Attachments
      /\ userLock[op[h].user] = h /\ attLock[op[h].att] = h
  BY DEF AccessApprove, OpInv, LocksOf, Unlocking
<1>2. price[op[h].att] \in Int
  BY <1>1 DEF TypeOK
<1>3. /\ op' \in [Handlers -> Op] /\ op'[h].pc = "approved"
      /\ op'[h].user = op[h].user /\ op'[h].att = op[h].att
      /\ op'[h].amount = price[op[h].att]
  <2> DEFINE r == [op[h] EXCEPT !.pc = "approved", !.amount = price[op[h].att]]
  <2>1. op[h] \in Op /\ op \in [Handlers -> Op]
    BY DEF TypeOK
  <2>2. /\ r \in Op /\ r.pc = "approved" /\ r.user = op[h].user /\ r.att = op[h].att
        /\ r.amount = price[op[h].att]
    BY <1>2, <2>1 DEF Op, Pcs
  <2>3. op' = [op EXCEPT ![h] = r]
    BY DEF AccessApprove
  <2> HIDE DEF r
  <2> QED BY <2>1, <2>2, <2>3
<1>4. \A k \in Handlers : k # h => op'[k] = op[k]
  BY DEF AccessApprove, TypeOK
<1>5. ApprovedOf(h)'
  BY <1>3 DEF AccessApprove, Payable, ApprovedOf, Visible, HasAccess, rows
<1>6. OpInv(h)'
  BY <1>1, <1>3, <1>5 DEF AccessApprove, OpInv, LocksOf, TopicOf, Unlocking, Creating, Deleting,
                          locks
<1> QED BY <1>3, <1>4, <1>6, AdvanceStep DEF AccessApprove, RowsKept, TypeOK, locks, Creating

\* Two approved unlocks have different users and different attachments, since
\* each holds both row locks.
LEMMA AccessChargeStep ==
  ASSUME IInv, NEW h \in Handlers, AccessCharge(h)
  PROVE  IInv'
<1> USE DEF IInv
<1> DEFINE u == op[h].user  a == op[h].att
<1>1. /\ op[h].pc = "approved" /\ u \in Users /\ a \in Attachments
      /\ userLock[u] = h /\ attLock[a] = h /\ <<u, a>> \notin downloads
      /\ op[h].amount \in Int
  BY DEF AccessCharge, OpInv, LocksOf, ApprovedOf, HasAccess, Unlocking, TypeOK, Op
<1>2. score' \in [Users -> Int] /\ \A v \in Users : v # u => score'[v] = score[v]
  BY <1>1 DEF AccessCharge, AddScore, TypeOK
<1>3. charges' \in [Users \X Attachments -> Nat] /\ downloads' \in SUBSET (Users \X Attachments)
  BY <1>1 DEF AccessCharge, TypeOK
<1>4. ChargedOncePerDownload'
  BY <1>1 DEF AccessCharge, ChargedOncePerDownload, TypeOK
<1>5. ASSUME NEW k \in Handlers, k # h, op[k].pc = "approved" PROVE ApprovedOf(k)'
  <2>1. /\ op[k].user \in Users /\ op[k].user # u /\ op[k].att # a
    BY <1>1, <1>5 DEF OpInv, LocksOf, Unlocking
  <2>2. op'[k] = op[k]
    BY <1>5, FinishEffect DEF AccessCharge
  <2>3. score'[op[k].user] = score[op[k].user]
    BY <1>2, <2>1
  <2>4. ApprovedOf(k)
    BY DEF OpInv
  <2>5. <<op[k].user, op[k].att>> \notin {<<u, a>>}
    BY <2>1
  <2> QED BY <2>2, <2>3, <2>4, <2>5 DEF AccessCharge, ApprovedOf, Visible, HasAccess
<1>6. \A k \in Handlers : k # h /\ op[k].pc \in Creating =>  topicStatus'[op[k].topic] = "none"
  BY DEF AccessCharge, OpInv, TopicOf
<1> QED BY <1>2, <1>3, <1>4, <1>5, <1>6, CommitStep DEF AccessCharge, TypeOK

\* The balance of an approved unlock cannot be debited under it: its user row
\* is locked.
LEMMA BountyDebitStep ==
  ASSUME IInv, NEW h \in Handlers, BountyDebit(h)
  PROVE  IInv'
<1> USE DEF IInv
<1> DEFINE u == op[h].user
<1>1. score' \in [Users -> Int] /\ \A v \in Users : v # u => score'[v] = score[v]
  <2>1. op[h].amount \in Int
    BY DEF TypeOK, Op
  <2>2. -op[h].amount \in Int
    BY <2>1
  <2>3. score' = [score EXCEPT ![u] = score[u] + (-op[h].amount)]
    BY DEF BountyDebit, AddScore
  <2>4. u \in Users => score[u] + (-op[h].amount) \in Int
    BY <2>2 DEF TypeOK
  <2> QED BY <2>3, <2>4 DEF TypeOK
<1>2. ASSUME NEW k \in Handlers, k # h, op[k].pc = "approved" PROVE ApprovedOf(k)'
  <2>1. op[k].user \in Users /\ userLock[op[k].user] = k
    BY <1>2 DEF OpInv, LocksOf, Unlocking
  <2>2. op[k].user # u
    BY <2>1, AccessAssumption DEF BountyDebit
  <2>3. score'[op[k].user] = score[op[k].user]
    BY <1>1, <2>1, <2>2
  <2>4. op'[k] = op[k]
    BY <1>2, FinishEffect DEF BountyDebit
  <2> QED BY <2>3, <2>4 DEF BountyDebit, OpInv, ApprovedOf, Visible, HasAccess
<1>3. \A k \in Handlers : k # h /\ op[k].pc \in Creating => topicStatus'[op[k].topic] = "none"
  BY DEF BountyDebit, OpInv, TopicOf
<1>4. ChargedOncePerDownload'
  BY DEF BountyDebit, ChargedOncePerDownload
<1> QED BY <1>1, <1>2, <1>3, <1>4, CommitStep DEF BountyDebit, TypeOK

\* Neither can the price of its attachment: that row is locked, too.
LEMMA PriceWriteStep ==
  ASSUME IInv, NEW h \in Handlers, PriceWrite(h)
  PROVE  IInv'
<1> USE DEF IInv
<1> DEFINE a == op[h].att
<1>1. price' \in [Attachments -> Nat] /\ \A b \in Attachments : b # a => price'[b] = price[b]
  <2>1. op[h].amount \in Int
    BY DEF TypeOK, Op
  <2>2. NonNegative(op[h].amount) \in Nat
    BY <2>1 DEF NonNegative
  <2> QED BY <2>2 DEF PriceWrite, TypeOK
<1>2. ASSUME NEW k \in Handlers, k # h, op[k].pc = "approved" PROVE ApprovedOf(k)'
  <2>1. op[k].att \in Attachments /\ attLock[op[k].att] = k
    BY <1>2 DEF OpInv, LocksOf, Unlocking
  <2>2. op[k].att # a
    BY <2>1, AccessAssumption DEF PriceWrite
  <2>3. price'[op[k].att] = price[op[k].att]
    BY <1>1, <2>1, <2>2
  <2>4. op'[k] = op[k]
    BY <1>2, FinishEffect DEF PriceWrite
  <2> QED BY <2>3, <2>4 DEF PriceWrite, OpInv, ApprovedOf, Visible, HasAccess
<1>3. \A k \in Handlers : k # h /\ op[k].pc \in Creating => topicStatus'[op[k].topic] = "none"
  BY DEF PriceWrite, OpInv, TopicOf
<1>4. ChargedOncePerDownload'
  BY DEF PriceWrite, ChargedOncePerDownload
<1> QED BY <1>1, <1>2, <1>3, <1>4, CommitStep DEF PriceWrite, TypeOK

LEMMA PublishCheckStep ==
  ASSUME IInv, NEW h \in Handlers, PublishCheck(h)
  PROVE  IInv'
<1> USE DEF IInv
<1>1. CASE Goto(h, "publish_checked") /\ UNCHANGED locks
  <2>1. /\ op' \in [Handlers -> Op] /\ op'[h].pc = "publish_checked"
        /\ op'[h].topic = op[h].topic /\ op[h].pc = "publish"
        /\ \A k \in Handlers : k # h => op'[k] = op[k]
    BY <1>1, GotoEffect DEF PublishCheck, Pcs
  <2>2. OpInv(h)'
    BY <2>1 DEF PublishCheck, OpInv, LocksOf, TopicOf, ApprovedOf, Unlocking, Creating, Deleting,
                rows
  <2> QED BY <1>1, <2>1, <2>2, AdvanceStep DEF PublishCheck, RowsKept, TypeOK, locks, Creating
<1>2. CASE Finish(h)
  BY <1>2, RollbackStep DEF PublishCheck, RowsKept
<1> QED BY <1>1, <1>2 DEF PublishCheck

\* An approved unlock's attachment is neither among those bound, because they
\* are not locked, nor on the topic published, which did not exist.
LEMMA PublishBindStep ==
  ASSUME IInv, NEW h \in Handlers, NEW status \in {"ok", "review"}, PublishBind(h, status)
  PROVE  IInv'
<1> USE DEF IInv
<1> DEFINE t == op[h].topic
<1>1. t \in Topics /\ topicStatus[t] = "none" /\ op[h].user \in Users \cup {None}
      /\ \A k \in Handlers : op[k].pc \in Creating /\ k # h => op[k].topic # t
  BY DEF PublishBind, OpInv, TopicOf, Creating, TypeOK, Op
<1>2. /\ attTopic' \in [Attachments -> Topics \cup {None}]
      /\ \A a \in Attachments : attLock[a] # None => attTopic'[a] = attTopic[a]
  BY <1>1 DEF PublishBind, TypeOK
<1>3. /\ topicOwner' \in [Topics -> Users \cup {None}]
      /\ topicStatus' \in [Topics -> {"none", "ok", "review", "deleted"}]
      /\ \A s \in Topics : s # t => topicStatus'[s] = topicStatus[s] /\ topicOwner'[s] = topicOwner[s]
  BY <1>1 DEF PublishBind, TypeOK
<1>4. ASSUME NEW k \in Handlers, k # h, op[k].pc = "approved" PROVE ApprovedOf(k)'
  <2>1. op[k].att \in Attachments /\ attLock[op[k].att] = k
    BY <1>4 DEF OpInv, LocksOf, Unlocking
  <2>2. ApprovedOf(k)
    BY DEF OpInv
  <2>3. attTopic'[op[k].att] = attTopic[op[k].att]
    BY <1>2, <2>1, AccessAssumption
  <2>4. attTopic[op[k].att] \in Topics /\ attTopic[op[k].att] # t
    BY <1>1, <1>4, <2>1, <2>2 DEF ApprovedOf, Visible, TypeOK
  <2>5. op'[k] = op[k]
    BY <1>4, FinishEffect DEF PublishBind
  <2> QED BY <1>3, <2>2, <2>3, <2>4, <2>5 DEF PublishBind, ApprovedOf, Visible, HasAccess
<1>5. \A k \in Handlers : k # h /\ op[k].pc \in Creating => topicStatus'[op[k].topic] = "none"
  BY <1>1, <1>3 DEF OpInv, TopicOf
<1>6. ChargedOncePerDownload'
  BY DEF PublishBind, ChargedOncePerDownload
<1>7. \A s \in Topics : topicStatus[s] # "none" => topicStatus'[s] # "none"
  BY <1>1, <1>3
<1> QED BY <1>2, <1>3, <1>4, <1>5, <1>6, <1>7, CommitStep DEF PublishBind, TypeOK

LEMMA EditLockTopicStep ==
  ASSUME IInv, NEW h \in Handlers, EditLockTopic(h)
  PROVE  IInv'
<1> USE DEF IInv
<1>1. /\ op' \in [Handlers -> Op] /\ op'[h].pc = "edit_locked"
      /\ \A k \in Handlers : k # h => op'[k] = op[k]
  BY GotoEffect DEF EditLockTopic, Pcs
<1>2. OpInv(h)'
  BY <1>1 DEF OpInv, LocksOf, TopicOf, ApprovedOf, Unlocking, Creating, Deleting
<1>3. topicLock' \in [Topics -> Handlers \cup {None}]
  BY DEF EditLockTopic, TypeOK
<1> QED BY <1>1, <1>2, <1>3, AdvanceStep DEF EditLockTopic, RowsKept, TypeOK, Creating

LEMMA EditCheckStep ==
  ASSUME IInv, NEW h \in Handlers, EditCheck(h)
  PROVE  IInv'
<1> USE DEF IInv
<1> DEFINE r == [op[h] EXCEPT !.pc = "edit_checked", !.removed = Current(op[h].topic) \ op[h].atts]
<1>1. CASE op' = [op EXCEPT ![h] = r] /\ UNCHANGED locks
  <2>1. op[h] \in Op /\ op \in [Handlers -> Op]
    BY DEF TypeOK
  <2>2. Current(op[h].topic) \ op[h].atts \in SUBSET Attachments
    BY DEF Current
  <2>3. r \in Op /\ r.pc = "edit_checked"
    BY <2>1, <2>2 DEF Op, Pcs
  <2> HIDE DEF r
  <2>4. /\ op' \in [Handlers -> Op] /\ op'[h].pc = "edit_checked"
        /\ \A k \in Handlers : k # h => op'[k] = op[k]
    BY <1>1, <2>1, <2>3
  <2>5. OpInv(h)'
    BY <2>4 DEF OpInv, LocksOf, TopicOf, ApprovedOf, Unlocking, Creating, Deleting
  <2> QED BY <1>1, <2>4, <2>5, AdvanceStep DEF EditCheck, RowsKept, TypeOK, locks, Creating
<1>2. CASE Finish(h)
  BY <1>2, RollbackStep DEF EditCheck, RowsKept
<1> QED BY <1>1, <1>2 DEF EditCheck

LEMMA EditBindStep ==
  ASSUME IInv, NEW h \in Handlers, EditBind(h)
  PROVE  IInv'
<1> USE DEF IInv
<1>1. op[h].topic \in Topics \cup {None}
  BY DEF TypeOK, Op
<1>2. /\ attTopic' \in [Attachments -> Topics \cup {None}]
      /\ attStatus' \in [Attachments -> {"ok", "deleted"}]
      /\ \A a \in Attachments : attLock[a] # None =>
           attTopic'[a] = attTopic[a] /\ attStatus'[a] = attStatus[a]
  BY <1>1 DEF EditBind, TypeOK
<1>3. ASSUME NEW k \in Handlers, k # h, op[k].pc = "approved" PROVE ApprovedOf(k)'
  <2>1. op[k].att \in Attachments /\ attLock[op[k].att] = k
    BY <1>3 DEF OpInv, LocksOf, Unlocking
  <2>2. attTopic'[op[k].att] = attTopic[op[k].att] /\ attStatus'[op[k].att] = attStatus[op[k].att]
    BY <1>2, <2>1, AccessAssumption
  <2>3. op'[k] = op[k]
    BY <1>3, FinishEffect DEF EditBind
  <2> QED BY <2>2, <2>3 DEF EditBind, OpInv, ApprovedOf, Visible, HasAccess
<1>4. \A k \in Handlers : k # h /\ op[k].pc \in Creating => topicStatus'[op[k].topic] = "none"
  BY DEF EditBind, OpInv, TopicOf
<1>5. ChargedOncePerDownload'
  BY DEF EditBind, ChargedOncePerDownload
<1> QED BY <1>2, <1>3, <1>4, <1>5, CommitStep DEF EditBind, TypeOK

LEMMA DeleteMarkStep ==
  ASSUME IInv, NEW h \in Handlers, DeleteMark(h)
  PROVE  IInv'
<1> USE DEF IInv
<1>1. /\ op' \in [Handlers -> Op] /\ op'[h].pc = "delete_marked" /\ op[h].pc = "delete"
      /\ op'[h].topic = op[h].topic
      /\ \A k \in Handlers : k # h => op'[k] = op[k]
  BY GotoEffect DEF DeleteMark, Pcs
<1>2. OpInv(h)'
  BY <1>1 DEF DeleteMark, OpInv, LocksOf, TopicOf, ApprovedOf, Unlocking, Creating, Deleting, rows
<1>3. topicLock' \in [Topics -> Handlers \cup {None}]
  BY DEF DeleteMark, TypeOK
<1> QED BY <1>1, <1>2, <1>3, AdvanceStep DEF DeleteMark, RowsKept, TypeOK, Creating

\* A topic cannot be deleted under an approved unlock of one of its
\* attachments: the delete must update that row, which is locked.
LEMMA DeleteCommitStep ==
  ASSUME IInv, NEW h \in Handlers, DeleteCommit(h)
  PROVE  IInv'
<1> USE DEF IInv
<1> DEFINE t == op[h].topic
<1>1. t \in Topics /\ topicStatus[t] # "none"
  BY DEF DeleteCommit, OpInv, TopicOf, Deleting
<1>2. /\ attStatus' \in [Attachments -> {"ok", "deleted"}]
      /\ \A a \in Attachments : attLock[a] # None => attTopic[a] # t /\ attStatus'[a] = attStatus[a]
  BY DEF DeleteCommit, BoundTo, TypeOK
<1>3. /\ topicStatus' \in [Topics -> {"none", "ok", "review", "deleted"}]
      /\ \A s \in Topics : s # t => topicStatus'[s] = topicStatus[s]
      /\ topicStatus'[t] = "deleted"
  BY <1>1 DEF DeleteCommit, TypeOK
<1>4. ASSUME NEW k \in Handlers, k # h, op[k].pc = "approved" PROVE ApprovedOf(k)'
  <2>1. op[k].att \in Attachments /\ attLock[op[k].att] = k
    BY <1>4 DEF OpInv, LocksOf, Unlocking
  <2>2. ApprovedOf(k)
    BY DEF OpInv
  <2>3. attTopic[op[k].att] \in Topics /\ attTopic[op[k].att] # t
        /\ attStatus'[op[k].att] = attStatus[op[k].att]
    BY <1>2, <1>4, <2>1, <2>2, AccessAssumption DEF ApprovedOf, Visible, TypeOK
  <2>4. op'[k] = op[k]
    BY <1>4, FinishEffect DEF DeleteCommit
  <2> QED BY <1>3, <2>2, <2>3, <2>4 DEF DeleteCommit, ApprovedOf, Visible, HasAccess
<1>5. \A k \in Handlers : k # h /\ op[k].pc \in Creating => topicStatus'[op[k].topic] = "none"
  BY <1>1, <1>3 DEF OpInv, TopicOf
<1>6. ChargedOncePerDownload'
  BY DEF DeleteCommit, ChargedOncePerDownload
<1>7. \A s \in Topics : topicStatus[s] # "none" => topicStatus'[s] # "none"
  BY <1>1, <1>3
<1> QED BY <1>2, <1>3, <1>4, <1>5, <1>6, <1>7, CommitStep DEF DeleteCommit, TypeOK

LEMMA HandlerSteps ==
  ASSUME IInv, NEW h \in Handlers, HandlerStep(h)
  PROVE  IInv'
<1>1. CASE AccessEnd(h)
  BY <1>1, RollbackStep DEF AccessEnd, RowsKept
<1> QED BY <1>1, AccessLockUserStep, AccessLockAttachmentStep, AccessApproveStep,
           AccessChargeStep, BountyDebitStep, PriceWriteStep, PublishCheckStep, PublishBindStep,
           EditLockTopicStep, EditCheckStep, EditBindStep, DeleteMarkStep, DeleteCommitStep
        DEF HandlerStep

-----------------------------------------------------------------------------
(* Steps of no handler: single statements that wait for the row locks they *)
(* need.                                                                   *)

LEMMA StatementStep ==
  ASSUME IInv, UNCHANGED <<locks, op, charges, downloads>>,
         score' \in [Users -> Int],
         attOwner' \in [Attachments -> Users \cup {None}],
         attTopic' \in [Attachments -> Topics \cup {None}],
         attStatus' \in [Attachments -> {"ok", "deleted"}],
         price' \in [Attachments -> Nat],
         topicOwner' \in [Topics -> Users \cup {None}],
         topicStatus' \in [Topics -> {"none", "ok", "review", "deleted"}],
         \A t \in Topics : (topicStatus[t] = "none") <=> (topicStatus'[t] = "none"),
         \A k \in Handlers : op[k].pc = "approved" => ApprovedOf(k)'
  PROVE  IInv'
<1> USE DEF IInv
<1>1. TypeOK' /\ ChargedOncePerDownload'
  BY DEF TypeOK, ChargedOncePerDownload, locks
<1>2. ASSUME NEW k \in Handlers PROVE OpInv(k)'
  <2>1. LocksOf(k)'
    BY DEF OpInv, LocksOf, Unlocking, locks
  <2>2. TopicOf(k)'
    BY DEF OpInv, TopicOf, Creating, Deleting
  <2>3. ApprovedOf(k)'
    BY DEF ApprovedOf
  <2> QED BY <2>1, <2>2, <2>3 DEF OpInv
<1> QED BY <1>1, <1>2

LEMMA CreditStep ==
  ASSUME IInv, NEW u \in Users, NEW n \in 1..MaxScore, Credit(u, n)
  PROVE  IInv'
<1> USE DEF IInv
<1>1. score' \in [Users -> Int] /\ \A v \in Users : v # u => score'[v] = score[v]
  BY AccessAssumption DEF Credit, AddScore, TypeOK
<1>2. ASSUME NEW k \in Handlers, op[k].pc = "approved" PROVE ApprovedOf(k)'
  <2>1. op[k].user \in Users /\ userLock[op[k].user] = k
    BY <1>2 DEF OpInv, LocksOf, Unlocking
  <2>2. score'[op[k].user] = score[op[k].user]
    BY <1>1, <2>1, AccessAssumption DEF Credit
  <2> QED BY <2>2 DEF Credit, OpInv, ApprovedOf, Visible, HasAccess
<1> QED BY <1>1, <1>2, StatementStep DEF Credit, TypeOK

LEMMA UploadStep ==
  ASSUME IInv, NEW u \in Users, NEW a \in Attachments, NEW n \in -1..MaxScore, Upload(u, a, n)
  PROVE  IInv'
<1> USE DEF IInv
<1>1. NonNegative(n) \in Nat
  BY AccessAssumption DEF NonNegative
<1>2. /\ attOwner' \in [Attachments -> Users \cup {None}] /\ price' \in [Attachments -> Nat]
      /\ \A b \in Attachments : b # a => attOwner'[b] = attOwner[b] /\ price'[b] = price[b]
  BY <1>1 DEF Upload, TypeOK
<1>3. ASSUME NEW k \in Handlers, op[k].pc = "approved" PROVE ApprovedOf(k)'
  <2>1. op[k].att \in Attachments /\ ApprovedOf(k)
    BY <1>3 DEF OpInv, LocksOf, Unlocking
  <2>2. op[k].att # a
    BY <1>3, <2>1 DEF Upload, ApprovedOf, Visible
  <2> QED BY <1>2, <2>1, <2>2 DEF Upload, ApprovedOf, Visible, HasAccess
<1> QED BY <1>2, <1>3, StatementStep DEF Upload, TypeOK

LEMMA ToOkStep ==
  ASSUME IInv, NEW t \in Topics, NEW from \in SUBSET {"review", "deleted"}, ToOk(t, from)
  PROVE  IInv'
<1> USE DEF IInv
<1>1. /\ topicStatus' \in [Topics -> {"none", "ok", "review", "deleted"}]
      /\ topicStatus'[t] = "ok" /\ topicStatus[t] # "none"
      /\ \A s \in Topics : s # t => topicStatus'[s] = topicStatus[s]
  BY DEF ToOk, TypeOK
<1>2. ASSUME NEW k \in Handlers, op[k].pc = "approved" PROVE ApprovedOf(k)'
  <2>1. op[k].att \in Attachments /\ ApprovedOf(k)
    BY <1>2 DEF OpInv, LocksOf, Unlocking
  <2>2. attTopic[op[k].att] \in Topics
    BY <1>2, <2>1 DEF ApprovedOf, Visible, TypeOK
  <2> QED BY <1>1, <2>1, <2>2 DEF ToOk, ApprovedOf, Visible, HasAccess
<1> QED BY <1>1, <1>2, StatementStep DEF ToOk, TypeOK

LEMMA AccessStep == IInv /\ [Next]_vars => IInv'
<1> SUFFICES ASSUME IInv, [Next]_vars PROVE IInv'
  OBVIOUS
<1>1. CASE Next
  <2>1. ASSUME NEW t \in Topics, Undelete(t) \/ Audit(t) PROVE IInv'
    BY <2>1, ToOkStep DEF Undelete, Audit
  <2> QED BY <1>1, <2>1, RequestStep, HandlerSteps, CreditStep, UploadStep DEF Next
<1>2. CASE UNCHANGED vars
  BY <1>2 DEF vars, rows, locks, IInv, TypeOK, ChargedOncePerDownload, OpInv, LocksOf, TopicOf,
              ApprovedOf, Visible, HasAccess
<1> QED BY <1>1, <1>2

-----------------------------------------------------------------------------
LEMMA AccessInvariant == Spec => []IInv
  BY AccessInit, AccessStep, PTL DEF Spec

\* AttachmentAccess is type correct; in particular no price is negative.
THEOREM AccessTypes == Spec => []TypeOK
  BY AccessInvariant, PTL DEF IInv

\* Unlocking is idempotent: however many requests of a user race, the ledger
\* charges each download exactly once.
THEOREM AccessIdempotent == Spec => []ChargedOncePerDownload
  BY AccessInvariant, PTL DEF IInv

-----------------------------------------------------------------------------
(* What an unlock does, at the step that grants it. *)

\* Only the commit of an unlock adds download rows, and it adds its own.
LEMMA OnlyChargeGrants ==
  ASSUME Next
  PROVE  \/ downloads' = downloads
         \/ \E h \in Handlers : AccessCharge(h)
<1>1. ASSUME NEW h \in Handlers, Request(h) PROVE downloads' = downloads
  BY <1>1 DEF Request, AccessBegin, BountyCheck, PriceRead, PublishBegin, EditBegin, DeleteRead, rows
<1>2. ASSUME NEW h \in Handlers, HandlerStep(h), ~ AccessCharge(h) PROVE downloads' = downloads
  BY <1>2 DEF HandlerStep, AccessLockUser, AccessLockAttachment, AccessApprove, AccessEnd,
       BountyDebit, PriceWrite, PublishCheck, PublishBind, EditLockTopic, EditCheck, EditBind,
       DeleteMark, DeleteCommit, rows
<1> QED BY <1>1, <1>2 DEF Next, Credit, Upload, Undelete, Audit, ToOk

LEMMA ChargeEffect ==
  ASSUME IInv, NEW h \in Handlers, AccessCharge(h), NEW x \in NewDownloads
  PROVE  /\ x = <<op[h].user, op[h].att>> /\ ApprovedOf(h) /\ op[h].pc = "approved"
         /\ op[h].user \in Users /\ op[h].amount \in Int
         /\ score'[op[h].user] = score[op[h].user] - op[h].amount
<1>1. /\ op[h].pc = "approved" /\ ApprovedOf(h) /\ op[h].user \in Users
      /\ op[h].amount \in Int /\ score \in [Users -> Int]
  BY DEF AccessCharge, IInv, OpInv, LocksOf, Unlocking, TypeOK, Op
<1>2. score'[op[h].user] = score[op[h].user] - op[h].amount
  BY <1>1 DEF AccessCharge, AddScore
<1>3. x = <<op[h].user, op[h].att>>
  BY DEF AccessCharge, NewDownloads
<1> QED BY <1>1, <1>2, <1>3

\* Whatever else runs, an unlock takes exactly the price current at its commit
\* and leaves no negative balance.
THEOREM AccessTakesCurrentPrice == Spec => UnlockCoveredAtCurrentPrice
<1> DEFINE A == \A x \in NewDownloads :
                  score'[x[1]] = score[x[1]] - price[x[2]] /\ score'[x[1]] >= 0
<1>1. ASSUME IInv, Next PROVE A
  <2>1. CASE downloads' = downloads
    BY <2>1 DEF NewDownloads
  <2>2. ASSUME NEW h \in Handlers, AccessCharge(h), NEW x \in NewDownloads
        PROVE  score'[x[1]] = score[x[1]] - price[x[2]] /\ score'[x[1]] >= 0
    <3>1. /\ x[1] = op[h].user /\ x[2] = op[h].att
          /\ score'[op[h].user] = score[op[h].user] - op[h].amount
          /\ op[h].amount = price[op[h].att] /\ score[op[h].user] >= op[h].amount
          /\ op[h].amount \in Int /\ score[op[h].user] \in Int
      BY <1>1, <2>2, ChargeEffect DEF ApprovedOf, IInv, TypeOK
    <3> QED BY <3>1
  <2> QED BY <1>1, <2>1, <2>2, OnlyChargeGrants
<1>2. IInv /\ [Next]_vars => [A]_vars
  BY <1>1
<1> QED BY <1>2, AccessInvariant, PTL DEF Spec, UnlockCoveredAtCurrentPrice

\* Nobody pays for an attachment that was hidden, deleted or already unlocked
\* by the time of the commit.
THEOREM AccessPaysForVisible == Spec => PaidAttachmentIsVisible
<1> DEFINE A == \A x \in NewDownloads : Visible(x[2], x[1]) /\ ~ HasAccess(x[2], x[1])
<1>1. ASSUME IInv, Next PROVE A
  <2>1. CASE downloads' = downloads
    BY <2>1 DEF NewDownloads
  <2>2. ASSUME NEW h \in Handlers, AccessCharge(h), NEW x \in NewDownloads
        PROVE  Visible(x[2], x[1]) /\ ~ HasAccess(x[2], x[1])
    BY <1>1, <2>2, ChargeEffect DEF ApprovedOf
  <2> QED BY <1>1, <2>1, <2>2, OnlyChargeGrants
<1>2. IInv /\ [Next]_vars => [A]_vars
  BY <1>1
<1> QED BY <1>2, AccessInvariant, PTL DEF Spec, PaidAttachmentIsVisible
=============================================================================
