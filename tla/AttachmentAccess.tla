--------------------------- MODULE AttachmentAccess ---------------------------
(***************************************************************************)
(* Paid attachments of topics: uploading, binding to a topic, pricing, and *)
(* above all unlocking, which moves points.  An unlock runs in parallel    *)
(* with other unlocks, with the author changing the price, editing or      *)
(* deleting the topic, and with every other credit or debit of the         *)
(* caller's points.                                                        *)
(*                                                                         *)
(* Reads are reads of committed rows; an UPDATE and a SELECT ... FOR       *)
(* UPDATE wait while another transaction holds the row.  A transaction is  *)
(* cut into steps wherever another one may slip in between.  On SQLite,    *)
(* which has one writer, only the serial schedules of this model happen.   *)
(***************************************************************************)
EXTENDS Integers, FiniteSets

CONSTANTS
  Users, Admins,   \* accounts, and those with the owner role
  Attachments,     \* attachment ids (UUIDs)
  Topics,          \* topic ids
  Handlers,        \* request goroutines
  MaxScore,        \* bound: prices, bounties and credited balances
  None

ASSUME AccessAssumption ==
  /\ MaxScore \in Nat
  /\ None \notin Handlers /\ None \notin Topics /\ None \notin Users /\ None \notin Attachments

VARIABLES
  score,        \* t_user.score
  charges,      \* rows of t_user_score_log with source attachment_download
  downloads,    \* t_attachment_download_log
  attOwner, attTopic, attStatus, price,   \* t_attachment (no owner: no row)
  topicOwner, topicStatus,                \* t_topic ("none": no row)
  userLock, attLock, topicLock,           \* row locks held until commit
  op            \* the request each handler serves and how far it is

rows  == <<score, charges, downloads, attOwner, attTopic, attStatus, price,
           topicOwner, topicStatus>>
locks == <<userLock, attLock, topicLock>>
vars  == <<rows, locks, op>>

\* A request keeps the parameters it needs; the others stay at Idle's values.
Idle == [pc |-> "idle", user |-> None, att |-> None, topic |-> None,
         atts |-> {}, removed |-> {}, amount |-> 0]

Pcs == {"idle", "access", "user_locked", "locked", "approved", "bounty", "price",
        "publish", "publish_checked", "edit", "edit_locked", "edit_checked",
        "delete", "delete_marked"}

Op == [pc : Pcs, user : Users \cup {None}, att : Attachments \cup {None},
       topic : Topics \cup {None}, atts : SUBSET Attachments, removed : SUBSET Attachments,
       amount : Int]

TypeOK ==
  /\ score \in [Users -> Int]
  /\ charges \in [Users \X Attachments -> Nat]
  /\ downloads \in SUBSET (Users \X Attachments)
  /\ attOwner \in [Attachments -> Users \cup {None}]
  /\ attTopic \in [Attachments -> Topics \cup {None}]
  /\ attStatus \in [Attachments -> {"ok", "deleted"}]
  /\ price \in [Attachments -> Nat]
  /\ topicOwner \in [Topics -> Users \cup {None}]
  /\ topicStatus \in [Topics -> {"none", "ok", "review", "deleted"}]
  /\ userLock \in [Users -> Handlers \cup {None}]
  /\ attLock \in [Attachments -> Handlers \cup {None}]
  /\ topicLock \in [Topics -> Handlers \cup {None}]
  /\ op \in [Handlers -> Op]

Init ==
  /\ score \in [Users -> 0..MaxScore]
  /\ charges = [x \in Users \X Attachments |-> 0]
  /\ downloads = {}
  /\ attOwner = [a \in Attachments |-> None]
  /\ attTopic = [a \in Attachments |-> None]
  /\ attStatus = [a \in Attachments |-> "ok"]
  /\ price = [a \in Attachments |-> 0]
  /\ topicOwner = [t \in Topics |-> None]
  /\ topicStatus = [t \in Topics |-> "none"]
  /\ userLock = [u \in Users |-> None]
  /\ attLock = [a \in Attachments |-> None]
  /\ topicLock = [t \in Topics |-> None]
  /\ op = [h \in Handlers |-> Idle]

-----------------------------------------------------------------------------
Start(h, request) == op[h] = Idle /\ op' = [op EXCEPT ![h] = request]

Goto(h, pc) == op' = [op EXCEPT ![h].pc = pc]

Unlocked(lock, h) == [x \in DOMAIN lock |-> IF lock[x] = h THEN None ELSE lock[x]]

\* Commit or rollback: the locks go, the handler answers.
Finish(h) ==
  /\ op' = [op EXCEPT ![h] = Idle]
  /\ userLock' = Unlocked(userLock, h)
  /\ attLock' = Unlocked(attLock, h)
  /\ topicLock' = Unlocked(topicLock, h)

AddScore(u, amount) == score' = [score EXCEPT ![u] = @ + amount]

-----------------------------------------------------------------------------
(* Who sees an attachment, and who may read it.                            *)

Visible(a, u) ==
  /\ attOwner[a] # None /\ attStatus[a] = "ok" /\ attTopic[a] # None
  /\ LET t == attTopic[a] IN
     \/ topicStatus[t] = "ok"
     \/ topicStatus[t] = "review" /\ (topicOwner[t] = u \/ u \in Admins)

HasAccess(a, u) == attOwner[a] = u \/ price[a] <= 0 \/ <<u, a>> \in downloads

-----------------------------------------------------------------------------
(* Access: unlock for points.                                              *)

AccessBegin(h, u, a) ==
  /\ Visible(a, u) /\ ~ HasAccess(a, u)
  /\ Start(h, [Idle EXCEPT !.pc = "access", !.user = u, !.att = a])
  /\ UNCHANGED <<rows, locks>>

AccessLockUser(h) ==
  /\ op[h].pc = "access"
  /\ userLock[op[h].user] = None
  /\ userLock' = [userLock EXCEPT ![op[h].user] = h]
  /\ Goto(h, "user_locked")
  /\ UNCHANGED <<rows, attLock, topicLock>>

\* Variant for mutation: the attachment is read without FOR UPDATE.
AccessReadAttachment(h) ==
  /\ op[h].pc = "user_locked"
  /\ Goto(h, "locked")
  /\ UNCHANGED <<rows, locks>>

AccessLockAttachment(h) ==
  /\ op[h].pc = "user_locked"
  /\ attLock[op[h].att] = None
  /\ attLock' = [attLock EXCEPT ![op[h].att] = h]
  /\ Goto(h, "locked")
  /\ UNCHANGED <<rows, userLock, topicLock>>

\* Variant for mutation: "has access" is only checked before the transaction.
PayableUnchecked(a, u) == Visible(a, u) /\ score[u] >= price[a]

\* The checks are made again on the locked rows.
Payable(a, u) ==
  /\ Visible(a, u)
  /\ ~ HasAccess(a, u)
  /\ score[u] >= price[a]

AccessApprove(h) ==
  LET r == op[h] IN
  /\ r.pc = "locked"
  /\ Payable(r.att, r.user)
  /\ op' = [op EXCEPT ![h] = [r EXCEPT !.pc = "approved", !.amount = price[r.att]]]
  /\ UNCHANGED <<rows, locks>>

\* Hidden meanwhile, unlocked meanwhile, or not enough points.
AccessEnd(h) ==
  /\ op[h].pc = "locked"
  /\ ~ Payable(op[h].att, op[h].user)
  /\ Finish(h)
  /\ UNCHANGED rows

\* DecrScoreTx with its log row, the download row, commit.
AccessCharge(h) ==
  LET r == op[h] IN
  /\ r.pc = "approved"
  /\ AddScore(r.user, -r.amount)
  /\ charges' = [charges EXCEPT ![<<r.user, r.att>>] = @ + 1]
  /\ downloads' = downloads \cup {<<r.user, r.att>>}
  /\ Finish(h)
  /\ UNCHANGED <<attOwner, attTopic, attStatus, price, topicOwner, topicStatus>>

-----------------------------------------------------------------------------
(* The other movements of a balance: they only take the row lock that an   *)
(* UPDATE takes.  A bounty is checked when the question is submitted and   *)
(* debited later, in the publishing transaction.                           *)

Credit(u, amount) ==
  /\ userLock[u] = None
  /\ score[u] + amount <= MaxScore
  /\ AddScore(u, amount)
  /\ UNCHANGED <<charges, downloads, attOwner, attTopic, attStatus, price,
                 topicOwner, topicStatus, locks, op>>

BountyCheck(h, u, amount) ==
  /\ score[u] >= amount
  /\ Start(h, [Idle EXCEPT !.pc = "bounty", !.user = u, !.amount = amount])
  /\ UNCHANGED <<rows, locks>>

BountyDebit(h) ==
  /\ op[h].pc = "bounty"
  /\ userLock[op[h].user] = None
  /\ AddScore(op[h].user, -op[h].amount)
  /\ Finish(h)
  /\ UNCHANGED <<charges, downloads, attOwner, attTopic, attStatus, price,
                 topicOwner, topicStatus>>

-----------------------------------------------------------------------------
(* Uploading and pricing.                                                  *)

\* The row is created once every object is stored; a negative price is 0.
\* Variant for mutation: the price is stored as it was sent.
AsSent(amount) == amount

NonNegative(amount) == IF amount < 0 THEN 0 ELSE amount

Upload(u, a, amount) ==
  /\ attOwner[a] = None
  /\ attOwner' = [attOwner EXCEPT ![a] = u]
  /\ price' = [price EXCEPT ![a] = NonNegative(amount)]
  /\ UNCHANGED <<score, charges, downloads, attTopic, attStatus, topicOwner, topicStatus,
                 locks, op>>

PriceRead(h, u, a, amount) ==
  /\ attOwner[a] = u /\ attStatus[a] = "ok"
  /\ Start(h, [Idle EXCEPT !.pc = "price", !.att = a, !.amount = amount])
  /\ UNCHANGED <<rows, locks>>

PriceWrite(h) ==
  /\ op[h].pc = "price"
  /\ attLock[op[h].att] = None
  /\ price' = [price EXCEPT ![op[h].att] = NonNegative(op[h].amount)]
  /\ Finish(h)
  /\ UNCHANGED <<score, charges, downloads, attOwner, attTopic, attStatus,
                 topicOwner, topicStatus>>

-----------------------------------------------------------------------------
(* Publishing a topic with attachments.  Counting the topic updates the    *)
(* author's row first, so that two publications of one author wait for     *)
(* each other; the attachments are then read, and bound by later UPDATEs.  *)

PublishBegin(h, u, t, as) ==
  /\ topicStatus[t] = "none"
  /\ \A k \in Handlers : op[k].pc \in {"publish", "publish_checked"} => op[k].topic # t
  /\ userLock[u] = None
  /\ Start(h, [Idle EXCEPT !.pc = "publish", !.user = u, !.topic = t, !.atts = as])
  /\ userLock' = [userLock EXCEPT ![u] = h]
  /\ UNCHANGED <<rows, attLock, topicLock>>

Bindable(a, u, t) ==
  attStatus[a] = "ok" /\ attOwner[a] = u /\ attTopic[a] \in {None, t}

PublishCheck(h) ==
  LET r == op[h] IN
  /\ r.pc = "publish"
  /\ IF \A a \in r.atts : Bindable(a, r.user, r.topic)
       THEN Goto(h, "publish_checked") /\ UNCHANGED locks
       ELSE Finish(h)
  /\ UNCHANGED rows

\* A forbidden word sends the topic to review.
PublishBind(h, status) ==
  LET r == op[h] IN
  /\ r.pc = "publish_checked"
  /\ \A a \in r.atts : attLock[a] = None
  /\ attTopic' = [a \in Attachments |-> IF a \in r.atts THEN r.topic ELSE attTopic[a]]
  /\ topicOwner' = [topicOwner EXCEPT ![r.topic] = r.user]
  /\ topicStatus' = [topicStatus EXCEPT ![r.topic] = status]
  /\ Finish(h)
  /\ UNCHANGED <<score, charges, downloads, attOwner, attStatus, price>>

-----------------------------------------------------------------------------
(* Editing a topic: its attachments are replaced as a whole.               *)

MayEdit(u, t) == topicStatus[t] = "ok" /\ (topicOwner[t] = u \/ u \in Admins)

EditBegin(h, u, t, as) ==
  /\ MayEdit(u, t)
  /\ Start(h, [Idle EXCEPT !.pc = "edit", !.user = u, !.topic = t, !.atts = as])
  /\ UNCHANGED <<rows, locks>>

EditLockTopic(h) ==
  /\ op[h].pc = "edit"
  /\ topicLock[op[h].topic] = None
  /\ topicLock' = [topicLock EXCEPT ![op[h].topic] = h]
  /\ Goto(h, "edit_locked")
  /\ UNCHANGED <<rows, userLock, attLock>>

Current(t) == {a \in Attachments : attTopic[a] = t /\ attStatus[a] = "ok"}

EditCheck(h) ==
  LET r == op[h] IN
  /\ r.pc = "edit_locked"
  /\ IF \A a \in r.atts : Bindable(a, r.user, r.topic)
       THEN /\ op' = [op EXCEPT ![h] = [r EXCEPT !.pc = "edit_checked",
                                               !.removed = Current(r.topic) \ r.atts]]
            /\ UNCHANGED locks
       ELSE Finish(h)
  /\ UNCHANGED rows

EditBind(h) ==
  LET r == op[h] IN
  /\ r.pc = "edit_checked"
  /\ \A a \in r.atts \cup r.removed : attLock[a] = None
  /\ attTopic' = [a \in Attachments |->
                    IF a \in r.atts THEN r.topic
                    ELSE IF a \in r.removed THEN None ELSE attTopic[a]]
  /\ attStatus' = [a \in Attachments |->
                     IF a \in r.atts THEN "ok"
                     ELSE IF a \in r.removed THEN "deleted" ELSE attStatus[a]]
  /\ Finish(h)
  /\ UNCHANGED <<score, charges, downloads, attOwner, price, topicOwner, topicStatus>>

-----------------------------------------------------------------------------
(* Deleting a topic deletes its attachments in the same transaction;       *)
(* undeleting does not restore them.                                       *)

DeleteRead(h, t) ==
  /\ topicStatus[t] # "none"
  /\ Start(h, [Idle EXCEPT !.pc = "delete", !.topic = t])
  /\ UNCHANGED <<rows, locks>>

DeleteMark(h) ==
  /\ op[h].pc = "delete"
  /\ topicLock[op[h].topic] = None
  /\ topicLock' = [topicLock EXCEPT ![op[h].topic] = h]
  /\ Goto(h, "delete_marked")
  /\ UNCHANGED <<rows, userLock, attLock>>

BoundTo(t) == {a \in Attachments : attTopic[a] = t}

\* Variant for mutation: the attachments are left to a later clean-up.
DeleteTopicOnly(h) ==
  /\ op[h].pc = "delete_marked"
  /\ topicStatus' = [topicStatus EXCEPT ![op[h].topic] = "deleted"]
  /\ Finish(h)
  /\ UNCHANGED <<score, charges, downloads, attOwner, attTopic, attStatus, price, topicOwner>>

DeleteCommit(h) ==
  LET t == op[h].topic IN
  /\ op[h].pc = "delete_marked"
  /\ \A a \in BoundTo(t) : attLock[a] = None
  /\ topicStatus' = [topicStatus EXCEPT ![t] = "deleted"]
  /\ attStatus' = [a \in Attachments |-> IF a \in BoundTo(t) THEN "deleted" ELSE attStatus[a]]
  /\ Finish(h)
  /\ UNCHANGED <<score, charges, downloads, attOwner, attTopic, price, topicOwner>>

ToOk(t, from) ==
  /\ topicStatus[t] \in from
  /\ topicLock[t] = None
  /\ topicStatus' = [topicStatus EXCEPT ![t] = "ok"]
  /\ UNCHANGED <<score, charges, downloads, attOwner, attTopic, attStatus, price,
                 topicOwner, locks, op>>

Undelete(t) == ToOk(t, {"deleted"})
Audit(t)    == ToOk(t, {"review", "deleted"})

-----------------------------------------------------------------------------
HandlerStep(h) ==
  \/ AccessLockUser(h) \/ AccessLockAttachment(h) \/ AccessApprove(h)
  \/ AccessEnd(h) \/ AccessCharge(h)
  \/ BountyDebit(h)
  \/ PriceWrite(h)
  \/ PublishCheck(h) \/ (\E status \in {"ok", "review"} : PublishBind(h, status))
  \/ EditLockTopic(h) \/ EditCheck(h) \/ EditBind(h)
  \/ DeleteMark(h) \/ DeleteCommit(h)

Request(h) ==
  \/ \E u \in Users, a \in Attachments : AccessBegin(h, u, a)
  \/ \E u \in Users, n \in 1..MaxScore : BountyCheck(h, u, n)
  \/ \E u \in Users, a \in Attachments, n \in -1..MaxScore : PriceRead(h, u, a, n)
  \/ \E u \in Users, t \in Topics, as \in SUBSET Attachments :
       PublishBegin(h, u, t, as) \/ EditBegin(h, u, t, as)
  \/ \E t \in Topics : DeleteRead(h, t)

Next ==
  \/ \E h \in Handlers : Request(h) \/ HandlerStep(h)
  \/ \E u \in Users, n \in 1..MaxScore : Credit(u, n)
  \/ \E u \in Users, a \in Attachments, n \in -1..MaxScore : Upload(u, a, n)
  \/ \E t \in Topics : Undelete(t) \/ Audit(t)

Spec == Init /\ [][Next]_vars

-----------------------------------------------------------------------------
(* Properties *)

\* Access is idempotent: however many requests of one user race for one
\* attachment, the ledger has one charge if the user holds a download row and
\* none otherwise ("explicitly and idempotently unlocks", Access).
ChargedOncePerDownload ==
  \A x \in Users \X Attachments : charges[x] = IF x \in downloads THEN 1 ELSE 0

NewDownloads == downloads' \ downloads

\* An unlock takes exactly the price the attachment has at that moment and
\* never overdraws the balance, although the price, and by bounties the
\* balance, may have changed since the caller was told the price.
UnlockCoveredAtCurrentPrice ==
  [][\A x \in NewDownloads :
       score'[x[1]] = score[x[1]] - price[x[2]] /\ score'[x[1]] >= 0]_vars

\* Nobody pays for what cannot be read: at the commit of an unlock the
\* attachment is still bound to a topic its buyer may see.  The topic row is
\* not locked by Access; deleting is kept out because it must also update the
\* locked attachment row.
PaidAttachmentIsVisible ==
  [][\A x \in NewDownloads : Visible(x[2], x[1]) /\ ~ HasAccess(x[2], x[1])]_vars
=============================================================================
