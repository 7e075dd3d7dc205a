------------------------------ MODULE UserFollow ------------------------------
(***************************************************************************)
(* Following and unfollowing: the rows of t_user_follow with their status, *)
(* and the counters on the two users.  Whether a user is followed is read  *)
(* before the transaction; inside it only row locks keep others away.      *)
(*                                                                         *)
(* A transaction's writes take effect at its commit; until then it holds   *)
(* the row of each one (for an insert: the key of the unique index), and   *)
(* another transaction that needs the row waits, then looks at it again.   *)
(* Three statements on these rows drop their errors: on MySQL a wait that  *)
(* is too long undoes that statement alone, a deadlock the whole           *)
(* transaction, and the code goes on.                                      *)
(***************************************************************************)
EXTENDS Integers, FiniteSets

CONSTANTS
  Users, Handlers,
  None

ASSUME FollowAssumption ==
  None \notin Handlers /\ None \notin Users /\ IsFiniteSet(Users)

Pairs == {p \in Users \X Users : p[1] # p[2]}
Back(p) == <<p[2], p[1]>>

VARIABLES
  follow,        \* t_user_follow by (user_id, other_id): "none", "follow" or "both"
  followCount,   \* t_user.follow_count
  fansCount,     \* t_user.fans_count
  followLock,    \* the transaction that holds the row, or the key, of a pair
  userLock,      \* the transaction that holds the row of a user
  op,            \* the request each handler serves
  leftBoth       \* history: rows that stayed "both" because their reset was lost

rows  == <<follow, followCount, fansCount, leftBoth>>
locks == <<followLock, userLock>>
vars  == <<rows, locks, op>>

\* "pair" is <<userId, otherId>>; "found": what the first statement met, the
\* reverse row (Follow) or the row to delete (UnFollow); "lost": the error of the
\* second statement of UnFollow was dropped.
Idle == [pc |-> "idle", pair |-> None, found |-> FALSE, lost |-> FALSE]

Pcs == {"idle",
        "follow", "follow_user", "follow_other", "follow_insert",
        "unfollow", "unfollow_back", "unfollow_user", "unfollow_other", "unfollow_commit",
        "lost_user", "lost_other"}

TypeOK ==
  /\ follow \in [Pairs -> {"none", "follow", "both"}]
  /\ followCount \in [Users -> Nat]
  /\ fansCount \in [Users -> Nat]
  /\ followLock \in [Pairs -> Handlers \cup {None}]
  /\ userLock \in [Users -> Handlers \cup {None}]
  /\ op \in [Handlers -> [pc : Pcs, pair : Pairs \cup {None}, found : BOOLEAN, lost : BOOLEAN]]
  /\ leftBoth \subseteq Pairs

Init ==
  /\ follow = [p \in Pairs |-> "none"]
  /\ followCount = [u \in Users |-> 0]
  /\ fansCount = [u \in Users |-> 0]
  /\ followLock = [p \in Pairs |-> None]
  /\ userLock = [u \in Users |-> None]
  /\ op = [h \in Handlers |-> Idle]
  /\ leftBoth = {}

-----------------------------------------------------------------------------
IsFollowed(p) == follow[p] # "none"

Start(h, pc, p) ==
  /\ op[h] = Idle
  /\ op' = [op EXCEPT ![h] = [Idle EXCEPT !.pc = pc, !.pair = p]]
  /\ UNCHANGED <<rows, locks>>

Goto(h, pc) == op' = [op EXCEPT ![h].pc = pc]

LockUser(h, u) ==
  /\ userLock[u] = None
  /\ userLock' = [userLock EXCEPT ![u] = h]
  /\ UNCHANGED <<rows, followLock>>

\* The row of p exists: wait for it and hold it.  It does not: nothing to hold.
LockRow(h, p) ==
  /\ IsFollowed(p) => followLock[p] \in {None, h}
  /\ followLock' = IF IsFollowed(p) THEN [followLock EXCEPT ![p] = h] ELSE followLock
  /\ UNCHANGED <<rows, userLock>>

\* What the first statement reports, and the next one.
Met(h, found, next) == op' = [op EXCEPT ![h].pc = next, ![h].found = found]

\* The row of p exists and another transaction holds it.
RowTaken(h, p) == IsFollowed(p) /\ followLock[p] \notin {None, h}

\* The wait for the row is too long, and the dropped error reads as "no rows".
WaitTooLong(h, p, next) ==
  /\ RowTaken(h, p)
  /\ Met(h, FALSE, next)
  /\ UNCHANGED <<rows, locks>>

\* Commit or rollback.
Finish(h) ==
  /\ op' = [op EXCEPT ![h] = Idle]
  /\ followLock' = [p \in Pairs |-> IF followLock[p] = h THEN None ELSE followLock[p]]
  /\ userLock' = [u \in Users |-> IF userLock[u] = h THEN None ELSE userLock[u]]

\* A row is left alone until it is reset, deleted or mutual again.
LeftBoth(lost) ==
  {q \in leftBoth \cup lost : follow'[q] = "both" /\ follow'[Back(q)] # "both"}

-----------------------------------------------------------------------------
(* Follow                                                                  *)

FollowBegin(h, p) == ~ IsFollowed(p) /\ Start(h, "follow", p)

\* UPDATE t_user_follow SET status = both, of the reverse row.  MySQL reports the
\* rows it changed: a row that says "both" already counts or does not.
FollowBack(h) ==
  LET back == Back(op[h].pair) IN
  /\ op[h].pc = "follow"
  /\ \/ /\ LockRow(h, back)
        /\ \E found \in IF follow[back] = "both" THEN BOOLEAN ELSE {IsFollowed(back)} :
             Met(h, found, "follow_user")
     \/ WaitTooLong(h, back, "follow_user")

FollowUser(h) ==
  /\ op[h].pc = "follow_user"
  /\ LockUser(h, op[h].pair[1]) /\ Goto(h, "follow_other")

FollowOther(h) ==
  /\ op[h].pc = "follow_other"
  /\ LockUser(h, op[h].pair[2]) /\ Goto(h, "follow_insert")

\* Variant for mutation: the reverse row is not updated.
OneSided(p, mutual) == [follow EXCEPT ![p] = IF mutual THEN "both" ELSE "follow"]

\* The new row, with the reverse row if there is one.
WithFollow(p, mutual) ==
  [q \in Pairs |-> IF q = p \/ (mutual /\ q = Back(p))
                   THEN IF mutual THEN "both" ELSE "follow"
                   ELSE follow[q]]

\* Variant for mutation: no unique index on (user_id, other_id).
MayInsertAgain(h, p) == followLock[p] \in {None, h}

\* The insert waits for whoever holds its key, and fails on a duplicate.
MayInsert(h, p) == followLock[p] \in {None, h} /\ ~ IsFollowed(p)

FollowInsert(h) ==
  LET p == op[h].pair IN
  /\ op[h].pc = "follow_insert"
  /\ MayInsert(h, p)
  /\ follow' = WithFollow(p, op[h].found)
  /\ followCount' = [followCount EXCEPT ![p[1]] = @ + 1]
  /\ fansCount' = [fansCount EXCEPT ![p[2]] = @ + 1]
  /\ leftBoth' = LeftBoth({})
  /\ Finish(h)

-----------------------------------------------------------------------------
(* UnFollow                                                                *)

UnFollowBegin(h, p) == IsFollowed(p) /\ Start(h, "unfollow", p)

\* DELETE; what it reports decides whether the reverse row is updated.
UnFollowRow(h) ==
  LET p == op[h].pair IN
  /\ op[h].pc = "unfollow"
  /\ \/ LockRow(h, p) /\ Met(h, IsFollowed(p), "unfollow_back")
     \/ WaitTooLong(h, p, "unfollow_back")

\* The reverse row, only if a row was deleted.
UnFollowBack(h) ==
  LET back == Back(op[h].pair) IN
  /\ op[h].pc = "unfollow_back"
  /\ IF op[h].found THEN LockRow(h, back) ELSE UNCHANGED <<rows, locks>>
  /\ Goto(h, "unfollow_user")

\* The wait for the reverse row is too long: it keeps its status.
LoseUpdate(h) ==
  /\ op[h].pc = "unfollow_back" /\ op[h].found
  /\ RowTaken(h, Back(op[h].pair))
  /\ op' = [op EXCEPT ![h].pc = "unfollow_user", ![h].lost = TRUE]
  /\ UNCHANGED <<rows, locks>>

\* The wait closes a cycle and the deletion is undone; what follows runs on its own.
LoseTransaction(h) ==
  /\ op[h].pc = "unfollow_back" /\ op[h].found
  /\ RowTaken(h, Back(op[h].pair))
  /\ followLock' = [p \in Pairs |-> IF followLock[p] = h THEN None ELSE followLock[p]]
  /\ op' = [op EXCEPT ![h].pc = "lost_user", ![h].found = FALSE]
  /\ UNCHANGED <<rows, userLock>>

UnFollowUser(h) ==
  /\ op[h].pc = "unfollow_user"
  /\ LockUser(h, op[h].pair[1]) /\ Goto(h, "unfollow_other")

UnFollowOther(h) ==
  /\ op[h].pc = "unfollow_other"
  /\ LockUser(h, op[h].pair[2]) /\ Goto(h, "unfollow_commit")

\* The row gone, and the reverse row, if it was held, single again.
Without(h, p) ==
  [q \in Pairs |-> IF q = p THEN "none"
                   ELSE IF q = Back(p) /\ followLock[q] = h THEN "follow" ELSE follow[q]]

\* Variant for mutation: the decrements lack "... > 0".
DecrementAlways(count, u) == [count EXCEPT ![u] = @ - 1]

Decrement(count, u) == [count EXCEPT ![u] = IF @ > 0 THEN @ - 1 ELSE @]

\* The counters go down whether or not a row was deleted.
UnFollowCommit(h) ==
  LET p == op[h].pair IN
  /\ op[h].pc = "unfollow_commit"
  /\ follow' = IF op[h].found THEN Without(h, p) ELSE follow
  /\ followCount' = Decrement(followCount, p[1])
  /\ fansCount' = Decrement(fansCount, p[2])
  /\ leftBoth' = LeftBoth(IF op[h].lost THEN {Back(p)} ELSE {})
  /\ Finish(h)

\* Outside a transaction each decrement is a commit.
LostUser(h) ==
  LET u == op[h].pair[1] IN
  /\ op[h].pc = "lost_user" /\ userLock[u] = None
  /\ followCount' = Decrement(followCount, u)
  /\ Goto(h, "lost_other")
  /\ UNCHANGED <<follow, fansCount, leftBoth, locks>>

LostOther(h) ==
  LET u == op[h].pair[2] IN
  /\ op[h].pc = "lost_other" /\ userLock[u] = None
  /\ fansCount' = Decrement(fansCount, u)
  /\ Finish(h)
  /\ UNCHANGED <<follow, followCount, leftBoth>>

-----------------------------------------------------------------------------
\* A statement whose error is returned fails, by a duplicate key, a wait or a
\* deadlock, or, after any error on PostgreSQL and on a lost connection, the next
\* one does: everything not yet committed is rolled back.
Fail(h) ==
  /\ op[h].pc # "idle"
  /\ Finish(h)
  /\ UNCHANGED rows

Handle(h) ==
  \/ \E p \in Pairs : FollowBegin(h, p) \/ UnFollowBegin(h, p)
  \/ FollowBack(h) \/ FollowUser(h) \/ FollowOther(h) \/ FollowInsert(h)
  \/ UnFollowRow(h) \/ UnFollowBack(h) \/ UnFollowUser(h) \/ UnFollowOther(h)
  \/ UnFollowCommit(h)
  \/ LoseUpdate(h) \/ LoseTransaction(h) \/ LostUser(h) \/ LostOther(h)
  \/ Fail(h)

Next == \E h \in Handlers : Handle(h)

Spec == Init /\ [][Next]_vars

-----------------------------------------------------------------------------
Follows(u) == Cardinality({p \in Pairs : p[1] = u /\ IsFollowed(p)})
Fans(u)    == Cardinality({p \in Pairs : p[2] = u /\ IsFollowed(p)})

\* The counters never show more than there is, however requests are
\* repeated (Follow and its unique index, UnFollow).
CountsNeverExceed ==
  \A u \in Users : followCount[u] <= Follows(u) /\ fansCount[u] <= Fans(u)

\* A row says "both" only if the other direction says so too, whatever follows and
\* unfollows of the two users overlap, and whatever fails.  The one exception is a row
\* whose reset UnFollow lost by dropping the error of its second statement: it stays
\* "both" beside no row, or beside the one of a later Follow that did not meet it.
BothIsMutual ==
  \A p \in Pairs : follow[p] = "both" => follow[Back(p)] = "both" \/ p \in leftBoth

\* user_follow_service.go:87: if the other follows me as well, the status is
\* mutual.  An UPDATE that finds no row holds nothing here, as under READ COMMITTED;
\* the gap locks of MySQL's REPEATABLE READ would make one of the two inserts fail.
MutualIsBoth ==
  \A p \in Pairs : IsFollowed(p) /\ IsFollowed(Back(p)) => follow[p] = "both"

\* Where no two requests overlap, the counters are the numbers of rows and two users
\* who follow each other are both told so: only overlaps break either.
ExactAlone ==
  /\ \A u \in Users : followCount[u] = Follows(u) /\ fansCount[u] = Fans(u)
  /\ MutualIsBoth
=============================================================================
