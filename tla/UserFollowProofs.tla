---------------------------- MODULE UserFollowProofs ----------------------------
(***************************************************************************)
(* Proofs about UserFollow, for every finite set of users and any number   *)
(* of requests.  What a transaction has locked stays as it found it        *)
(* (Held, Known), so that the row it deletes is still there, and the       *)
(* reverse row is not made mutual behind its back, unless the statement    *)
(* that would have held it was lost.                                       *)
(***************************************************************************)
EXTENDS UserFollow, FiniteSetTheorems, TLAPS

USE FollowAssumption

Requests == \A h \in Handlers : op[h].pc # "idle" => op[h].pair \in Pairs

\* Only rows that exist are held.
Held == \A p \in Pairs : followLock[p] # None => IsFollowed(p)

\* What a transaction has locked: Follow the reverse row it found, UnFollow the row it
\* deletes, and then the reverse row if that is mutual and its reset was not lost.
KnownTo(h) ==
  /\ op[h].pc \in {"follow_user", "follow_other", "follow_insert"} =>
       followLock[Back(op[h].pair)] = h
  /\ op[h].pc \in {"unfollow_back", "unfollow_user", "unfollow_other", "unfollow_commit"} =>
       followLock[op[h].pair] = h
  /\ op[h].pc \in {"unfollow_user", "unfollow_other", "unfollow_commit"} =>
       (follow[Back(op[h].pair)] = "both" =>
          followLock[Back(op[h].pair)] = h \/ op[h].lost)

Known == \A h \in Handlers : op[h].found => KnownTo(h)

\* The rows of those a user follows, and of the fans.
Out(u) == {p \in Pairs : p[1] = u /\ IsFollowed(p)}
In(u)  == {p \in Pairs : p[2] = u /\ IsFollowed(p)}

IInv == TypeOK /\ Requests /\ Held /\ Known /\ BothIsMutual /\ CountsNeverExceed

-----------------------------------------------------------------------------
(* Pairs and sets of pairs                                                 *)

LEMMA BackPair ==
  \A p \in Pairs : Back(p) \in Pairs /\ Back(p) # p /\ Back(Back(p)) = p
  BY DEF Pairs, Back

LEMMA PairsFinite == IsFiniteSet(Pairs)
<1>1. IsFiniteSet(Users \X Users)
  BY FS_Product
<1> QED
  BY <1>1, FS_Subset DEF Pairs

LEMMA RowsFinite == \A u \in Users : IsFiniteSet(Out(u)) /\ IsFiniteSet(In(u))
  BY PairsFinite, FS_Subset DEF Out, In

LEMMA CountsAre == \A u \in Users : Follows(u) = Cardinality(Out(u)) /\ Fans(u) = Cardinality(In(u))
  BY DEF Follows, Fans, Out, In

LEMMA CountsNat == \A u \in Users : Follows(u) \in Nat /\ Fans(u) \in Nat
  BY RowsFinite, CountsAre, FS_CardinalityType

\* The rows that exist decide both numbers.
LEMMA SameCounts ==
  ASSUME \A q \in Pairs : IsFollowed(q)' <=> IsFollowed(q)
  PROVE  \A u \in Users : Follows(u)' = Follows(u) /\ Fans(u)' = Fans(u)
<1> TAKE u \in Users
<1>1. {q \in Pairs : q[1] = u /\ IsFollowed(q)'} = {q \in Pairs : q[1] = u /\ IsFollowed(q)}
  OBVIOUS
<1>2. {q \in Pairs : q[2] = u /\ IsFollowed(q)'} = {q \in Pairs : q[2] = u /\ IsFollowed(q)}
  OBVIOUS
<1> QED
  BY <1>1, <1>2 DEF Follows, Fans

\* A new row adds one to the numbers of its two users.
LEMMA OneMore ==
  ASSUME NEW p \in Pairs, ~ IsFollowed(p),
         \A q \in Pairs : IsFollowed(q)' <=> IsFollowed(q) \/ q = p
  PROVE  \A u \in Users :
           /\ Follows(u)' = IF u = p[1] THEN Follows(u) + 1 ELSE Follows(u)
           /\ Fans(u)' = IF u = p[2] THEN Fans(u) + 1 ELSE Fans(u)
<1> TAKE u \in Users
<1>1. /\ u = p[1] => Out(u)' = Out(u) \cup {p}
      /\ u # p[1] => Out(u)' = Out(u)
      /\ u = p[2] => In(u)' = In(u) \cup {p}
      /\ u # p[2] => In(u)' = In(u)
  BY DEF Out, In
<1>2. p \notin Out(u) /\ p \notin In(u)
  BY DEF Out, In
<1>3. /\ Cardinality(Out(u) \cup {p}) = Cardinality(Out(u)) + 1
      /\ Cardinality(In(u) \cup {p}) = Cardinality(In(u)) + 1
  BY <1>2, RowsFinite, FS_AddElement
<1>4. Follows(u)' = Cardinality(Out(u)') /\ Fans(u)' = Cardinality(In(u)')
  BY DEF Follows, Fans, Out, In
<1> QED
  BY <1>1, <1>3, <1>4, CountsAre

\* A deleted row takes one from them.
LEMMA OneLess ==
  ASSUME NEW p \in Pairs, IsFollowed(p),
         \A q \in Pairs : IsFollowed(q)' <=> IsFollowed(q) /\ q # p
  PROVE  \A u \in Users :
           /\ Follows(u)' = IF u = p[1] THEN Follows(u) - 1 ELSE Follows(u)
           /\ Fans(u)' = IF u = p[2] THEN Fans(u) - 1 ELSE Fans(u)
<1> TAKE u \in Users
<1>1. /\ u = p[1] => Out(u)' = Out(u) \ {p}
      /\ u # p[1] => Out(u)' = Out(u)
      /\ u = p[2] => In(u)' = In(u) \ {p}
      /\ u # p[2] => In(u)' = In(u)
  BY DEF Out, In
<1>2. (u = p[1] => p \in Out(u)) /\ (u = p[2] => p \in In(u))
  BY DEF Out, In
<1>3. /\ u = p[1] => Cardinality(Out(u) \ {p}) = Cardinality(Out(u)) - 1
      /\ u = p[2] => Cardinality(In(u) \ {p}) = Cardinality(In(u)) - 1
  BY <1>2, RowsFinite, FS_RemoveElement
<1>4. Follows(u)' = Cardinality(Out(u)') /\ Fans(u)' = Cardinality(In(u)')
  BY DEF Follows, Fans, Out, In
<1> QED
  BY <1>1, <1>3, <1>4, CountsAre

-----------------------------------------------------------------------------
(* Steps that change no row                                                *)

\* A step that changes no row keeps what is said of the rows alone.
LEMMA RowsKept ==
  ASSUME IInv, UNCHANGED rows
  PROVE  BothIsMutual' /\ CountsNeverExceed'
<1>1. BothIsMutual'
  BY DEF IInv, BothIsMutual, rows
<1>2. \A u \in Users : Follows(u)' = Follows(u) /\ Fans(u)' = Fans(u)
  <2>1. \A q \in Pairs : IsFollowed(q)' <=> IsFollowed(q)
    BY DEF IsFollowed, rows
  <2> QED
    BY <2>1, SameCounts
<1>3. CountsNeverExceed'
  BY <1>2 DEF IInv, CountsNeverExceed, rows
<1> QED
  BY <1>1, <1>3

LEMMA StartKeeps ==
  ASSUME IInv, NEW h \in Handlers, NEW p \in Pairs, NEW pc \in {"follow", "unfollow"},
         Start(h, pc, p)
  PROVE  IInv'
<1>1. TypeOK'
  <2> DEFINE R == [pc : Pcs, pair : Pairs \cup {None}, found : BOOLEAN, lost : BOOLEAN]
             new == [Idle EXCEPT !.pc = pc, !.pair = p]
  <2>1. new \in R
    BY DEF Idle, Pcs
  <2>2. op \in [Handlers -> R] /\ op' = [op EXCEPT ![h] = new]
    BY DEF IInv, TypeOK, Start
  <2>3. op' \in [Handlers -> R]
    <3> HIDE DEF R, new
    <3> QED
      BY <2>1, <2>2
  <2> QED
    BY <2>3 DEF IInv, TypeOK, Start, rows, locks
<1>2. Requests' /\ Held' /\ Known'
  BY DEF IInv, TypeOK, Requests, Held, Known, KnownTo, IsFollowed, Start, rows, locks
<1> QED
  BY <1>1, <1>2, RowsKept DEF IInv, Start

LEMMA LockUserKeeps ==
  ASSUME IInv, NEW h \in Handlers, NEW u \in Users, NEW pc \in Pcs,
         LockUser(h, u), Goto(h, pc),
         <<op[h].pc, pc>> \in {<<"follow_user", "follow_other">>,
                               <<"follow_other", "follow_insert">>,
                               <<"unfollow_user", "unfollow_other">>,
                               <<"unfollow_other", "unfollow_commit">>}
  PROVE  IInv'
<1>1. TypeOK'
  BY DEF IInv, TypeOK, LockUser, Goto, rows
<1>2. Requests' /\ Held'
  BY DEF IInv, TypeOK, Requests, Held, IsFollowed, LockUser, Goto, rows
<1>3. Known'
  BY DEF IInv, TypeOK, Known, KnownTo, LockUser, Goto, rows
<1> QED
  BY <1>1, <1>2, <1>3, RowsKept DEF IInv, LockUser

\* A row that is locked is free or already held, and it exists.
LEMMA LockRowKeeps ==
  ASSUME IInv, NEW h \in Handlers, NEW q \in Pairs, NEW pc \in Pcs, NEW found \in BOOLEAN,
         LockRow(h, q), Met(h, found, pc), found => IsFollowed(q),
         \/ op[h].pc = "follow" /\ pc = "follow_user" /\ q = Back(op[h].pair)
         \/ op[h].pc = "unfollow" /\ pc = "unfollow_back" /\ q = op[h].pair
  PROVE  IInv'
<1>1. /\ op'[h].pc = pc /\ op'[h].pair = op[h].pair /\ op'[h].found = found
      /\ \A k \in Handlers : k # h => op'[k] = op[k]
  BY DEF IInv, TypeOK, Met
<1>3. TypeOK'
  <2>1. op' \in [Handlers -> [pc : Pcs, pair : Pairs \cup {None}, found : BOOLEAN, lost : BOOLEAN]]
    BY DEF IInv, TypeOK, Met
  <2> QED
    BY <2>1 DEF IInv, TypeOK, LockRow, rows
<1>4. Requests' /\ Held'
  BY <1>1 DEF IInv, TypeOK, Requests, Held, IsFollowed, LockRow, rows
<1>5. Known'
  <2>1. \A k \in Handlers, r \in Pairs : k # h /\ followLock[r] = k => followLock'[r] = k
    BY DEF IInv, TypeOK, Held, LockRow
  <2>2. IsFollowed(q) => followLock'[q] = h
    BY DEF IInv, TypeOK, LockRow
  <2>3. \A k \in Handlers : op[k].found /\ op[k].pc # "idle" => Back(op[k].pair) \in Pairs
    BY BackPair DEF IInv, Requests
  <2>4. SUFFICES ASSUME NEW k \in Handlers, op'[k].found
                 PROVE  KnownTo(k)'
    BY DEF Known
  <2>5. CASE k = h
    BY <1>1, <2>2, <2>4, <2>5 DEF IInv, TypeOK, KnownTo
  <2>6. CASE k # h
    BY <1>1, <2>1, <2>3, <2>4, <2>6 DEF IInv, TypeOK, Known, KnownTo, Requests, LockRow, rows
  <2> QED
    BY <2>5, <2>6
<1> QED
  BY <1>3, <1>4, <1>5, RowsKept DEF IInv, LockRow

\* A dropped error: nothing changes but what the request thinks it met.
LEMMA WaitTooLongKeeps ==
  ASSUME IInv, NEW h \in Handlers, NEW q \in Pairs, NEW pc \in Pcs, WaitTooLong(h, q, pc),
         op[h].pc # "idle"
  PROVE  IInv'
<1>1. TypeOK'
  BY DEF IInv, TypeOK, WaitTooLong, Met, rows, locks
<1>2. Requests' /\ Held'
  BY DEF IInv, TypeOK, Requests, Held, IsFollowed, WaitTooLong, Met, rows, locks
<1>3. Known'
  BY DEF IInv, TypeOK, Known, KnownTo, WaitTooLong, Met, rows, locks
<1> QED
  BY <1>1, <1>2, <1>3, RowsKept DEF IInv, WaitTooLong

LEMMA UnFollowBackKeeps ==
  ASSUME IInv, NEW h \in Handlers, UnFollowBack(h)
  PROVE  IInv'
<1>1. op[h].pair \in Pairs /\ Back(op[h].pair) \in Pairs /\ Back(op[h].pair) # op[h].pair
  BY BackPair DEF IInv, Requests, UnFollowBack
<1>2. /\ UNCHANGED <<rows, userLock>>
      /\ followLock' = IF op[h].found /\ IsFollowed(Back(op[h].pair))
                       THEN [followLock EXCEPT ![Back(op[h].pair)] = h] ELSE followLock
      /\ op[h].found /\ IsFollowed(Back(op[h].pair)) =>
           followLock[Back(op[h].pair)] \in {None, h}
      /\ op' = [op EXCEPT ![h].pc = "unfollow_user"]
  BY DEF UnFollowBack, LockRow, Goto, locks, rows
<1>3. TypeOK'
  BY <1>1, <1>2 DEF IInv, TypeOK, rows, Pcs
<1>4. Requests' /\ Held'
  BY <1>1, <1>2 DEF IInv, TypeOK, Requests, Held, IsFollowed, rows, UnFollowBack
<1>5. Known'
  <2>1. \A k \in Handlers, q \in Pairs : followLock[q] = k => followLock'[q] = k
    BY <1>1, <1>2 DEF IInv, TypeOK, Held
  <2>2. op[h].found /\ IsFollowed(Back(op[h].pair)) => followLock'[Back(op[h].pair)] = h
    BY <1>1, <1>2 DEF IInv, TypeOK
  <2>3. /\ op'[h].pc = "unfollow_user" /\ op'[h].pair = op[h].pair /\ op'[h].found = op[h].found
        /\ \A k \in Handlers : k # h => op'[k] = op[k]
    BY <1>2 DEF IInv, TypeOK
  <2>4. SUFFICES ASSUME NEW k \in Handlers, op'[k].found
                 PROVE  KnownTo(k)'
    BY DEF Known
  <2>5. CASE k = h
    BY <1>1, <1>2, <2>1, <2>2, <2>3, <2>4, <2>5
    DEF IInv, TypeOK, Known, KnownTo, IsFollowed, UnFollowBack, rows
  <2>6. CASE k # h
    <3>1. op[k].pc # "idle" => op[k].pair \in Pairs /\ Back(op[k].pair) \in Pairs
      BY BackPair DEF IInv, Requests
    <3> QED
      BY <1>2, <2>1, <2>3, <2>4, <2>6, <3>1 DEF IInv, Known, KnownTo, rows
  <2> QED
    BY <2>5, <2>6
<1> QED
  BY <1>2, <1>3, <1>4, <1>5, RowsKept DEF IInv, rows

\* The reverse row keeps its status, and the request remembers that.
LEMMA LoseUpdateKeeps ==
  ASSUME IInv, NEW h \in Handlers, LoseUpdate(h)
  PROVE  IInv'
<1>1. TypeOK'
  <2>1. op' = [op EXCEPT ![h] = [op[h] EXCEPT !.pc = "unfollow_user", !.lost = TRUE]]
    BY DEF IInv, TypeOK, LoseUpdate
  <2>2. op' \in [Handlers -> [pc : Pcs, pair : Pairs \cup {None}, found : BOOLEAN, lost : BOOLEAN]]
    BY <2>1 DEF IInv, TypeOK, Pcs
  <2> QED
    BY <2>2 DEF IInv, TypeOK, LoseUpdate, rows, locks
<1>2. Requests' /\ Held'
  BY DEF IInv, TypeOK, Requests, Held, IsFollowed, LoseUpdate, rows, locks
<1>3. Known'
  BY DEF IInv, TypeOK, Known, KnownTo, LoseUpdate, rows, locks
<1> QED
  BY <1>1, <1>2, <1>3, RowsKept DEF IInv, LoseUpdate

\* The deletion is undone and its row let go.
LEMMA LoseTransactionKeeps ==
  ASSUME IInv, NEW h \in Handlers, LoseTransaction(h)
  PROVE  IInv'
<1>1. TypeOK'
  BY DEF IInv, TypeOK, LoseTransaction, rows, Pcs
<1>2. Requests' /\ Held'
  BY DEF IInv, TypeOK, Requests, Held, IsFollowed, LoseTransaction, rows
<1>3. Known'
  <2>1. SUFFICES ASSUME NEW k \in Handlers, op'[k].found
                 PROVE  KnownTo(k)'
    BY DEF Known
  <2>2. k # h /\ op'[k] = op[k]
    BY <2>1 DEF IInv, TypeOK, LoseTransaction
  <2>3. op[k].pc # "idle" => op[k].pair \in Pairs /\ Back(op[k].pair) \in Pairs
    BY BackPair DEF IInv, Requests
  <2>4. \A q \in Pairs : followLock[q] = k => followLock'[q] = k
    BY <2>2 DEF LoseTransaction
  <2> QED
    BY <2>1, <2>2, <2>3, <2>4 DEF IInv, Known, KnownTo, LoseTransaction, rows
<1> QED
  BY <1>1, <1>2, <1>3, RowsKept DEF IInv, LoseTransaction

-----------------------------------------------------------------------------
(* Commits and rollbacks                                                   *)

\* Who finishes lets go of its locks, and nobody else of theirs.
LEMMA Finished ==
  ASSUME IInv, NEW h \in Handlers, Finish(h)
  PROVE  /\ op' = [op EXCEPT ![h] = Idle]
         /\ op' \in [Handlers -> [pc : Pcs, pair : Pairs \cup {None},
                                 found : BOOLEAN, lost : BOOLEAN]]
         /\ followLock' \in [Pairs -> Handlers \cup {None}]
         /\ userLock' \in [Users -> Handlers \cup {None}]
         /\ Requests'
         /\ \A p \in Pairs :
              /\ followLock'[p] # None => followLock'[p] = followLock[p] /\ followLock[p] # h
              /\ \A k \in Handlers : k # h /\ followLock[p] = k => followLock'[p] = k
         /\ op'[h].pc = "idle" /\ ~ op'[h].found /\ ~ op'[h].lost
         /\ \A k \in Handlers : k # h => op'[k] = op[k]
  BY DEF IInv, TypeOK, Requests, Finish, Idle, Pcs

LEMMA FailKeeps ==
  ASSUME IInv, NEW h \in Handlers, Fail(h)
  PROVE  IInv'
<1>1. Finish(h)
  BY DEF Fail
<1>2. TypeOK' /\ Requests' /\ Held'
  BY <1>1, Finished DEF IInv, TypeOK, Held, IsFollowed, Fail, rows
<1>3. Known'
  <2>1. SUFFICES ASSUME NEW k \in Handlers, op'[k].found
                 PROVE  KnownTo(k)'
    BY DEF Known
  <2>2. k # h /\ op'[k] = op[k]
    BY <1>1, <2>1, Finished
  <2>3. op[k].pc # "idle" => op[k].pair \in Pairs /\ Back(op[k].pair) \in Pairs
    BY BackPair DEF IInv, Requests
  <2> QED
    BY <1>1, <2>1, <2>2, <2>3, Finished DEF IInv, Known, KnownTo, Fail, rows
<1> QED
  BY <1>2, <1>3, RowsKept DEF IInv, Fail

\* A step that finishes or goes on and changes no row and no lock of another keeps what
\* is known of the rows, and counters that only go down still do not exceed them.
LEMMA DecrementKeeps ==
  ASSUME IInv, NEW h \in Handlers, LostUser(h) \/ LostOther(h)
  PROVE  IInv'
<1>1. op[h].pair \in Pairs /\ op[h].pair[1] \in Users /\ op[h].pair[2] \in Users
  BY DEF IInv, Requests, LostUser, LostOther, Pairs
<1>2. /\ followCount' \in [Users -> Nat] /\ fansCount' \in [Users -> Nat]
      /\ \A u \in Users : followCount'[u] <= followCount[u] /\ fansCount'[u] <= fansCount[u]
  <2>1. ASSUME NEW old \in [Users -> Nat], NEW u \in Users
        PROVE  /\ Decrement(old, u) \in [Users -> Nat]
               /\ \A v \in Users : Decrement(old, u)[v] <= old[v]
    BY DEF Decrement
  <2>2. /\ followCount \in [Users -> Nat] /\ fansCount \in [Users -> Nat]
        /\ followCount' = followCount \/ followCount' = Decrement(followCount, op[h].pair[1])
        /\ fansCount' = fansCount \/ fansCount' = Decrement(fansCount, op[h].pair[2])
    BY DEF IInv, TypeOK, LostUser, LostOther
  <2> QED
    BY <1>1, <2>1, <2>2
<1>3. follow' = follow /\ leftBoth' = leftBoth
  BY DEF LostUser, LostOther
<1>4. TypeOK' /\ Requests' /\ Held' /\ Known'
  <2>1. CASE LostUser(h)
    <3>1. /\ UNCHANGED locks
          /\ op' = [op EXCEPT ![h].pc = "lost_other"] /\ op[h].pc = "lost_user"
      BY <2>1 DEF LostUser, Goto
    <3>2. TypeOK'
      BY <1>2, <1>3, <3>1 DEF IInv, TypeOK, locks, Pcs
    <3>3. Requests' /\ Held'
      BY <1>3, <3>1 DEF IInv, TypeOK, Requests, Held, IsFollowed, locks
    <3>4. Known'
      BY <1>3, <3>1 DEF IInv, TypeOK, Known, KnownTo, locks
    <3> QED
      BY <3>2, <3>3, <3>4
  <2>2. CASE LostOther(h)
    <3>1. Finish(h)
      BY <2>2 DEF LostOther
    <3>2. TypeOK' /\ Requests' /\ Held'
      BY <1>2, <1>3, <3>1, Finished DEF IInv, TypeOK, Held, IsFollowed
    <3>3. SUFFICES ASSUME NEW k \in Handlers, op'[k].found
                   PROVE  KnownTo(k)'
      BY <3>2 DEF Known
    <3>4. k # h /\ op'[k] = op[k]
      BY <3>1, <3>3, Finished
    <3>5. op[k].pc # "idle" => op[k].pair \in Pairs /\ Back(op[k].pair) \in Pairs
      BY BackPair DEF IInv, Requests
    <3> QED
      BY <1>3, <3>1, <3>3, <3>4, <3>5, Finished DEF IInv, Known, KnownTo
  <2> QED
    BY <2>1, <2>2
<1>5. BothIsMutual'
  BY <1>3 DEF IInv, BothIsMutual
<1>6. \A u \in Users : Follows(u)' = Follows(u) /\ Fans(u)' = Fans(u)
  BY <1>3, SameCounts DEF IsFollowed
<1>7. CountsNeverExceed'
  BY <1>2, <1>6, CountsNat DEF IInv, TypeOK, CountsNeverExceed
<1> QED
  BY <1>4, <1>5, <1>7 DEF IInv

\* The reverse row it found is still there, and nobody who deletes the reverse row
\* is told too late that it has become mutual.
LEMMA FollowInsertKeeps ==
  ASSUME IInv, NEW h \in Handlers, FollowInsert(h)
  PROVE  IInv'
<1> DEFINE p == op[h].pair
           back == Back(p)
<1>1. /\ p \in Pairs /\ back \in Pairs /\ back # p /\ Back(back) = p
      /\ p[1] \in Users /\ p[2] \in Users
  BY BackPair DEF IInv, Requests, FollowInsert, Pairs
<1>2. /\ Finish(h) /\ ~ IsFollowed(p) /\ follow' = WithFollow(p, op[h].found)
      /\ followCount' = [followCount EXCEPT ![p[1]] = @ + 1]
      /\ fansCount' = [fansCount EXCEPT ![p[2]] = @ + 1]
      /\ leftBoth' = LeftBoth({})
  BY DEF FollowInsert, MayInsert
<1>3. op[h].found => followLock[back] = h /\ IsFollowed(back)
  BY <1>1 DEF IInv, Known, KnownTo, Held, FollowInsert
<1>4. /\ follow' \in [Pairs -> {"none", "follow", "both"}]
      /\ follow'[p] = IF op[h].found THEN "both" ELSE "follow"
      /\ follow'[back] = IF op[h].found THEN "both" ELSE follow[back]
      /\ \A q \in Pairs : q # p /\ q # back => follow'[q] = follow[q]
  BY <1>1, <1>2 DEF IInv, TypeOK, WithFollow
<1>5. TypeOK' /\ Requests'
  BY <1>1, <1>2, <1>4, Finished DEF IInv, TypeOK, LeftBoth
<1>6. \A q \in Pairs : IsFollowed(q)' <=> IsFollowed(q) \/ q = p
  BY <1>1, <1>3, <1>4 DEF IsFollowed
<1>7. Held'
  BY <1>2, <1>6, Finished DEF IInv, Held
<1>8. Known'
  <2>1. SUFFICES ASSUME NEW k \in Handlers, op'[k].found
                 PROVE  KnownTo(k)'
    BY DEF Known
  <2>2. k # h /\ op'[k] = op[k]
    BY <1>2, <2>1, Finished
  <2>3. op[k].pc # "idle" => /\ op[k].pair \in Pairs /\ Back(op[k].pair) \in Pairs
                             /\ Back(Back(op[k].pair)) = op[k].pair
    BY BackPair DEF IInv, Requests
  <2>4. KnownTo(k)
    BY <2>1, <2>2 DEF IInv, Known
  <2>5. ASSUME op[k].pc \in {"unfollow_user", "unfollow_other", "unfollow_commit"},
               follow'[Back(op[k].pair)] = "both"
        PROVE  follow[Back(op[k].pair)] = "both"
    <3>1. followLock[op[k].pair] = k /\ IsFollowed(op[k].pair) /\ op[k].pair # p
      BY <1>2, <2>3, <2>4, <2>5 DEF IInv, Held, KnownTo
    <3>2. CASE Back(op[k].pair) = p
      BY <1>1, <1>3, <1>4, <2>2, <2>3, <2>5, <3>1, <3>2
    <3>3. CASE Back(op[k].pair) # p
      BY <1>1, <1>4, <2>3, <2>5, <3>1, <3>3
    <3> QED
      BY <3>2, <3>3
  <2> QED
    BY <1>2, <2>2, <2>3, <2>4, <2>5, Finished DEF KnownTo
<1>9. BothIsMutual'
  <2>1. SUFFICES ASSUME NEW q \in Pairs, follow'[q] = "both", follow'[Back(q)] # "both"
                 PROVE  q \in leftBoth
    BY <1>2 DEF BothIsMutual, LeftBoth
  <2>2. Back(q) \in Pairs /\ Back(Back(q)) = q
    BY BackPair
  <2>3. q # p /\ (q = back => ~ op[h].found)
    BY <1>1, <1>4, <2>1, <2>2
  <2>4. follow[q] = "both" /\ follow[Back(q)] # "both"
    BY <1>1, <1>2, <1>4, <2>1, <2>2, <2>3 DEF IsFollowed
  <2> QED
    BY <2>4 DEF IInv, BothIsMutual
<1>10. CountsNeverExceed'
  BY <1>1, <1>2, <1>6, OneMore, CountsNat DEF IInv, TypeOK, CountsNeverExceed
<1> QED
  BY <1>5, <1>7, <1>8, <1>9, <1>10 DEF IInv

\* The row it deletes is still there, and the reverse row is single again if it was
\* mutual: then it was held, or its reset is known to be lost.
LEMMA UnFollowCommitKeeps ==
  ASSUME IInv, NEW h \in Handlers, UnFollowCommit(h)
  PROVE  IInv'
<1> DEFINE p == op[h].pair
           back == Back(p)
<1>1. /\ p \in Pairs /\ back \in Pairs /\ back # p /\ Back(back) = p
      /\ p[1] \in Users /\ p[2] \in Users
  BY BackPair DEF IInv, Requests, UnFollowCommit, Pairs
<1>2. /\ Finish(h)
      /\ follow' = IF op[h].found THEN Without(h, p) ELSE follow
      /\ followCount' = Decrement(followCount, p[1])
      /\ fansCount' = Decrement(fansCount, p[2])
      /\ leftBoth' = LeftBoth(IF op[h].lost THEN {back} ELSE {})
  BY DEF UnFollowCommit
<1>3. /\ followCount' \in [Users -> Nat] /\ fansCount' \in [Users -> Nat]
      /\ \A u \in Users :
           /\ followCount'[u] <= followCount[u] /\ fansCount'[u] <= fansCount[u]
           /\ u = p[1] /\ followCount[u] > 0 => followCount'[u] = followCount[u] - 1
           /\ u = p[2] /\ fansCount[u] > 0 => fansCount'[u] = fansCount[u] - 1
  BY <1>1, <1>2 DEF IInv, TypeOK, Decrement
<1>4. CASE ~ op[h].found
  <2>1. follow' = follow
    BY <1>2, <1>4
  <2>2. TypeOK' /\ Requests' /\ Held'
    BY <1>1, <1>2, <1>3, <2>1, Finished DEF IInv, TypeOK, Held, IsFollowed, LeftBoth
  <2>3. Known'
    <3>1. SUFFICES ASSUME NEW k \in Handlers, op'[k].found
                   PROVE  KnownTo(k)'
      BY DEF Known
    <3>2. k # h /\ op'[k] = op[k]
      BY <1>2, <3>1, Finished
    <3>3. op[k].pc # "idle" => op[k].pair \in Pairs /\ Back(op[k].pair) \in Pairs
      BY BackPair DEF IInv, Requests
    <3> QED
      BY <1>2, <2>1, <3>1, <3>2, <3>3, Finished DEF IInv, Known, KnownTo
  <2>4. \A u \in Users : Follows(u)' = Follows(u) /\ Fans(u)' = Fans(u)
    BY <2>1, SameCounts DEF IsFollowed
  <2>5. BothIsMutual' /\ CountsNeverExceed'
    BY <1>2, <1>3, <2>1, <2>4, CountsNat
    DEF IInv, TypeOK, BothIsMutual, CountsNeverExceed, LeftBoth
  <2> QED
    BY <2>2, <2>3, <2>5 DEF IInv
<1>5. CASE op[h].found
  <2>1. /\ followLock[p] = h /\ IsFollowed(p)
        /\ follow[back] = "both" => followLock[back] = h \/ op[h].lost
        /\ followLock[back] = h => IsFollowed(back)
    BY <1>1, <1>5 DEF IInv, Known, KnownTo, Held, UnFollowCommit
  <2>2. /\ follow' \in [Pairs -> {"none", "follow", "both"}]
        /\ follow'[p] = "none"
        /\ follow'[back] = IF followLock[back] = h THEN "follow" ELSE follow[back]
        /\ \A q \in Pairs : q # p /\ q # back => follow'[q] = follow[q]
    BY <1>1, <1>2, <1>5 DEF IInv, TypeOK, Without
  <2>3. TypeOK' /\ Requests'
    BY <1>1, <1>2, <1>3, <2>2, Finished DEF IInv, TypeOK, LeftBoth
  <2>4. \A q \in Pairs : IsFollowed(q)' <=> IsFollowed(q) /\ q # p
    BY <1>1, <2>1, <2>2 DEF IsFollowed
  <2>5. Held'
    BY <1>2, <2>1, <2>4, Finished DEF IInv, Held
  <2>6. Known'
    <3>1. SUFFICES ASSUME NEW k \in Handlers, op'[k].found
                   PROVE  KnownTo(k)'
      BY DEF Known
    <3>2. k # h /\ op'[k] = op[k]
      BY <1>2, <3>1, Finished
    <3>3. op[k].pc # "idle" => op[k].pair \in Pairs /\ Back(op[k].pair) \in Pairs
      BY BackPair DEF IInv, Requests
    <3>4. \A q \in Pairs : follow'[q] = "both" => follow[q] = "both"
      BY <1>1, <2>2
    <3> QED
      BY <1>2, <3>1, <3>2, <3>3, <3>4, Finished DEF IInv, Known, KnownTo
  <2>7. BothIsMutual'
    <3>1. SUFFICES ASSUME NEW q \in Pairs, follow'[q] = "both", follow'[Back(q)] # "both"
                   PROVE  q \in leftBoth \/ (op[h].lost /\ q = back)
      BY <1>2 DEF BothIsMutual, LeftBoth
    <3>2. Back(q) \in Pairs /\ Back(Back(q)) = q /\ q # p
      BY <2>2, <3>1, BackPair
    <3>3. CASE q = back
      BY <2>1, <2>2, <3>1, <3>3
    <3>4. CASE q # back
      BY <1>1, <2>2, <3>1, <3>2, <3>4 DEF IInv, BothIsMutual
    <3> QED
      BY <3>3, <3>4
  <2>8. \A u \in Users :
          /\ Follows(u)' = IF u = p[1] THEN Follows(u) - 1 ELSE Follows(u)
          /\ Fans(u)' = IF u = p[2] THEN Fans(u) - 1 ELSE Fans(u)
    BY <1>1, <2>1, <2>4, OneLess
  <2>9. \A u \in Users : (u = p[1] => Follows(u) > 0) /\ (u = p[2] => Fans(u) > 0)
    <3>1. p \in Out(p[1]) /\ p \in In(p[2])
      BY <1>1, <2>1 DEF Out, In
    <3> QED
      BY <1>1, <3>1, RowsFinite, CountsAre, CountsNat, FS_EmptySet
  <2>10. CountsNeverExceed'
    BY <1>3, <2>8, <2>9, CountsNat DEF IInv, TypeOK, CountsNeverExceed
  <2> QED
    BY <2>3, <2>5, <2>6, <2>7, <2>10 DEF IInv
<1> QED
  BY <1>4, <1>5

-----------------------------------------------------------------------------
LEMMA FollowInit == Init => IInv
<1> SUFFICES ASSUME Init PROVE IInv
  OBVIOUS
<1>1. TypeOK
  BY DEF Init, TypeOK, Idle, Pcs
<1>2. Requests /\ Held /\ Known /\ BothIsMutual
  BY DEF Init, Requests, Held, Known, BothIsMutual, Idle
<1>3. CountsNeverExceed
  BY CountsNat DEF Init, CountsNeverExceed
<1> QED
  BY <1>1, <1>2, <1>3 DEF IInv

LEMMA FollowNext == IInv /\ [Next]_vars => IInv'
<1> SUFFICES ASSUME IInv, [Next]_vars PROVE IInv'
  OBVIOUS
<1>1. CASE UNCHANGED vars
  <2>1. TypeOK' /\ Requests' /\ Held' /\ Known'
    BY <1>1 DEF IInv, TypeOK, Requests, Held, Known, KnownTo, IsFollowed, vars, rows, locks
  <2> QED
    BY <1>1, <2>1, RowsKept DEF IInv, vars
<1>2. SUFFICES ASSUME NEW h \in Handlers, Handle(h)
               PROVE  IInv'
  BY <1>1 DEF Next
<1>3. op[h].pc # "idle" =>
        /\ op[h].pair \in Pairs /\ Back(op[h].pair) \in Pairs
        /\ op[h].pair[1] \in Users /\ op[h].pair[2] \in Users
  BY BackPair DEF IInv, Requests, Pairs
<1>4. CASE \E p \in Pairs : FollowBegin(h, p) \/ UnFollowBegin(h, p)
  BY <1>4, StartKeeps DEF FollowBegin, UnFollowBegin
<1>5. CASE FollowBack(h) \/ UnFollowRow(h)
  <2> DEFINE row == IF op[h].pc = "follow" THEN Back(op[h].pair) ELSE op[h].pair
             next == IF op[h].pc = "follow" THEN "follow_user" ELSE "unfollow_back"
  <2>1. /\ row \in Pairs /\ next \in Pcs /\ op[h].pc # "idle"
        /\ \/ op[h].pc = "follow" /\ next = "follow_user" /\ row = Back(op[h].pair)
           \/ op[h].pc = "unfollow" /\ next = "unfollow_back" /\ row = op[h].pair
    BY <1>3, <1>5 DEF FollowBack, UnFollowRow, Pcs
  <2>2. \/ \E found \in BOOLEAN :
             LockRow(h, row) /\ Met(h, found, next) /\ (found => IsFollowed(row))
        \/ WaitTooLong(h, row, next)
    <3>1. CASE FollowBack(h)
      <4>1. CASE WaitTooLong(h, row, next)
        BY <4>1
      <4>2. CASE ~ WaitTooLong(h, row, next)
        <5>1. PICK found \in IF follow[row] = "both" THEN BOOLEAN ELSE {IsFollowed(row)} :
                LockRow(h, row) /\ Met(h, found, next)
          BY <3>1, <4>2 DEF FollowBack
        <5>2. found \in BOOLEAN /\ (found => IsFollowed(row))
          BY <5>1 DEF IsFollowed
        <5> QED
          BY <5>1, <5>2
      <4> QED
        BY <4>1, <4>2
    <3>2. CASE UnFollowRow(h)
      <4>1. op[h].pc # "follow"
        BY <3>2 DEF UnFollowRow
      <4>2. IsFollowed(row) \in BOOLEAN
        BY DEF IsFollowed
      <4> QED
        BY <3>2, <4>1, <4>2 DEF UnFollowRow
    <3> QED
      BY <1>5, <3>1, <3>2
  <2>3. CASE WaitTooLong(h, row, next)
    <3> HIDE DEF row, next
    <3> QED
      BY <2>1, <2>3, WaitTooLongKeeps
  <2>4. ASSUME NEW found \in BOOLEAN,
               LockRow(h, row), Met(h, found, next), found => IsFollowed(row)
        PROVE  IInv'
    <3> HIDE DEF row, next
    <3> QED
      BY <2>1, <2>4, LockRowKeeps
  <2> QED
    BY <2>2, <2>3, <2>4
<1>6. CASE FollowUser(h) \/ FollowOther(h) \/ UnFollowUser(h) \/ UnFollowOther(h)
  BY <1>3, <1>6, LockUserKeeps DEF FollowUser, FollowOther, UnFollowUser, UnFollowOther, Pcs
<1>7. CASE UnFollowBack(h)
  BY <1>7, UnFollowBackKeeps
<1>8. CASE FollowInsert(h)
  BY <1>8, FollowInsertKeeps
<1>9. CASE UnFollowCommit(h)
  BY <1>9, UnFollowCommitKeeps
<1>10. CASE Fail(h)
  BY <1>10, FailKeeps
<1>11. CASE LoseUpdate(h)
  BY <1>11, LoseUpdateKeeps
<1>12. CASE LoseTransaction(h)
  BY <1>12, LoseTransactionKeeps
<1>13. CASE LostUser(h) \/ LostOther(h)
  BY <1>13, DecrementKeeps
<1> QED
  BY <1>2, <1>4, <1>5, <1>6, <1>7, <1>8, <1>9, <1>10, <1>11, <1>12, <1>13 DEF Handle

\* The state of follows, counters, locks and requests has its types, for any number
\* of users and requests (user_follow_service.go: Follow, UnFollow).
THEOREM FollowTypes == Spec => []TypeOK
<1>1. IInv => TypeOK
  BY DEF IInv
<1> QED
  BY FollowInit, FollowNext, <1>1, PTL DEF Spec

\* The counters of a user never exceed the rows, whatever follows and unfollows of any
\* number of users overlap, fail and are repeated (user_follow_service.go: UnFollow
\* decrements without looking at what it deleted).
THEOREM FollowCounts == Spec => []CountsNeverExceed
<1>1. IInv => CountsNeverExceed
  BY DEF IInv
<1> QED
  BY FollowInit, FollowNext, <1>1, PTL DEF Spec

\* A row never says "both" alone, unless the very statement that resets it was lost: the
\* locks on the two rows of a pair keep a follow and an unfollow in opposite directions
\* apart, and every other error undoes all or is harmless (user_follow_service.go: Follow,
\* UnFollow).
THEOREM FollowMutual == Spec => []BothIsMutual
<1>1. IInv => BothIsMutual
  BY DEF IInv
<1> QED
  BY FollowInit, FollowNext, <1>1, PTL DEF Spec

-----------------------------------------------------------------------------
(***************************************************************************)
(* One request at a time.  What the request read before its transaction is *)
(* still so: it inserts a row that is missing and deletes one that exists, *)
(* and it holds the reverse row exactly if there is one.  Nobody else      *)
(* holds a row, so that no statement waits and none is lost.               *)
(***************************************************************************)
Alone(h) ==
  LET p == op[h].pair IN
  /\ leftBoth = {} /\ ~ op[h].lost
  /\ op[h].pc \notin {"lost_user", "lost_other"}
  /\ op[h].pc \in {"follow", "follow_user", "follow_other", "follow_insert"} => ~ IsFollowed(p)
  /\ op[h].pc \in {"follow_user", "follow_other", "follow_insert"} =>
       (op[h].found <=> IsFollowed(Back(p)))
  /\ op[h].pc \in {"unfollow", "unfollow_back", "unfollow_user", "unfollow_other",
                   "unfollow_commit"} => IsFollowed(p)
  /\ op[h].pc \in {"unfollow_back", "unfollow_user", "unfollow_other", "unfollow_commit"} =>
       op[h].found
  /\ op[h].pc \in {"unfollow_user", "unfollow_other", "unfollow_commit"} =>
       (IsFollowed(Back(p)) => followLock[Back(p)] = h)

\* A step that changes no row.
LEMMA AloneRowsKept ==
  ASSUME ExactAlone, UNCHANGED rows
  PROVE  ExactAlone'
<1>1. \A q \in Pairs : IsFollowed(q)' <=> IsFollowed(q)
  BY DEF IsFollowed, rows
<1>2. \A u \in Users : Follows(u)' = Follows(u) /\ Fans(u)' = Fans(u)
  BY <1>1, SameCounts
<1>3. MutualIsBoth'
  BY <1>1, BackPair DEF ExactAlone, MutualIsBoth, rows
<1> QED
  BY <1>2, <1>3 DEF ExactAlone, rows

LEMMA AloneStep ==
  ASSUME IInv, NEW h, Handlers = {h}, Alone(h), ExactAlone, [Next]_vars
  PROVE  Alone(h)' /\ ExactAlone'
<1>1. CASE UNCHANGED vars
  <2>1. Alone(h)'
    BY <1>1 DEF Alone, IsFollowed, vars, rows, locks
  <2> QED
    BY <1>1, <2>1, AloneRowsKept DEF vars
<1>2. SUFFICES ASSUME Handle(h)
               PROVE  Alone(h)' /\ ExactAlone'
  BY <1>1 DEF Next
<1>0. \A q \in Pairs : ~ RowTaken(h, q)
  BY DEF RowTaken, IInv, TypeOK
<1> DEFINE p == op[h].pair
           back == Back(p)
<1>3. op[h].pc # "idle" =>
        /\ p \in Pairs /\ back \in Pairs /\ back # p /\ Back(back) = p
        /\ p[1] \in Users /\ p[2] \in Users
  BY BackPair DEF IInv, Requests, Pairs
<1>4. ASSUME NEW q \in Pairs, FollowBegin(h, q) \/ UnFollowBegin(h, q)
      PROVE  Alone(h)' /\ ExactAlone'
  <2>1. PICK pc \in {"follow", "unfollow"} :
          Start(h, pc, q) /\ (pc = "follow" => ~ IsFollowed(q)) /\ (pc = "unfollow" => IsFollowed(q))
    BY <1>4 DEF FollowBegin, UnFollowBegin
  <2>2. /\ UNCHANGED rows
        /\ op'[h].pair = q /\ op'[h].pc = pc /\ ~ op'[h].lost
    BY <2>1 DEF Start, Idle, IInv, TypeOK
  <2>3. leftBoth' = {}
    BY <2>2 DEF Alone, rows
  <2> QED
    BY <2>1, <2>2, <2>3, AloneRowsKept DEF Alone, IsFollowed, rows
<1>5. CASE FollowBack(h) \/ UnFollowRow(h)
  <2>1. op[h].pc = "follow" => follow[back] # "both"
    BY <1>3 DEF Alone, IInv, BothIsMutual, IsFollowed
  <2>2. /\ UNCHANGED rows /\ op'[h].pair = p /\ op'[h].lost = op[h].lost
        /\ \/ op[h].pc = "follow" /\ op'[h].pc = "follow_user" /\ op'[h].found = IsFollowed(back)
           \/ op[h].pc = "unfollow" /\ op'[h].pc = "unfollow_back" /\ op'[h].found = IsFollowed(p)
    <3>1. CASE FollowBack(h)
      <4>1. op[h].pc = "follow" /\ LockRow(h, back) /\ Met(h, IsFollowed(back), "follow_user")
        BY <1>0, <1>3, <2>1, <3>1 DEF FollowBack, WaitTooLong
      <4> QED
        BY <4>1 DEF LockRow, Met, IInv, TypeOK
    <3>2. CASE UnFollowRow(h)
      <4>1. op[h].pc = "unfollow" /\ LockRow(h, p) /\ Met(h, IsFollowed(p), "unfollow_back")
        BY <1>0, <1>3, <3>2 DEF UnFollowRow, WaitTooLong
      <4> QED
        BY <4>1 DEF LockRow, Met, IInv, TypeOK
    <3> QED
      BY <1>5, <3>1, <3>2
  <2>3. leftBoth' = {} /\ \A r \in Pairs : IsFollowed(r)' <=> IsFollowed(r)
    BY <2>2 DEF Alone, IsFollowed, rows
  <2>4. Alone(h)'
    BY <1>3, <2>2, <2>3 DEF Alone
  <2> QED
    BY <2>2, <2>4, AloneRowsKept
<1>6. CASE FollowUser(h) \/ FollowOther(h) \/ UnFollowUser(h) \/ UnFollowOther(h)
  <2>1. /\ UNCHANGED <<rows, followLock>> /\ op'[h].pair = p /\ op'[h].found = op[h].found
        /\ op'[h].lost = op[h].lost
        /\ <<op[h].pc, op'[h].pc>> \in {<<"follow_user", "follow_other">>,
                                        <<"follow_other", "follow_insert">>,
                                        <<"unfollow_user", "unfollow_other">>,
                                        <<"unfollow_other", "unfollow_commit">>}
    BY <1>6 DEF FollowUser, FollowOther, UnFollowUser, UnFollowOther, LockUser, Goto, IInv, TypeOK
  <2>2. leftBoth' = {} /\ IsFollowed(p)' = IsFollowed(p) /\ IsFollowed(back)' = IsFollowed(back)
    BY <2>1 DEF Alone, IsFollowed, rows
  <2>3. Alone(h)'
    BY <2>1, <2>2 DEF Alone
  <2> QED
    BY <2>1, <2>3, AloneRowsKept
<1>7. CASE UnFollowBack(h)
  <2>1. /\ UNCHANGED rows /\ op'[h].pair = p /\ op'[h].found = op[h].found
        /\ op'[h].lost = op[h].lost
        /\ op[h].pc = "unfollow_back" /\ op'[h].pc = "unfollow_user"
        /\ op[h].found /\ IsFollowed(back) => followLock'[back] = h
    <3>1. /\ op[h].pc = "unfollow_back" /\ UNCHANGED rows
          /\ op' = [op EXCEPT ![h].pc = "unfollow_user"]
          /\ op[h].found => LockRow(h, back)
      BY <1>7 DEF UnFollowBack, LockRow, Goto
    <3>2. op[h].found /\ IsFollowed(back) => followLock'[back] = h
      BY <1>3, <3>1 DEF LockRow, IInv, TypeOK
    <3> QED
      BY <3>1, <3>2 DEF IInv, TypeOK
  <2>2. leftBoth' = {} /\ IsFollowed(p)' = IsFollowed(p) /\ IsFollowed(back)' = IsFollowed(back)
    BY <2>1 DEF Alone, IsFollowed, rows
  <2>3. Alone(h)'
    BY <2>1, <2>2 DEF Alone
  <2> QED
    BY <2>1, <2>3, AloneRowsKept
<1>8. CASE FollowInsert(h)
  <2>1. /\ ~ IsFollowed(p) /\ (op[h].found <=> IsFollowed(back))
        /\ op'[h].pc = "idle" /\ follow' = WithFollow(p, op[h].found)
        /\ followCount' = [followCount EXCEPT ![p[1]] = @ + 1]
        /\ fansCount' = [fansCount EXCEPT ![p[2]] = @ + 1]
        /\ leftBoth' = {} /\ ~ op'[h].lost
    BY <1>8, Finished DEF FollowInsert, MayInsert, LeftBoth, Alone
  <2>2. p \in Pairs /\ back \in Pairs /\ back # p /\ Back(back) = p
    BY <1>3, <1>8 DEF FollowInsert
  <2>3. /\ follow'[p] = IF op[h].found THEN "both" ELSE "follow"
        /\ follow'[back] = IF op[h].found THEN "both" ELSE follow[back]
        /\ \A q \in Pairs : q # p /\ q # back => follow'[q] = follow[q]
    BY <2>1, <2>2 DEF WithFollow
  <2>4. \A q \in Pairs : IsFollowed(q)' <=> IsFollowed(q) \/ q = p
    BY <2>1, <2>2, <2>3 DEF IsFollowed
  <2>5. \A u \in Users : followCount'[u] = Follows(u)' /\ fansCount'[u] = Fans(u)'
    BY <2>1, <2>2, <2>4, OneMore DEF ExactAlone, IInv, TypeOK
  <2>6. MutualIsBoth'
    <3> SUFFICES ASSUME NEW q \in Pairs, IsFollowed(q)', IsFollowed(Back(q))'
                 PROVE  follow'[q] = "both"
      BY DEF MutualIsBoth
    <3>1. Back(q) \in Pairs /\ Back(Back(q)) = q
      BY BackPair
    <3>2. CASE q = p \/ q = back
      BY <2>1, <2>2, <2>3, <2>4, <3>1, <3>2
    <3>3. CASE q # p /\ q # back
      BY <2>2, <2>3, <2>4, <3>1, <3>3 DEF ExactAlone, MutualIsBoth
    <3> QED
      BY <3>2, <3>3
  <2> QED
    BY <2>1, <2>5, <2>6 DEF Alone, ExactAlone
<1>9. CASE UnFollowCommit(h)
  <2>1. /\ IsFollowed(p) /\ op[h].found /\ (IsFollowed(back) => followLock[back] = h)
        /\ op'[h].pc = "idle" /\ follow' = Without(h, p)
        /\ followCount' = Decrement(followCount, p[1])
        /\ fansCount' = Decrement(fansCount, p[2])
        /\ leftBoth' = {} /\ ~ op'[h].lost
    BY <1>9, Finished DEF UnFollowCommit, LeftBoth, Alone
  <2>2. /\ p \in Pairs /\ back \in Pairs /\ back # p /\ Back(back) = p
        /\ p[1] \in Users /\ p[2] \in Users
    BY <1>3, <1>9 DEF UnFollowCommit
  <2>3. followLock[back] = h => IsFollowed(back)
    BY <2>2 DEF IInv, Held
  <2>4. /\ follow'[p] = "none"
        /\ follow'[back] = IF IsFollowed(back) THEN "follow" ELSE follow[back]
        /\ \A q \in Pairs : q # p /\ q # back => follow'[q] = follow[q]
    BY <2>1, <2>2, <2>3 DEF Without
  <2>5. \A q \in Pairs : IsFollowed(q)' <=> IsFollowed(q) /\ q # p
    BY <2>1, <2>2, <2>4 DEF IsFollowed
  <2>6. \A u \in Users : (u = p[1] => Follows(u) > 0) /\ (u = p[2] => Fans(u) > 0)
    <3>1. p \in Out(p[1]) /\ p \in In(p[2])
      BY <2>1, <2>2 DEF Out, In
    <3> QED
      BY <2>2, <3>1, RowsFinite, CountsAre, CountsNat, FS_EmptySet
  <2>7. \A u \in Users : followCount'[u] = Follows(u)' /\ fansCount'[u] = Fans(u)'
    BY <2>1, <2>2, <2>5, <2>6, OneLess DEF ExactAlone, IInv, TypeOK, Decrement
  <2>8. MutualIsBoth'
    <3> SUFFICES ASSUME NEW q \in Pairs, IsFollowed(q)', IsFollowed(Back(q))'
                 PROVE  follow'[q] = "both"
      BY DEF MutualIsBoth
    <3>1. Back(q) \in Pairs /\ Back(Back(q)) = q
      BY BackPair
    <3>2. q # p /\ q # back
      BY <2>2, <2>5, <3>1
    <3> QED
      BY <2>2, <2>4, <2>5, <3>1, <3>2 DEF ExactAlone, MutualIsBoth
  <2> QED
    BY <2>1, <2>7, <2>8 DEF Alone, ExactAlone
<1>10. CASE Fail(h)
  <2>1. UNCHANGED rows /\ op'[h].pc = "idle" /\ ~ op'[h].lost
    BY <1>10, Finished DEF Fail
  <2> QED
    BY <2>1, AloneRowsKept DEF Alone, rows
<1>11. ~ (LoseUpdate(h) \/ LoseTransaction(h) \/ LostUser(h) \/ LostOther(h))
  BY <1>0, <1>3 DEF LoseUpdate, LoseTransaction, LostUser, LostOther, Alone
<1> QED
  BY <1>2, <1>4, <1>5, <1>6, <1>7, <1>8, <1>9, <1>10, <1>11 DEF Handle

\* Where no two requests overlap, the counters equal the rows and a mutual follow says so on
\* both rows: what FollowCounts leaves open, and what the run of MutualIsBoth refutes, needs
\* two requests at once (user_follow_service.go: Follow, UnFollow).
THEOREM FollowAlone ==
  ASSUME NEW one, Handlers = {one}
  PROVE  Spec => []ExactAlone
<1>1. Init => Alone(one) /\ ExactAlone
  <2> SUFFICES ASSUME Init PROVE Alone(one) /\ ExactAlone
    OBVIOUS
  <2>1. op[one].pc = "idle" /\ ~ op[one].lost /\ \A q \in Pairs : ~ IsFollowed(q)
    BY DEF Init, Idle, IsFollowed
  <2>2. \A u \in Users : {q \in Pairs : q[1] = u /\ IsFollowed(q)} = {}
                         /\ {q \in Pairs : q[2] = u /\ IsFollowed(q)} = {}
    BY <2>1
  <2>3. \A u \in Users : Follows(u) = 0 /\ Fans(u) = 0
    BY <2>2, FS_EmptySet DEF Follows, Fans
  <2> QED
    BY <2>1, <2>3 DEF Init, Alone, ExactAlone, MutualIsBoth
<1>2. IInv /\ Alone(one) /\ ExactAlone /\ [Next]_vars => (Alone(one) /\ ExactAlone)'
  BY AloneStep
<1> QED
  BY FollowInit, FollowNext, <1>1, <1>2, PTL DEF Spec
=================================================================================
