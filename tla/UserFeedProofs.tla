---------------------------- MODULE UserFeedProofs ----------------------------
(* What the event bus and the feed promise for any pool, users and topics.  *)
EXTENDS UserFeed, TLAPS

-----------------------------------------------------------------------------
(* Type correctness                                                        *)

LEMMA EventShape ==
  ASSUME NEW e \in Events
  PROVE  /\ e.type \in {"Follow", "UnFollow", "TopicCreate", "TopicDelete", "LevelUp"}
         /\ e.type \in {"Follow", "UnFollow"} => e.pair \in Pairs
         /\ e.type \in {"TopicCreate", "TopicDelete"} => e.topic \in Topics
  BY DEF Events

LEMMA JobShape ==
  ASSUME TypeOK, NEW w \in Workers
  PROVE  /\ job[w] \in Jobs
         /\ job[w].pc \in {"idle", "task", "clear", "send", "wait", "scan"}
         /\ job[w].pc = "idle" => job[w] = Resting
         /\ job[w].pc = "task" => job[w].event \in OfType({"Follow", "TopicCreate", "LevelUp"})
         /\ job[w].pc = "clear" => job[w].event \in OfType({"UnFollow", "TopicDelete"})
         /\ job[w].pc = "scan" =>
              /\ job[w] \in [pc : {"scan"}, event : OfType({"Follow", "TopicCreate"}),
                             cursor : Nat, rest : SUBSET (Nat \X Rows)]
              /\ job[w].event \in OfType({"Follow", "TopicCreate"})
         /\ job[w].pc \in {"send", "wait"} =>
              /\ job[w] \in [pc : {"send", "wait"}, out : Events,
                             event : OfType({"Follow", "TopicCreate", "LevelUp"})]
              /\ job[w].event \in OfType({"Follow", "TopicCreate", "LevelUp"})
<1>1. job[w] \in Jobs
  BY DEF TypeOK
<1> QED BY <1>1 DEF Jobs, Resting

LEMMA RequestShape ==
  ASSUME TypeOK, NEW c \in Callers
  PROVE  /\ request[c].pc \in {"idle", "send", "wait", "unfollow"}
         /\ request[c].pc = "idle" => request[c] = Resting
         /\ request[c].pc \in {"send", "wait"} => request[c] \in Sending
         /\ request[c].pc = "unfollow" => request[c] \in [pc : {"unfollow"}, pair : Pairs]
  BY DEF TypeOK, Requests, Sending, Resting

LEMMA OfTypeIs == \A T, e : e \in OfType(T) <=> e \in Events /\ e.type \in T
  BY DEF OfType

LEMMA StartTypes ==
  ASSUME NEW e \in Events
  PROVE  /\ First(e) \in Jobs
         /\ e.type \in {"Follow", "TopicCreate", "LevelUp"} => AfterTask(e) \in Jobs
         /\ e.type \in {"Follow", "TopicCreate"} => AfterScan(e) \in Jobs
<1>1. e.type \in {"Follow", "TopicCreate"} => Scanning(e) \in Jobs
  BY OfTypeIs DEF Scanning, Jobs
<1>2. e.type \in {"Follow", "TopicCreate", "LevelUp"} => Running("task", e) \in Jobs
  BY OfTypeIs DEF Running, Jobs
<1>3. e.type \in {"UnFollow", "TopicDelete"} => Running("clear", e) \in Jobs
  BY OfTypeIs DEF Running, Jobs
<1>4. Resting \in Jobs
  BY DEF Jobs
<1>5. First(e) \in Jobs
  BY <1>1, <1>2, <1>3, EventShape DEF First
<1> QED BY <1>1, <1>2, <1>4, <1>5 DEF AfterTask, AfterScan

\* A sender has an event; a worker that sends is handling one.
LEMMA OutShape ==
  ASSUME TypeOK, NEW s \in Senders, Out(s).pc \in {"send", "wait"}
  PROVE  /\ Out(s).out \in Events
         /\ s \in Callers => s \notin Workers /\ request[s] \in Sending /\ Out(s) = request[s]
         /\ s \notin Callers =>
              /\ s \in Workers /\ Out(s) = job[s]
              /\ job[s].event \in Events /\ AfterTask(job[s].event) \in Jobs
              /\ job[s] \in [pc : {"send", "wait"}, out : Events,
                             event : OfType({"Follow", "TopicCreate", "LevelUp"})]
<1>1. CASE s \in Callers
  BY <1>1, RequestShape, UserFeedAssumption DEF Out, Sending
<1>2. CASE s \notin Callers
  <2>1. s \in Workers /\ Out(s) = job[s]
    BY <1>2 DEF Out, Senders
  <2>2. /\ job[s] \in [pc : {"send", "wait"}, out : Events,
                       event : OfType({"Follow", "TopicCreate", "LevelUp"})]
        /\ job[s].event \in OfType({"Follow", "TopicCreate", "LevelUp"})
    BY <2>1, JobShape
  <2>3. job[s].out \in Events
    BY <2>2
  <2> QED BY <1>2, <2>1, <2>2, <2>3, OfTypeIs, StartTypes
<1> QED BY <1>1, <1>2

LEMMA SendType ==
  /\ \A t \in Topics : Send([type |-> "TopicCreate", topic |-> t]) \in Requests
  /\ \A t \in Topics : Send([type |-> "TopicDelete", topic |-> t]) \in Requests
  /\ \A p \in Pairs : Send([type |-> "Follow", pair |-> p]) \in Requests
  /\ \A p \in Pairs : Send([type |-> "UnFollow", pair |-> p]) \in Requests
  /\ Resting \in Requests /\ \A p \in Pairs : [pc |-> "unfollow", pair |-> p] \in Requests
  BY DEF Send, Requests, Sending, Events

LEMMA RequestedType ==
  ASSUME TypeOK, NEW c \in Callers, NEW new \in Requests, Requested(c, new)
  PROVE  /\ feed' \subseteq Rows /\ request' \in [Callers -> Requests] /\ job' \in [Workers -> Jobs]
         /\ requests' \in Nat /\ levelUps' \in Nat /\ dropped' \subseteq Events
         /\ failures' \in Nat /\ missed' \subseteq Rows
  BY DEF TypeOK, Requested, Well

LEMMA FailingType ==
  ASSUME TypeOK, NEW rows \in SUBSET Rows, NEW events \in SUBSET Events, Failing(rows, events)
  PROVE  failures' \in Nat /\ missed' \subseteq Rows /\ dropped' \subseteq Events
  BY DEF TypeOK, Failing

LEMMA AskType ==
  ASSUME TypeOK, NEW c \in Callers, Ask(c)
  PROVE  TypeOK'
<1>1. ASSUME NEW t \in Topics, NEW s \in {"ok", "review"}, Publish(c, t, s) PROVE TypeOK'
  BY <1>1, SendType, RequestedType DEF Publish, TypeOK
<1>2. ASSUME NEW t \in Topics, DeleteTopic(c, t) PROVE TypeOK'
  BY <1>2, SendType, RequestedType DEF DeleteTopic, TypeOK
<1>3. ASSUME NEW t \in Topics, Show(c, t) PROVE TypeOK'
  BY <1>3, SendType, RequestedType DEF Show, TypeOK
<1>4. ASSUME NEW p \in Pairs, Follow(c, p) PROVE TypeOK'
  <2>1. follows' \in [Pairs -> 0..MaxFollows]
    BY <1>4, UserFeedAssumption DEF Follow, TypeOK
  <2> QED BY <1>4, <2>1, SendType, RequestedType DEF Follow, TypeOK
<1>5. ASSUME NEW p \in Pairs, UnFollowRead(c, p) PROVE TypeOK'
  BY <1>5, SendType, RequestedType DEF UnFollowRead, TypeOK
<1> QED BY <1>1, <1>2, <1>3, <1>4, <1>5 DEF Ask

\* A request that ends a follow, or that breaks off.
LEMMA UnFollowType ==
  ASSUME TypeOK, NEW c \in Callers, UnFollow(c) \/ Break(c)
  PROVE  TypeOK'
<1>1. ASSUME NEW p \in Pairs, UnFollowed(c, p), follows' \in [Pairs -> 0..MaxFollows],
             failures' \in Nat /\ missed' \subseteq Rows /\ dropped' \subseteq Events
      PROVE  TypeOK'
  BY <1>1, SendType DEF UnFollowed, TypeOK
<1>2. CASE UnFollow(c)
  <2>1. PICK p \in Pairs : UnFollowed(c, p) /\ follows' = [follows EXCEPT ![p] = 0] /\ Well
    BY <1>2 DEF UnFollow
  <2>2. follows' \in [Pairs -> 0..MaxFollows]
    BY <2>1, UserFeedAssumption DEF TypeOK
  <2>3. failures' \in Nat /\ missed' \subseteq Rows /\ dropped' \subseteq Events
    BY <2>1 DEF Well, TypeOK
  <2> QED BY <1>1, <2>1, <2>2, <2>3
<1>3. CASE DeletionFails(c)
  <2>1. PICK p \in Pairs : UnFollowed(c, p)
    BY <1>3 DEF DeletionFails
  <2>2. follows' \in [Pairs -> 0..MaxFollows]
    BY <1>3 DEF DeletionFails, TypeOK
  <2> QED BY <1>1, <1>3, <2>1, <2>2, FailingType DEF DeletionFails
<1>4. CASE UnFollowFails(c)
  BY <1>4, SendType, FailingType DEF UnFollowFails, TypeOK
<1>5. CASE Unsent(c)
  <2>1. {request[c].out} \in SUBSET Events
    BY <1>5, RequestShape DEF Unsent, Sending
  <2> QED BY <1>5, <2>1, SendType, FailingType DEF Unsent, TypeOK
<1> QED BY <1>2, <1>3, <1>4, <1>5 DEF Break

LEMMA SentType ==
  ASSUME TypeOK, NEW s \in Senders, Out(s).pc \in {"send", "wait"},
         NEW started \in [Workers -> Jobs], Sent(s, started)
  PROVE  request' \in [Callers -> Requests] /\ job' \in [Workers -> Jobs]
<1>1. CASE s \in Callers
  BY <1>1, SendType DEF Sent, TypeOK
<1>2. CASE s \notin Callers
  BY <1>2, OutShape, StartTypes DEF Sent, TypeOK
<1> QED BY <1>1, <1>2

LEMMA BusType ==
  ASSUME TypeOK, NEW s \in Senders, Bus(s)
  PROVE  TypeOK'
<1>1. ASSUME NEW w \in Workers, Hand(s, w) PROVE TypeOK'
  <2>1. Out(s).out \in Events /\ Out(s).pc \in {"send", "wait"}
    BY <1>1, OutShape DEF Hand
  <2>2. [job EXCEPT ![w] = First(Out(s).out)] \in [Workers -> Jobs]
    BY <2>1, StartTypes DEF TypeOK
  <2> QED BY <1>1, <2>1, <2>2, SentType DEF Hand, Well, TypeOK
<1>2. CASE Block(s)
  <2>1. Out(s).pc \in {"send", "wait"}
    BY <1>2 DEF Block
  <2>2. CASE s \in Callers
    <3>1. [request[s] EXCEPT !.pc = "wait"] \in Requests
      BY <2>1, <2>2, OutShape DEF Sending, Requests
    <3> QED BY <1>2, <2>2, <3>1 DEF Block, Well, TypeOK
  <2>3. CASE s \notin Callers
    <3>1. [job[s] EXCEPT !.pc = "wait"] \in Jobs
      BY <2>1, <2>3, OutShape DEF Jobs
    <3> QED BY <1>2, <2>3, <3>1 DEF Block, Well, TypeOK
  <2> QED BY <2>2, <2>3
<1>3. CASE Overload(s)
  <2>1. Out(s).out \in Events /\ Out(s).pc \in {"send", "wait"}
    BY <1>3, OutShape DEF Overload
  <2> QED BY <1>3, <2>1, SentType DEF Overload, TypeOK
<1> QED BY <1>1, <1>2, <1>3 DEF Bus

LEMMA WorksType ==
  ASSUME TypeOK, NEW w \in Workers, NEW new \in Jobs, Works(w, new),
         feed' \subseteq Rows, levelUps' \in Nat,
         failures' \in Nat /\ missed' \subseteq Rows /\ dropped' \subseteq Events
  PROVE  TypeOK'
  BY DEF TypeOK, Works

\* The rows a handler visits carry ids.
LEMMA ScannedType ==
  ASSUME TypeOK, NEW e \in Events, e.type \in {"Follow", "TopicCreate"}
  PROVE  Scanned(e) \subseteq Nat \X Rows
<1>1. CASE e.type = "Follow"
  <2>1. e.pair[1] \in Users /\ Topics \subseteq Nat
    BY <1>1, EventShape, UserFeedAssumption DEF Pairs, Topics
  <2>2. \A t \in Topics : <<t, <<e.pair[1], t>>>> \in Nat \X Rows
    BY <2>1 DEF Rows
  <2> QED BY <1>1, <2>2 DEF Scanned
<1>2. CASE e.type = "TopicCreate"
  <2>1. e.topic \in Topics
    BY <1>2, EventShape
  <2>2. \A p \in Pairs : follows[p] \in Nat /\ p[1] \in Users
    BY UserFeedAssumption DEF TypeOK, Pairs
  <2>3. \A p \in Pairs : <<follows[p], <<p[1], e.topic>>>> \in Nat \X Rows
    BY <2>1, <2>2 DEF Rows
  <2>4. Scanned(e) = {<<follows[p], <<p[1], e.topic>>>> :
          p \in {q \in Pairs : q[2] = Author[e.topic] /\ follows[q] # 0}}
    BY <1>2 DEF Scanned
  <2> QED BY <2>3, <2>4
<1> QED BY <1>1, <1>2

LEMMA HandleType ==
  ASSUME TypeOK, NEW w \in Workers, Handle(w)
  PROVE  TypeOK'
<1>0. /\ feed \subseteq Rows /\ levelUps \in Nat
      /\ Well => failures' \in Nat /\ missed' \subseteq Rows /\ dropped' \subseteq Events
  BY DEF TypeOK, Well
<1>1. CASE DoTask(w)
  <2>1. /\ job[w].event \in OfType({"Follow", "TopicCreate", "LevelUp"})
        /\ levelUps + 1 \in Nat
    BY <1>0, <1>1, JobShape DEF DoTask
  <2>2. AfterTask(job[w].event) \in Jobs
    BY <2>1, StartTypes, OfTypeIs
  <2>3. [pc |-> "send", event |-> job[w].event, out |-> [type |-> "LevelUp"]] \in Jobs
    BY <2>1 DEF Jobs, Events
  <2> QED BY <1>0, <1>1, <2>1, <2>2, <2>3, WorksType DEF DoTask
<1>2. CASE ReadPage(w)
  <2>1. /\ job[w] \in [pc : {"scan"}, event : OfType({"Follow", "TopicCreate"}),
                       cursor : Nat, rest : SUBSET (Nat \X Rows)]
        /\ job[w].event \in Events /\ job[w].event.type \in {"Follow", "TopicCreate"}
    BY <1>2, JobShape, OfTypeIs DEF ReadPage
  <2> DEFINE left == {r \in Scanned(job[w].event) : r[1] > job[w].cursor}
  <2>2. left \subseteq Nat \X Rows
    BY <2>1, ScannedType
  <2>3. CASE Works(w, AfterScan(job[w].event))
    BY <1>0, <1>2, <2>1, <2>3, StartTypes, WorksType DEF ReadPage
  <2>4. ASSUME NEW last \in left,
               Works(w, [job[w] EXCEPT !.cursor = last[1],
                   !.rest = Wanted(job[w].event, {r \in left : r[1] <= last[1]})])
        PROVE  TypeOK'
    <3>1. PICK rest : rest = Wanted(job[w].event, {r \in left : r[1] <= last[1]})
      OBVIOUS
    <3>2. rest \subseteq Nat \X Rows
      BY <2>2, <3>1 DEF Wanted
    <3>3. last[1] \in Nat
      BY <2>2
    <3>4. [job[w] EXCEPT !.cursor = last[1], !.rest = rest] \in Jobs
      BY <2>1, <3>2, <3>3 DEF Jobs
    <3> QED BY <1>0, <1>2, <2>4, <3>1, <3>4, WorksType DEF ReadPage
  <2> QED BY <1>2, <2>3, <2>4 DEF ReadPage
<1>3. CASE Insert(w)
  <2>1. job[w] \in [pc : {"scan"}, event : OfType({"Follow", "TopicCreate"}),
                    cursor : Nat, rest : SUBSET (Nat \X Rows)]
    BY <1>3, JobShape DEF Insert
  <2>2. PICK row \in job[w].rest :
          feed' = feed \cup {row[2]} /\ Works(w, [job[w] EXCEPT !.rest = @ \ {row}])
    BY <1>3 DEF Insert
  <2>3. row[2] \in Rows
    BY <2>1
  <2>4. [job[w] EXCEPT !.rest = @ \ {row}] \in Jobs
    BY <2>1 DEF Jobs
  <2> QED BY <1>0, <1>3, <2>2, <2>3, <2>4, WorksType DEF Insert
<1>4. CASE Clear(w)
  <2>1. Resting \in Jobs
    BY DEF Jobs
  <2> QED BY <1>0, <1>4, <2>1, WorksType DEF Clear
<1> QED BY <1>1, <1>2, <1>3, <1>4 DEF Handle

\* The rows that a failed read passes over.
LEMMA LeftType ==
  ASSUME TypeOK, NEW w \in Workers, job[w].pc = "scan"
  PROVE  /\ job[w].event \in Events /\ AfterScan(job[w].event) \in Jobs
         /\ \A rest \in SUBSET Scanned(job[w].event) :
              {r[2] : r \in Wanted(job[w].event, rest)} \in SUBSET Rows
<1>1. job[w].event \in Events /\ job[w].event.type \in {"Follow", "TopicCreate"}
  BY JobShape, OfTypeIs
<1>2. Scanned(job[w].event) \subseteq Nat \X Rows
  BY <1>1, ScannedType
<1>3. \A e, page : Wanted(e, page) \subseteq page
  BY DEF Wanted
<1> QED BY <1>1, <1>2, <1>3, StartTypes

LEMMA LoseType ==
  ASSUME TypeOK, NEW w \in Workers, Lose(w)
  PROVE  TypeOK'
<1>0. feed \subseteq Rows /\ levelUps \in Nat /\ Resting \in Jobs
  BY DEF TypeOK, Jobs
<1>1. CASE ReadFails(w)
  <2> DEFINE e == job[w].event
             left == {r \in Scanned(e) : r[1] > job[w].cursor}
             lost == {r[2] : r \in Wanted(e, left)}
  <2>1. /\ job[w].pc = "scan" /\ Failing(lost, {}) /\ Works(w, AfterScan(e))
        /\ UNCHANGED <<feed, levelUps>>
    BY <1>1 DEF ReadFails
  <2>2. lost \in SUBSET Rows /\ AfterScan(e) \in Jobs
    BY <2>1, LeftType
  <2> QED BY <1>0, <2>1, <2>2, FailingType, WorksType
<1>2. CASE InsertFails(w)
  <2>1. job[w] \in [pc : {"scan"}, event : OfType({"Follow", "TopicCreate"}),
                    cursor : Nat, rest : SUBSET (Nat \X Rows)]
    BY <1>2, JobShape DEF InsertFails
  <2>2. PICK row \in job[w].rest :
          Failing({row[2]}, {}) /\ Works(w, [job[w] EXCEPT !.rest = @ \ {row}])
    BY <1>2 DEF InsertFails
  <2>3. {row[2]} \in SUBSET Rows
    BY <2>1
  <2>4. [job[w] EXCEPT !.rest = @ \ {row}] \in Jobs
    BY <2>1 DEF Jobs
  <2> QED BY <1>0, <1>2, <2>2, <2>3, <2>4, FailingType, WorksType DEF InsertFails
<1>3. CASE ClearFails(w)
  BY <1>0, <1>3, FailingType, WorksType DEF ClearFails
<1> QED BY <1>1, <1>2, <1>3 DEF Lose

LEMMA RestartType ==
  ASSUME TypeOK, Restart
  PROVE  TypeOK'
<1>1. \A w \in Workers \ Idle : job[w].event \in Events
  BY JobShape, OfTypeIs DEF Idle
<1>2. UnderWay \in SUBSET Events
  BY <1>1, OutShape DEF UnderWay
<1>3. Resting \in Requests /\ Resting \in Jobs
  BY DEF Requests, Jobs
<1> QED BY <1>2, <1>3, FailingType DEF Restart, TypeOK

\* A step of a request, of the bus or of a handler leaves the types right, and
\* so does one that fails.
LEMMA NextType == TypeOK /\ [Next]_vars => TypeOK'
<1> SUFFICES ASSUME TypeOK, [Next]_vars PROVE TypeOK'
  OBVIOUS
<1>1. CASE UNCHANGED vars
  BY <1>1 DEF TypeOK, vars
<1>2. CASE Next
  BY <1>2, AskType, UnFollowType, HandleType, LoseType, BusType, RestartType DEF Next
<1> QED BY <1>1, <1>2

\* Every variable of the bus and the feed keeps its type, for any pool, users,
\* topics and limits.
THEOREM FeedTypes == Spec => []TypeOK
<1>1. Init => TypeOK
  BY UserFeedAssumption DEF Init, TypeOK, Jobs, Requests
<1> QED BY <1>1, NextType, PTL DEF Spec

-----------------------------------------------------------------------------
(* The inductive invariant                                                 *)

Pair(r)     == <<r[1], Author[r[2]]>>
FollowOf(r) == [type |-> "Follow", pair |-> Pair(r)]
CreateOf(r) == [type |-> "TopicCreate", topic |-> r[2]]

\* The row belongs in the feed.
Due(r) ==
  /\ follows[Pair(r)] # 0 /\ Pair(r) \notin unfollowed
  /\ status[r[2]] = "ok" /\ r[2] \notin hidden
  /\ FollowOf(r) \notin dropped /\ CreateOf(r) \notin dropped /\ r \notin missed

Sends(s, e) == Out(s).pc \in {"send", "wait"} /\ Out(s).out = e

\* The worker has the row before it: of the two handlers, the one of "create"
\* looks for the follower, the one of "follow" for the topic.
Visits(w, r) ==
  \/ job[w].pc \in {"task", "send", "wait"} /\ job[w].event = CreateOf(r)
  \/ /\ job[w].pc = "scan"
     /\ \/ job[w].event = CreateOf(r) /\ job[w].cursor < follows[Pair(r)]
        \/ job[w].event = FollowOf(r) /\ job[w].cursor < r[2]
        \/ /\ job[w].event \in {FollowOf(r), CreateOf(r)}
           /\ \E q \in job[w].rest : q[2] = r

\* Somebody will still insert the row.
Coming(r) ==
  \/ \E s \in Senders : Sends(s, FollowOf(r)) \/ Sends(s, CreateOf(r))
  \/ \E w \in Workers : Visits(w, r)

\* Events that clear the feed are about what is remembered as ended.
Ends(e) ==
  /\ e.type = "UnFollow" => e.pair \in unfollowed
  /\ e.type = "TopicDelete" => e.topic \in hidden

EndsInv ==
  /\ \A t \in Topics : status[t] \in {"review", "deleted"} => t \in hidden
  /\ \A s \in Senders : Out(s).pc \in {"send", "wait"} => Ends(Out(s).out)
  /\ \A w \in Workers : job[w].pc = "clear" => Ends(job[w].event)

DueInv == \A r \in Rows : Due(r) => r \in feed \/ Coming(r)

FeedInv == TypeOK /\ EndsInv /\ DueInv

LEMMA RowShape ==
  ASSUME NEW r \in Rows
  PROVE  /\ Pair(r) \in Pairs /\ r[2] \in Topics /\ r[2] \in Nat /\ 0 < r[2]
         /\ r[1] \in Users /\ r = <<r[1], r[2]>>
  BY UserFeedAssumption DEF Rows, Pairs, Pair, Topics

-----------------------------------------------------------------------------
(* Requests                                                                *)

LEMMA EndsGrow ==
  ASSUME NEW e, Ends(e), unfollowed \subseteq unfollowed', hidden \subseteq hidden'
  PROVE  Ends(e)'
  BY DEF Ends

\* What changes for the senders when a caller begins something.
LEMMA CallerOut ==
  ASSUME TypeOK, NEW c \in Callers, NEW new,
         request' = [request EXCEPT ![c] = new], UNCHANGED job
  PROVE  /\ Out(c)' = new /\ c \in Senders
         /\ \A s \in Senders : s # c => Out(s)' = Out(s)
  BY DEF TypeOK, Out, Senders

\* Who was to insert a row still is.
LEMMA ComingStays ==
  ASSUME TypeOK, NEW c \in Callers, NEW new, request[c].pc \notin {"send", "wait"},
         request' = [request EXCEPT ![c] = new], UNCHANGED job,
         NEW r \in Rows, follows'[Pair(r)] = follows[Pair(r)], Coming(r)
  PROVE  Coming(r)'
<1>1. \A s \in Senders : Out(s).pc \in {"send", "wait"} => Out(s)' = Out(s)
  BY CallerOut DEF Out
<1>2. \A s \in Senders : \A e : Sends(s, e) => Sends(s, e)'
  BY <1>1 DEF Sends
<1>3. Pair(r)' = Pair(r) /\ FollowOf(r)' = FollowOf(r) /\ CreateOf(r)' = CreateOf(r)
  BY DEF Pair, FollowOf, CreateOf
<1>4. \A w \in Workers : Visits(w, r) => Visits(w, r)'
  BY <1>3 DEF Visits
<1> QED BY <1>2, <1>3, <1>4 DEF Coming

\* A caller that sends an event, or none, that does not end what is due.
LEMMA EndsAsk ==
  ASSUME TypeOK, EndsInv, NEW c \in Callers, NEW new,
         request' = [request EXCEPT ![c] = new], UNCHANGED job,
         unfollowed \subseteq unfollowed', hidden \subseteq hidden',
         \A t \in Topics : status'[t] \in {"review", "deleted"} => t \in hidden',
         new.pc \in {"send", "wait"} => Ends(new.out)'
  PROVE  EndsInv'
<1>1. \A s \in Senders : (Out(s).pc \in {"send", "wait"} => Ends(Out(s).out))'
  <2> SUFFICES ASSUME NEW s \in Senders, (Out(s).pc \in {"send", "wait"})' PROVE Ends(Out(s).out)'
    OBVIOUS
  <2>1. CASE s = c
    BY <2>1, CallerOut
  <2>2. CASE s # c
    BY <2>2, CallerOut, EndsGrow DEF EndsInv
  <2> QED BY <2>1, <2>2
<1>2. \A w \in Workers : (job[w].pc = "clear" => Ends(job[w].event))'
  BY EndsGrow DEF EndsInv
<1> QED BY <1>1, <1>2 DEF EndsInv

\* The rows that were due stay in the feed or to come; the caller sees to a row
\* that becomes due.
LEMMA DueAsk ==
  ASSUME FeedInv, NEW c \in Callers, NEW new, request[c].pc \notin {"send", "wait"},
         request' = [request EXCEPT ![c] = new], UNCHANGED <<job, feed>>,
         \A r \in Rows : Due(r)' =>
           \/ Due(r) /\ follows'[Pair(r)] = follows[Pair(r)]
           \/ new.pc = "send" /\ new.out \in {FollowOf(r), CreateOf(r)}
  PROVE  DueInv'
<1> SUFFICES ASSUME NEW r \in Rows, Due(r)' PROVE r \in feed' \/ Coming(r)'
  BY DEF DueInv
<1>1. CASE Due(r) /\ follows'[Pair(r)] = follows[Pair(r)]
  <2>1. r \in feed \/ Coming(r)
    BY <1>1 DEF FeedInv, DueInv
  <2> QED BY <1>1, <2>1, ComingStays DEF FeedInv
<1>2. CASE new.pc = "send" /\ new.out \in {FollowOf(r), CreateOf(r)}
  <2>1. Out(c)' = new /\ c \in Senders
    BY CallerOut DEF FeedInv
  <2>2. FollowOf(r)' = FollowOf(r) /\ CreateOf(r)' = CreateOf(r)
    BY DEF FollowOf, CreateOf, Pair
  <2> QED BY <1>2, <2>1, <2>2 DEF Coming, Sends
<1> QED BY <1>1, <1>2

LEMMA AskStep ==
  ASSUME FeedInv, NEW c \in Callers, Ask(c)
  PROVE  EndsInv' /\ DueInv'
<1>0. /\ \A new : Requested(c, new) =>
           /\ request' = [request EXCEPT ![c] = new] /\ UNCHANGED <<job, feed, dropped, missed>>
           /\ request[c].pc \notin {"send", "wait"}
      /\ \A e : Send(e).pc = "send" /\ Send(e).out = e
      /\ Resting.pc = "idle"
  BY DEF Requested, Resting, Send, Well
<1>t. TypeOK /\ EndsInv
  BY DEF FeedInv
<1>r. \A r \in Rows : Pair(r)' = Pair(r) /\ FollowOf(r)' = FollowOf(r) /\ CreateOf(r)' = CreateOf(r)
  BY DEF Pair, FollowOf, CreateOf
<1>1. ASSUME NEW t \in Topics, NEW s \in {"ok", "review"}, Publish(c, t, s) PROVE EndsInv' /\ DueInv'
  <2> DEFINE e == [type |-> "TopicCreate", topic |-> t]
  <2>1. Requested(c, Send(e)) /\ UNCHANGED <<follows, unfollowed>>
    BY <1>1 DEF Publish
  <2>2. Ends(e)'
    BY DEF Ends
  <2>3. /\ status' = [status EXCEPT ![t] = s] /\ status[t] = "none"
        /\ hidden' = IF s = "ok" THEN hidden ELSE hidden \cup {t}
    BY <1>1 DEF Publish
  <2>4. EndsInv'
    <3>1. \A x \in Topics : status'[x] \in {"review", "deleted"} => x \in hidden'
      BY <1>t, <2>3 DEF TypeOK, EndsInv
    <3> HIDE DEF e
    <3> QED BY <1>0, <1>t, <2>1, <2>2, <2>3, <3>1, EndsAsk
  <2>5. ASSUME NEW r \in Rows, Due(r)'
        PROVE  (Due(r) /\ follows'[Pair(r)] = follows[Pair(r)]) \/ e = CreateOf(r)
    <3>1. CASE r[2] = t
      BY <3>1 DEF CreateOf
    <3>2. CASE r[2] # t
      <4>1. status'[r[2]] = status[r[2]] /\ (r[2] \in hidden' <=> r[2] \in hidden)
        BY <1>t, <2>3, <3>2, RowShape DEF TypeOK
      <4> QED BY <1>0, <1>r, <2>1, <2>5, <4>1 DEF Due
    <3> QED BY <3>1, <3>2
  <2> HIDE DEF e
  <2>6. DueInv'
    BY <1>0, <2>1, <2>5, DueAsk
  <2> QED BY <2>4, <2>6
<1>2. ASSUME NEW t \in Topics, DeleteTopic(c, t) PROVE EndsInv' /\ DueInv'
  <2> DEFINE e == [type |-> "TopicDelete", topic |-> t]
  <2>1. /\ Requested(c, Send(e)) /\ UNCHANGED <<follows, unfollowed>>
        /\ status' = [status EXCEPT ![t] = "deleted"] /\ hidden' = hidden \cup {t}
    BY <1>2 DEF DeleteTopic
  <2>2. Ends(e)'
    BY <2>1 DEF Ends
  <2>3. \A x \in Topics : status'[x] \in {"review", "deleted"} => x \in hidden'
    BY <1>t, <2>1 DEF TypeOK, EndsInv
  <2>4. ASSUME NEW r \in Rows, Due(r)' PROVE Due(r) /\ follows'[Pair(r)] = follows[Pair(r)]
    <3>1. r[2] # t /\ status'[r[2]] = status[r[2]] /\ r[2] \notin hidden
      BY <1>t, <2>1, <2>4, RowShape DEF TypeOK, Due
    <3> QED BY <1>0, <1>r, <2>1, <2>4, <3>1 DEF Due
  <2> HIDE DEF e
  <2>5. EndsInv'
    BY <1>0, <1>t, <2>1, <2>2, <2>3, EndsAsk
  <2>6. DueInv'
    BY <1>0, <2>1, <2>4, DueAsk
  <2> QED BY <2>5, <2>6
<1>3. ASSUME NEW t \in Topics, Show(c, t) PROVE EndsInv' /\ DueInv'
  <2>1. /\ Requested(c, Resting) /\ UNCHANGED <<follows, unfollowed, hidden>>
        /\ status' = [status EXCEPT ![t] = "ok"] /\ status[t] \in {"review", "deleted"}
    BY <1>3 DEF Show
  <2>2. t \in hidden /\ \A x \in Topics : status'[x] \in {"review", "deleted"} => x \in hidden'
    BY <1>t, <2>1 DEF TypeOK, EndsInv
  <2>3. ASSUME NEW r \in Rows, Due(r)' PROVE Due(r) /\ follows'[Pair(r)] = follows[Pair(r)]
    <3>1. r[2] # t /\ status'[r[2]] = status[r[2]]
      BY <1>t, <2>1, <2>2, <2>3, RowShape DEF TypeOK, Due
    <3> QED BY <1>0, <1>r, <2>1, <2>3, <3>1 DEF Due
  <2>4. EndsInv'
    BY <1>0, <1>t, <2>1, <2>2, EndsAsk
  <2>5. DueInv'
    BY <1>0, <2>1, <2>3, DueAsk
  <2> QED BY <2>4, <2>5
<1>4. ASSUME NEW p \in Pairs, Follow(c, p) PROVE EndsInv' /\ DueInv'
  <2> DEFINE e == [type |-> "Follow", pair |-> p]
  <2>1. PICK id : /\ Requested(c, Send(e)) /\ UNCHANGED <<status, unfollowed, hidden>>
                  /\ follows' = [follows EXCEPT ![p] = id] /\ follows[p] = 0
    BY <1>4 DEF Follow
  <2>2. Ends(e)'
    BY DEF Ends
  <2>3. \A x \in Topics : status'[x] \in {"review", "deleted"} => x \in hidden'
    BY <1>t, <2>1 DEF EndsInv
  <2>4. ASSUME NEW r \in Rows, Due(r)'
        PROVE  (Due(r) /\ follows'[Pair(r)] = follows[Pair(r)]) \/ e = FollowOf(r)
    <3>1. CASE Pair(r) = p
      BY <3>1 DEF FollowOf
    <3>2. CASE Pair(r) # p
      <4>1. follows'[Pair(r)] = follows[Pair(r)]
        BY <1>t, <2>1, <3>2, RowShape DEF TypeOK
      <4> QED BY <1>0, <1>r, <2>1, <2>4, <4>1 DEF Due
    <3> QED BY <3>1, <3>2
  <2> HIDE DEF e
  <2>5. EndsInv'
    BY <1>0, <1>t, <2>1, <2>2, <2>3, EndsAsk
  <2>6. DueInv'
    BY <1>0, <2>1, <2>4, DueAsk
  <2> QED BY <2>5, <2>6
<1>5. ASSUME NEW p \in Pairs, UnFollowRead(c, p) PROVE EndsInv' /\ DueInv'
  <2> DEFINE new == [pc |-> "unfollow", pair |-> p]
  <2>1. Requested(c, new) /\ UNCHANGED <<status, follows, unfollowed, hidden>> /\ new.pc = "unfollow"
    BY <1>5 DEF UnFollowRead
  <2> HIDE DEF new
  <2>2. \A x \in Topics : status'[x] \in {"review", "deleted"} => x \in hidden'
    BY <1>t, <2>1 DEF EndsInv
  <2>3. ASSUME NEW r \in Rows, Due(r)' PROVE Due(r) /\ follows'[Pair(r)] = follows[Pair(r)]
    BY <1>0, <1>r, <2>1, <2>3 DEF Due
  <2>4. EndsInv'
    BY <1>0, <1>t, <2>1, <2>2, EndsAsk
  <2>5. DueInv'
    BY <1>0, <2>1, <2>3, DueAsk
  <2> QED BY <2>4, <2>5
<1> QED BY <1>1, <1>2, <1>3, <1>4, <1>5 DEF Ask

\* A request that ends a follow, or that breaks off, ends what was due.
LEMMA UnFollowStep ==
  ASSUME FeedInv, NEW c \in Callers, UnFollow(c) \/ DeletionFails(c) \/ UnFollowFails(c)
  PROVE  EndsInv' /\ DueInv'
<1> DEFINE e(p) == [type |-> "UnFollow", pair |-> p]
<1>1. PICK new :
        /\ request' = [request EXCEPT ![c] = new] /\ request[c].pc = "unfollow"
        /\ UNCHANGED <<status, feed, job, hidden, dropped, missed>>
        /\ \/ /\ new = Resting /\ UNCHANGED <<follows, unfollowed>>
           \/ \E p \in Pairs :
                /\ new = Send(e(p)) /\ unfollowed' = unfollowed \cup {p}
                /\ follows' \in {follows, [follows EXCEPT ![p] = 0]}
  <2>1. CASE UnFollow(c)
    BY <2>1 DEF UnFollow, UnFollowed, Well
  <2>2. CASE DeletionFails(c)
    BY <2>2 DEF DeletionFails, UnFollowed, Failing
  <2>3. CASE UnFollowFails(c)
    BY <2>3 DEF UnFollowFails, Failing
  <2> QED BY <2>1, <2>2, <2>3
<1>2. unfollowed \subseteq unfollowed' /\ (new.pc \in {"send", "wait"} => Ends(new.out)')
  BY <1>1 DEF Send, Ends, Resting
<1>3. \A x \in Topics : status'[x] \in {"review", "deleted"} => x \in hidden'
  BY <1>1 DEF FeedInv, EndsInv
<1>4. ASSUME NEW r \in Rows, Due(r)' PROVE Due(r) /\ follows'[Pair(r)] = follows[Pair(r)]
  <2>1. Pair(r)' = Pair(r) /\ FollowOf(r)' = FollowOf(r) /\ CreateOf(r)' = CreateOf(r)
    BY DEF Pair, FollowOf, CreateOf
  <2>2. Pair(r) \notin unfollowed' /\ Pair(r) \in Pairs
    BY <1>4, <2>1, RowShape DEF Due
  <2>3. follows'[Pair(r)] = follows[Pair(r)]
    BY <1>1, <2>2 DEF FeedInv, TypeOK
  <2> QED BY <1>1, <1>2, <1>4, <2>1, <2>2, <2>3 DEF Due
<1>5. EndsInv'
  BY <1>1, <1>2, <1>3, EndsAsk DEF FeedInv
<1>6. DueInv'
  BY <1>1, <1>4, DueAsk
<1> QED BY <1>5, <1>6

-----------------------------------------------------------------------------
(* The bus                                                                 *)

\* Nothing a request wrote changes: what was due and stays due decides.
LEMMA DueKept ==
  ASSUME UNCHANGED <<status, follows, unfollowed, hidden>>, dropped \subseteq dropped',
         missed \subseteq missed', FeedInv,
         \A r \in Rows : Due(r) /\ Due(r)' /\ (r \in feed \/ Coming(r)) => r \in feed' \/ Coming(r)'
  PROVE  DueInv'
<1>1. \A r \in Rows : Due(r)' => Due(r)
  BY DEF Due, Pair, FollowOf, CreateOf
<1> QED BY <1>1 DEF FeedInv, DueInv

\* Handlers that begin have a due row before them.
LEMMA Begins ==
  ASSUME TypeOK, NEW r \in Rows, Due(r)
  PROVE  /\ First(FollowOf(r)) = Scanning(FollowOf(r)) /\ Scanning(FollowOf(r)).cursor < r[2]
         /\ First(CreateOf(r)) = Running("task", CreateOf(r))
         /\ AfterTask(CreateOf(r)) = Scanning(CreateOf(r))
         /\ Scanning(CreateOf(r)).cursor < follows[Pair(r)]
<1>1. follows[Pair(r)] \in Nat /\ follows[Pair(r)] # 0
  BY RowShape, UserFeedAssumption DEF TypeOK, Due
<1> QED BY <1>1, RowShape DEF First, AfterTask, FollowOf, CreateOf, Scanning

\* What a sender leaves behind when its event is taken or refused.
LEMMA SentOut ==
  ASSUME TypeOK, UNCHANGED follows, NEW s \in Senders, Out(s).pc \in {"send", "wait"},
         NEW started \in [Workers -> Jobs], Sent(s, started)
  PROVE  /\ Out(s)'.pc \notin {"send", "wait"}
         /\ \A x \in Callers : x # s => (Out(x))' = Out(x)
         /\ \A w \in Workers : w # s => job'[w] = started[w] /\ (Out(w))' = started[w]
         /\ s \in Workers => job'[s].pc # "clear"
         /\ \A r \in Rows : s \in Workers /\ Due(r) /\ Visits(s, r) => (Visits(s, r))'
<1>0. Callers \cap Workers = {} /\ \A w \in Workers : w \notin Callers
  BY UserFeedAssumption
<1>1. CASE s \in Callers
  <2>1. request' = [request EXCEPT ![s] = Resting] /\ job' = started /\ s \notin Workers
    BY <1>0, <1>1 DEF Sent
  <2>2. (Out(s))' = Resting
    BY <1>1, <2>1 DEF Out, TypeOK
  <2> QED BY <1>0, <2>1, <2>2 DEF Out, TypeOK, Resting
<1>2. CASE s \notin Callers
  <2>1. /\ job' = [started EXCEPT ![s] = AfterTask(job[s].event)] /\ request' = request
        /\ s \in Workers
    BY <1>2, OutShape DEF Sent
  <2>2. (Out(s))' = AfterTask(job[s].event) /\ job'[s] = AfterTask(job[s].event)
    BY <1>2, <2>1 DEF Out
  <2>3. AfterTask(job[s].event).pc \in {"scan", "idle"}
    BY DEF AfterTask, Scanning, Resting
  <2>4. ASSUME NEW r \in Rows, Due(r), Visits(s, r) PROVE (Visits(s, r))'
    <3>1. job[s].event = CreateOf(r) /\ (Pair(r))' = Pair(r) /\ (CreateOf(r))' = CreateOf(r)
      BY <1>2, <2>4, OutShape DEF Visits, Out, Pair, CreateOf
    <3>2. job'[s] = Scanning(CreateOf(r)) /\ Scanning(CreateOf(r)).cursor < follows[Pair(r)]
      BY <2>2, <2>4, <3>1, Begins
    <3> QED BY <3>1, <3>2 DEF Visits, Scanning
  <2> QED BY <1>0, <2>1, <2>2, <2>3, <2>4 DEF Out, TypeOK
<1> QED BY <1>1, <1>2

LEMMA HandStep ==
  ASSUME FeedInv, NEW s \in Senders, NEW w \in Workers, Hand(s, w)
  PROVE  EndsInv' /\ DueInv'
<1>0. PICK e : e = Out(s).out
  OBVIOUS
<1>1. /\ TypeOK /\ EndsInv /\ Out(s).pc \in {"send", "wait"} /\ e \in Events /\ Ends(e)
      /\ job[w] = Resting /\ w \notin Callers /\ Out(w) = Resting /\ s # w
      /\ UNCHANGED <<status, follows, feed, unfollowed, hidden, dropped, missed>>
  BY <1>0, OutShape, UserFeedAssumption DEF FeedInv, Hand, Well, Idle, EndsInv, Out, Resting
<1>2. PICK started : started = [job EXCEPT ![w] = First(e)]
  OBVIOUS
<1>3. started \in [Workers -> Jobs] /\ Sent(s, started)
  BY <1>0, <1>1, <1>2, StartTypes DEF Hand, TypeOK
<1>4. /\ job'[w] = First(e) /\ (Out(w))' = First(e)
      /\ \A x \in Senders : x \notin {s, w} => (Out(x))' = Out(x)
      /\ \A x \in Workers : x \notin {s, w} => job'[x] = job[x]
      /\ (Out(s))'.pc \notin {"send", "wait"} /\ (s \in Workers => job'[s].pc # "clear")
  <2>1. \A x \in Workers : x # w => started[x] = job[x]
    BY <1>2, <1>1 DEF TypeOK
  <2>2. \A x \in Workers : Out(x) = job[x]
    BY UserFeedAssumption DEF Out
  <2>3. started[w] = First(e)
    BY <1>2, <1>1 DEF TypeOK
  <2> QED BY <1>1, <1>3, <2>1, <2>2, <2>3, SentOut DEF Senders
<1>5. First(e).pc \in {"scan", "clear", "task"} /\ (First(e).pc = "clear" => First(e).event = e)
  BY <1>1, EventShape DEF First, Scanning, Running
<1>6. EndsInv'
  <2>1. \A x \in Senders : ((Out(x).pc \in {"send", "wait"}) => Ends(Out(x).out))'
    BY <1>1, <1>4, <1>5, EndsGrow DEF EndsInv
  <2>2. \A x \in Workers : (job[x].pc = "clear" => Ends(job[x].event))'
    BY <1>1, <1>4, <1>5, EndsGrow DEF EndsInv
  <2> QED BY <1>1, <2>1, <2>2 DEF EndsInv
<1>7. ASSUME NEW r \in Rows, Due(r), Coming(r) PROVE (Coming(r))'
  <2>0. (Pair(r))' = Pair(r) /\ (FollowOf(r))' = FollowOf(r) /\ (CreateOf(r))' = CreateOf(r)
    BY DEF Pair, FollowOf, CreateOf
  <2>1. CASE e = FollowOf(r)
    <3>1. job'[w] = Scanning(FollowOf(r)) /\ Scanning(FollowOf(r)).cursor < r[2]
      BY <1>1, <1>4, <1>7, <2>1, Begins
    <3> QED BY <2>0, <3>1 DEF Coming, Visits, Scanning
  <2>2. CASE e = CreateOf(r)
    <3>1. job'[w] = Running("task", CreateOf(r))
      BY <1>1, <1>4, <1>7, <2>2, Begins
    <3> QED BY <2>0, <3>1 DEF Coming, Visits, Running
  <2>3. ASSUME NEW x \in Senders, Sends(x, FollowOf(r)) \/ Sends(x, CreateOf(r)),
               e \notin {FollowOf(r), CreateOf(r)}
        PROVE  (Coming(r))'
    <3>1. x \notin {s, w}
      BY <1>0, <1>1, <2>3 DEF Sends, Resting
    <3> QED BY <1>4, <2>0, <2>3, <3>1 DEF Coming, Sends
  <2>4. ASSUME NEW x \in Workers, Visits(x, r) PROVE (Coming(r))'
    <3>1. x # w
      BY <1>1, <2>4 DEF Visits, Resting
    <3>2. CASE x = s
      BY <1>1, <1>3, <1>7, <2>4, <3>2, SentOut DEF Coming
    <3>3. CASE x # s
      <4>1. job'[x] = job[x] /\ UNCHANGED follows
        BY <1>1, <1>4, <3>1, <3>3
      <4> QED BY <2>0, <2>4, <4>1 DEF Visits, Coming
    <3> QED BY <3>2, <3>3
  <2> QED BY <1>7, <2>1, <2>2, <2>3, <2>4 DEF Coming
<1>8. DueInv'
  BY <1>1, <1>7, DueKept
<1> QED BY <1>6, <1>8

LEMMA BlockStep ==
  ASSUME FeedInv, NEW s \in Senders, Block(s)
  PROVE  EndsInv' /\ DueInv'
<1>0. Callers \cap Workers = {} /\ TypeOK /\ EndsInv /\ Out(s).pc = "send"
  BY UserFeedAssumption DEF FeedInv, Block
<1>1. /\ \A x \in Senders : x # s => (Out(x))' = Out(x)
      /\ (Out(s))'.pc = "wait" /\ (Out(s))'.out = Out(s).out
      /\ \A x \in Workers : x # s => job'[x] = job[x]
      /\ s \in Workers => job'[s] = [job[s] EXCEPT !.pc = "wait"] /\ Out(s) = job[s]
      /\ UNCHANGED <<status, follows, feed, unfollowed, hidden, dropped, missed>>
  <2>1. CASE s \in Callers
    <3>1. request' = [request EXCEPT ![s].pc = "wait"] /\ job' = job /\ s \notin Workers
      BY <1>0, <2>1 DEF Block
    <3>2. request'[s] = [request[s] EXCEPT !.pc = "wait"] /\ request[s] \in Sending
      BY <1>0, <2>1, <3>1, OutShape DEF TypeOK
    <3> QED BY <1>0, <2>1, <3>1, <3>2 DEF Block, Well, Out, TypeOK, Sending, Senders
  <2>2. CASE s \notin Callers
    <3>1. job' = [job EXCEPT ![s].pc = "wait"] /\ request' = request /\ s \in Workers
      BY <1>0, <2>2 DEF Block, Senders
    <3>2. job'[s] = [job[s] EXCEPT !.pc = "wait"]
      BY <1>0, <3>1 DEF TypeOK
    <3>3. job'[s].pc = "wait" /\ job'[s].out = job[s].out /\ Out(s) = job[s]
      BY <1>0, <2>2, <3>2, OutShape
    <3> QED BY <1>0, <2>2, <3>1, <3>2, <3>3 DEF Block, Well, Out, TypeOK, Senders
  <2> QED BY <2>1, <2>2
<1>2. s \in Workers => job'[s].pc = "wait" /\ job'[s].event = job[s].event
  BY <1>0, <1>1, OutShape, UserFeedAssumption
<1>3. EndsInv'
  <2>1. \A x \in Senders : ((Out(x).pc \in {"send", "wait"}) => Ends(Out(x).out))'
    BY <1>0, <1>1, EndsGrow DEF EndsInv
  <2>2. \A x \in Workers : (job[x].pc = "clear" => Ends(job[x].event))'
    BY <1>0, <1>1, <1>2, EndsGrow DEF EndsInv
  <2> QED BY <1>0, <1>1, <2>1, <2>2 DEF EndsInv
<1>4. ASSUME NEW r \in Rows, Coming(r) PROVE (Coming(r))'
  <2>0. (Pair(r))' = Pair(r) /\ (FollowOf(r))' = FollowOf(r) /\ (CreateOf(r))' = CreateOf(r)
    BY DEF Pair, FollowOf, CreateOf
  <2>1. \A x \in Senders : \A e : Sends(x, e) => (Sends(x, e))'
    BY <1>1 DEF Sends
  <2>2. ASSUME NEW x \in Workers, Visits(x, r) PROVE (Visits(x, r))'
    <3>1. CASE x = s
      BY <1>0, <1>1, <1>2, <2>0, <2>2, <3>1 DEF Visits
    <3>2. CASE x # s
      <4>1. job'[x] = job[x] /\ UNCHANGED follows
        BY <1>1, <3>2
      <4> QED BY <2>0, <2>2, <4>1 DEF Visits
    <3> QED BY <3>1, <3>2
  <2> QED BY <1>4, <2>0, <2>1, <2>2 DEF Coming
<1>5. DueInv'
  BY <1>1, <1>4, DueKept
<1> QED BY <1>3, <1>5

LEMMA OverloadStep ==
  ASSUME FeedInv, NEW s \in Senders, Overload(s)
  PROVE  EndsInv' /\ DueInv'
<1>0. PICK e : e = Out(s).out
  OBVIOUS
<1>1. /\ TypeOK /\ EndsInv /\ Out(s).pc \in {"send", "wait"} /\ dropped' = dropped \cup {e}
      /\ Sent(s, job) /\ job \in [Workers -> Jobs]
      /\ UNCHANGED <<status, follows, feed, unfollowed, hidden, missed>>
  BY <1>0 DEF FeedInv, Overload, TypeOK
<1>2. /\ \A x \in Senders : x # s => (Out(x))' = Out(x)
      /\ \A x \in Workers : x # s => job'[x] = job[x]
      /\ (Out(s))'.pc \notin {"send", "wait"} /\ (s \in Workers => job'[s].pc # "clear")
  <2>1. \A x \in Workers : Out(x) = job[x]
    BY UserFeedAssumption DEF Out
  <2> QED BY <1>1, <2>1, SentOut DEF Senders
<1>3. EndsInv'
  <2>1. \A x \in Senders : ((Out(x).pc \in {"send", "wait"}) => Ends(Out(x).out))'
    BY <1>1, <1>2, EndsGrow DEF EndsInv
  <2>2. \A x \in Workers : (job[x].pc = "clear" => Ends(job[x].event))'
    BY <1>1, <1>2, EndsGrow DEF EndsInv
  <2> QED BY <1>1, <2>1, <2>2 DEF EndsInv
<1>4. ASSUME NEW r \in Rows, Due(r), (Due(r))', Coming(r) PROVE (Coming(r))'
  <2>0. (Pair(r))' = Pair(r) /\ (FollowOf(r))' = FollowOf(r) /\ (CreateOf(r))' = CreateOf(r)
    BY DEF Pair, FollowOf, CreateOf
  <2>1. e \notin {FollowOf(r), CreateOf(r)}
    BY <1>1, <1>4, <2>0 DEF Due
  <2>2. ASSUME NEW x \in Senders, Sends(x, FollowOf(r)) \/ Sends(x, CreateOf(r)) PROVE (Coming(r))'
    <3>1. x # s
      BY <1>0, <2>1, <2>2 DEF Sends
    <3> QED BY <1>2, <2>0, <2>2, <3>1 DEF Coming, Sends
  <2>3. ASSUME NEW x \in Workers, Visits(x, r) PROVE (Coming(r))'
    <3>1. CASE x = s
      BY <1>1, <1>4, <2>3, <3>1, SentOut DEF Coming
    <3>2. CASE x # s
      <4>1. job'[x] = job[x] /\ UNCHANGED follows
        BY <1>1, <1>2, <3>2
      <4> QED BY <2>0, <2>3, <4>1 DEF Visits, Coming
    <3> QED BY <3>1, <3>2
  <2> QED BY <1>4, <2>2, <2>3 DEF Coming
<1>5. DueInv'
  BY <1>1, <1>4, DueKept
<1> QED BY <1>3, <1>5

-----------------------------------------------------------------------------
(* Handlers                                                                *)

\* It is enough that the worker at work keeps what is due.
LEMMA WorkerKeeps ==
  ASSUME FeedInv, NEW w \in Workers, NEW new, Works(w, new),
         job[w].pc \notin {"send", "wait"}, new.pc # "clear",
         new.pc \in {"send", "wait"} => Ends(new.out), UNCHANGED dropped, missed \subseteq missed',
         \A r \in Rows : Due(r) /\ r \notin missed' /\ (r \in feed \/ Visits(w, r)) => r \in feed' \/ (Visits(w, r))'
  PROVE  EndsInv' /\ DueInv'
<1>1. /\ TypeOK /\ EndsInv /\ w \notin Callers
      /\ UNCHANGED <<status, follows, request, unfollowed, hidden>>
      /\ job' = [job EXCEPT ![w] = new]
  BY UserFeedAssumption DEF FeedInv, Works
<1>2. /\ (Out(w))' = new /\ job'[w] = new /\ Out(w) = job[w]
      /\ \A x \in Senders : x # w => (Out(x))' = Out(x)
      /\ \A x \in Workers : x # w => job'[x] = job[x]
  BY <1>1 DEF Out, TypeOK, Senders
<1>3. EndsInv'
  <2>1. \A x \in Senders : ((Out(x).pc \in {"send", "wait"}) => Ends(Out(x).out))'
    BY <1>1, <1>2, EndsGrow DEF EndsInv
  <2>2. \A x \in Workers : (job[x].pc = "clear" => Ends(job[x].event))'
    BY <1>1, <1>2, EndsGrow DEF EndsInv
  <2> QED BY <1>1, <2>1, <2>2 DEF EndsInv
<1>4. ASSUME NEW r \in Rows, Due(r), r \notin missed', Coming(r)
      PROVE  r \in feed' \/ (Coming(r))'
  <2>0. (Pair(r))' = Pair(r) /\ (FollowOf(r))' = FollowOf(r) /\ (CreateOf(r))' = CreateOf(r)
    BY DEF Pair, FollowOf, CreateOf
  <2>1. \A x \in Senders : \A e : Sends(x, e) => (Sends(x, e))'
    BY <1>2 DEF Sends
  <2>2. ASSUME NEW x \in Workers, Visits(x, r) PROVE r \in feed' \/ (Visits(x, r))'
    <3>1. CASE x = w
      BY <1>4, <2>2, <3>1
    <3>2. CASE x # w
      <4>1. job'[x] = job[x] /\ UNCHANGED follows
        BY <1>1, <1>2, <3>2
      <4> QED BY <2>0, <2>2, <4>1 DEF Visits
    <3> QED BY <3>1, <3>2
  <2> QED BY <1>4, <2>0, <2>1, <2>2 DEF Coming
<1>5. ASSUME NEW r \in Rows, Due(r), r \notin missed', r \in feed
      PROVE  r \in feed' \/ (Coming(r))'
  BY <1>5 DEF Coming
<1>6. \A r \in Rows : (Due(r))' => r \notin missed'
  BY DEF Due
<1>7. DueInv'
  BY <1>1, <1>4, <1>5, <1>6, DueKept
<1> QED BY <1>3, <1>7

LEMMA DoTaskStep ==
  ASSUME FeedInv, NEW w \in Workers, DoTask(w)
  PROVE  EndsInv' /\ DueInv'
<1>0. PICK e : e = job[w].event
  OBVIOUS
<1>1. PICK new \in {AfterTask(e), [pc |-> "send", event |-> e, out |-> [type |-> "LevelUp"]]} :
        Works(w, new) /\ UNCHANGED <<feed, dropped, missed>>
  BY <1>0 DEF DoTask, Well
<1>2. /\ job[w].pc = "task" /\ new.pc \in {"send", "scan", "idle"}
      /\ new.pc = "send" => Ends(new.out)
  BY <1>1 DEF DoTask, AfterTask, Scanning, Resting, Ends
<1>3. job'[w] = new /\ UNCHANGED follows
  BY <1>1 DEF Works, FeedInv, TypeOK
<1>4. ASSUME NEW r \in Rows, Due(r), Visits(w, r) PROVE (Visits(w, r))'
  <2>1. e = CreateOf(r) /\ (Pair(r))' = Pair(r) /\ (CreateOf(r))' = CreateOf(r)
    BY <1>0, <1>2, <1>4 DEF Visits, Pair, CreateOf
  <2>2. CASE new = AfterTask(e)
    <3>1. new = Scanning(CreateOf(r)) /\ Scanning(CreateOf(r)).cursor < follows[Pair(r)]
      BY <1>4, <2>1, <2>2, Begins DEF FeedInv
    <3> QED BY <1>3, <2>1, <3>1 DEF Visits, Scanning
  <2>3. CASE new = [pc |-> "send", event |-> e, out |-> [type |-> "LevelUp"]]
    BY <1>3, <2>1, <2>3 DEF Visits
  <2> QED BY <1>1, <2>2, <2>3
<1> QED BY <1>1, <1>2, <1>4, WorkerKeeps

\* A due row is among the rows its handler reads.
LEMMA RowRead ==
  ASSUME TypeOK, NEW r \in Rows, Due(r)
  PROVE  /\ <<r[2], r>> \in Scanned(FollowOf(r))
         /\ <<follows[Pair(r)], r>> \in Scanned(CreateOf(r))
<1>1. FollowOf(r).pair = Pair(r) /\ FollowOf(r).type = "Follow"
  BY DEF FollowOf
<1>2. Pair(r)[1] = r[1] /\ Pair(r)[2] = Author[r[2]]
  BY DEF Pair
<1>3. <<r[2], <<r[1], r[2]>>>> \in Scanned(FollowOf(r))
  BY <1>1, <1>2, RowShape DEF Scanned, Due
<1>4. CreateOf(r).topic = r[2] /\ CreateOf(r).type = "TopicCreate"
  BY DEF CreateOf
<1>5. Pair(r) \in {q \in Pairs : q[2] = Author[CreateOf(r).topic] /\ follows[q] # 0}
  BY <1>2, <1>4, RowShape DEF Due
<1>6. <<follows[Pair(r)], <<r[1], r[2]>>>> \in Scanned(CreateOf(r))
  BY <1>2, <1>4, <1>5 DEF Scanned
<1> QED BY <1>3, <1>6, RowShape

\* What a worker between two pages has before it is left to read.
LEMMA LeftRows ==
  ASSUME FeedInv, NEW w \in Workers, job[w].pc = "scan", job[w].rest = {},
         NEW left, left = {r \in Scanned(job[w].event) : r[1] > job[w].cursor}
  PROVE  /\ left \subseteq Nat \X Rows
         /\ \A r \in Rows : Due(r) /\ Visits(w, r) =>
              \E q \in left : q[2] = r /\ \/ job[w].event = FollowOf(r) /\ q[1] = r[2]
                                          \/ job[w].event = CreateOf(r) /\ q[1] = follows[Pair(r)]
<1>0. PICK e, cursor : e = job[w].event /\ cursor = job[w].cursor
  OBVIOUS
<1>1. /\ TypeOK
      /\ job[w] \in [pc : {"scan"}, event : OfType({"Follow", "TopicCreate"}),
                     cursor : Nat, rest : SUBSET (Nat \X Rows)]
      /\ e \in Events /\ e.type \in {"Follow", "TopicCreate"} /\ cursor \in Nat
  BY <1>0, JobShape, OfTypeIs DEF FeedInv
<1>2. left \subseteq Nat \X Rows
  BY <1>0, <1>1, ScannedType
<1>3. ASSUME NEW r \in Rows, Due(r), Visits(w, r)
      PROVE  \E q \in left : q[2] = r /\ \/ e = FollowOf(r) /\ q[1] = r[2]
                                         \/ e = CreateOf(r) /\ q[1] = follows[Pair(r)]
  <2>1. \/ e = FollowOf(r) /\ cursor < r[2]
        \/ e = CreateOf(r) /\ cursor < follows[Pair(r)]
    BY <1>0, <1>1, <1>3 DEF Visits
  <2>2. r[2] \in Nat /\ follows[Pair(r)] \in Nat
    BY <1>1, RowShape, UserFeedAssumption DEF TypeOK
  <2>3. CASE e = FollowOf(r) /\ cursor < r[2]
    <3>1. <<r[2], r>> \in left
      BY <1>0, <1>1, <1>3, <2>2, <2>3, RowRead
    <3> QED BY <2>3, <3>1
  <2>4. CASE e = CreateOf(r) /\ cursor < follows[Pair(r)]
    <3>1. <<follows[Pair(r)], r>> \in left
      BY <1>0, <1>1, <1>3, <2>2, <2>4, RowRead
    <3> QED BY <2>4, <3>1
  <2> QED BY <2>1, <2>3, <2>4
<1> QED BY <1>0, <1>2, <1>3

LEMMA ReadPageStep ==
  ASSUME FeedInv, NEW w \in Workers, ReadPage(w)
  PROVE  EndsInv' /\ DueInv'
<1>0. PICK e, left : e = job[w].event /\ left = {r \in Scanned(e) : r[1] > job[w].cursor}
  OBVIOUS
<1>1. /\ job[w].pc = "scan" /\ job[w].rest = {} /\ UNCHANGED <<feed, dropped, missed>> /\ TypeOK
      /\ job[w] \in [pc : {"scan"}, event : OfType({"Follow", "TopicCreate"}),
                     cursor : Nat, rest : SUBSET (Nat \X Rows)]
  BY <1>0, JobShape DEF ReadPage, Well, FeedInv
<1>2. left \subseteq Nat \X Rows
  BY <1>0, <1>1, LeftRows
<1>3. ASSUME NEW r \in Rows, Due(r), Visits(w, r)
      PROVE  \E q \in left : q[2] = r /\ \/ e = FollowOf(r) /\ q[1] = r[2]
                                         \/ e = CreateOf(r) /\ q[1] = follows[Pair(r)]
  BY <1>0, <1>1, <1>3, LeftRows
<1>4. CASE left = {} /\ Works(w, AfterScan(e))
  <2>1. AfterScan(e).pc \in {"task", "idle"}
    BY DEF AfterScan, Running, Resting
  <2> QED BY <1>1, <1>3, <1>4, <2>1, WorkerKeeps
<1>5. ASSUME NEW last \in left,
             Works(w, [job[w] EXCEPT !.cursor = last[1],
                 !.rest = Wanted(e, {r \in left : r[1] <= last[1]})])
      PROVE  EndsInv' /\ DueInv'
  <2>1. PICK id, rest : id = last[1] /\ rest = Wanted(e, {r \in left : r[1] <= last[1]})
    OBVIOUS
  <2>2. PICK new : new = [job[w] EXCEPT !.cursor = id, !.rest = rest]
    OBVIOUS
  <2>3. /\ new.pc = "scan" /\ new.event = e /\ new.cursor = id /\ new.rest = rest
        /\ Works(w, new) /\ id \in Nat
    BY <1>0, <1>1, <1>2, <1>5, <2>1, <2>2
  <2>4. job'[w] = new /\ UNCHANGED follows
    BY <1>1, <2>3 DEF Works, TypeOK
  <2>5. ASSUME NEW r \in Rows, Due(r), Visits(w, r) PROVE (Visits(w, r))'
    <3>0. (Pair(r))' = Pair(r) /\ (FollowOf(r))' = FollowOf(r) /\ (CreateOf(r))' = CreateOf(r)
      BY DEF Pair, FollowOf, CreateOf
    <3>1. PICK q \in left : q[2] = r /\ \/ e = FollowOf(r) /\ q[1] = r[2]
                                        \/ e = CreateOf(r) /\ q[1] = follows[Pair(r)]
      BY <1>3, <2>5
    <3>2. q[1] \in Nat
      BY <1>2
    <3>3. CASE q[1] <= id
      <4>1. q \in {x \in left : x[1] <= last[1]}
        BY <2>1, <3>3
      <4>2. e.type = "Follow" => status[q[1]] = "ok"
        BY <2>5, <3>1 DEF Due, FollowOf, CreateOf
      <4>3. q \in rest
        BY <2>1, <4>1, <4>2 DEF Wanted
      <4> QED BY <2>3, <2>4, <3>0, <3>1, <4>3 DEF Visits
    <3>4. CASE id < q[1]
      BY <2>3, <2>4, <3>0, <3>1, <3>4 DEF Visits
    <3> QED BY <2>3, <3>2, <3>3, <3>4
  <2> QED BY <1>1, <2>3, <2>5, WorkerKeeps
<1> QED BY <1>0, <1>1, <1>4, <1>5 DEF ReadPage

\* What a failed read passes over is remembered as missed.
LEMMA ReadFailsStep ==
  ASSUME FeedInv, NEW w \in Workers, ReadFails(w)
  PROVE  EndsInv' /\ DueInv'
<1>0. PICK e, left : e = job[w].event /\ left = {r \in Scanned(e) : r[1] > job[w].cursor}
  OBVIOUS
<1>1. /\ job[w].pc = "scan" /\ job[w].rest = {} /\ UNCHANGED <<feed, dropped>>
      /\ missed' = missed \cup {r[2] : r \in Wanted(e, left)} /\ Works(w, AfterScan(e))
  BY <1>0 DEF ReadFails, Failing
<1>2. AfterScan(e).pc \in {"task", "idle"}
  BY DEF AfterScan, Running, Resting
<1>3. ASSUME NEW r \in Rows, Due(r), Visits(w, r) PROVE r \in missed'
  <2>1. PICK q \in left : q[2] = r /\ \/ e = FollowOf(r) /\ q[1] = r[2]
                                      \/ e = CreateOf(r) /\ q[1] = follows[Pair(r)]
    BY <1>0, <1>1, <1>3, LeftRows
  <2>2. e.type = "Follow" => status[q[1]] = "ok"
    BY <1>3, <2>1 DEF Due, FollowOf, CreateOf
  <2> QED BY <1>1, <2>1, <2>2 DEF Wanted
<1> QED BY <1>1, <1>2, <1>3, WorkerKeeps

\* A row that leaves the page is in the feed, or is remembered as missed.
LEMMA InsertStep ==
  ASSUME FeedInv, NEW w \in Workers, Insert(w) \/ InsertFails(w)
  PROVE  EndsInv' /\ DueInv'
<1>1. /\ job[w].pc = "scan" /\ TypeOK
      /\ job[w] \in [pc : {"scan"}, event : OfType({"Follow", "TopicCreate"}),
                     cursor : Nat, rest : SUBSET (Nat \X Rows)]
  BY JobShape DEF Insert, InsertFails, FeedInv
<1>2. PICK row \in job[w].rest :
        /\ feed \cup missed \cup {row[2]} \subseteq feed' \cup missed'
        /\ feed \subseteq feed' /\ missed \subseteq missed' /\ UNCHANGED dropped
        /\ Works(w, [job[w] EXCEPT !.rest = @ \ {row}])
  BY DEF Insert, InsertFails, Well, Failing
<1>3. PICK new : new = [job[w] EXCEPT !.rest = @ \ {row}]
  OBVIOUS
<1>4. /\ new.pc = "scan" /\ new.event = job[w].event /\ new.cursor = job[w].cursor
      /\ new.rest = job[w].rest \ {row} /\ Works(w, new)
  BY <1>1, <1>2, <1>3
<1>5. job'[w] = new /\ UNCHANGED follows
  BY <1>1, <1>4 DEF Works, TypeOK
<1>6. ASSUME NEW r \in Rows, Visits(w, r), r \notin missed' PROVE r \in feed' \/ (Visits(w, r))'
  <2>0. (Pair(r))' = Pair(r) /\ (FollowOf(r))' = FollowOf(r) /\ (CreateOf(r))' = CreateOf(r)
    BY DEF Pair, FollowOf, CreateOf
  <2>1. CASE row[2] = r
    BY <1>2, <1>6, <2>1
  <2>2. CASE row[2] # r
    BY <1>1, <1>4, <1>5, <1>6, <2>0, <2>2 DEF Visits
  <2> QED BY <2>1, <2>2
<1> QED BY <1>1, <1>2, <1>4, <1>6, WorkerKeeps

\* What a clearing handler removes is not due.
LEMMA ClearStep ==
  ASSUME FeedInv, NEW w \in Workers, Clear(w) \/ ClearFails(w)
  PROVE  EndsInv' /\ DueInv'
<1>0. PICK e : e = job[w].event
  OBVIOUS
<1>1. /\ job[w].pc = "clear" /\ TypeOK /\ Ends(e) /\ feed \ Cleared(e) \subseteq feed'
      /\ Works(w, Resting) /\ UNCHANGED dropped /\ missed \subseteq missed'
      /\ e \in Events /\ e.type \in {"UnFollow", "TopicDelete"} /\ Resting.pc = "idle"
  BY <1>0, JobShape, OfTypeIs DEF Clear, ClearFails, Well, Failing, FeedInv, EndsInv, Resting
<1>2. ASSUME NEW r \in Rows, Due(r) PROVE r \notin Cleared(e)
  <2>1. CASE e.type = "UnFollow"
    <3>1. e.pair \in unfollowed /\ e.pair \in Pairs
      BY <1>1, <2>1, EventShape DEF Ends
    <3>2. e.pair = <<e.pair[1], e.pair[2]>>
      BY <3>1 DEF Pairs
    <3> QED BY <1>2, <2>1, <3>1, <3>2 DEF Due, Cleared, DeleteByUser, Pair
  <2>2. CASE e.type = "TopicDelete"
    BY <1>1, <1>2, <2>2 DEF Ends, Due, Cleared, DeleteByDataId
  <2> QED BY <1>1, <2>1, <2>2
<1>3. \A r \in Rows : ~Visits(w, r)
  BY <1>1 DEF Visits
<1> QED BY <1>1, <1>2, <1>3, WorkerKeeps

-----------------------------------------------------------------------------
(* What is lost                                                            *)

\* An event that is never sent, or cut off, takes what was due with it: whoever
\* was to insert a row was about one of its two events.
LEMMA UnsentStep ==
  ASSUME FeedInv, NEW c \in Callers, Unsent(c)
  PROVE  EndsInv' /\ DueInv'
<1>0. PICK e : e = request[c].out
  OBVIOUS
<1>1. /\ TypeOK /\ EndsInv /\ request[c].pc = "send" /\ request' = [request EXCEPT ![c] = Resting]
      /\ dropped' = dropped \cup {e} /\ missed' = missed
      /\ UNCHANGED <<status, follows, feed, job, unfollowed, hidden>> /\ Resting.pc = "idle"
  BY <1>0 DEF Unsent, Failing, FeedInv, Resting
<1>2. (Out(c))' = Resting /\ c \in Senders /\ \A s \in Senders : s # c => (Out(s))' = Out(s)
  BY <1>1, CallerOut
<1>3. EndsInv'
  BY <1>1, EndsAsk DEF EndsInv
<1>4. ASSUME NEW r \in Rows, Due(r), (Due(r))', Coming(r) PROVE (Coming(r))'
  <2>0. (Pair(r))' = Pair(r) /\ (FollowOf(r))' = FollowOf(r) /\ (CreateOf(r))' = CreateOf(r)
    BY DEF Pair, FollowOf, CreateOf
  <2>1. e \notin {FollowOf(r), CreateOf(r)}
    BY <1>1, <1>4, <2>0 DEF Due
  <2>2. ASSUME NEW x \in Senders, Sends(x, FollowOf(r)) \/ Sends(x, CreateOf(r)) PROVE (Coming(r))'
    <3>1. x # c
      BY <1>0, <2>1, <2>2 DEF Sends, Out
    <3> QED BY <1>2, <2>0, <2>2, <3>1 DEF Coming, Sends
  <2>3. ASSUME NEW x \in Workers, Visits(x, r) PROVE (Coming(r))'
    BY <1>1, <2>0, <2>3 DEF Visits, Coming
  <2> QED BY <1>4, <2>2, <2>3 DEF Coming
<1>5. DueInv'
  BY <1>1, <1>4, DueKept
<1> QED BY <1>3, <1>5

LEMMA RestartStep ==
  ASSUME FeedInv, Restart
  PROVE  EndsInv' /\ DueInv'
<1>1. /\ TypeOK /\ EndsInv /\ Resting.pc = "idle"
      /\ \A c \in Callers : request'[c] = Resting
      /\ \A w \in Workers : job'[w] = Resting
      /\ dropped' = dropped \cup UnderWay /\ missed' = missed
      /\ UNCHANGED <<status, follows, feed, unfollowed, hidden>>
  BY DEF Restart, Failing, FeedInv, Resting
<1>2. \A s \in Senders : (Out(s))' = Resting
  BY <1>1 DEF Out, Senders
<1>3. EndsInv'
  BY <1>1, <1>2 DEF EndsInv
<1>4. ASSUME NEW r \in Rows, Coming(r) PROVE FollowOf(r) \in UnderWay \/ CreateOf(r) \in UnderWay
  <2>1. ASSUME NEW s \in Senders, NEW e, Sends(s, e) PROVE e \in UnderWay
    BY <2>1 DEF Sends, UnderWay
  <2>2. ASSUME NEW w \in Workers, Visits(w, r) PROVE FollowOf(r) \in UnderWay \/ CreateOf(r) \in UnderWay
    <3>1. w \in Workers \ Idle /\ job[w].event \in {FollowOf(r), CreateOf(r)}
      BY <1>1, <2>2 DEF Visits, Idle
    <3> QED BY <3>1 DEF UnderWay
  <2> QED BY <1>4, <2>1, <2>2 DEF Coming
<1>5. ASSUME NEW r \in Rows, (Due(r))' PROVE ~Coming(r)
  <2>1. (FollowOf(r))' = FollowOf(r) /\ (CreateOf(r))' = CreateOf(r)
    BY DEF Pair, FollowOf, CreateOf
  <2> QED BY <1>1, <1>4, <1>5, <2>1 DEF Due
<1>6. DueInv'
  BY <1>1, <1>5, DueKept
<1> QED BY <1>3, <1>6

-----------------------------------------------------------------------------
(* The theorem                                                             *)

LEMMA FeedInvInit == Init => FeedInv
<1>1. Init => TypeOK
  BY UserFeedAssumption DEF Init, TypeOK, Jobs, Requests
<1>2. Init => EndsInv
  BY DEF Init, EndsInv, Out, Senders, Resting
<1>3. ASSUME Init, NEW r \in Rows PROVE ~Due(r)
  BY <1>3, RowShape DEF Init, Due
<1> QED BY <1>1, <1>2, <1>3 DEF FeedInv, DueInv

LEMMA FeedInvNext == FeedInv /\ [Next]_vars => FeedInv'
<1> SUFFICES ASSUME FeedInv, [Next]_vars PROVE FeedInv'
  OBVIOUS
<1>1. TypeOK'
  BY NextType DEF FeedInv
<1>2. ASSUME NEW c \in Callers, Ask(c) \/ UnFollow(c) \/ Break(c) PROVE EndsInv' /\ DueInv'
  BY <1>2, AskStep, UnFollowStep, UnsentStep DEF Break
<1>3. ASSUME NEW w \in Workers, Handle(w) \/ Lose(w) PROVE EndsInv' /\ DueInv'
  BY <1>3, DoTaskStep, ReadPageStep, ReadFailsStep, InsertStep, ClearStep DEF Handle, Lose
<1>4. ASSUME NEW s \in Senders, Bus(s) PROVE EndsInv' /\ DueInv'
  BY <1>4, HandStep, BlockStep, OverloadStep DEF Bus
<1>5. CASE UNCHANGED vars
  <2>1. EndsInv'
    BY <1>5 DEF vars, FeedInv, EndsInv, Out, Ends
  <2>2. ASSUME NEW r \in Rows, Coming(r) PROVE (Coming(r))'
    <3>1. \A x \in Senders : \A e : Sends(x, e) => (Sends(x, e))'
      BY <1>5 DEF vars, Sends, Out
    <3>2. \A x \in Workers : Visits(x, r) => (Visits(x, r))'
      BY <1>5 DEF vars, Visits, Pair, FollowOf, CreateOf
    <3>3. (FollowOf(r))' = FollowOf(r) /\ (CreateOf(r))' = CreateOf(r)
      BY DEF Pair, FollowOf, CreateOf
    <3> QED BY <2>2, <3>1, <3>2, <3>3 DEF Coming
  <2>3. DueInv'
    BY <1>5, <2>2, DueKept DEF vars
  <2> QED BY <1>1, <2>1, <2>3 DEF FeedInv
<1>6. CASE Restart
  BY <1>1, <1>6, RestartStep DEF FeedInv
<1> QED BY <1>1, <1>2, <1>3, <1>4, <1>5, <1>6 DEF Next, FeedInv

\* For any pool, any number of topics and any bound on the senders that wait:
\* once the bus is quiet, no topic that was always visible is missing from the
\* feed of a follower who never stopped, whatever else failed, unless one of the
\* two events was refused, never sent or cut off by a restart, or the insert of
\* the row or the read of its page failed.
THEOREM FeedCompleteHolds == Spec => []FeedComplete
<1>1. ASSUME FeedInv, Quiet, NEW r \in Rows, Due(r) PROVE r \in feed
  <2>1. \A s \in Senders : Out(s).pc = "idle"
    BY <1>1 DEF Quiet, Out, Senders, Resting
  <2>2. \A w \in Workers : job[w].pc = "idle"
    BY <1>1 DEF Quiet, Resting
  <2>3. ~Coming(r)
    BY <2>1, <2>2 DEF Coming, Sends, Visits
  <2> QED BY <1>1, <2>3 DEF FeedInv, DueInv
<1>2. FeedInv => FeedComplete
  BY <1>1 DEF FeedComplete, Due, Pair, FollowOf, CreateOf
<1> QED BY <1>2, FeedInvInit, FeedInvNext, PTL DEF Spec
=============================================================================
