------------------------------- MODULE UserFeed -------------------------------
(***************************************************************************)
(* The event bus and the feed it keeps.  A request commits and then sends  *)
(* its event; a pool of workers handles the events, in any order and in    *)
(* parallel, and fills or clears t_user_feed by reading the database as it *)
(* is then.  Sending blocks while every worker is busy, fails when too     *)
(* many wait already, and is also done by the workers themselves.  Nothing *)
(* is sent or read again: what a failed statement, a commit without answer *)
(* or a restart of the process cuts off is lost.                           *)
(***************************************************************************)
EXTENDS Integers, FiniteSets

CONSTANTS
  Callers,       \* goroutines of HTTP requests
  Workers,       \* goroutines of the pool
  Users, Authors,
  NTopics,       \* topic ids are 1..NTopics
  Author,        \* the author of each topic
  MaxBlocking,   \* ants.WithMaxBlockingTasks
  MaxFollows,    \* bound: t_user_follow rows ever inserted
  MaxRequests,   \* bound: requests begun
  MaxLevelUps,   \* bound: events sent by workers
  MaxFailures    \* bound: failed statements, lost answers and restarts

Topics == 1..NTopics
Pairs  == Users \X Authors
Rows   == Users \X Topics

ASSUME UserFeedAssumption ==
  /\ NTopics \in Nat /\ Author \in [Topics -> Authors]
  /\ MaxBlocking \in Nat /\ MaxFollows \in Nat /\ MaxRequests \in Nat /\ MaxLevelUps \in Nat
  /\ MaxFailures \in Nat
  /\ Callers \cap Workers = {} /\ IsFiniteSet(Callers) /\ IsFiniteSet(Workers)

VARIABLES
  status,      \* t_topic.status
  follows,     \* id of the t_user_follow row of each pair; 0: no row
  feed,        \* t_user_feed
  request,     \* what each caller is doing
  job,         \* what each worker is doing
  requests, levelUps, failures,
  unfollowed,  \* history: pairs for which an UnFollow was carried out
  hidden,      \* history: topics that were not visible once
  dropped,     \* history: events that the bus refused, that were never sent
               \*   or that a restart cut off
  missed       \* history: rows whose insert, or whose page's read, failed

vars == <<status, follows, feed, request, job, requests, levelUps, failures,
          unfollowed, hidden, dropped, missed>>

Events ==
  [type : {"Follow", "UnFollow"}, pair : Pairs]
    \cup [type : {"TopicCreate", "TopicDelete"}, topic : Topics]
    \cup {[type |-> "LevelUp"]}

OfType(T) == {e \in Events : e.type \in T}

\* "out" is the event to send.
Resting  == [pc |-> "idle"]
Sending  == [pc : {"send", "wait"}, out : Events]
Requests == {Resting} \cup Sending \cup [pc : {"unfollow"}, pair : Pairs]

\* "rest" are the rows of the page at hand that are not inserted yet, by the
\* id they were read with; "cursor" is the last id read.
Jobs ==
  {Resting}
    \cup [pc : {"task"}, event : OfType({"Follow", "TopicCreate", "LevelUp"})]
    \cup [pc : {"clear"}, event : OfType({"UnFollow", "TopicDelete"})]
    \cup [pc : {"scan"}, event : OfType({"Follow", "TopicCreate"}),
          cursor : Nat, rest : SUBSET (Nat \X Rows)]
    \cup [pc : {"send", "wait"}, event : OfType({"Follow", "TopicCreate", "LevelUp"}), out : Events]

TypeOK ==
  /\ status \in [Topics -> {"none", "ok", "review", "deleted"}]
  /\ follows \in [Pairs -> 0..MaxFollows] /\ feed \subseteq Rows
  /\ request \in [Callers -> Requests] /\ job \in [Workers -> Jobs]
  /\ requests \in Nat /\ levelUps \in Nat /\ failures \in Nat
  /\ missed \subseteq Rows
  /\ unfollowed \subseteq Pairs /\ hidden \subseteq Topics /\ dropped \subseteq Events

Init ==
  /\ status = [t \in Topics |-> "none"] /\ follows = [p \in Pairs |-> 0] /\ feed = {}
  /\ request = [c \in Callers |-> Resting] /\ job = [w \in Workers |-> Resting]
  /\ requests = 0 /\ levelUps = 0 /\ failures = 0
  /\ unfollowed = {} /\ hidden = {} /\ dropped = {} /\ missed = {}

-----------------------------------------------------------------------------
(* What fails                                                              *)

Failing(rows, events) ==
  /\ failures < MaxFailures /\ failures' = failures + 1
  /\ missed' = missed \cup rows
  /\ dropped' = dropped \cup events

Well == UNCHANGED <<failures, missed, dropped>>

-----------------------------------------------------------------------------
(* Requests: commit, then send                                             *)

Send(e) == [pc |-> "send", out |-> e]

Requested(c, new) ==
  /\ request[c] = Resting /\ requests < MaxRequests
  /\ requests' = requests + 1
  /\ request' = [request EXCEPT ![c] = new]
  /\ UNCHANGED <<feed, job, levelUps>> /\ Well

\* A topic that contains a forbidden word waits for its audit; its event is
\* sent all the same.
Publish(c, t, s) ==
  /\ status[t] = "none"
  /\ Requested(c, Send([type |-> "TopicCreate", topic |-> t]))
  /\ status' = [status EXCEPT ![t] = s]
  /\ hidden' = IF s = "ok" THEN hidden ELSE hidden \cup {t}
  /\ UNCHANGED <<follows, unfollowed>>

DeleteTopic(c, t) ==
  /\ status[t] # "none"
  /\ Requested(c, Send([type |-> "TopicDelete", topic |-> t]))
  /\ status' = [status EXCEPT ![t] = "deleted"]
  /\ hidden' = hidden \cup {t}
  /\ UNCHANGED <<follows, unfollowed>>

\* Audit and Undelete make a topic visible and send nothing.
Show(c, t) ==
  /\ status[t] \in {"review", "deleted"}
  /\ Requested(c, Resting)
  /\ status' = [status EXCEPT ![t] = "ok"]
  /\ UNCHANGED <<follows, unfollowed, hidden>>

\* Row ids are given before the commit, so they do not commit in order.
Follow(c, p) ==
  /\ follows[p] = 0
  /\ \E id \in 1..MaxFollows :
       /\ \A q \in Pairs : follows[q] # id
       /\ follows' = [follows EXCEPT ![p] = id]
  /\ Requested(c, Send([type |-> "Follow", pair |-> p]))
  /\ UNCHANGED <<status, unfollowed, hidden>>

UnFollowRead(c, p) ==
  /\ follows[p] # 0
  /\ Requested(c, [pc |-> "unfollow", pair |-> p])
  /\ UNCHANGED <<status, follows, unfollowed, hidden>>

\* The event is sent whether or not a row was deleted.
UnFollowed(c, p) ==
  /\ request[c].pc = "unfollow" /\ request[c].pair = p
  /\ unfollowed' = unfollowed \cup {p}
  /\ request' = [request EXCEPT ![c] = Send([type |-> "UnFollow", pair |-> p])]
  /\ UNCHANGED <<status, feed, job, requests, levelUps, hidden>>

UnFollow(c) ==
  \E p \in Pairs : UnFollowed(c, p) /\ follows' = [follows EXCEPT ![p] = 0] /\ Well

\* The error of the deletion is not looked at.
DeletionFails(c) ==
  /\ \E p \in Pairs : UnFollowed(c, p)
  /\ Failing({}, {}) /\ UNCHANGED follows

\* An error of a later statement undoes the deletion and is answered.
UnFollowFails(c) ==
  /\ request[c].pc = "unfollow"
  /\ request' = [request EXCEPT ![c] = Resting]
  /\ Failing({}, {})
  /\ UNCHANGED <<status, follows, feed, job, requests, levelUps, unfollowed, hidden>>

\* The commit took place but its answer was lost: an error for the request.
Unsent(c) ==
  /\ request[c].pc = "send"
  /\ request' = [request EXCEPT ![c] = Resting]
  /\ Failing({}, {request[c].out})
  /\ UNCHANGED <<status, follows, feed, job, requests, levelUps, unfollowed, hidden>>

-----------------------------------------------------------------------------
(* The pool                                                                *)

Running(pc, e) == [pc |-> pc, event |-> e]
Scanning(e)    == [pc |-> "scan", event |-> e, cursor |-> 0, rest |-> {}]

\* The first handler of an event, in the order of registration.
First(e) ==
  CASE e.type = "Follow" -> Scanning(e)
    [] e.type \in {"UnFollow", "TopicDelete"} -> Running("clear", e)
    [] e.type \in {"TopicCreate", "LevelUp"} -> Running("task", e)

\* What follows the task engine's handler.
AfterTask(e) == IF e.type = "TopicCreate" THEN Scanning(e) ELSE Resting

Senders  == Callers \cup Workers
Out(s)   == IF s \in Callers THEN request[s] ELSE job[s]
Idle     == {w \in Workers : job[w] = Resting}
Waiting  == {s \in Senders : Out(s).pc = "wait"}

\* The sender goes on; started are the jobs with the event handed over.
Sent(s, started) ==
  IF s \in Callers
  THEN request' = [request EXCEPT ![s] = Resting] /\ job' = started
  ELSE job' = [started EXCEPT ![s] = AfterTask(job[s].event)] /\ UNCHANGED request

Hand(s, w) ==
  /\ Out(s).pc \in {"send", "wait"} /\ w \in Idle
  /\ Sent(s, [job EXCEPT ![w] = First(Out(s).out)])
  /\ UNCHANGED <<status, follows, feed, requests, levelUps, unfollowed, hidden>> /\ Well

Block(s) ==
  /\ Out(s).pc = "send" /\ Idle = {} /\ Cardinality(Waiting) < MaxBlocking
  /\ IF s \in Callers THEN request' = [request EXCEPT ![s].pc = "wait"] /\ UNCHANGED job
                      ELSE job' = [job EXCEPT ![s].pc = "wait"] /\ UNCHANGED request
  /\ UNCHANGED <<status, follows, feed, requests, levelUps, unfollowed, hidden>> /\ Well

\* The error is only logged.
Overload(s) ==
  /\ Out(s).pc = "send" /\ Idle = {} /\ Cardinality(Waiting) >= MaxBlocking
  /\ dropped' = dropped \cup {Out(s).out}
  /\ Sent(s, job)
  /\ UNCHANGED <<status, follows, feed, requests, levelUps, failures, unfollowed, hidden, missed>>

-----------------------------------------------------------------------------
(* Handlers                                                                *)

Works(w, new) ==
  /\ job' = [job EXCEPT ![w] = new]
  /\ UNCHANGED <<status, follows, request, requests, unfollowed, hidden>>

\* The task engine (TaskEngine) may raise the level or give a badge.
DoTask(w) ==
  LET e == job[w].event IN
  /\ job[w].pc = "task"
  /\ \/ Works(w, AfterTask(e)) /\ UNCHANGED levelUps
     \/ /\ levelUps < MaxLevelUps /\ levelUps' = levelUps + 1
        /\ Works(w, [pc |-> "send", event |-> e, out |-> [type |-> "LevelUp"]])
  /\ UNCHANGED feed /\ Well

\* The rows a handler has to visit: topics of the author (ScanByUser) that are
\* visible, or followers of the author (ScanFans).
Scanned(e) ==
  IF e.type = "Follow"
  THEN {<<t, <<e.pair[1], t>>>> : t \in {x \in Topics : Author[x] = e.pair[2] /\ status[x] # "none"}}
  ELSE {<<follows[p], <<p[1], e.topic>>>> :
          p \in {q \in Pairs : q[2] = Author[e.topic] /\ follows[q] # 0}}

\* Only a topic that is visible now enters the feed of a new follower.
Wanted(e, page) ==
  IF e.type = "Follow" THEN {r \in page : status[r[1]] = "ok"} ELSE page

\* What follows the scan.
AfterScan(e) == IF e.type = "Follow" THEN Running("task", e) ELSE Resting

\* Variant for mutation: the next page starts where this one did.
ReadPageAgain(w) ==
  LET self == job[w]
      left == {r \in Scanned(self.event) : r[1] > self.cursor} IN
  /\ self.pc = "scan" /\ self.rest = {}
  /\ \/ left = {} /\ Works(w, AfterScan(self.event))
     \/ \E last \in left :
          Works(w, [self EXCEPT !.rest = Wanted(self.event, {r \in left : r[1] <= last[1]})])
  /\ UNCHANGED <<feed, levelUps>> /\ Well

\* A page is the first rows after the cursor, by id; how many is left open, so
\* that a read that broke off half-way is one of them.
ReadPage(w) ==
  LET self == job[w]
      left == {r \in Scanned(self.event) : r[1] > self.cursor} IN
  /\ self.pc = "scan" /\ self.rest = {}
  /\ \/ left = {} /\ Works(w, AfterScan(self.event))
     \/ \E last \in left :
          Works(w, [self EXCEPT !.cursor = last[1],
                                !.rest = Wanted(self.event, {r \in left : r[1] <= last[1]})])
  /\ UNCHANGED <<feed, levelUps>> /\ Well

\* A failed read returns no row, and no row ends the scan.
ReadFails(w) ==
  LET self == job[w]
      left == {r \in Scanned(self.event) : r[1] > self.cursor} IN
  /\ self.pc = "scan" /\ self.rest = {}
  /\ Failing({r[2] : r \in Wanted(self.event, left)}, {})
  /\ Works(w, AfterScan(self.event))
  /\ UNCHANGED <<feed, levelUps>>

\* Variants for mutation: a row that exists ends the scan; user and topic are
\* written into each other's column.
InsertOrStop(w) ==
  LET self == job[w] IN
  /\ self.pc = "scan"
  /\ \E row \in self.rest :
       /\ \A q \in self.rest : row[1] <= q[1]
       /\ feed' = feed \cup {row[2]}
       /\ Works(w, IF row[2] \in feed THEN AfterScan(self.event)
                                      ELSE [self EXCEPT !.rest = @ \ {row}])
  /\ UNCHANGED levelUps /\ Well

InsertSwapped(w) ==
  LET self == job[w] IN
  /\ self.pc = "scan"
  /\ \E row \in self.rest :
       /\ \A q \in self.rest : row[1] <= q[1]
       /\ feed' = feed \cup {<<row[2][2], row[2][1]>>}
       /\ Works(w, [self EXCEPT !.rest = @ \ {row}])
  /\ UNCHANGED levelUps /\ Well

\* One row after the other, by id, each in a transaction of its own; a row
\* that exists is refused by the unique index and the handler goes on.
Insert(w) ==
  LET self == job[w] IN
  /\ self.pc = "scan"
  /\ \E row \in self.rest :
       /\ \A q \in self.rest : row[1] <= q[1]
       /\ feed' = feed \cup {row[2]}
       /\ Works(w, [self EXCEPT !.rest = @ \ {row}])
  /\ UNCHANGED levelUps /\ Well

\* The error is dropped by "follow" and logged by "create": the handler goes
\* on with the next row.
InsertFails(w) ==
  LET self == job[w] IN
  /\ self.pc = "scan"
  /\ \E row \in self.rest :
       /\ \A q \in self.rest : row[1] <= q[1]
       /\ Failing({row[2]}, {})
       /\ Works(w, [self EXCEPT !.rest = @ \ {row}])
  /\ UNCHANGED <<feed, levelUps>>

DeleteByUser(p)   == {r \in Rows : r[1] = p[1] /\ Author[r[2]] = p[2]}
DeleteByDataId(t) == {r \in Rows : r[2] = t}

Cleared(e) == IF e.type = "UnFollow" THEN DeleteByUser(e.pair) ELSE DeleteByDataId(e.topic)

Clear(w) ==
  /\ job[w].pc = "clear"
  /\ feed' = feed \ Cleared(job[w].event)
  /\ Works(w, Resting)
  /\ UNCHANGED levelUps /\ Well

\* The error is not looked at.
ClearFails(w) ==
  /\ job[w].pc = "clear"
  /\ Failing({}, {})
  /\ Works(w, Resting)
  /\ UNCHANGED <<feed, levelUps>>

\* Whoever sends or handles an event when the process stops never goes on.
UnderWay ==
  {Out(s).out : s \in {x \in Senders : Out(x).pc \in {"send", "wait"}}}
    \cup {job[w].event : w \in Workers \ Idle}

Restart ==
  /\ request' = [c \in Callers |-> Resting] /\ job' = [w \in Workers |-> Resting]
  /\ Failing({}, UnderWay)
  /\ UNCHANGED <<status, follows, feed, requests, levelUps, unfollowed, hidden>>

-----------------------------------------------------------------------------
Ask(c) ==
  \/ \E t \in Topics :
       \/ \E s \in {"ok", "review"} : Publish(c, t, s)
       \/ DeleteTopic(c, t) \/ Show(c, t)
  \/ \E p \in Pairs : Follow(c, p) \/ UnFollowRead(c, p)

Handle(w) == DoTask(w) \/ ReadPage(w) \/ Insert(w) \/ Clear(w)

Bus(s) == (\E w \in Workers : Hand(s, w)) \/ Block(s) \/ Overload(s)

Break(c) == DeletionFails(c) \/ UnFollowFails(c) \/ Unsent(c)

Lose(w) == ReadFails(w) \/ InsertFails(w) \/ ClearFails(w)

Next ==
  \/ \E c \in Callers : Ask(c) \/ UnFollow(c) \/ Break(c)
  \/ \E w \in Workers : Handle(w) \/ Lose(w)
  \/ \E s \in Senders : Bus(s)
  \/ Restart

Spec == Init /\ [][Next]_vars

\* A goroutine that can go on does; nothing has to fail.
FairSpec ==
  /\ Spec
  /\ \A c \in Callers : WF_vars(UnFollow(c))
  /\ \A w \in Workers : WF_vars(Handle(w))
  /\ \A s \in Senders : WF_vars(Bus(s))

-----------------------------------------------------------------------------
(* Properties                                                              *)

Quiet == (\A c \in Callers : request[c] = Resting) /\ (\A w \in Workers : job[w] = Resting)

\* A topic is only missed where a handler never got to it: once the bus is
\* quiet, whoever follows an author and never stopped has each topic of theirs
\* that was always visible, whichever of the handlers of "follow" and "create"
\* read the other's row first, in what order ids were given, and whatever else
\* failed, unless one of the two events was lost (refused, event.go:38; not
\* sent; cut off by a restart) or the row's own insert (follow_handler.go:24,
\* topic_create_handler.go:21) or the read of its page (topic_service.go:528,
\* user_follow_service.go:217) failed.
FeedComplete ==
  Quiet =>
    \A r \in Rows :
      LET p == <<r[1], Author[r[2]]>>  t == r[2] IN
      /\ follows[p] # 0 /\ p \notin unfollowed
      /\ status[t] = "ok" /\ t \notin hidden
      /\ [type |-> "Follow", pair |-> p] \notin dropped
      /\ [type |-> "TopicCreate", topic |-> t] \notin dropped
      /\ r \notin missed
      => r \in feed

\* Every worker is in Send: they wait for each other (Send, event.go:38-45,
\* called by the handlers of user_service.go:885, task_engine_service.go:215).
AllSending == \A w \in Workers : job[w].pc = "wait"

\* Whoever sends an event goes on, unless every worker is waiting in Send.
SendersGoOn ==
  \A s \in Senders : Out(s).pc \in {"send", "wait"} ~> Out(s).pc \notin {"send", "wait"} \/ AllSending
=============================================================================
