------------------------------ MODULE TaskEngine ------------------------------
(***************************************************************************)
(* The task engine: every event of a user advances the tasks of its type,  *)
(* in one transaction per event; a finished task leaves a log row and pays *)
(* points, experience and a badge.  Workers of the event bus handle        *)
(* several events of a user at the same time and in any order.             *)
(*                                                                         *)
(* One user and the tasks of one event type, in sort order.  A             *)
(* transaction's writes take effect at its commit; until then the rows and *)
(* unique keys it wrote are busy, and another transaction that writes one  *)
(* of them waits.  A read sees what is committed, or on MySQL (REPEATABLE  *)
(* READ) what was committed at the first read of the transaction.          *)
(*                                                                         *)
(* The error of the points is dropped.  If it is a deadlock, MySQL has     *)
(* undone the whole transaction and the event goes on without one: every   *)
(* later statement is a commit of its own ("auto").                        *)
(***************************************************************************)
EXTENDS Integers, Sequences, FiniteSets, FiniteSetsExt

CONSTANTS
  Handlers,      \* workers of the event bus
  NTasks,        \* the tasks are 1..NTasks, in sort order
  Days,          \* period keys of the periodic tasks
  Lifetime,      \* tasks without a period: their key is 0
  EventCount,    \* t_task_config.event_count
  MaxFinish,     \* t_task_config.max_finish_count
  ScoreTasks,    \* tasks whose score is not 0
  ExpTasks,      \* tasks whose exp is not 0
  BadgeTasks,    \* tasks that give the badge
  NeedExp,       \* t_level_config: the experience each level takes
  MySQL,         \* TRUE: MySQL; FALSE: PostgreSQL
  MaxEvents,     \* bound: events handled
  None

Tasks == 1..NTasks
Keys  == {0} \cup Days
Rows  == Tasks \X Keys

ASSUME TaskEngineAssumption ==
  /\ NTasks \in Nat /\ Days \subseteq Nat \ {0} /\ IsFiniteSet(Days)
  /\ EventCount \in [Tasks -> Nat \ {0}] /\ MaxFinish \in [Tasks -> Nat \ {0}]
  \* validateLevelConfigItems: only level 1 is free
  /\ NeedExp \in Seq(Nat) /\ \A n \in 2..Len(NeedExp) : NeedExp[n] > 0
  /\ MySQL \in BOOLEAN /\ MaxEvents \in Nat
  /\ None \notin Nat /\ None \notin [finish : Nat, count : Nat]

VARIABLES
  progress,    \* t_user_task_event by (task, period): finish and event count
  logs,        \* t_user_task_log: the finish numbers of each (task, period)
  scoreRows,   \* t_user_score_log rows of each (task, period)
  expRows,     \* t_user_exp_log rows of each (task, period)
  badge,       \* the user has the badge
  exp, level,  \* t_user
  begun,       \* events whose handling began
  handled,     \* history: events written to each row
  loose,       \* history: rows whose writes a lost transaction did not keep together
  tx           \* the transaction of each handler

stored == <<progress, logs, scoreRows, expRows, badge, exp, level>>
vars   == <<stored, begun, handled, loose, tx>>

Progress == [finish : Nat, count : Nat]
Zero == [finish |-> 0, count |-> 0]
Snapshots == [progress : [Rows -> Progress \cup {None}], badge : BOOLEAN, level : Nat]

\* "old" is the row of the task at hand as it was read, then as it was written, and
\* "oldLevel" likewise; new, newLogs, ... are writes not committed yet.
Idle == [pc |-> "idle", auto |-> FALSE, day |-> None, active |-> {}, task |-> 1, snap |-> None,
         old |-> Zero, oldLevel |-> 0, new |-> [r \in Rows |-> None], newLogs |-> {},
         scored |-> {}, expd |-> {}, newBadge |-> FALSE, newLevel |-> None, err |-> "none"]

Pcs == {"idle", "take", "create", "save", "log", "score", "exp_read", "exp",
        "exp_log", "level", "set_level", "badge", "give", "failed"}

Txs == [pc : Pcs, auto : BOOLEAN, day : Days \cup {None}, active : SUBSET Tasks,
        task : 1..(NTasks + 1), snap : Snapshots \cup {None}, old : Progress, oldLevel : Nat,
        new : [Rows -> Progress \cup {None}], newLogs : SUBSET (Rows \X Nat),
        scored : SUBSET Rows, expd : SUBSET Rows, newBadge : BOOLEAN,
        newLevel : Nat \cup {None},
        err : {"none", "duplicate row", "duplicate log", "duplicate badge", "database"}]

TypeOK ==
  /\ progress \in [Rows -> Progress \cup {None}]
  /\ logs \in [Rows -> SUBSET Nat]
  /\ scoreRows \in [Rows -> Nat] /\ expRows \in [Rows -> Nat]
  /\ badge \in BOOLEAN /\ exp \in Nat /\ level \in Nat
  /\ begun \in Nat /\ handled \in [Rows -> Nat] /\ loose \subseteq Rows
  /\ tx \in [Handlers -> Txs]

\* The highest level whose experience is reached; 1 when there is none.
CalcLevelByExp(e) == Max({1} \cup {n \in DOMAIN NeedExp : NeedExp[n] <= e})

Init ==
  /\ progress = [r \in Rows |-> None]
  /\ logs = [r \in Rows |-> {}]
  /\ scoreRows = [r \in Rows |-> 0] /\ expRows = [r \in Rows |-> 0]
  /\ badge = FALSE /\ exp = 0 /\ level = 1
  /\ begun = 0 /\ handled = [r \in Rows |-> 0] /\ loose = {}
  /\ tx = [h \in Handlers |-> Idle]

-----------------------------------------------------------------------------
(* What a transaction sees and what it has to wait for                     *)

GetPeriodKey(t, d) == IF t \in Lifetime THEN 0 ELSE d

Task(h) == tx[h].task
Row(h)  == <<Task(h), GetPeriodKey(Task(h), tx[h].day)>>

Committed == [progress |-> progress, badge |-> badge, level |-> level]
View(h)   == IF tx[h].snap = None THEN Committed ELSE tx[h].snap

Others(h) == Handlers \ {h}
WritesUser(g) == tx[g].scored # {} \/ tx[g].expd # {}

\* The next write of g needs a row or a key that k has written.
Waits(g, k) ==
  \/ tx[g].pc \in {"create", "save"} /\ tx[k].new[Row(g)] # None
  \/ tx[g].pc = "log" /\ <<Row(g), tx[g].old.finish>> \in tx[k].newLogs
  \/ tx[g].pc = "score" /\ Task(g) \in ScoreTasks /\ WritesUser(k)
  \/ tx[g].pc \in {"exp", "set_level"} /\ WritesUser(k)
  \/ tx[g].pc = "give" /\ tx[k].newBadge

Free(h) == \A g \in Others(h) : ~ Waits(h, g)

\* h waits in a cycle.
Deadlocked(h) ==
  \E C \in SUBSET Handlers : h \in C /\ \A g \in C : \E k \in C \ {g} : Waits(g, k)

NextTask(h) == [tx[h] EXCEPT !.pc = "take", !.task = @ + 1]
Rollback(h, err) == [Idle EXCEPT !.pc = "failed", !.err = err]

NoRows == [r \in Rows |-> None]

\* A transaction without its writes.
Bare(self) == [self EXCEPT !.new = NoRows, !.newLogs = {}, !.scored = {}, !.expd = {},
                           !.newBadge = FALSE, !.newLevel = None]

\* The writes of a transaction take effect.
Write(self) ==
  /\ progress' = [r \in Rows |-> IF self.new[r] # None THEN self.new[r] ELSE progress[r]]
  /\ logs' = [r \in Rows |-> logs[r] \cup {l[2] : l \in {m \in self.newLogs : m[1] = r}}]
  /\ scoreRows' = [r \in Rows |-> scoreRows[r] + (IF r \in self.scored THEN 1 ELSE 0)]
  /\ expRows' = [r \in Rows |-> expRows[r] + (IF r \in self.expd THEN 1 ELSE 0)]
  /\ badge' = (badge \/ self.newBadge)
  /\ exp' = exp + Cardinality(self.expd)
  /\ level' = IF self.newLevel # None THEN self.newLevel ELSE level
  /\ handled' = [r \in Rows |-> handled[r] + (IF self.new[r] \in {None, Zero} THEN 0 ELSE 1)]

\* A statement leaves h with the transaction "new", or commits what it wrote.
Become(h, new) ==
  /\ IF tx[h].auto
     THEN Write(new) /\ tx' = [tx EXCEPT ![h] = Bare(new)]
     ELSE UNCHANGED <<stored, handled>> /\ tx' = [tx EXCEPT ![h] = new]
  /\ UNCHANGED <<begun, loose>>

-----------------------------------------------------------------------------
(* HandleUserEvent                                                         *)

\* An event of day d; the tasks in T are switched on and in their time window.
Begin(h, d, T) ==
  /\ tx[h].pc = "idle"
  /\ begun < MaxEvents
  /\ begun' = begun + 1
  /\ tx' = [tx EXCEPT ![h] = [Idle EXCEPT !.pc = "take", !.day = d, !.active = T]]
  /\ UNCHANGED <<stored, handled, loose>>

\* Variant for mutation: a finished task is counted on.
TakeFinished(h) ==
  LET seen == View(h).progress[Row(h)]
      self == [tx[h] EXCEPT !.snap = IF MySQL /\ ~ tx[h].auto THEN View(h) ELSE None] IN
  /\ tx[h].pc = "take" /\ Task(h) \in tx[h].active
  /\ Become(h, IF seen = None THEN [self EXCEPT !.pc = "create"]
                              ELSE [self EXCEPT !.pc = "save", !.old = seen])

\* The row of the task: there is none yet, or it leaves finishes to earn.
Take(h) ==
  LET seen == View(h).progress[Row(h)]
      self == [tx[h] EXCEPT !.snap = IF MySQL /\ ~ tx[h].auto THEN View(h) ELSE None] IN
  /\ tx[h].pc = "take" /\ Task(h) \in tx[h].active
  /\ \/ seen = None /\ Become(h, [self EXCEPT !.pc = "create"])
     \/ /\ seen # None /\ seen.finish < MaxFinish[Task(h)]
        /\ Become(h, [self EXCEPT !.pc = "save", !.old = seen])
     \/ /\ seen # None /\ seen.finish >= MaxFinish[Task(h)]
        /\ Become(h, [self EXCEPT !.task = @ + 1])

SkipInactive(h) ==
  /\ tx[h].pc = "take" /\ Task(h) \in Tasks \ tx[h].active
  /\ Become(h, NextTask(h))

\* The unique index on (user, period, task) refuses a second row; this error
\* is not one that is skipped.
Create(h) ==
  /\ tx[h].pc = "create"
  /\ Free(h)
  /\ Become(h, IF progress[Row(h)] # None
               THEN Rollback(h, "duplicate row")
               ELSE [tx[h] EXCEPT !.pc = "save", !.old = Zero, !.new[Row(h)] = Zero])

\* Variants for mutation: the last event counts for the next finish as well;
\* events are counted down.
AdvanceKeeping(t, p) ==
  IF p.count + 1 < EventCount[t] THEN [p EXCEPT !.count = @ + 1]
  ELSE [finish |-> p.finish + 1, count |-> 1]

AdvanceDown(t, p) ==
  IF p.count + 1 < EventCount[t] THEN [p EXCEPT !.count = @ - 1]
  ELSE [finish |-> p.finish + 1, count |-> 0]

\* One event more; the count starts again when it is full.
Advance(t, p) ==
  IF p.count + 1 < EventCount[t] THEN [p EXCEPT !.count = @ + 1]
  ELSE [finish |-> p.finish + 1, count |-> 0]

\* The whole row is written, from the copy that was read.
Save(h) ==
  LET new == Advance(Task(h), tx[h].old) IN
  /\ tx[h].pc = "save"
  /\ Free(h)
  /\ Become(h, IF new.finish = tx[h].old.finish
               THEN [NextTask(h) EXCEPT !.new[Row(h)] = new]
               ELSE [tx[h] EXCEPT !.pc = "log", !.old = new, !.new[Row(h)] = new])

\* Variant for mutation: no unique index on the log.
InsertLogAgain(h) ==
  LET n == tx[h].old.finish IN
  /\ tx[h].pc = "log"
  /\ Become(h, [tx[h] EXCEPT !.pc = "score", !.newLogs = @ \cup {<<Row(h), n>>}])

\* The log row (user, period, task, finish number): skip the reward if there
\* is one already.  PostgreSQL's error is not recognised as a duplicate.
InsertLog(h) ==
  LET n == tx[h].old.finish IN
  /\ tx[h].pc = "log"
  /\ Free(h)
  /\ \/ /\ n \notin logs[Row(h)]
        /\ Become(h, [tx[h] EXCEPT !.pc = "score", !.newLogs = @ \cup {<<Row(h), n>>}])
     \/ /\ n \in logs[Row(h)]
        /\ Become(h, IF MySQL THEN NextTask(h) ELSE Rollback(h, "duplicate log"))

-----------------------------------------------------------------------------
(* grantReward                                                             *)

\* An error of addScore is ignored; if it is no deadlock, MySQL lets the transaction
\* go on after it.
Score(h) ==
  /\ tx[h].pc = "score"
  /\ \/ Task(h) \notin ScoreTasks /\ Become(h, [tx[h] EXCEPT !.pc = "exp_read"])
     \/ /\ Task(h) \in ScoreTasks /\ Free(h)
        /\ Become(h, [tx[h] EXCEPT !.pc = "exp_read", !.scored = @ \cup {Row(h)}])
     \/ Task(h) \in ScoreTasks /\ MySQL /\ Become(h, [tx[h] EXCEPT !.pc = "exp_read"])

\* The error is a deadlock: what was written is undone, and what follows is kept.
ScoreDeadlock(h) ==
  /\ tx[h].pc = "score" /\ MySQL /\ ~ tx[h].auto
  /\ Deadlocked(h)
  /\ tx' = [tx EXCEPT ![h] = [Bare(@) EXCEPT !.pc = "exp_read", !.auto = TRUE, !.snap = None]]
  /\ loose' = loose \cup {<<t, GetPeriodKey(t, tx[h].day)>> :
                            t \in {u \in tx[h].active : u >= Task(h)}}
  /\ UNCHANGED <<stored, begun, handled>>

\* The level before: its own once the transaction has written the user.
ExpRead(h) ==
  /\ tx[h].pc = "exp_read"
  /\ \/ Task(h) \notin ExpTasks /\ Become(h, [tx[h] EXCEPT !.pc = "badge"])
     \/ /\ Task(h) \in ExpTasks
        /\ Become(h, [tx[h] EXCEPT !.pc = "exp", !.oldLevel =
                       IF tx[h].newLevel # None THEN tx[h].newLevel
                       ELSE IF WritesUser(h) THEN level ELSE View(h).level])

\* Variant for mutation: the level is computed before the experience is added.
AddExpLate(h) ==
  LET new == CalcLevelByExp(exp + Cardinality(tx[h].expd)) IN
  /\ tx[h].pc = "exp" /\ ~ tx[h].auto
  /\ Free(h)
  /\ Become(h, [tx[h] EXCEPT !.pc = "badge", !.expd = @ \cup {Row(h)},
                             !.newLevel = IF new # tx[h].oldLevel THEN new ELSE @])

\* exp = exp + 1 on the row, then the level it gives.
AddExp(h) ==
  LET new == CalcLevelByExp(exp + Cardinality(tx[h].expd) + 1) IN
  /\ tx[h].pc = "exp" /\ ~ tx[h].auto
  /\ Free(h)
  /\ Become(h, [tx[h] EXCEPT !.pc = "badge", !.expd = @ \cup {Row(h)},
                             !.newLevel = IF new # tx[h].oldLevel THEN new ELSE @])

\* Without a transaction: the experience, its log row, and the level, each for itself.
AutoAddExp(h) ==
  /\ tx[h].pc = "exp" /\ tx[h].auto
  /\ Free(h)
  /\ exp' = exp + 1
  /\ tx' = [tx EXCEPT ![h].pc = "exp_log"]
  /\ UNCHANGED <<progress, logs, scoreRows, expRows, badge, level, begun, handled, loose>>

AutoLogExp(h) ==
  /\ tx[h].pc = "exp_log" /\ tx[h].auto
  /\ expRows' = [expRows EXCEPT ![Row(h)] = @ + 1]
  /\ tx' = [tx EXCEPT ![h].pc = "level"]
  /\ UNCHANGED <<progress, logs, scoreRows, badge, exp, level, begun, handled, loose>>

AutoReadLevel(h) ==
  LET new == CalcLevelByExp(exp) IN
  /\ tx[h].pc = "level" /\ tx[h].auto
  /\ Become(h, IF new # tx[h].oldLevel
               THEN [tx[h] EXCEPT !.pc = "set_level", !.oldLevel = new]
               ELSE [tx[h] EXCEPT !.pc = "badge"])

AutoSetLevel(h) ==
  /\ tx[h].pc = "set_level" /\ tx[h].auto
  /\ Free(h)
  /\ Become(h, [tx[h] EXCEPT !.pc = "badge", !.newLevel = tx[h].oldLevel])

CheckBadge(h) ==
  /\ tx[h].pc = "badge"
  /\ Become(h, IF Task(h) \notin BadgeTasks \/ View(h).badge \/ tx[h].newBadge
               THEN NextTask(h)
               ELSE [tx[h] EXCEPT !.pc = "give"])

\* The unique index on (user, badge) fails the whole event.
GiveBadge(h) ==
  /\ tx[h].pc = "give"
  /\ Free(h)
  /\ Become(h, IF badge THEN Rollback(h, "duplicate badge")
                        ELSE [NextTask(h) EXCEPT !.newBadge = TRUE])

-----------------------------------------------------------------------------
Commit(h) ==
  /\ tx[h].pc = "take" /\ Task(h) = NTasks + 1
  /\ Write(tx[h])
  /\ tx' = [tx EXCEPT ![h] = Idle]
  /\ UNCHANGED <<begun, loose>>

\* A statement fails, by a deadlock, a timeout or a lost connection, and its error is
\* returned: what is not committed is rolled back.
Abort(h) ==
  /\ tx[h].pc \notin {"idle", "failed"}
  /\ Become(h, Rollback(h, "database"))

\* The error is only logged.
Drop(h) == tx[h].pc = "failed" /\ Become(h, Idle)

Step(h) ==
  \/ \E d \in Days, T \in SUBSET Tasks : Begin(h, d, T)
  \/ Take(h) \/ SkipInactive(h) \/ Create(h) \/ Save(h) \/ InsertLog(h)
  \/ Score(h) \/ ScoreDeadlock(h) \/ ExpRead(h) \/ AddExp(h) \/ AutoAddExp(h)
  \/ AutoLogExp(h) \/ AutoReadLevel(h) \/ AutoSetLevel(h) \/ CheckBadge(h) \/ GiveBadge(h)
  \/ Commit(h) \/ Abort(h) \/ Drop(h)

Next == \E h \in Handlers : Step(h)

Spec == Init /\ [][Next]_vars

-----------------------------------------------------------------------------
(* Properties                                                              *)

\* No finish is logged that was not earned: finish n took n times its number of
\* events, each written to the row and committed, whatever rows stale copies overwrote
\* (Save, task_engine_service.go:152-164, writes the full row without a condition).
FinishesEarned ==
  \A r \in Rows : \A n \in logs[r] : n * EventCount[r[1]] <= handled[r]

\* Finish numbers stop at the maximum and leave no gap, and the counter on the row,
\* which a stale copy may set back, never claims a finish without a log.  Only rows that
\* an event wrote after it lost its transaction to a deadlock may have a gap.
FinishesNumbered ==
  \A r \in Rows :
    /\ logs[r] \subseteq 1..MaxFinish[r[1]]
    /\ r \notin loose =>
         /\ \A n \in logs[r] : n > 1 => n - 1 \in logs[r]
         /\ progress[r] # None => progress[r].finish \in logs[r] \cup {0}

\* Every logged finish was rewarded once: experience with the log row in one
\* transaction, points at most once (their error is ignored, grantReward).  The
\* exception are the tasks an event went on to reward after the points of one of them
\* had lost it the transaction: that is where the dropped error matters.
RewardedOnce ==
  \A r \in Rows \ loose :
    /\ expRows[r] = IF r[1] \in ExpTasks THEN Cardinality(logs[r]) ELSE 0
    /\ scoreRows[r] <= IF r[1] \in ScoreTasks THEN Cardinality(logs[r]) ELSE 0

\* The level is that of the experience, although addExpTx compares it with a
\* level read before it waited for the row of the user, as long as no event lost its
\* transaction.
LevelMatchesExp == loose = {} => level = CalcLevelByExp(exp)

\* "已存在则跳过（避免重复发奖）" (task_engine_service.go:179, and the test
\* DuplicateLogIgnored): a log row that exists is skipped and the event
\* counted, not lost with every other task of the event.
DuplicateLogSkipped == \A h \in Handlers : tx[h].err # "duplicate log"

\* With a single worker no event is refused for a duplicate, and the log has exactly
\* the finishes the progress row claims: only overlapping events lose either.
Finishes(r) == IF progress[r] = None THEN 0 ELSE progress[r].finish
ExactAlone ==
  /\ \A h \in Handlers : tx[h].err \in {"none", "database"}
  /\ \A r \in Rows : logs[r] = 1..Finishes(r)
=============================================================================
