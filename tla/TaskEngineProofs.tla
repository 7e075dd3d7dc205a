--------------------------- MODULE TaskEngineProofs ---------------------------
(* What TaskEngine promises for any workers, tasks, periods and limits.     *)
EXTENDS TaskEngine, FiniteSetTheorems, WellFoundedInduction,
        NaturalsInduction, TLAPS

-----------------------------------------------------------------------------
(* The level that an amount of experience gives                            *)

\* A bounded set of natural numbers that is not empty has a greatest element.
LEMMA MaxOfBounded ==
  ASSUME NEW N \in Nat, NEW S, S \subseteq 0..N, S # {}
  PROVE  Max(S) \in S /\ \A x \in S : x <= Max(S)
<1> DEFINE T == {N - x : x \in S}
<1>0. \A x \in S : x \in Nat /\ N - x \in Nat
  OBVIOUS
<1>1. T \subseteq Nat /\ T # {}
  BY <1>0
<1>2. PICK y \in T : \A z \in T : ~ (<<z, y>> \in OpToRel(<, Nat))
  BY <1>1, NatLessThanWellFounded, WFMin
<1>3. PICK x \in S : y = N - x
  OBVIOUS
<1>4. \A z \in S : z <= x
  <2> SUFFICES ASSUME NEW z \in S PROVE z <= x
    OBVIOUS
  <2>1. N - z \in T /\ N - z \in Nat /\ y \in Nat
    BY <1>1
  <2>2. ~ (N - z < y)
    BY <2>1, <1>2 DEF OpToRel
  <2> QED BY <2>2, <1>3
<1> QED BY <1>4 DEF Max

\* calcLevelByExp is a level, and more experience never gives a lower one.
LEMMA LevelsNat ==
  ASSUME NEW e \in Nat
  PROVE  /\ CalcLevelByExp(e) \in Nat
         /\ \A d \in Nat : d <= e => CalcLevelByExp(d) <= CalcLevelByExp(e)
<1> DEFINE S(d) == {1} \cup {n \in DOMAIN NeedExp : NeedExp[n] <= d}
           N == Len(NeedExp) + 1
<1>1. N \in Nat /\ \A d \in Nat : S(d) \subseteq 0..N /\ S(d) # {}
  BY TaskEngineAssumption
<1>2. \A d \in Nat : Max(S(d)) \in S(d) /\ \A x \in S(d) : x <= Max(S(d))
  BY <1>1, MaxOfBounded
<1>3. \A d \in Nat : CalcLevelByExp(d) = Max(S(d))
  BY DEF CalcLevelByExp
<1>4. CalcLevelByExp(e) \in Nat
  <2>1. Max(S(e)) \in 0..N
    BY <1>1, <1>2
  <2>2. 0..N \subseteq Nat
    BY <1>1
  <2> QED BY <2>1, <2>2, <1>3
<1>5. ASSUME NEW d \in Nat, d <= e PROVE CalcLevelByExp(d) <= CalcLevelByExp(e)
  <2>1. S(d) \subseteq S(e)
    BY <1>5, TaskEngineAssumption
  <2> QED BY <2>1, <1>2, <1>3
<1> QED BY <1>4, <1>5

-----------------------------------------------------------------------------
(* Type correctness                                                        *)

LEMMA RowsNat == Tasks \subseteq Nat /\ Keys \subseteq Nat
  BY TaskEngineAssumption DEF Tasks, Keys

LEMMA RowsFinite == \A S \in SUBSET Rows : IsFiniteSet(S)
<1>1. IsFiniteSet(Tasks)
  BY TaskEngineAssumption, FS_Interval DEF Tasks
<1>2. IsFiniteSet(Keys)
  BY TaskEngineAssumption, FS_AddElement DEF Keys
<1>3. IsFiniteSet(Rows)
  BY <1>1, <1>2, FS_Product DEF Rows
<1> QED BY <1>3, FS_Subset

\* The row of the task at hand is a row.
LEMMA RowIsRow ==
  ASSUME TypeOK, NEW h \in Handlers, tx[h].day \in Days, tx[h].task \in Tasks
  PROVE  Row(h) \in Rows
  BY DEF Row, Rows, Keys, Task, GetPeriodKey

LEMMA ViewType ==
  ASSUME TypeOK, NEW h \in Handlers
  PROVE  View(h) \in Snapshots
  BY DEF TypeOK, View, Committed, Snapshots, Txs

\* A transaction that is open has a day, and a task at hand until it commits.
Open(h) ==
  /\ tx[h].pc \notin {"idle", "failed"} => tx[h].day \in Days
  /\ tx[h].pc \notin {"idle", "failed", "take"} => tx[h].task \in Tasks /\ tx[h].task \in tx[h].active

TInv == TypeOK /\ \A h \in Handlers : Open(h)

StoredTypes ==
  /\ progress \in [Rows -> Progress \cup {None}] /\ logs \in [Rows -> SUBSET Nat]
  /\ scoreRows \in [Rows -> Nat] /\ expRows \in [Rows -> Nat]
  /\ badge \in BOOLEAN /\ exp \in Nat /\ level \in Nat
  /\ handled \in [Rows -> Nat] /\ loose \subseteq Rows

\* What is written has the types of what is stored.
LEMMA WriteType ==
  ASSUME TypeOK, NEW self \in Txs, Write(self), loose' \subseteq Rows
  PROVE  StoredTypes'
<1>1. progress' \in [Rows -> Progress \cup {None}]
  BY DEF Write, TypeOK, Txs
<1>2. logs' \in [Rows -> SUBSET Nat]
  <2>1. \A r \in Rows : {l[2] : l \in {m \in self.newLogs : m[1] = r}} \subseteq Nat
    <3>1. self.newLogs \subseteq Rows \X Nat
      BY DEF Txs
    <3>2. \A l \in Rows \X Nat : l[2] \in Nat
      OBVIOUS
    <3> QED BY <3>1, <3>2
  <2> QED BY <2>1 DEF Write, TypeOK
<1>3. scoreRows' \in [Rows -> Nat] /\ expRows' \in [Rows -> Nat]
  BY DEF Write, TypeOK
<1>4. badge' \in BOOLEAN
  BY DEF Write, TypeOK, Txs
<1>5. exp' \in Nat
  <2>1. Cardinality(self.expd) \in Nat
    BY RowsFinite, FS_CardinalityType DEF Txs
  <2> QED BY <2>1 DEF Write, TypeOK
<1>6. level' \in Nat
  BY DEF Write, TypeOK, Txs
<1>7. handled' \in [Rows -> Nat]
  BY DEF Write, TypeOK
<1> QED BY <1>1, <1>2, <1>3, <1>4, <1>5, <1>6, <1>7 DEF StoredTypes

LEMMA BareIs ==
  ASSUME NEW self \in Txs
  PROVE  LET b == Bare(self) IN
         /\ b \in Txs /\ b.pc = self.pc /\ b.day = self.day /\ b.active = self.active
         /\ b.task = self.task /\ b.auto = self.auto /\ b.snap = self.snap /\ b.old = self.old
         /\ b.err = self.err /\ b.new = NoRows /\ b.newLogs = {} /\ b.scored = {}
         /\ b.expd = {} /\ b.newBadge = FALSE /\ b.newLevel = None
  BY DEF Bare, NoRows, Txs

\* What a statement makes of the types, with a transaction or without.
LEMMA BecomeTypes ==
  ASSUME TInv, NEW h \in Handlers, NEW new \in Txs, Become(h, new)
  PROVE  /\ StoredTypes' /\ begun' \in Nat
         /\ tx'[h] \in Txs /\ tx' = [tx EXCEPT ![h] = tx'[h]]
         /\ tx'[h].pc = new.pc /\ tx'[h].day = new.day /\ tx'[h].task = new.task
         /\ tx'[h].active = new.active
<1>1. begun' \in Nat /\ loose' = loose /\ loose \subseteq Rows /\ tx \in [Handlers -> Txs]
  BY DEF Become, TInv, TypeOK
<1>2. CASE tx[h].auto
  <2>1. Write(new) /\ tx' = [tx EXCEPT ![h] = Bare(new)]
    BY <1>2 DEF Become
  <2>2. StoredTypes'
    BY <1>1, <2>1, WriteType DEF TInv
  <2>3. tx'[h] = Bare(new)
    BY <1>1, <2>1
  <2> QED BY <1>1, <2>1, <2>2, <2>3, BareIs
<1>3. CASE ~ tx[h].auto
  <2>1. UNCHANGED <<stored, handled>> /\ tx' = [tx EXCEPT ![h] = new]
    BY <1>3 DEF Become
  <2>2. tx'[h] = new
    BY <1>1, <2>1
  <2>3. StoredTypes'
    BY <1>1, <2>1 DEF StoredTypes, stored, TInv, TypeOK
  <2> QED BY <1>1, <2>1, <2>2, <2>3
<1> QED BY <1>2, <1>3

\* A step of h after which what is stored and its own transaction are right.
LEMMA BecomeType ==
  ASSUME TInv, NEW h \in Handlers, StoredTypes', tx'[h] \in Txs, Open(h)',
         tx' = [tx EXCEPT ![h] = tx'[h]], begun' \in Nat
  PROVE  TInv'
<1>1. tx' \in [Handlers -> Txs]
  BY DEF TInv, TypeOK
<1>2. \A g \in Handlers : Open(g)'
  <2> SUFFICES ASSUME NEW g \in Handlers PROVE Open(g)'
    OBVIOUS
  <2>1. CASE g = h
    BY <2>1
  <2>2. CASE g # h
    <3>1. tx'[g] = tx[g]
      BY <2>2 DEF TInv, TypeOK
    <3> QED BY <3>1 DEF TInv, Open
  <2> QED BY <2>1, <2>2
<1> QED BY <1>1, <1>2 DEF TInv, TypeOK, StoredTypes

LEMMA IdleType == Idle \in Txs
  BY TaskEngineAssumption DEF Idle, Txs, Pcs, Zero, Progress, Tasks

LEMMA RollbackType ==
  ASSUME NEW h, NEW e \in {"duplicate row", "duplicate log", "duplicate badge", "database"}
  PROVE  Rollback(h, e) \in Txs /\ Rollback(h, e).pc = "failed"
  BY IdleType DEF Rollback, Idle, Txs, Pcs

LEMMA NextTaskType ==
  ASSUME TInv, NEW h \in Handlers, tx[h].task \in Tasks, tx[h].day \in Days
  PROVE  /\ NextTask(h) \in Txs /\ NextTask(h).pc = "take"
         /\ NextTask(h).day = tx[h].day /\ NextTask(h).active = tx[h].active
         /\ NextTask(h).new = tx[h].new /\ NextTask(h).newLogs = tx[h].newLogs
         /\ NextTask(h).task = tx[h].task + 1
<1>1. tx[h] \in Txs
  BY DEF TInv, TypeOK
<1>2. tx[h].task + 1 \in 1..(NTasks + 1)
  BY TaskEngineAssumption DEF Tasks
<1> QED BY <1>1, <1>2 DEF NextTask, Txs, Pcs

\* A step of h leaves the types right.
LEMMA StepType ==
  ASSUME TInv, NEW h \in Handlers, Step(h)
  PROVE  TInv'
<1> USE DEF TInv
<1>0. tx[h] \in Txs /\ begun \in Nat /\ StoredTypes
  BY DEF TypeOK, StoredTypes
<1>3. ASSUME NEW new \in Txs, Become(h, new), tx[h].day \in Days,
             new.pc = "failed" \/ new.day = tx[h].day,
             new.pc \in {"failed", "take"} \/ (new.task \in Tasks /\ new.task \in new.active)
      PROVE  TInv'
  <2>1. Open(h)'
    BY <1>3, BecomeTypes DEF Open
  <2> QED BY <2>1, <1>3, BecomeTypes, BecomeType
<1>4. CASE \E d \in Days, T \in SUBSET Tasks : Begin(h, d, T)
  <2> PICK d \in Days, T \in SUBSET Tasks : Begin(h, d, T)
    BY <1>4
  <2> DEFINE new == [Idle EXCEPT !.pc = "take", !.day = d, !.active = T]
  <2>1. new \in Txs /\ new.pc = "take" /\ new.day = d
    BY IdleType DEF Idle, Txs, Pcs
  <2>2. tx' = [tx EXCEPT ![h] = new] /\ begun' \in Nat /\ UNCHANGED <<stored, handled, loose>>
    BY <1>0 DEF Begin
  <2>3. tx'[h] = new
    BY <2>2 DEF TypeOK
  <2>4. Open(h)'
    BY <2>1, <2>3 DEF Open
  <2>5. StoredTypes'
    BY <1>0, <2>2 DEF StoredTypes, stored
  <2> HIDE DEF new
  <2> QED BY <2>1, <2>2, <2>3, <2>4, <2>5, BecomeType
<1>5. CASE Take(h)
  <2>1. View(h) \in Snapshots /\ Row(h) \in Rows /\ tx[h].task \in Tasks /\ tx[h].day \in Days
        /\ tx[h].task \in tx[h].active
    BY <1>0, <1>5, ViewType, RowIsRow DEF Take, Task, Open, Txs
  <2> DEFINE snap == IF MySQL /\ ~ tx[h].auto THEN View(h) ELSE None
             seen == View(h).progress[Row(h)]
             one   == [tx[h] EXCEPT !.snap = snap, !.pc = "create"]
             two   == [tx[h] EXCEPT !.snap = snap, !.pc = "save", !.old = seen]
             three == [tx[h] EXCEPT !.snap = snap, !.task = @ + 1]
  <2>2. Become(h, one) \/ (seen # None /\ Become(h, two)) \/ Become(h, three)
    BY <1>5 DEF Take
  <2>3. snap \in Snapshots \cup {None} /\ (seen # None => seen \in Progress)
    BY <2>1 DEF Snapshots
  <2>4. tx[h].task + 1 \in 1..(NTasks + 1)
    BY <2>1, TaskEngineAssumption DEF Tasks
  <2>5. tx[h].pc = "take"
    BY <1>5 DEF Take
  <2> HIDE DEF snap, seen
  <2>6. one \in Txs /\ one.day = tx[h].day /\ one.task = tx[h].task /\ one.pc = "create" /\ one.active = tx[h].active
    BY <1>0, <2>3 DEF Txs, Pcs
  <2>7. seen # None => two \in Txs /\ two.day = tx[h].day /\ two.task = tx[h].task /\ two.pc = "save" /\ two.active = tx[h].active
    BY <1>0, <2>3 DEF Txs, Pcs
  <2>8. three \in Txs /\ three.day = tx[h].day /\ three.pc = "take"
    BY <1>0, <2>3, <2>4, <2>5 DEF Txs, Pcs
  <2> HIDE DEF one, two, three
  <2> QED BY <1>3, <2>1, <2>2, <2>6, <2>7, <2>8
<1>6. CASE SkipInactive(h)
  <2>1. tx[h].task \in Tasks /\ tx[h].day \in Days /\ Become(h, NextTask(h))
    BY <1>6 DEF SkipInactive, Open, Task
  <2> QED BY <2>1, <1>3, NextTaskType
<1>7. ASSUME tx[h].pc \notin {"idle", "failed", "take"}
      PROVE  /\ tx[h].day \in Days /\ tx[h].task \in Tasks /\ Row(h) \in Rows
             /\ NextTask(h) \in Txs /\ NextTask(h).pc = "take" /\ NextTask(h).day = tx[h].day
             /\ NextTask(h).active = tx[h].active
             /\ \A new : Become(h, new) /\ new \in Txs /\ new.day = tx[h].day
                           /\ new.active = tx[h].active
                           /\ (new.pc = "take" \/ new.task = tx[h].task) => TInv'
             /\ \A e \in {"duplicate row", "duplicate log", "duplicate badge", "database"} :
                  Become(h, Rollback(h, e)) => TInv'
  <2>1. tx[h].day \in Days /\ tx[h].task \in Tasks /\ tx[h].task \in tx[h].active
    BY <1>7 DEF Open
  <2>2. Row(h) \in Rows
    BY <2>1, RowIsRow
  <2>3. \A e \in {"duplicate row", "duplicate log", "duplicate badge", "database"} :
          Rollback(h, e).day = None
    BY DEF Rollback, Idle
  <2> QED BY <1>3, <2>1, <2>2, <2>3, NextTaskType, RollbackType
<1>8. CASE Create(h)
  <2>1. tx[h].pc = "create"
    BY <1>8 DEF Create
  <2> DEFINE new == [tx[h] EXCEPT !.pc = "save", !.old = Zero, !.new[Row(h)] = Zero]
  <2>2. new \in Txs /\ new.day = tx[h].day /\ new.active = tx[h].active /\ new.task = tx[h].task /\ new.pc = "save"
    BY <1>0, <1>7, <2>1 DEF Txs, Pcs, Zero, Progress
  <2>3. Become(h, new) \/ Become(h, Rollback(h, "duplicate row"))
    BY <1>8 DEF Create
  <2> HIDE DEF new
  <2> QED BY <1>7, <2>1, <2>2, <2>3
<1>9. CASE Save(h)
  <2>1. tx[h].pc = "save" /\ tx[h].old \in Progress
    BY <1>0, <1>9 DEF Save, Txs
  <2>2. PICK p : p = Advance(Task(h), tx[h].old)
    OBVIOUS
  <2>3. p \in Progress
    BY <2>1, <2>2 DEF Advance, Progress
  <2> DEFINE one == [NextTask(h) EXCEPT !.new[Row(h)] = p]
             two == [tx[h] EXCEPT !.pc = "log", !.old = p, !.new[Row(h)] = p]
  <2>4. one \in Txs /\ one.day = tx[h].day /\ one.active = tx[h].active /\ one.pc = "take"
    BY <1>7, <2>1, <2>3 DEF Txs
  <2>5. two \in Txs /\ two.day = tx[h].day /\ two.active = tx[h].active /\ two.task = tx[h].task /\ two.pc = "log"
    BY <1>0, <1>7, <2>1, <2>3 DEF Txs, Pcs
  <2>6. Become(h, one) \/ Become(h, two)
    BY <1>9, <2>2 DEF Save
  <2> HIDE DEF one, two
  <2> QED BY <1>7, <2>1, <2>4, <2>5, <2>6
<1>10. CASE InsertLog(h)
  <2>1. tx[h].pc = "log" /\ tx[h].old \in Progress
    BY <1>0, <1>10 DEF InsertLog, Txs
  <2>2. PICK n : n = tx[h].old.finish
    OBVIOUS
  <2>3. PICK L : L = tx[h].newLogs \cup {<<Row(h), n>>}
    OBVIOUS
  <2>4. n \in Nat
    BY <2>1, <2>2 DEF Progress
  <2>5. L \in SUBSET (Rows \X Nat)
    <3>1. tx[h].newLogs \subseteq Rows \X Nat
      BY <1>0 DEF Txs
    <3>2. Row(h) \in Rows
      BY <1>7, <2>1
    <3>3. <<Row(h), n>> \in Rows \X Nat
      BY <2>4, <3>2, Zenon
    <3> QED BY <2>3, <3>1, <3>3
  <2> DEFINE new == [tx[h] EXCEPT !.pc = "score", !.newLogs = L]
  <2>6. new \in Txs /\ new.day = tx[h].day /\ new.active = tx[h].active /\ new.task = tx[h].task /\ new.pc = "score"
    BY <1>0, <2>5 DEF Txs, Pcs
  <2>7. Become(h, new) \/ Become(h, NextTask(h)) \/ Become(h, Rollback(h, "duplicate log"))
    BY <1>10, <2>2, <2>3 DEF InsertLog
  <2> HIDE DEF new
  <2> QED BY <1>7, <2>1, <2>6, <2>7
<1>11. CASE Score(h)
  <2>1. tx[h].pc = "score"
    BY <1>11 DEF Score
  <2> DEFINE one == [tx[h] EXCEPT !.pc = "exp_read"]
             two == [tx[h] EXCEPT !.pc = "exp_read", !.scored = @ \cup {Row(h)}]
  <2>2. one \in Txs /\ one.day = tx[h].day /\ one.active = tx[h].active /\ one.task = tx[h].task /\ one.pc = "exp_read"
    BY <1>0 DEF Txs, Pcs
  <2>3. two \in Txs /\ two.day = tx[h].day /\ two.active = tx[h].active /\ two.task = tx[h].task /\ two.pc = "exp_read"
    BY <1>0, <1>7, <2>1 DEF Txs, Pcs
  <2>4. Become(h, one) \/ Become(h, two)
    BY <1>11 DEF Score
  <2> HIDE DEF one, two
  <2> QED BY <1>7, <2>1, <2>2, <2>3, <2>4
<1>12. CASE ExpRead(h)
  <2>1. tx[h].pc = "exp_read"
    BY <1>12 DEF ExpRead
  <2>2. PICK l : l = IF tx[h].newLevel # None THEN tx[h].newLevel
                     ELSE IF WritesUser(h) THEN level ELSE View(h).level
    OBVIOUS
  <2>3. l \in Nat
    <3>1. tx[h].newLevel \in Nat \cup {None} /\ level \in Nat /\ View(h).level \in Nat
      BY <1>0, ViewType DEF Txs, TypeOK, Snapshots
    <3> QED BY <2>2, <3>1
  <2> DEFINE one == [tx[h] EXCEPT !.pc = "badge"]
             two == [tx[h] EXCEPT !.pc = "exp", !.oldLevel = l]
  <2>4. one \in Txs /\ one.day = tx[h].day /\ one.active = tx[h].active /\ one.task = tx[h].task /\ one.pc = "badge"
    BY <1>0 DEF Txs, Pcs
  <2>5. two \in Txs /\ two.day = tx[h].day /\ two.active = tx[h].active /\ two.task = tx[h].task /\ two.pc = "exp"
    BY <1>0, <2>3 DEF Txs, Pcs
  <2>6. Become(h, one) \/ Become(h, two)
    BY <1>12, <2>2 DEF ExpRead
  <2> HIDE DEF one, two
  <2> QED BY <1>7, <2>1, <2>4, <2>5, <2>6
<1>13. CASE AddExp(h)
  <2>1. tx[h].pc = "exp"
    BY <1>13 DEF AddExp
  <2>2. PICK l : l = CalcLevelByExp(exp + Cardinality(tx[h].expd) + 1)
    OBVIOUS
  <2>3. PICK m : m = IF l # tx[h].oldLevel THEN l ELSE tx[h].newLevel
    OBVIOUS
  <2>4. l \in Nat
    <3>1. Cardinality(tx[h].expd) \in Nat
      BY <1>0, RowsFinite, FS_CardinalityType DEF Txs
    <3>2. exp + Cardinality(tx[h].expd) + 1 \in Nat
      BY <3>1 DEF TypeOK
    <3> QED BY <2>2, <3>2, LevelsNat
  <2>5. m \in Nat \cup {None}
    BY <1>0, <2>3, <2>4 DEF Txs
  <2> DEFINE new == [tx[h] EXCEPT !.pc = "badge", !.expd = @ \cup {Row(h)}, !.newLevel = m]
  <2>6. new \in Txs /\ new.day = tx[h].day /\ new.active = tx[h].active /\ new.task = tx[h].task /\ new.pc = "badge"
    BY <1>0, <1>7, <2>1, <2>5 DEF Txs, Pcs
  <2>7. Become(h, new)
    BY <1>13, <2>2, <2>3 DEF AddExp
  <2> HIDE DEF new
  <2> QED BY <1>7, <2>1, <2>6, <2>7
<1>14. CASE CheckBadge(h)
  <2>1. tx[h].pc = "badge"
    BY <1>14 DEF CheckBadge
  <2> DEFINE new == [tx[h] EXCEPT !.pc = "give"]
  <2>2. new \in Txs /\ new.day = tx[h].day /\ new.active = tx[h].active /\ new.task = tx[h].task /\ new.pc = "give"
    BY <1>0 DEF Txs, Pcs
  <2>3. Become(h, new) \/ Become(h, NextTask(h))
    BY <1>14 DEF CheckBadge
  <2> HIDE DEF new
  <2> QED BY <1>7, <2>1, <2>2, <2>3
<1>15. CASE GiveBadge(h)
  <2>1. tx[h].pc = "give"
    BY <1>15 DEF GiveBadge
  <2> DEFINE new == [NextTask(h) EXCEPT !.newBadge = TRUE]
  <2>2. new \in Txs /\ new.day = tx[h].day /\ new.active = tx[h].active /\ new.pc = "take"
    BY <1>7, <2>1 DEF Txs, Pcs
  <2>3. Become(h, new) \/ Become(h, Rollback(h, "duplicate badge"))
    BY <1>15 DEF GiveBadge
  <2> HIDE DEF new
  <2> QED BY <1>7, <2>1, <2>2, <2>3
<1>16. CASE Commit(h)
  <2>1. tx' = [tx EXCEPT ![h] = Idle] /\ begun' = begun /\ loose' = loose /\ Write(tx[h])
    BY <1>16 DEF Commit
  <2>2. StoredTypes'
    BY <1>0, <2>1, WriteType DEF StoredTypes
  <2>3. tx'[h] = Idle /\ Idle.pc = "idle"
    BY <2>1 DEF TypeOK, Idle
  <2>4. Open(h)'
    BY <2>3 DEF Open
  <2> QED BY <1>0, <2>1, <2>2, <2>3, <2>4, IdleType, BecomeType
<1>17. CASE Abort(h)
  <2>1. tx[h].day \in Days /\ Become(h, Rollback(h, "database"))
    BY <1>17 DEF Abort, Open
  <2> QED BY <2>1, <1>3, RollbackType
<1>18. CASE Drop(h)
  <2>1. Become(h, Idle) /\ Idle.pc = "idle"
    BY <1>18 DEF Drop, Idle
  <2>2. Open(h)'
    BY <2>1, IdleType, BecomeTypes DEF Open
  <2> QED BY <2>1, <2>2, IdleType, BecomeTypes, BecomeType
<1>19. CASE ScoreDeadlock(h)
  <2>1. tx[h].pc = "score"
    BY <1>19 DEF ScoreDeadlock
  <2> DEFINE new == [Bare(tx[h]) EXCEPT !.pc = "exp_read", !.auto = TRUE, !.snap = None]
  <2>2. /\ new \in Txs /\ new.pc = "exp_read" /\ new.day = tx[h].day /\ new.task = tx[h].task
        /\ new.active = tx[h].active
    <3>1. Bare(tx[h]) \in Txs
      BY <1>0, BareIs
    <3>2. new.day = Bare(tx[h]).day /\ new.task = Bare(tx[h]).task /\ new.active = Bare(tx[h]).active
      BY <3>1 DEF Txs
    <3>3. new \in Txs /\ new.pc = "exp_read"
      BY <3>1 DEF Txs, Pcs
    <3> HIDE DEF new
    <3> QED BY <1>0, <3>2, <3>3, BareIs
  <2>3. tx' = [tx EXCEPT ![h] = new]
    BY <1>19 DEF ScoreDeadlock
  <2> HIDE DEF new
  <2>4. tx'[h] = new
    BY <2>3 DEF TypeOK
  <2>5. loose' \subseteq Rows
    <3>1. \A t \in Tasks : <<t, GetPeriodKey(t, tx[h].day)>> \in Rows
      BY <1>7, <2>1 DEF Rows, Keys, GetPeriodKey
    <3>2. tx[h].active \subseteq Tasks
      BY <1>0 DEF Txs
    <3> QED BY <1>0, <1>19, <3>1, <3>2 DEF ScoreDeadlock, StoredTypes
  <2>6. StoredTypes' /\ begun' \in Nat
    BY <1>0, <1>19, <2>5 DEF ScoreDeadlock, StoredTypes, stored
  <2>7. Open(h)'
    BY <1>7, <2>1, <2>2, <2>4 DEF Open
  <2> QED BY <2>2, <2>3, <2>4, <2>6, <2>7, BecomeType
<1>20. CASE AutoAddExp(h) \/ AutoLogExp(h)
  <2>1. PICK pc \in {"exp_log", "level"} : tx' = [tx EXCEPT ![h].pc = pc]
    BY <1>20 DEF AutoAddExp, AutoLogExp
  <2>2. tx[h].pc \in {"exp", "exp_log"} /\ begun' = begun
    BY <1>20 DEF AutoAddExp, AutoLogExp
  <2> DEFINE new == [tx[h] EXCEPT !.pc = pc]
  <2>3. new \in Txs /\ new.pc = pc /\ new.day = tx[h].day /\ new.task = tx[h].task /\ new.active = tx[h].active
    BY <1>0 DEF Txs, Pcs
  <2>4. tx' = [tx EXCEPT ![h] = new] /\ tx'[h] = new
    BY <2>1 DEF TypeOK
  <2> HIDE DEF new
  <2>5. StoredTypes'
    BY <1>0, <1>20 DEF AutoAddExp, AutoLogExp, StoredTypes
  <2>6. Open(h)'
    BY <2>2, <2>3, <2>4 DEF Open
  <2> QED BY <1>0, <2>2, <2>3, <2>4, <2>5, <2>6, BecomeType
<1>21. CASE AutoReadLevel(h)
  <2>1. tx[h].pc = "level"
    BY <1>21 DEF AutoReadLevel
  <2>2. PICK l : l = CalcLevelByExp(exp)
    OBVIOUS
  <2>3. l \in Nat
    BY <1>0, <2>2, LevelsNat DEF StoredTypes
  <2> DEFINE one == [tx[h] EXCEPT !.pc = "set_level", !.oldLevel = l]
             two == [tx[h] EXCEPT !.pc = "badge"]
  <2>4. one \in Txs /\ one.day = tx[h].day /\ one.active = tx[h].active /\ one.task = tx[h].task
    BY <1>0, <2>3 DEF Txs, Pcs
  <2>5. two \in Txs /\ two.day = tx[h].day /\ two.active = tx[h].active /\ two.task = tx[h].task
    BY <1>0 DEF Txs, Pcs
  <2>6. Become(h, one) \/ Become(h, two)
    BY <1>21, <2>2 DEF AutoReadLevel
  <2> HIDE DEF one, two
  <2> QED BY <1>7, <2>1, <2>4, <2>5, <2>6
<1>22. CASE AutoSetLevel(h)
  <2>1. tx[h].pc = "set_level" /\ tx[h].oldLevel \in Nat
    BY <1>0, <1>22 DEF AutoSetLevel, Txs
  <2> DEFINE new == [tx[h] EXCEPT !.pc = "badge", !.newLevel = tx[h].oldLevel]
  <2>2. new \in Txs /\ new.day = tx[h].day /\ new.active = tx[h].active /\ new.task = tx[h].task
    BY <1>0, <2>1 DEF Txs, Pcs
  <2>3. Become(h, new)
    BY <1>22 DEF AutoSetLevel
  <2> HIDE DEF new
  <2> QED BY <1>7, <2>1, <2>2, <2>3
<1> QED BY <1>4, <1>5, <1>6, <1>8, <1>9, <1>10, <1>11, <1>12, <1>13, <1>14, <1>15,
           <1>16, <1>17, <1>18, <1>19, <1>20, <1>21, <1>22 DEF Step

\* Every variable of the task engine keeps its type, for all constants.
THEOREM TaskTypes == Spec => []TypeOK
<1>1. Init => TInv
  <2> SUFFICES ASSUME Init PROVE TInv
    OBVIOUS
  <2>1. TypeOK
    BY IdleType DEF Init, TypeOK
  <2>2. \A h \in Handlers : Open(h)
    BY DEF Init, Open, Idle
  <2> QED BY <2>1, <2>2 DEF TInv
<1>2. TInv /\ [Next]_vars => TInv'
  <2> SUFFICES ASSUME TInv, [Next]_vars PROVE TInv'
    OBVIOUS
  <2>1. CASE UNCHANGED vars
    <3>1. TypeOK'
      BY <2>1 DEF TInv, TypeOK, vars, stored
    <3>2. \A h \in Handlers : Open(h)'
      BY <2>1 DEF TInv, Open, Row, Task, vars
    <3> QED BY <3>1, <3>2 DEF TInv
  <2>2. CASE Next
    BY <2>2, StepType DEF Next
  <2> QED BY <2>1, <2>2
<1>3. TInv => TypeOK
  BY DEF TInv
<1> QED BY <1>1, <1>2, <1>3, PTL DEF Spec
-----------------------------------------------------------------------------
(* The inductive invariant                                                 *)

\* The events that a progress row stands for.
PaidBy(r, p) == p.finish * EventCount[r[1]] + p.count

\* A row as it is stored, now or when it was read: handled events paid for it
\* and its last finish is on record.
Earned(r, p) ==
  PaidBy(r, p) <= handled[r] /\ (r \in loose \/ p.finish \in logs[r] \cup {0})

Logged(h, r) == \E n \in Nat : <<r, n>> \in tx[h].newLogs
Mine(h, r)   == r[2] = GetPeriodKey(r[1], tx[h].day)

\* What was read stays earned, because nothing ever leaves the log.
ReadInv(h) ==
  /\ tx[h].snap # None =>
       \A r \in Rows : tx[h].snap.progress[r] # None => Earned(r, tx[h].snap.progress[r])
  /\ tx[h].pc = "save" =>
       Earned(Row(h), tx[h].old) /\ tx[h].old.finish < MaxFinish[tx[h].task]
  /\ tx[h].pc = "log" /\ ~ tx[h].auto => tx[h].new[Row(h)] # None

\* A row to be written takes one event more, the one being handled.
WriteInv(h) ==
  \A r \in Rows : tx[h].new[r] # None =>
    LET p == tx[h].new[r] IN
    /\ Mine(h, r) /\ PaidBy(r, p) <= handled[r] + 1
    /\ r[1] < tx[h].task \/ (r = Row(h) /\ tx[h].pc \notin {"take", "create"})
    /\ IF r = Row(h) /\ tx[h].pc = "log"
       THEN /\ p.finish \in 1..MaxFinish[r[1]] /\ p.count = 0 /\ tx[h].old = p
            /\ r \in loose \/ p.finish - 1 \in logs[r] \cup {0}
       ELSE r \in loose \/ p.finish \in logs[r] \cup {0} \/ <<r, p.finish>> \in tx[h].newLogs

\* A log row to be inserted is the next one, and one per row.
LogInv(h) ==
  \A r \in Rows, n \in Nat : <<r, n>> \in tx[h].newLogs =>
    /\ Mine(h, r) /\ n * EventCount[r[1]] <= handled[r] + 1
    /\ n \in 1..MaxFinish[r[1]] /\ n \notin logs[r] /\ tx[h].new[r] \notin {None, Zero}
    /\ r \in loose \/ n - 1 \in logs[r] \cup {0}
    /\ \/ r[1] < tx[h].task
       \/ r = Row(h) /\ tx[h].pc \in {"score", "exp_read", "exp", "badge", "give"}
    /\ \A m \in Nat : <<r, m>> \in tx[h].newLogs => m = n

\* Rewards go with log rows; experience is missing only until it is granted.
RewardInv(h) ==
  /\ tx[h].pc \in {"score", "exp_read", "exp"} /\ ~ tx[h].auto => Logged(h, Row(h))
  /\ tx[h].pc = "exp" => tx[h].task \in ExpTasks
  /\ \A r \in Rows :
       /\ r \in tx[h].scored => Logged(h, r) /\ r[1] \in ScoreTasks
       /\ r \in tx[h].expd => Logged(h, r) /\ r[1] \in ExpTasks
       /\ Logged(h, r) /\ r[1] \in ExpTasks
            /\ ~ (r = Row(h) /\ tx[h].pc \in {"score", "exp_read", "exp"}) => r \in tx[h].expd

TxInv(h) == ReadInv(h) /\ WriteInv(h) /\ LogInv(h) /\ RewardInv(h)

\* Two transactions never insert the same log row.
LogsApart ==
  \A g, h \in Handlers : g # h => tx[g].newLogs \cap tx[h].newLogs = {}

StoredInv ==
  /\ FinishesEarned /\ FinishesNumbered /\ RewardedOnce
  /\ \A r \in Rows : progress[r] # None => Earned(r, progress[r])

IInv == TInv /\ StoredInv /\ LogsApart /\ \A h \in Handlers : TxInv(h)

-----------------------------------------------------------------------------
(* Steps that change one transaction                                       *)

LEMMA KeyIsKey == \A r \in Rows : r[1] \in Tasks /\ r[2] \in Keys /\ r = <<r[1], r[2]>>
  BY DEF Rows

LEMMA Distribute == \A a, b \in Nat : (a + 1) * b = a * b + b /\ a * b \in Nat
  OBVIOUS

\* What is stored only grows, and rows only become loose.
Grows ==
  \A r \in Rows : /\ logs[r] \subseteq logs'[r] /\ handled[r] <= handled'[r]
                  /\ r \in loose => r \in loose'

\* The other transactions stay in order when what is stored grows, apart from what they insert.
LEMMA OthersStay ==
  ASSUME IInv, TInv', Grows, NEW g \in Handlers, tx'[g] = tx[g],
         \A r \in Rows : \A n \in logs'[r] \ logs[r] : <<r, n>> \notin tx[g].newLogs
  PROVE  TxInv(g)'
<1>1. tx'[g] = tx[g] /\ Row(g)' = Row(g)
      /\ \A r : Mine(g, r)' = Mine(g, r) /\ Logged(g, r)' = Logged(g, r)
  BY DEF Row, Task, Mine, Logged
<1>2. \A r \in Rows : /\ logs[r] \subseteq logs'[r] /\ handled[r] <= handled'[r]
                      /\ handled[r] \in Nat /\ handled'[r] \in Nat
                      /\ r \in loose => r \in loose'
  BY DEF Grows, IInv, TInv, TypeOK
<1>3. \A r \in Rows : r[1] \in Tasks /\ EventCount[r[1]] \in Nat
  BY KeyIsKey, TaskEngineAssumption
<1>4. \A r \in Rows, p \in Progress : PaidBy(r, p) \in Nat
  <2> SUFFICES ASSUME NEW r \in Rows, NEW p \in Progress PROVE PaidBy(r, p) \in Nat
    OBVIOUS
  <2>1. p.finish \in Nat /\ p.count \in Nat /\ p.finish * EventCount[r[1]] \in Nat
    BY <1>3, Distribute DEF Progress
  <2> QED BY <2>1 DEF PaidBy
<1>5. \A r \in Rows, p \in Progress : Earned(r, p) => Earned(r, p)'
  <2> SUFFICES ASSUME NEW r \in Rows, NEW p \in Progress, Earned(r, p)
               PROVE  PaidBy(r, p) <= handled'[r] /\ (r \in loose' \/ p.finish \in logs'[r] \cup {0})
    BY DEF Earned, PaidBy
  <2>1. PaidBy(r, p) <= handled[r] /\ (r \in loose \/ p.finish \in logs[r] \cup {0})
    BY DEF Earned
  <2> QED BY <1>2, <1>4, <2>1
<1>6. tx[g] \in Txs
  BY DEF IInv, TInv, TypeOK
<1>7. ReadInv(g)'
  <2>1. tx[g].snap # None => tx[g].snap \in Snapshots
    BY <1>6 DEF Txs
  <2>2. tx[g].pc = "save" => Row(g) \in Rows
    BY RowIsRow DEF IInv, TInv, Open
  <2>3. tx[g].old \in Progress
    BY <1>6 DEF Txs
  <2>4. \A r \in Rows : tx[g].snap # None /\ tx[g].snap.progress[r] # None => tx[g].snap.progress[r] \in Progress
    BY <2>1 DEF Snapshots
  <2> QED BY <1>1, <1>5, <2>2, <2>3, <2>4 DEF ReadInv, IInv, TxInv
<1>8. WriteInv(g)'
  <2> SUFFICES ASSUME NEW r \in Rows, NEW q, q = tx[g].new[r], q # None
               PROVE  /\ Mine(g, r) /\ PaidBy(r, q) <= handled'[r] + 1
                      /\ r[1] < tx[g].task \/ (r = Row(g) /\ tx[g].pc \notin {"take", "create"})
                      /\ IF r = Row(g) /\ tx[g].pc = "log"
                         THEN /\ q.finish \in 1..MaxFinish[r[1]] /\ q.count = 0 /\ tx[g].old = q
                              /\ r \in loose' \/ q.finish - 1 \in logs'[r] \cup {0}
                         ELSE r \in loose' \/ q.finish \in logs'[r] \cup {0} \/ <<r, q.finish>> \in tx[g].newLogs
    BY <1>1 DEF WriteInv, PaidBy
  <2>1. /\ Mine(g, r) /\ PaidBy(r, q) <= handled[r] + 1
        /\ r[1] < tx[g].task \/ (r = Row(g) /\ tx[g].pc \notin {"take", "create"})
        /\ IF r = Row(g) /\ tx[g].pc = "log"
           THEN /\ q.finish \in 1..MaxFinish[r[1]] /\ q.count = 0 /\ tx[g].old = q
                /\ r \in loose \/ q.finish - 1 \in logs[r] \cup {0}
           ELSE r \in loose \/ q.finish \in logs[r] \cup {0} \/ <<r, q.finish>> \in tx[g].newLogs
    BY DEF IInv, TxInv, WriteInv
  <2>2. q \in Progress
    BY <1>6 DEF Txs
  <2>3. PaidBy(r, q) <= handled'[r] + 1
    BY <1>2, <1>4, <2>1, <2>2
  <2> QED BY <1>2, <2>1, <2>3
<1>9. LogInv(g)'
  <2> SUFFICES ASSUME NEW r \in Rows, NEW n \in Nat, <<r, n>> \in tx[g].newLogs
               PROVE  /\ n * EventCount[r[1]] <= handled'[r] + 1
                      /\ n \notin logs'[r] /\ (r \in loose' \/ n - 1 \in logs'[r] \cup {0})
    BY <1>1 DEF LogInv, IInv, TxInv
  <2>1. n * EventCount[r[1]] <= handled[r] + 1 /\ n \notin logs[r] /\ (r \in loose \/ n - 1 \in logs[r] \cup {0})
    BY DEF IInv, TxInv, LogInv
  <2>2. n * EventCount[r[1]] \in Nat
    BY <1>3, Distribute
  <2>3. n \notin logs'[r]
    BY <2>1
  <2> QED BY <1>2, <2>1, <2>2, <2>3
<1>10. RewardInv(g)'
  BY <1>1 DEF RewardInv, IInv, TxInv
<1> QED BY <1>7, <1>8, <1>9, <1>10 DEF TxInv

\* A step that changes only the transaction of h, to one that is in order.
LEMMA LocalStep ==
  ASSUME IInv, TInv', NEW h \in Handlers, UNCHANGED <<stored, handled, loose>>,
         tx' = [tx EXCEPT ![h] = tx'[h]], TxInv(h)',
         \A g \in Others(h) : tx'[h].newLogs \cap tx[g].newLogs = {}
  PROVE  IInv'
<1>1. \A g \in Handlers : g # h => tx'[g] = tx[g]
  BY DEF IInv, TInv, TypeOK
<1>2. \A g \in Handlers : TxInv(g)'
  <2>1. Grows /\ \A r \in Rows : logs'[r] = logs[r]
    BY DEF Grows, stored, IInv, TInv, TypeOK
  <2> QED BY <1>1, <2>1, OthersStay
<1>3. LogsApart'
  <2> SUFFICES ASSUME NEW a \in Handlers, NEW b \in Handlers, a # b
               PROVE  tx'[a].newLogs \cap tx'[b].newLogs = {}
    BY DEF LogsApart
  <2>1. CASE a = h
    BY <1>1, <2>1 DEF Others
  <2>2. CASE b = h
    BY <1>1, <2>2 DEF Others
  <2>3. CASE a # h /\ b # h
    BY <1>1, <2>3 DEF IInv, LogsApart
  <2> QED BY <2>1, <2>2, <2>3
<1>4. StoredInv'
  BY DEF IInv, StoredInv, FinishesEarned, FinishesNumbered, RewardedOnce, Earned, stored
<1> QED BY <1>2, <1>3, <1>4 DEF IInv

\* A transaction without reads and writes is in order.
LEMMA EmptyTx ==
  ASSUME NEW h \in Handlers, tx'[h].snap = None,
         tx'[h].pc \in {"idle", "failed", "take"}, \A r \in Rows : tx'[h].new[r] = None,
         tx'[h].newLogs = {}, tx'[h].scored = {}, tx'[h].expd = {}
  PROVE  TxInv(h)'
<1>1. ReadInv(h)' /\ WriteInv(h)' /\ LogInv(h)'
  BY DEF ReadInv, WriteInv, LogInv
<1>2. RewardInv(h)'
  BY DEF RewardInv, Logged
<1> QED BY <1>1, <1>2 DEF TxInv

\* A step that writes no progress and no log row.
LEMMA QuietStep ==
  ASSUME IInv, NEW h \in Handlers, UNCHANGED <<stored, handled, loose>>,
         tx'[h].day = tx[h].day, tx'[h].new = tx[h].new, tx'[h].newLogs = tx[h].newLogs,
         \/ /\ tx'[h].task = tx[h].task
            /\ tx[h].pc \notin {"take", "create"} => tx'[h].pc \notin {"take", "create"}
            /\ tx[h].pc \in {"score", "exp_read", "exp", "badge", "give"}
                 => tx'[h].pc \in {"score", "exp_read", "exp", "badge", "give"}
         \/ tx'[h].task = tx[h].task + 1 /\ tx[h].task \in Tasks,
         tx'[h].pc # "log",
         tx[h].pc = "log" => tx[h].new[Row(h)].finish \in logs[Row(h)]
  PROVE  WriteInv(h)' /\ LogInv(h)' /\ \A r : Logged(h, r)' = Logged(h, r)
<1>1. \A r : Mine(h, r)' = Mine(h, r) /\ Logged(h, r)' = Logged(h, r)
  BY DEF Mine, Logged
<1>2. tx'[h].task = tx[h].task => Row(h)' = Row(h)
  BY DEF Row, Task
<1>3. Row(h)[1] = tx[h].task
  BY DEF Row, Task
<1>4. \A r \in Rows : r[1] \in Nat
  BY RowsNat, KeyIsKey
<1>5. WriteInv(h)'
  <2> SUFFICES ASSUME NEW r \in Rows, tx[h].new[r] # None
               PROVE  /\ Mine(h, r)' /\ PaidBy(r, tx[h].new[r]) <= handled'[r] + 1
                      /\ r[1] < tx'[h].task \/ (r = Row(h)' /\ tx'[h].pc \notin {"take", "create"})
                      /\ \/ r \in loose' \/ tx[h].new[r].finish \in logs'[r] \cup {0}
                         \/ <<r, tx[h].new[r].finish>> \in tx'[h].newLogs
    BY DEF WriteInv, PaidBy
  <2>1. /\ Mine(h, r) /\ PaidBy(r, tx[h].new[r]) <= handled[r] + 1
        /\ r[1] < tx[h].task \/ (r = Row(h) /\ tx[h].pc \notin {"take", "create"})
        /\ ~ (r = Row(h) /\ tx[h].pc = "log") =>
              \/ r \in loose \/ tx[h].new[r].finish \in logs[r] \cup {0}
              \/ <<r, tx[h].new[r].finish>> \in tx[h].newLogs
    BY DEF IInv, TxInv, WriteInv
  <2>2. r[1] < tx'[h].task \/ (r = Row(h)' /\ tx'[h].pc \notin {"take", "create"})
    <3>1. CASE tx'[h].task = tx[h].task
      <4>1. Row(h)' = Row(h)
        BY <1>2, <3>1
      <4>2. CASE r[1] < tx[h].task
        BY <3>1, <4>2
      <4>3. CASE ~ (r[1] < tx[h].task)
        <5>1. r = Row(h) /\ r[1] = tx[h].task /\ r[1] \in Nat
          BY <1>3, <1>4, <2>1, <4>3
        <5>2. tx'[h].task # tx[h].task + 1
          BY <3>1, <5>1
        <5> QED BY <2>1, <4>1, <4>3, <5>1, <5>2
      <4> QED BY <4>2, <4>3
    <3>2. CASE tx'[h].task = tx[h].task + 1 /\ tx[h].task \in Tasks
      <4>1. tx[h].task \in Nat /\ r[1] \in Nat
        BY <1>4, <3>2, RowsNat
      <4>2. r[1] < tx[h].task \/ r[1] = tx[h].task
        BY <1>3, <2>1
      <4> QED BY <3>2, <4>1, <4>2
    <3> QED BY <3>1, <3>2
  <2> QED BY <1>1, <2>1, <2>2 DEF stored
<1>6. LogInv(h)'
  <2> SUFFICES ASSUME NEW r \in Rows, NEW n \in Nat, <<r, n>> \in tx[h].newLogs
               PROVE  /\ Mine(h, r) /\ n * EventCount[r[1]] <= handled[r] + 1
                      /\ n \in 1..MaxFinish[r[1]] /\ n \notin logs[r] /\ tx[h].new[r] \notin {None, Zero}
                      /\ r \in loose \/ n - 1 \in logs[r] \cup {0}
                      /\ \/ r[1] < tx'[h].task
                         \/ r = Row(h)' /\ tx'[h].pc \in {"score", "exp_read", "exp", "badge", "give"}
                      /\ \A m \in Nat : <<r, m>> \in tx[h].newLogs => m = n
    BY <1>1 DEF LogInv, stored
  <2>1. /\ Mine(h, r) /\ n * EventCount[r[1]] <= handled[r] + 1
        /\ n \in 1..MaxFinish[r[1]] /\ n \notin logs[r] /\ tx[h].new[r] \notin {None, Zero}
        /\ r \in loose \/ n - 1 \in logs[r] \cup {0}
        /\ \/ r[1] < tx[h].task
           \/ r = Row(h) /\ tx[h].pc \in {"score", "exp_read", "exp", "badge", "give"}
        /\ \A m \in Nat : <<r, m>> \in tx[h].newLogs => m = n
    BY DEF IInv, TxInv, LogInv
  <2>2. \/ r[1] < tx'[h].task
        \/ r = Row(h)' /\ tx'[h].pc \in {"score", "exp_read", "exp", "badge", "give"}
    <3>1. CASE tx'[h].task = tx[h].task
      <4>1. Row(h)' = Row(h)
        BY <1>2, <3>1
      <4>2. CASE r[1] < tx[h].task
        BY <3>1, <4>2
      <4>3. CASE ~ (r[1] < tx[h].task)
        <5>1. r = Row(h) /\ r[1] = tx[h].task /\ r[1] \in Nat
          BY <1>3, <1>4, <2>1, <4>3
        <5>2. tx'[h].task # tx[h].task + 1
          BY <3>1, <5>1
        <5> QED BY <2>1, <4>1, <4>3, <5>1, <5>2
      <4> QED BY <4>2, <4>3
    <3>2. CASE tx'[h].task = tx[h].task + 1 /\ tx[h].task \in Tasks
      <4>1. tx[h].task \in Nat /\ r[1] \in Nat
        BY <1>4, <3>2, RowsNat
      <4>2. r[1] < tx[h].task \/ r[1] = tx[h].task
        BY <1>3, <2>1
      <4> QED BY <3>2, <4>1, <4>2
    <3> QED BY <3>1, <3>2
  <2> QED BY <2>1, <2>2
<1> QED BY <1>1, <1>5, <1>6

-----------------------------------------------------------------------------
(* The steps, one by one                                                   *)

LEMMA BecomeIs ==
  ASSUME TInv, NEW h \in Handlers, ~ tx[h].auto, NEW new, Become(h, new)
  PROVE  /\ tx'[h] = new /\ tx' = [tx EXCEPT ![h] = tx'[h]] /\ UNCHANGED <<stored, handled, loose>>
         /\ tx[h] \in Txs
  BY DEF Become, TInv, TypeOK

\* A step that inserts no log row, from a transaction in order to one in order.
LEMMA NoNewLogs ==
  ASSUME IInv, TInv', NEW h \in Handlers, UNCHANGED <<stored, handled, loose>>,
         tx' = [tx EXCEPT ![h] = tx'[h]], TxInv(h)',
         tx'[h].newLogs = tx[h].newLogs \/ tx'[h].newLogs = {}
  PROVE  IInv'
<1>1. \A g \in Others(h) : tx'[h].newLogs \cap tx[g].newLogs = {}
  BY DEF IInv, LogsApart, Others
<1> QED BY <1>1, LocalStep

LEMMA EmptyStep ==
  ASSUME IInv, TInv', NEW h \in Handlers, UNCHANGED <<stored, handled, loose>>,
         tx' = [tx EXCEPT ![h] = tx'[h]],
         tx'[h].snap = None, tx'[h].pc \in {"idle", "failed", "take"}, \A r \in Rows : tx'[h].new[r] = None,
         tx'[h].newLogs = {}, tx'[h].scored = {}, tx'[h].expd = {}
  PROVE  IInv'
  BY EmptyTx, NoNewLogs

LEMMA BeginStep ==
  ASSUME IInv, TInv', NEW h \in Handlers, NEW d \in Days, NEW T \in SUBSET Tasks, Begin(h, d, T)
  PROVE  IInv'
<1> DEFINE new == [Idle EXCEPT !.pc = "take", !.day = d, !.active = T]
<1>1. tx' = [tx EXCEPT ![h] = new] /\ UNCHANGED <<stored, handled, loose>>
  BY DEF Begin
<1>2. /\ new.snap = None /\ new.pc = "take" /\ \A r \in Rows : new.new[r] = None
      /\ new.newLogs = {} /\ new.scored = {} /\ new.expd = {}
  BY DEF Idle
<1> HIDE DEF new
<1>3. tx'[h] = new /\ tx' = [tx EXCEPT ![h] = tx'[h]]
  BY <1>1 DEF IInv, TInv, TypeOK
<1> QED BY <1>1, <1>2, <1>3, EmptyStep

LEMMA EndStep ==
  ASSUME IInv, TInv', NEW h \in Handlers, ~ tx[h].auto,
         NEW new, Become(h, new), new = Idle \/ \E e : new = Rollback(h, e)
  PROVE  IInv'
<1>1. /\ new.snap = None /\ new.pc \in {"idle", "failed", "take"} /\ \A r \in Rows : new.new[r] = None
      /\ new.newLogs = {} /\ new.scored = {} /\ new.expd = {}
  <2>1. CASE new = Idle
    BY <2>1 DEF Idle
  <2>2. CASE \E e : new = Rollback(h, e)
    <3>1. PICK e : new = [Idle EXCEPT !.pc = "failed", !.err = e]
      BY <2>2 DEF Rollback
    <3> QED BY <3>1 DEF Idle
  <2> QED BY <2>1, <2>2
<1>2. tx'[h] = new /\ tx' = [tx EXCEPT ![h] = tx'[h]] /\ UNCHANGED <<stored, handled, loose>>
  BY BecomeIs DEF IInv
<1> QED BY <1>1, <1>2, EmptyStep

\* The rewards of the rows of the other tasks are complete; those of the task
\* at hand are not touched.
LEMMA RewardStays ==
  ASSUME IInv, NEW h \in Handlers, \A r : Logged(h, r)' = Logged(h, r),
         tx'[h].scored = tx[h].scored, tx'[h].expd = tx[h].expd,
         tx[h].pc \notin {"score", "exp_read", "exp"},
         tx'[h].pc \notin {"score", "exp_read", "exp"}
  PROVE  RewardInv(h)'
  BY DEF IInv, TxInv, RewardInv

LEMMA TakeStep ==
  ASSUME IInv, TInv', NEW h \in Handlers, ~ tx[h].auto, Take(h)
  PROVE  IInv'
<1>1. /\ tx[h] \in Txs /\ View(h) \in Snapshots /\ Row(h) \in Rows /\ tx[h].task \in Tasks
      /\ tx[h].pc = "take" /\ Row(h)[1] = tx[h].task
  <2>1. tx[h] \in Txs /\ tx[h].pc = "take" /\ tx[h].task \in tx[h].active
    BY DEF IInv, TInv, TypeOK, Take, Task
  <2>2. tx[h].task \in Tasks /\ tx[h].day \in Days
    BY <2>1 DEF IInv, TInv, Open, Txs
  <2> QED BY <2>1, <2>2, ViewType, RowIsRow DEF IInv, TInv, Row, Task
<1> DEFINE snap == IF MySQL /\ ~ tx[h].auto THEN View(h) ELSE None
           seen == View(h).progress[Row(h)]
           one   == [tx[h] EXCEPT !.snap = snap, !.pc = "create"]
           two   == [tx[h] EXCEPT !.snap = snap, !.pc = "save", !.old = seen]
           three == [tx[h] EXCEPT !.snap = snap, !.task = @ + 1]
<1>2. \/ Become(h, one)
      \/ seen # None /\ seen.finish < MaxFinish[tx[h].task] /\ Become(h, two)
      \/ Become(h, three)
  BY DEF Take, Task
<1>3. \A r \in Rows : View(h).progress[r] # None => Earned(r, View(h).progress[r])
  BY DEF IInv, StoredInv, TxInv, ReadInv, View, Committed
<1>4. snap # None => \A r \in Rows : snap.progress[r] # None => Earned(r, snap.progress[r])
  BY <1>3
<1>5. seen # None => Earned(Row(h), seen)
  BY <1>1, <1>3
<1> HIDE DEF snap, seen
<1>6. \A new : Become(h, new) /\ new \in {one, two, three} =>
        /\ tx'[h] = new /\ tx' = [tx EXCEPT ![h] = tx'[h]] /\ UNCHANGED <<stored, handled, loose>>
        /\ new.day = tx[h].day /\ new.new = tx[h].new /\ new.newLogs = tx[h].newLogs
        /\ new.scored = tx[h].scored /\ new.expd = tx[h].expd /\ new.snap = snap
  BY <1>1, BecomeIs DEF IInv, Txs
<1>7. one.pc = "create" /\ one.task = tx[h].task
  BY <1>1 DEF Txs
<1>8. two.pc = "save" /\ two.task = tx[h].task /\ two.old = seen
  BY <1>1 DEF Txs
<1>9. three.pc = "take" /\ three.task = tx[h].task + 1
  BY <1>1 DEF Txs
<1>10. PICK new : /\ tx'[h] = new /\ tx' = [tx EXCEPT ![h] = tx'[h]] /\ UNCHANGED <<stored, handled, loose>>
        /\ new.day = tx[h].day /\ new.new = tx[h].new /\ new.newLogs = tx[h].newLogs
        /\ new.scored = tx[h].scored /\ new.expd = tx[h].expd /\ new.snap = snap
        /\ \/ new.pc = "create" /\ new.task = tx[h].task
           \/ /\ new.pc = "save" /\ new.task = tx[h].task /\ new.old = seen
              /\ seen # None /\ seen.finish < MaxFinish[tx[h].task]
           \/ new.pc = "take" /\ new.task = tx[h].task + 1
  <2> HIDE DEF one, two, three
  <2> QED BY <1>2, <1>6, <1>7, <1>8, <1>9
<1> HIDE DEF one, two, three
<1>11. WriteInv(h)' /\ LogInv(h)' /\ \A r : Logged(h, r)' = Logged(h, r)
  BY <1>1, <1>10, QuietStep
<1>12. ReadInv(h)'
  <2>1. \A r, p : Earned(r, p)' = Earned(r, p)
    BY <1>10 DEF Earned, stored
  <2>2. tx'[h].task = tx[h].task => Row(h)' = Row(h)
    BY <1>10 DEF Row, Task
  <2> QED BY <1>4, <1>5, <1>10, <2>1, <2>2 DEF ReadInv
<1>13. RewardInv(h)'
  BY <1>1, <1>10, <1>11, RewardStays
<1> QED BY <1>10, <1>11, <1>12, <1>13, NoNewLogs DEF TxInv

\* NextTask, from a task whose rewards are complete.
LEMMA NextTaskStep ==
  ASSUME IInv, TInv', NEW h \in Handlers, ~ tx[h].auto, NEW new, Become(h, new), tx[h].task \in Tasks,
         new = NextTask(h) \/ new = [NextTask(h) EXCEPT !.newBadge = TRUE],
         tx[h].pc \notin {"score", "exp_read", "exp"},
         tx[h].pc = "log" => tx[h].new[Row(h)].finish \in logs[Row(h)]
  PROVE  IInv'
<1>1. /\ tx'[h] = new /\ tx' = [tx EXCEPT ![h] = tx'[h]] /\ UNCHANGED <<stored, handled, loose>>
      /\ tx[h] \in Txs
  BY BecomeIs DEF IInv
<1>2. /\ new.pc = "take" /\ new.task = tx[h].task + 1 /\ new.day = tx[h].day
      /\ new.new = tx[h].new /\ new.newLogs = tx[h].newLogs /\ new.snap = tx[h].snap
      /\ new.scored = tx[h].scored /\ new.expd = tx[h].expd
  BY <1>1 DEF NextTask, Txs
<1>3. WriteInv(h)' /\ LogInv(h)' /\ \A r : Logged(h, r)' = Logged(h, r)
  BY <1>1, <1>2, QuietStep
<1>4. ReadInv(h)'
  <2>1. \A r, p : Earned(r, p)' = Earned(r, p)
    BY <1>1 DEF Earned, stored
  <2> QED BY <1>1, <1>2, <2>1 DEF ReadInv, IInv, TxInv
<1>5. RewardInv(h)'
  BY <1>1, <1>2, <1>3, RewardStays
<1> QED BY <1>1, <1>2, <1>3, <1>4, <1>5, NoNewLogs DEF TxInv

\* A step within the rewards of a task, its own part checked apart.
LEMMA RewardStep ==
  ASSUME IInv, TInv', NEW h \in Handlers, ~ tx[h].auto, UNCHANGED <<stored, handled, loose>>,
         tx' = [tx EXCEPT ![h] = tx'[h]],
         tx[h].pc \in {"score", "exp_read", "exp", "badge"},
         tx'[h].pc \in {"exp_read", "exp", "badge", "give"},
         tx'[h].task = tx[h].task, tx'[h].day = tx[h].day, tx'[h].snap = tx[h].snap,
         tx'[h].new = tx[h].new, tx'[h].newLogs = tx[h].newLogs,
         (\A r : Logged(h, r)' = Logged(h, r)) => RewardInv(h)'
  PROVE  IInv'
<1>1. WriteInv(h)' /\ LogInv(h)' /\ \A r : Logged(h, r)' = Logged(h, r)
  BY QuietStep
<1>2. ReadInv(h)'
  <2>1. \A r, p : Earned(r, p)' = Earned(r, p)
    BY DEF Earned, stored
  <2> QED BY <2>1 DEF ReadInv, IInv, TxInv
<1> QED BY <1>1, <1>2, NoNewLogs DEF TxInv

LEMMA ScoreStep ==
  ASSUME IInv, TInv', NEW h \in Handlers, ~ tx[h].auto, Score(h)
  PROVE  IInv'
<1> DEFINE one == [tx[h] EXCEPT !.pc = "exp_read"]
           two == [tx[h] EXCEPT !.pc = "exp_read", !.scored = @ \cup {Row(h)}]
<1>1. PICK new : /\ Become(h, new) /\ tx[h].pc = "score"
                 /\ new = one \/ (Task(h) \in ScoreTasks /\ new = two)
  BY DEF Score
<1>2. /\ tx'[h] = new /\ tx' = [tx EXCEPT ![h] = tx'[h]] /\ UNCHANGED <<stored, handled, loose>>
      /\ tx[h] \in Txs
  BY <1>1, BecomeIs DEF IInv
<1>3. /\ new.pc = "exp_read" /\ new.task = tx[h].task /\ new.day = tx[h].day
      /\ new.snap = tx[h].snap /\ new.new = tx[h].new /\ new.newLogs = tx[h].newLogs
      /\ new.expd = tx[h].expd
      /\ \A r \in new.scored : r \in tx[h].scored \/ (r = Row(h) /\ r[1] \in ScoreTasks)
  <2>1. CASE new = one
    BY <1>2, <2>1 DEF Txs
  <2>2. CASE Task(h) \in ScoreTasks /\ new = two
    <3>1. Row(h)[1] \in ScoreTasks
      BY <2>2 DEF Row
    <3>2. PICK S : S = tx[h].scored \cup {Row(h)}
      OBVIOUS
    <3>3. new = [tx[h] EXCEPT !.pc = "exp_read", !.scored = S]
      BY <2>2, <3>2
    <3>4. /\ new.pc = "exp_read" /\ new.task = tx[h].task /\ new.day = tx[h].day
          /\ new.snap = tx[h].snap /\ new.new = tx[h].new /\ new.newLogs = tx[h].newLogs
          /\ new.expd = tx[h].expd /\ new.scored = S
      BY <1>2, <3>3 DEF Txs
    <3> HIDE DEF one, two
    <3> QED BY <3>1, <3>2, <3>4
  <2> QED BY <1>1, <2>1, <2>2
<1>4. ASSUME \A r : Logged(h, r)' = Logged(h, r) PROVE RewardInv(h)'
  <2>1. Row(h)' = Row(h)
    BY <1>2, <1>3 DEF Row, Task
  <2> QED BY <1>1, <1>2, <1>3, <1>4, <2>1 DEF RewardInv, IInv, TxInv
<1> QED BY <1>1, <1>2, <1>3, <1>4, RewardStep

LEMMA ExpReadStep ==
  ASSUME IInv, TInv', NEW h \in Handlers, ~ tx[h].auto, ExpRead(h)
  PROVE  IInv'
<1>1. PICK l : l = IF tx[h].newLevel # None THEN tx[h].newLevel
                   ELSE IF WritesUser(h) THEN level ELSE View(h).level
  OBVIOUS
<1> DEFINE one == [tx[h] EXCEPT !.pc = "badge"]
           two == [tx[h] EXCEPT !.pc = "exp", !.oldLevel = l]
<1>2. PICK new : /\ Become(h, new) /\ tx[h].pc = "exp_read"
                 /\ \/ tx[h].task \notin ExpTasks /\ new = one
                    \/ tx[h].task \in ExpTasks /\ new = two
  BY <1>1 DEF ExpRead, Task
<1>3. /\ tx'[h] = new /\ tx' = [tx EXCEPT ![h] = tx'[h]] /\ UNCHANGED <<stored, handled, loose>>
      /\ tx[h] \in Txs
  BY <1>2, BecomeIs DEF IInv
<1>4. /\ \/ new.pc = "exp" /\ tx[h].task \in ExpTasks
         \/ new.pc = "badge" /\ tx[h].task \notin ExpTasks
      /\ new.task = tx[h].task /\ new.day = tx[h].day
      /\ new.snap = tx[h].snap /\ new.new = tx[h].new /\ new.newLogs = tx[h].newLogs
      /\ new.expd = tx[h].expd /\ new.scored = tx[h].scored
  BY <1>2, <1>3 DEF Txs
<1>5. ASSUME \A r : Logged(h, r)' = Logged(h, r) PROVE RewardInv(h)'
  <2>1. Row(h)' = Row(h) /\ Row(h)[1] = tx[h].task
    BY <1>3, <1>4 DEF Row, Task
  <2> QED BY <1>2, <1>3, <1>4, <1>5, <2>1 DEF RewardInv, IInv, TxInv
<1> QED BY <1>2, <1>3, <1>4, <1>5, RewardStep

LEMMA AddExpStep ==
  ASSUME IInv, TInv', NEW h \in Handlers, ~ tx[h].auto, AddExp(h)
  PROVE  IInv'
<1>1. PICK m : m = LET l == CalcLevelByExp(exp + Cardinality(tx[h].expd) + 1) IN
                   IF l # tx[h].oldLevel THEN l ELSE tx[h].newLevel
  OBVIOUS
<1> DEFINE new == [tx[h] EXCEPT !.pc = "badge", !.expd = @ \cup {Row(h)}, !.newLevel = m]
<1>2. Become(h, new) /\ tx[h].pc = "exp"
  BY <1>1 DEF AddExp
<1>3. /\ tx'[h] = new /\ tx' = [tx EXCEPT ![h] = tx'[h]] /\ UNCHANGED <<stored, handled, loose>>
      /\ tx[h] \in Txs
  BY <1>2, BecomeIs DEF IInv
<1>4. /\ new.pc = "badge" /\ new.task = tx[h].task /\ new.day = tx[h].day
      /\ new.snap = tx[h].snap /\ new.new = tx[h].new /\ new.newLogs = tx[h].newLogs
      /\ new.expd = tx[h].expd \cup {Row(h)} /\ new.scored = tx[h].scored
  BY <1>3 DEF Txs
<1> HIDE DEF new
<1>5. ASSUME \A r : Logged(h, r)' = Logged(h, r) PROVE RewardInv(h)'
  <2>1. Row(h)' = Row(h) /\ Row(h)[1] = tx[h].task
    BY <1>3, <1>4 DEF Row, Task
  <2> QED BY <1>2, <1>3, <1>4, <1>5, <2>1 DEF RewardInv, IInv, TxInv
<1> QED BY <1>2, <1>3, <1>4, <1>5, RewardStep

LEMMA CheckBadgeStep ==
  ASSUME IInv, TInv', NEW h \in Handlers, ~ tx[h].auto, CheckBadge(h), tx[h].task \in Tasks
  PROVE  IInv'
<1> DEFINE new == [tx[h] EXCEPT !.pc = "give"]
<1>1. tx[h].pc = "badge" /\ (Become(h, NextTask(h)) \/ Become(h, new))
  BY DEF CheckBadge
<1>2. CASE Become(h, NextTask(h))
  BY <1>1, <1>2, NextTaskStep
<1>3. CASE Become(h, new)
  <2>1. /\ tx'[h] = new /\ tx' = [tx EXCEPT ![h] = tx'[h]] /\ UNCHANGED <<stored, handled, loose>>
        /\ tx[h] \in Txs
    BY <1>3, BecomeIs DEF IInv
  <2>2. /\ new.pc = "give" /\ new.task = tx[h].task /\ new.day = tx[h].day
        /\ new.snap = tx[h].snap /\ new.new = tx[h].new /\ new.newLogs = tx[h].newLogs
        /\ new.expd = tx[h].expd /\ new.scored = tx[h].scored
    BY <2>1 DEF Txs
  <2> HIDE DEF new
  <2>3. ASSUME \A r : Logged(h, r)' = Logged(h, r) PROVE RewardInv(h)'
    BY <1>1, <2>1, <2>2, <2>3, RewardStays
  <2> QED BY <1>1, <2>1, <2>2, <2>3, RewardStep
<1> QED BY <1>1, <1>2, <1>3

LEMMA CreateStep ==
  ASSUME IInv, TInv', NEW h \in Handlers, ~ tx[h].auto, tx[h].pc = "create",
         Become(h, [tx[h] EXCEPT !.pc = "save", !.old = Zero, !.new[Row(h)] = Zero])
  PROVE  IInv'
<1> DEFINE new == [tx[h] EXCEPT !.pc = "save", !.old = Zero, !.new[Row(h)] = Zero]
<1>1. /\ tx'[h] = new /\ tx' = [tx EXCEPT ![h] = tx'[h]] /\ UNCHANGED <<stored, handled, loose>>
      /\ tx[h] \in Txs
  BY BecomeIs DEF IInv
<1>2. /\ new.pc = "save" /\ new.task = tx[h].task /\ new.day = tx[h].day /\ new.old = Zero
      /\ new.snap = tx[h].snap /\ new.new = [tx[h].new EXCEPT ![Row(h)] = Zero]
      /\ new.newLogs = tx[h].newLogs /\ new.expd = tx[h].expd /\ new.scored = tx[h].scored
  BY <1>1 DEF Txs
<1> HIDE DEF new
<1>3. Row(h)' = Row(h) /\ Row(h)[1] = tx[h].task /\ Mine(h, Row(h)) /\ Row(h) \in Rows
      /\ \A r : Mine(h, r)' = Mine(h, r) /\ Logged(h, r)' = Logged(h, r)
  <2>1. tx[h].task \in Tasks /\ tx[h].day \in Days
    BY DEF IInv, TInv, Open
  <2> QED BY <1>1, <1>2, <2>1, RowIsRow DEF Row, Task, Mine, Logged, IInv, TInv
<1>4. \A r \in Rows : PaidBy(r, Zero) = 0 /\ Zero.finish = 0 /\ handled[r] \in Nat
  BY TaskEngineAssumption, KeyIsKey DEF PaidBy, Zero, IInv, TInv, TypeOK
<1>5. ReadInv(h)'
  <2>1. \A r, p : Earned(r, p)' = Earned(r, p)
    BY <1>1 DEF Earned, stored
  <2>2. Earned(Row(h), Zero) /\ 0 < MaxFinish[tx[h].task]
    <3>1. Row(h)[1] \in Tasks
      BY <1>3, KeyIsKey
    <3> QED BY <1>3, <1>4, <3>1, TaskEngineAssumption DEF Earned
  <2> QED BY <1>1, <1>2, <1>3, <1>4, <2>1, <2>2 DEF ReadInv, IInv, TxInv
<1>6. WriteInv(h)'
  <2> SUFFICES ASSUME NEW r \in Rows, tx'[h].new[r] # None
               PROVE  LET p == tx'[h].new[r] IN
                      /\ Mine(h, r) /\ PaidBy(r, p) <= handled[r] + 1
                      /\ r[1] < tx[h].task \/ r = Row(h)
                      /\ r \in loose \/ p.finish \in logs[r] \cup {0} \/ <<r, p.finish>> \in tx[h].newLogs
    BY <1>1, <1>2, <1>3 DEF WriteInv, stored, PaidBy
  <2>1. CASE r = Row(h)
    <3>1. tx'[h].new[r] = Zero
      BY <1>1, <1>2, <2>1 DEF Txs
    <3> QED BY <1>3, <1>4, <2>1, <3>1
  <2>2. CASE r # Row(h)
    <3>1. tx'[h].new[r] = tx[h].new[r]
      BY <1>1, <1>2, <2>2 DEF Txs
    <3> QED BY <2>2, <3>1 DEF IInv, TxInv, WriteInv
  <2> QED BY <2>1, <2>2
<1>7. LogInv(h)'
  <2> SUFFICES ASSUME NEW r \in Rows, NEW n \in Nat, <<r, n>> \in tx[h].newLogs
               PROVE  tx'[h].new[r] = tx[h].new[r]
    BY <1>1, <1>2, <1>3 DEF LogInv, IInv, TxInv, stored
  <2>1. r[1] < tx[h].task
    BY DEF IInv, TxInv, LogInv
  <2>2. r # Row(h)
    BY <1>3, <2>1, RowsNat, KeyIsKey
  <2> QED BY <1>1, <1>2, <2>2 DEF Txs
<1>8. RewardInv(h)'
  BY <1>1, <1>2, <1>3, RewardStays
<1> QED BY <1>1, <1>2, <1>5, <1>6, <1>7, <1>8, NoNewLogs DEF TxInv

\* One event more, of a row that was earned.
LEMMA AdvanceIs ==
  ASSUME TInv, NEW r \in Rows, NEW p \in Progress, Earned(r, p), p.finish < MaxFinish[r[1]]
  PROVE  LET new == Advance(r[1], p) IN
         /\ new \in Progress /\ PaidBy(r, new) <= handled[r] + 1
         /\ \/ new.finish = p.finish
            \/ new.finish = p.finish + 1 /\ new.count = 0 /\ new.finish \in 1..MaxFinish[r[1]]
<1>1. r[1] \in Tasks /\ handled[r] \in Nat /\ p.finish \in Nat /\ p.count \in Nat
  BY KeyIsKey DEF TInv, TypeOK, Progress
<1>2. EventCount[r[1]] \in Nat /\ MaxFinish[r[1]] \in Nat
  BY <1>1, TaskEngineAssumption
<1>3. p.finish * EventCount[r[1]] \in Nat
      /\ (p.finish + 1) * EventCount[r[1]] = p.finish * EventCount[r[1]] + EventCount[r[1]]
  BY <1>1, <1>2, Distribute
<1>4. p.finish * EventCount[r[1]] + p.count <= handled[r]
  BY DEF Earned, PaidBy
<1>5. CASE p.count + 1 < EventCount[r[1]]
  <2> DEFINE new == [p EXCEPT !.count = @ + 1]
  <2>1. Advance(r[1], p) = new
    BY <1>5 DEF Advance
  <2>2. new \in Progress /\ new.finish = p.finish /\ new.count = p.count + 1
    BY <1>1 DEF Progress
  <2> HIDE DEF new
  <2>3. PaidBy(r, new) <= handled[r] + 1
    BY <1>1, <1>3, <1>4, <2>2 DEF PaidBy
  <2> QED BY <2>1, <2>2, <2>3
<1>6. CASE ~ (p.count + 1 < EventCount[r[1]])
  <2> DEFINE new == [finish |-> p.finish + 1, count |-> 0]
  <2>1. Advance(r[1], p) = new
    BY <1>6 DEF Advance
  <2>2. new \in Progress /\ new.finish = p.finish + 1 /\ new.count = 0
        /\ new.finish \in 1..MaxFinish[r[1]]
    BY <1>1, <1>2 DEF Progress
  <2> HIDE DEF new
  <2>3. PaidBy(r, new) <= handled[r] + 1
    BY <1>1, <1>2, <1>3, <1>4, <1>6, <2>2 DEF PaidBy
  <2> QED BY <2>1, <2>2, <2>3
<1> QED BY <1>5, <1>6

LEMMA SaveStep ==
  ASSUME IInv, TInv', NEW h \in Handlers, ~ tx[h].auto, Save(h)
  PROVE  IInv'
<1>1. /\ tx[h].pc = "save" /\ tx[h] \in Txs /\ tx[h].old \in Progress
      /\ tx[h].task \in Tasks /\ Row(h) \in Rows
  <2>1. tx[h].pc = "save" /\ tx[h] \in Txs
    BY DEF Save, IInv, TInv, TypeOK
  <2>2. tx[h].task \in Tasks /\ tx[h].day \in Days
    BY <2>1 DEF IInv, TInv, Open
  <2> QED BY <2>1, <2>2, RowIsRow DEF IInv, TInv, Txs
<1>2. PICK p : p = Advance(tx[h].task, tx[h].old)
  OBVIOUS
<1>3. Row(h)[1] = tx[h].task /\ Mine(h, Row(h))
  BY DEF Row, Task, Mine
<1>4. Earned(Row(h), tx[h].old) /\ tx[h].old.finish < MaxFinish[Row(h)[1]]
  BY <1>1, <1>3 DEF IInv, TxInv, ReadInv
<1>5. /\ p \in Progress /\ PaidBy(Row(h), p) <= handled[Row(h)] + 1
      /\ \/ p.finish = tx[h].old.finish
         \/ p.finish = tx[h].old.finish + 1 /\ p.count = 0 /\ p.finish \in 1..MaxFinish[Row(h)[1]]
  BY <1>1, <1>2, <1>3, <1>4, AdvanceIs DEF IInv
<1> DEFINE one == [NextTask(h) EXCEPT !.new[Row(h)] = p]
           two == [tx[h] EXCEPT !.pc = "log", !.old = p, !.new[Row(h)] = p]
<1>6. \/ p.finish = tx[h].old.finish /\ Become(h, one)
      \/ p.finish # tx[h].old.finish /\ Become(h, two)
  BY <1>2 DEF Save, Task
<1>7. one.pc = "take" /\ one.task = tx[h].task + 1 /\ one.day = tx[h].day
      /\ one.snap = tx[h].snap /\ one.new = [tx[h].new EXCEPT ![Row(h)] = p]
      /\ one.newLogs = tx[h].newLogs /\ one.expd = tx[h].expd /\ one.scored = tx[h].scored
  BY <1>1 DEF Txs, NextTask
<1>8. two.pc = "log" /\ two.old = p /\ two.task = tx[h].task /\ two.day = tx[h].day
      /\ two.snap = tx[h].snap /\ two.new = [tx[h].new EXCEPT ![Row(h)] = p]
      /\ two.newLogs = tx[h].newLogs /\ two.expd = tx[h].expd /\ two.scored = tx[h].scored
  BY <1>1 DEF Txs
<1> HIDE DEF one, two
<1>9. PICK new :
        /\ Become(h, new) /\ new.day = tx[h].day
        /\ new.snap = tx[h].snap /\ new.new = [tx[h].new EXCEPT ![Row(h)] = p]
        /\ new.newLogs = tx[h].newLogs /\ new.expd = tx[h].expd /\ new.scored = tx[h].scored
        /\ \/ p.finish = tx[h].old.finish /\ new.pc = "take" /\ new.task = tx[h].task + 1
           \/ p.finish # tx[h].old.finish /\ new.pc = "log" /\ new.task = tx[h].task /\ new.old = p
  BY <1>6, <1>7, <1>8
<1>10. tx'[h] = new /\ tx' = [tx EXCEPT ![h] = tx'[h]] /\ UNCHANGED <<stored, handled, loose>>
  BY <1>9, BecomeIs DEF IInv
<1>11. \A r : Mine(h, r)' = Mine(h, r) /\ Logged(h, r)' = Logged(h, r)
  BY <1>9, <1>10 DEF Mine, Logged
<1>12. new.pc = "log" => Row(h)' = Row(h)
  BY <1>9, <1>10 DEF Row, Task
<1>13. ReadInv(h)'
  <2>1. \A r, q : Earned(r, q)' = Earned(r, q)
    BY <1>10 DEF Earned, stored
  <2>2. new.pc = "log" => tx'[h].new[Row(h)'] # None
    <3>1. p # None
      BY <1>5, TaskEngineAssumption DEF Progress
    <3>2. tx'[h].new[Row(h)] = p
      BY <1>1, <1>9, <1>10 DEF Txs
    <3> QED BY <1>12, <3>1, <3>2
  <2> QED BY <1>9, <1>10, <2>1, <2>2 DEF ReadInv, IInv, TxInv
<1>14. tx[h].task \in Nat /\ \A r \in Rows : r[1] \in Nat
  BY <1>1, RowsNat, KeyIsKey
<1>15. WriteInv(h)'
  <2> SUFFICES ASSUME NEW r \in Rows, NEW q, q = tx'[h].new[r], q # None
               PROVE  /\ Mine(h, r) /\ PaidBy(r, q) <= handled[r] + 1
                      /\ r[1] < new.task \/ (r = Row(h)' /\ new.pc \notin {"take", "create"})
                      /\ IF r = Row(h)' /\ new.pc = "log"
                         THEN /\ q.finish \in 1..MaxFinish[r[1]] /\ q.count = 0 /\ new.old = q
                              /\ r \in loose \/ q.finish - 1 \in logs[r] \cup {0}
                         ELSE r \in loose \/ q.finish \in logs[r] \cup {0} \/ <<r, q.finish>> \in tx[h].newLogs
    BY <1>9, <1>10, <1>11 DEF WriteInv, PaidBy, stored
  <2>1. CASE r = Row(h)
    <3>1. q = p
      BY <1>1, <1>9, <1>10, <2>1 DEF Txs
    <3>2. (r \in loose \/ tx[h].old.finish \in logs[r] \cup {0}) /\ tx[h].old.finish \in Nat
      BY <1>1, <1>4, <2>1 DEF Earned, Progress
    <3>3. CASE new.pc = "log"
      BY <1>3, <1>5, <1>9, <1>12, <2>1, <3>1, <3>2, <3>3
    <3>4. CASE new.pc # "log"
      <4>1. p.finish = tx[h].old.finish /\ new.task = tx[h].task + 1
        BY <1>9, <3>4
      <4>2. r[1] < new.task
        BY <1>3, <1>14, <2>1, <4>1
      <4> QED BY <1>3, <1>5, <2>1, <3>1, <3>2, <3>4, <4>1, <4>2
    <3> QED BY <3>3, <3>4
  <2>2. CASE r # Row(h)
    <3>1. q = tx[h].new[r]
      BY <1>1, <1>9, <1>10, <2>2 DEF Txs
    <3>2. /\ Mine(h, r) /\ PaidBy(r, q) <= handled[r] + 1 /\ r[1] < tx[h].task
          /\ r \in loose \/ q.finish \in logs[r] \cup {0} \/ <<r, q.finish>> \in tx[h].newLogs
      BY <2>2, <3>1 DEF IInv, TxInv, WriteInv
    <3>3. r[1] < new.task
      BY <1>9, <1>14, <3>2
    <3>4. ~ (r = Row(h)' /\ new.pc = "log")
      BY <1>12, <2>2
    <3> QED BY <3>2, <3>3, <3>4
  <2> QED BY <2>1, <2>2
<1>16. LogInv(h)'
  <2> SUFFICES ASSUME NEW r \in Rows, NEW n \in Nat, <<r, n>> \in tx[h].newLogs
               PROVE  r[1] < new.task /\ new.new[r] = tx[h].new[r]
    BY <1>9, <1>10, <1>11 DEF LogInv, IInv, TxInv, stored
  <2>1. r[1] < tx[h].task
    BY <1>1 DEF IInv, TxInv, LogInv
  <2>2. r # Row(h)
    BY <1>3, <1>14, <2>1
  <2>3. new.new[r] = tx[h].new[r]
    BY <1>1, <1>9, <2>2 DEF Txs
  <2>4. r[1] < new.task
    BY <1>9, <1>14, <2>1
  <2> QED BY <2>3, <2>4
<1>17. RewardInv(h)'
  BY <1>1, <1>9, <1>10, <1>11, RewardStays
<1> QED BY <1>9, <1>10, <1>13, <1>15, <1>16, <1>17, NoNewLogs DEF TxInv

LEMMA InsertLogStep ==
  ASSUME IInv, TInv', NEW h \in Handlers, ~ tx[h].auto, InsertLog(h)
  PROVE  IInv'
<1>1. /\ tx[h].pc = "log" /\ tx[h] \in Txs /\ tx[h].task \in Tasks /\ Row(h) \in Rows
      /\ tx[h].new[Row(h)] \in Progress /\ Row(h)[1] = tx[h].task
  <2>1. tx[h].pc = "log" /\ tx[h] \in Txs
    BY DEF InsertLog, IInv, TInv, TypeOK
  <2>2. tx[h].task \in Tasks /\ tx[h].day \in Days /\ tx[h].new[Row(h)] # None
    BY <2>1 DEF IInv, TInv, Open, TxInv, ReadInv
  <2>3. Row(h) \in Rows
    BY <2>2, RowIsRow DEF IInv, TInv
  <2> QED BY <2>1, <2>2, <2>3 DEF Txs, Row, Task
<1>2. PICK n : n = tx[h].old.finish
  OBVIOUS
<1>3. /\ n \in Nat /\ n \in 1..MaxFinish[Row(h)[1]]
      /\ Row(h) \in loose \/ n - 1 \in logs[Row(h)] \cup {0}
      /\ n = tx[h].new[Row(h)].finish /\ tx[h].new[Row(h)] \notin {None, Zero}
      /\ n * EventCount[Row(h)[1]] <= handled[Row(h)] + 1
  <2>1. /\ PaidBy(Row(h), tx[h].new[Row(h)]) <= handled[Row(h)] + 1
        /\ n \in 1..MaxFinish[Row(h)[1]] /\ tx[h].new[Row(h)].count = 0
        /\ Row(h) \in loose \/ n - 1 \in logs[Row(h)] \cup {0}
        /\ n = tx[h].new[Row(h)].finish /\ tx[h].new[Row(h)] # None
    BY <1>1, <1>2, TaskEngineAssumption DEF IInv, TxInv, WriteInv, Progress
  <2>2. n \in Nat
    BY <1>1, <2>1 DEF Progress
  <2>3. n * EventCount[Row(h)[1]] \in Nat
    <3>1. EventCount[Row(h)[1]] \in Nat
      BY <1>1, TaskEngineAssumption
    <3> QED BY <2>2, <3>1, Distribute
  <2>4. tx[h].new[Row(h)] # Zero
    BY <2>1 DEF Zero
  <2> QED BY <1>2, <2>1, <2>2, <2>3, <2>4 DEF PaidBy
<1>4. CASE n \in logs[Row(h)]
  <2>1. Become(h, NextTask(h)) \/ Become(h, Rollback(h, "duplicate log"))
    BY <1>2, <1>4 DEF InsertLog
  <2>2. CASE Become(h, NextTask(h))
    BY <1>1, <1>3, <1>4, <2>2, NextTaskStep
  <2>3. CASE Become(h, Rollback(h, "duplicate log"))
    BY <2>3, EndStep
  <2> QED BY <2>1, <2>2, <2>3
<1>5. CASE n \notin logs[Row(h)]
  <2>1. PICK L : L = tx[h].newLogs \cup {<<Row(h), n>>}
    OBVIOUS
  <2> DEFINE new == [tx[h] EXCEPT !.pc = "score", !.newLogs = L]
  <2>2. Become(h, new) /\ Free(h)
    BY <1>2, <1>5, <2>1 DEF InsertLog
  <2>3. tx'[h] = new /\ tx' = [tx EXCEPT ![h] = tx'[h]] /\ UNCHANGED <<stored, handled, loose>>
    BY <2>2, BecomeIs DEF IInv
  <2>4. /\ new.pc = "score" /\ new.task = tx[h].task /\ new.day = tx[h].day /\ new.snap = tx[h].snap
        /\ new.new = tx[h].new /\ new.newLogs = L /\ new.expd = tx[h].expd /\ new.scored = tx[h].scored
    BY <1>1 DEF Txs
  <2> HIDE DEF new
  <2>5. Row(h)' = Row(h) /\ Mine(h, Row(h)) /\ \A r : Mine(h, r)' = Mine(h, r)
    BY <2>3, <2>4 DEF Row, Task, Mine
  <2>6. \A r \in Rows : r # Row(h) => Logged(h, r)' = Logged(h, r)
    <3> SUFFICES ASSUME NEW r \in Rows, r # Row(h), NEW m \in Nat
                 PROVE  <<r, m>> \in tx'[h].newLogs <=> <<r, m>> \in tx[h].newLogs
      BY DEF Logged
    <3> QED BY <2>1, <2>3, <2>4
  <2>7. Logged(h, Row(h))' /\ \A r : Logged(h, r) => Logged(h, r)'
    <3>1. <<Row(h), n>> \in tx'[h].newLogs
      BY <2>1, <2>3, <2>4
    <3>2. tx[h].newLogs \subseteq tx'[h].newLogs
      BY <2>1, <2>3, <2>4
    <3> QED BY <1>3, <2>5, <3>1, <3>2 DEF Logged
  <2>8. \A m \in Nat : <<Row(h), m>> \notin tx[h].newLogs
    <3> SUFFICES ASSUME NEW m \in Nat, <<Row(h), m>> \in tx[h].newLogs PROVE FALSE
      OBVIOUS
    <3>1. Row(h)[1] < tx[h].task
      BY <1>1 DEF IInv, TxInv, LogInv
    <3>2. tx[h].task \in Nat /\ Row(h)[1] = tx[h].task
      BY <1>1, RowsNat
    <3>3. ~ (tx[h].task < tx[h].task)
      BY <3>2
    <3> QED BY <3>1, <3>2, <3>3
  <2>9. ReadInv(h)'
    <3>1. \A r, q : Earned(r, q)' = Earned(r, q)
      BY <2>3 DEF Earned, stored
    <3> QED BY <2>3, <2>4, <3>1 DEF ReadInv, IInv, TxInv
  <2>10. WriteInv(h)'
    <3> SUFFICES ASSUME NEW r \in Rows, NEW q, q = tx[h].new[r], q # None
                 PROVE  /\ Mine(h, r) /\ PaidBy(r, q) <= handled[r] + 1
                        /\ r[1] < tx[h].task \/ r = Row(h)
                        /\ r \in loose \/ q.finish \in logs[r] \cup {0} \/ <<r, q.finish>> \in L
      BY <2>3, <2>4, <2>5 DEF WriteInv, PaidBy, stored
    <3>1. /\ Mine(h, r) /\ PaidBy(r, q) <= handled[r] + 1
          /\ r[1] < tx[h].task \/ r = Row(h)
          /\ r # Row(h) => r \in loose \/ q.finish \in logs[r] \cup {0} \/ <<r, q.finish>> \in tx[h].newLogs
      BY DEF IInv, TxInv, WriteInv
    <3> QED BY <1>3, <2>1, <3>1
  <2>11. LogInv(h)'
    <3> SUFFICES ASSUME NEW r \in Rows, NEW m \in Nat, <<r, m>> \in L
                 PROVE  /\ Mine(h, r) /\ m * EventCount[r[1]] <= handled[r] + 1
                        /\ m \in 1..MaxFinish[r[1]] /\ m \notin logs[r] /\ tx[h].new[r] \notin {None, Zero}
                        /\ r \in loose \/ m - 1 \in logs[r] \cup {0}
                        /\ r[1] < tx[h].task \/ r = Row(h)
                        /\ \A k \in Nat : <<r, k>> \in L => k = m
      BY <2>3, <2>4, <2>5 DEF LogInv, stored
    <3>1. CASE r = Row(h)
      <4>1. m = n
        BY <2>1, <2>8, <3>1
      <4>2. \A k \in Nat : <<r, k>> \in L => k = n
        BY <2>1, <2>8, <3>1
      <4> QED BY <1>3, <1>5, <2>5, <3>1, <4>1, <4>2
    <3>2. CASE r # Row(h)
      <4>1. \A k : <<r, k>> \in L <=> <<r, k>> \in tx[h].newLogs
        BY <2>1, <3>2
      <4> QED BY <3>2, <4>1 DEF IInv, TxInv, LogInv
    <3> QED BY <3>1, <3>2
  <2>12. RewardInv(h)'
    BY <1>1, <2>3, <2>4, <2>5, <2>6, <2>7 DEF RewardInv, IInv, TxInv
  <2>13. \A g \in Others(h) : tx'[h].newLogs \cap tx[g].newLogs = {}
    BY <1>1, <1>2, <2>1, <2>2, <2>3, <2>4 DEF Free, Waits, IInv, LogsApart, Others
  <2> QED BY <2>3, <2>9, <2>10, <2>11, <2>12, <2>13, LocalStep DEF TxInv
<1> QED BY <1>4, <1>5

\* What the writes of a transaction do to the rows, their log and rewards.
LEMMA WriteIs ==
  ASSUME TInv, NEW self \in Txs, Write(self), NEW r \in Rows
  PROVE  /\ progress'[r] = IF self.new[r] # None THEN self.new[r] ELSE progress[r]
         /\ logs[r] \subseteq logs'[r]
         /\ \A n \in Nat : n \in logs'[r] <=> n \in logs[r] \/ <<r, n>> \in self.newLogs
         /\ handled[r] \in Nat /\ handled'[r] \in Nat /\ handled[r] <= handled'[r]
         /\ handled'[r] = handled[r] + (IF self.new[r] \in {None, Zero} THEN 0 ELSE 1)
         /\ scoreRows'[r] = scoreRows[r] + (IF r \in self.scored THEN 1 ELSE 0)
         /\ expRows'[r] = expRows[r] + (IF r \in self.expd THEN 1 ELSE 0)
<1>1. progress'[r] = IF self.new[r] # None THEN self.new[r] ELSE progress[r]
  BY DEF Write
<1>2. logs'[r] = logs[r] \cup {l[2] : l \in {m \in self.newLogs : m[1] = r}}
  BY DEF Write
<1>3. \A n \in Nat : n \in logs'[r] <=> n \in logs[r] \/ <<r, n>> \in self.newLogs
  <2> SUFFICES ASSUME NEW n \in Nat
               PROVE n \in {l[2] : l \in {m \in self.newLogs : m[1] = r}} <=> <<r, n>> \in self.newLogs
    BY <1>2
  <2>1. ASSUME <<r, n>> \in self.newLogs
        PROVE  n \in {l[2] : l \in {m \in self.newLogs : m[1] = r}}
    <3>1. <<r, n>>[1] = r /\ <<r, n>>[2] = n
      OBVIOUS
    <3> QED BY <2>1, <3>1
  <2>2. ASSUME n \in {l[2] : l \in {m \in self.newLogs : m[1] = r}}
        PROVE  <<r, n>> \in self.newLogs
    <3>1. PICK l \in self.newLogs : l[1] = r /\ l[2] = n
      BY <2>2
    <3>2. l \in Rows \X Nat
      BY DEF Txs
    <3>3. l = <<l[1], l[2]>>
      BY <3>2
    <3> QED BY <3>1, <3>3
  <2> QED BY <2>1, <2>2
<1>4. /\ handled'[r] = handled[r] + (IF self.new[r] \in {None, Zero} THEN 0 ELSE 1)
      /\ handled[r] \in Nat
  BY DEF TInv, TypeOK, Write
<1>5. /\ scoreRows'[r] = scoreRows[r] + (IF r \in self.scored THEN 1 ELSE 0)
      /\ expRows'[r] = expRows[r] + (IF r \in self.expd THEN 1 ELSE 0)
  BY DEF Write
<1> QED BY <1>1, <1>2, <1>3, <1>4, <1>5

\* What a commit does.
LEMMA CommitIs ==
  ASSUME IInv, NEW h \in Handlers, Commit(h)
  PROVE  /\ tx'[h] = Idle /\ \A g \in Handlers : g # h => tx'[g] = tx[g]
         /\ \A r \in Rows :
              /\ progress'[r] = IF tx[h].new[r] # None THEN tx[h].new[r] ELSE progress[r]
              /\ logs[r] \subseteq logs'[r]
              /\ \A n \in Nat : n \in logs'[r] <=> n \in logs[r] \/ <<r, n>> \in tx[h].newLogs
              /\ handled[r] \in Nat /\ handled'[r] \in Nat /\ handled[r] <= handled'[r]
              /\ handled'[r] = handled[r] + (IF tx[h].new[r] \in {None, Zero} THEN 0 ELSE 1)
              /\ scoreRows'[r] = scoreRows[r] + (IF r \in tx[h].scored THEN 1 ELSE 0)
              /\ expRows'[r] = expRows[r] + (IF r \in tx[h].expd THEN 1 ELSE 0)
<1>1. tx[h] \in Txs /\ TInv /\ Write(tx[h])
  BY DEF IInv, TInv, TypeOK, Commit
<1>2. tx'[h] = Idle /\ \A g \in Handlers : g # h => tx'[g] = tx[g]
  BY DEF IInv, TInv, TypeOK, Commit
<1> QED BY <1>1, <1>2, WriteIs

\* A commit adds at most one finish to the log of a row.
LEMMA LogGrows ==
  ASSUME IInv, TInv', NEW h \in Handlers, Commit(h), NEW r \in Rows
  PROVE  \/ ~ Logged(h, r) /\ logs'[r] = logs[r]
         \/ Logged(h, r) /\ \E n \in Nat : <<r, n>> \in tx[h].newLogs /\ logs'[r] = logs[r] \cup {n}
<1>1. logs[r] \subseteq Nat /\ logs'[r] \subseteq Nat
  BY DEF IInv, TInv, TypeOK
<1>2. \A n \in Nat : n \in logs'[r] <=> n \in logs[r] \/ <<r, n>> \in tx[h].newLogs
  BY CommitIs
<1>3. CASE Logged(h, r)
  <2>1. PICK n \in Nat : <<r, n>> \in tx[h].newLogs
    BY <1>3 DEF Logged
  <2>2. \A m \in Nat : <<r, m>> \in tx[h].newLogs => m = n
    BY <2>1 DEF IInv, TxInv, LogInv
  <2>3. logs'[r] = logs[r] \cup {n}
    BY <1>1, <1>2, <2>1, <2>2
  <2> QED BY <1>3, <2>1, <2>3
<1>4. CASE ~ Logged(h, r)
  BY <1>1, <1>2, <1>4 DEF Logged
<1> QED BY <1>3, <1>4

LEMMA CommitStored ==
  ASSUME IInv, TInv', NEW h \in Handlers, Commit(h)
  PROVE  StoredInv'
<1>0. loose' = loose
  BY DEF Commit
<1>1. tx[h] \in Txs /\ tx[h].pc = "take"
  BY DEF IInv, TInv, TypeOK, Commit
<1>2. \A r \in Rows : r[1] \in Tasks /\ EventCount[r[1]] \in Nat /\ MaxFinish[r[1]] \in Nat
  BY KeyIsKey, TaskEngineAssumption
<1>3. ASSUME NEW r \in Rows, NEW n \in Nat, <<r, n>> \in tx[h].newLogs
      PROVE  /\ n * EventCount[r[1]] <= handled'[r] /\ n \in 1..MaxFinish[r[1]]
             /\ n \notin logs[r] /\ (r \in loose \/ n - 1 \in logs[r] \cup {0})
  <2>1. /\ Mine(h, r) /\ n * EventCount[r[1]] <= handled[r] + 1 /\ n \in 1..MaxFinish[r[1]]
        /\ n \notin logs[r] /\ (r \in loose \/ n - 1 \in logs[r] \cup {0})
        /\ tx[h].new[r] \notin {None, Zero}
    BY <1>3 DEF IInv, TxInv, LogInv
  <2>2. handled'[r] = handled[r] + 1
    BY <2>1, CommitIs
  <2> QED BY <2>1, <2>2
<1>4. FinishesEarned'
  <2> SUFFICES ASSUME NEW r \in Rows, NEW n \in logs'[r]
               PROVE  n * EventCount[r[1]] <= handled'[r]
    BY DEF FinishesEarned
  <2>2. n \in Nat /\ n * EventCount[r[1]] \in Nat
    <3>1. n \in Nat
      BY DEF TInv, TypeOK
    <3> QED BY <3>1, <1>2, Distribute
  <2>3. CASE n \in logs[r]
    <3>1. n * EventCount[r[1]] <= handled[r]
      BY <2>3 DEF IInv, StoredInv, FinishesEarned
    <3>2. handled[r] \in Nat /\ handled'[r] \in Nat /\ handled[r] <= handled'[r]
      BY CommitIs
    <3> QED BY <2>2, <3>1, <3>2
  <2>4. CASE n \notin logs[r]
    <3>1. <<r, n>> \in tx[h].newLogs
      BY <2>2, <2>4, CommitIs
    <3> QED BY <1>3, <2>2, <3>1
  <2> QED BY <2>3, <2>4
<1>5. ASSUME NEW r \in Rows, progress'[r] # None
      PROVE  /\ PaidBy(r, progress'[r]) <= handled'[r]
             /\ r \in loose \/ progress'[r].finish \in logs'[r] \cup {0}
  <2>1. progress'[r] \in Progress
    BY <1>5 DEF TInv, TypeOK
  <2>2. PICK p : p = progress'[r]
    OBVIOUS
  <2>3. p.finish \in Nat /\ PaidBy(r, p) \in Nat
    <3>1. p.finish \in Nat /\ p.count \in Nat /\ p.finish * EventCount[r[1]] \in Nat
      BY <1>2, <2>1, <2>2, Distribute DEF Progress
    <3> QED BY <3>1 DEF PaidBy
  <2>4. /\ handled[r] \in Nat /\ handled'[r] \in Nat /\ handled[r] <= handled'[r]
        /\ logs[r] \subseteq logs'[r]
        /\ tx[h].new[r] \notin {None, Zero} => handled'[r] = handled[r] + 1
        /\ <<r, p.finish>> \in tx[h].newLogs => p.finish \in logs'[r]
    BY <2>3, CommitIs
  <2>5. CASE tx[h].new[r] # None
    <3>1. p = tx[h].new[r]
      BY <2>2, <2>5, CommitIs
    <3>2. /\ PaidBy(r, p) <= handled[r] + 1
          /\ r \in loose \/ p.finish \in logs[r] \cup {0} \/ <<r, p.finish>> \in tx[h].newLogs
      BY <1>1, <2>5, <3>1 DEF IInv, TxInv, WriteInv
    <3>3. PaidBy(r, p) <= handled'[r]
      <4>1. CASE p = Zero
        <5>1. PaidBy(r, p) = 0
          BY <1>2, <4>1 DEF PaidBy, Zero
        <5> QED BY <2>4, <5>1
      <4>2. CASE p # Zero
        BY <2>4, <2>5, <3>1, <3>2, <4>2
      <4> QED BY <4>1, <4>2
    <3>4. r \in loose \/ p.finish \in logs'[r] \cup {0}
      BY <2>4, <3>2
    <3> QED BY <2>2, <3>3, <3>4
  <2>6. CASE tx[h].new[r] = None
    <3>1. p = progress[r] /\ p # None
      BY <1>5, <2>2, <2>6, CommitIs
    <3>2. PaidBy(r, p) <= handled[r] /\ (r \in loose \/ p.finish \in logs[r] \cup {0})
      BY <3>1 DEF IInv, StoredInv, Earned
    <3> QED BY <2>2, <2>3, <2>4, <3>2
  <2> QED BY <2>5, <2>6
<1>6. FinishesNumbered'
  <2> SUFFICES ASSUME NEW r \in Rows
               PROVE  /\ logs'[r] \subseteq 1..MaxFinish[r[1]]
                      /\ r \notin loose => \A n \in logs'[r] : n > 1 => n - 1 \in logs'[r]
    BY <1>0, <1>5 DEF FinishesNumbered
  <2>1. /\ logs[r] \subseteq 1..MaxFinish[r[1]]
        /\ r \notin loose => \A n \in logs[r] : n > 1 => n - 1 \in logs[r]
    BY DEF IInv, StoredInv, FinishesNumbered
  <2>2. CASE logs'[r] = logs[r]
    BY <2>1, <2>2
  <2>3. ASSUME NEW n \in Nat, <<r, n>> \in tx[h].newLogs, logs'[r] = logs[r] \cup {n}
        PROVE  /\ logs'[r] \subseteq 1..MaxFinish[r[1]]
               /\ r \notin loose => \A m \in logs'[r] : m > 1 => m - 1 \in logs'[r]
    <3>1. n \in 1..MaxFinish[r[1]] /\ (r \in loose \/ n - 1 \in logs[r] \cup {0})
      BY <1>3, <2>3
    <3> QED BY <2>1, <2>3, <3>1
  <2> QED BY <2>2, <2>3, LogGrows
<1>7. RewardedOnce'
  <2> SUFFICES ASSUME NEW r \in Rows, r \notin loose
               PROVE  /\ expRows'[r] = IF r[1] \in ExpTasks THEN Cardinality(logs'[r]) ELSE 0
                      /\ scoreRows'[r] <= IF r[1] \in ScoreTasks THEN Cardinality(logs'[r]) ELSE 0
    BY <1>0 DEF RewardedOnce
  <2>1. /\ expRows[r] = IF r[1] \in ExpTasks THEN Cardinality(logs[r]) ELSE 0
        /\ scoreRows[r] <= IF r[1] \in ScoreTasks THEN Cardinality(logs[r]) ELSE 0
    BY DEF IInv, StoredInv, RewardedOnce
  <2>2. /\ expRows'[r] = expRows[r] + (IF r \in tx[h].expd THEN 1 ELSE 0)
        /\ scoreRows'[r] = scoreRows[r] + (IF r \in tx[h].scored THEN 1 ELSE 0)
        /\ expRows[r] \in Nat /\ scoreRows[r] \in Nat
    BY CommitIs DEF IInv, TInv, TypeOK
  <2>3. /\ r \in tx[h].expd <=> Logged(h, r) /\ r[1] \in ExpTasks
        /\ r \in tx[h].scored => Logged(h, r) /\ r[1] \in ScoreTasks
    BY <1>1 DEF IInv, TxInv, RewardInv
  <2>4. IsFiniteSet(logs[r]) /\ Cardinality(logs[r]) \in Nat
    <3>1. logs[r] \subseteq 1..MaxFinish[r[1]]
      BY DEF IInv, StoredInv, FinishesNumbered
    <3>2. IsFiniteSet(1..MaxFinish[r[1]])
      BY <1>2, FS_Interval
    <3>3. IsFiniteSet(logs[r])
      BY <3>1, <3>2, FS_Subset
    <3> QED BY <3>3, FS_CardinalityType
  <2>5. CASE ~ Logged(h, r) /\ logs'[r] = logs[r]
    BY <2>1, <2>2, <2>3, <2>5
  <2>6. ASSUME Logged(h, r), NEW n \in Nat, <<r, n>> \in tx[h].newLogs, logs'[r] = logs[r] \cup {n}
        PROVE  /\ expRows'[r] = IF r[1] \in ExpTasks THEN Cardinality(logs'[r]) ELSE 0
               /\ scoreRows'[r] <= IF r[1] \in ScoreTasks THEN Cardinality(logs'[r]) ELSE 0
    <3>1. n \notin logs[r]
      BY <1>3, <2>6
    <3>2. Cardinality(logs'[r]) = Cardinality(logs[r]) + 1
      BY <2>4, <2>6, <3>1, FS_AddElement
    <3> QED BY <2>1, <2>2, <2>3, <2>4, <2>6, <3>2
  <2> QED BY <2>5, <2>6, LogGrows
<1>8. \A r \in Rows : progress'[r] # None => Earned(r, progress[r])'
  BY <1>0, <1>5 DEF Earned, PaidBy
<1> QED BY <1>4, <1>6, <1>7, <1>8 DEF StoredInv

LEMMA CommitStep ==
  ASSUME IInv, TInv', NEW h \in Handlers, Commit(h)
  PROVE  IInv'
<1>1. StoredInv'
  BY CommitStored
<1>2. LogsApart'
  <2> SUFFICES ASSUME NEW a \in Handlers, NEW b \in Handlers, a # b
               PROVE  tx'[a].newLogs \cap tx'[b].newLogs = {}
    BY DEF LogsApart
  <2>1. CASE a = h \/ b = h
    BY <2>1, CommitIs DEF Idle
  <2>2. CASE a # h /\ b # h
    BY <2>2, CommitIs DEF IInv, LogsApart
  <2> QED BY <2>1, <2>2
<1>3. ASSUME NEW g \in Handlers PROVE TxInv(g)'
  <2>1. CASE g = h
    <3>1. /\ Idle.snap = None /\ Idle.pc = "idle" /\ \A r \in Rows : Idle.new[r] = None
          /\ Idle.newLogs = {} /\ Idle.scored = {} /\ Idle.expd = {}
      BY DEF Idle
    <3>2. tx'[g] = Idle
      BY <2>1, CommitIs
    <3> QED BY <3>1, <3>2, EmptyTx
  <2>2. CASE g # h
    <3>1. Grows
      BY CommitIs DEF Grows, Commit
    <3>2. ASSUME NEW r \in Rows, NEW n \in logs'[r] \ logs[r] PROVE <<r, n>> \notin tx[g].newLogs
      <4>1. n \in Nat
        BY DEF TInv, TypeOK
      <4>2. <<r, n>> \in tx[h].newLogs
        BY <4>1, CommitIs
      <4> QED BY <2>2, <4>2 DEF IInv, LogsApart
    <3> QED BY <2>2, <3>1, <3>2, CommitIs, OthersStay
  <2> QED BY <2>1, <2>2
<1> QED BY <1>1, <1>2, <1>3 DEF IInv

-----------------------------------------------------------------------------
(* An event that lost its transaction                                      *)

\* It has nothing that is not committed, and the rows it goes on to write are loose.
Lost(h) ==
  tx[h].auto =>
    /\ tx[h].snap = None /\ tx[h].new = NoRows /\ tx[h].newLogs = {}
    /\ tx[h].scored = {} /\ tx[h].expd = {} /\ loose # {}
    /\ \A t \in tx[h].active : t >= tx[h].task => <<t, GetPeriodKey(t, tx[h].day)>> \in loose
    /\ tx[h].pc = "log" =>
         /\ tx[h].old.finish \in 1..MaxFinish[tx[h].task]
         /\ PaidBy(Row(h), tx[h].old) <= handled[Row(h)]

Inv == IInv /\ \A h \in Handlers : Lost(h)

LEMMA PaidNat == \A r \in Rows, p \in Progress : PaidBy(r, p) \in Nat
<1> SUFFICES ASSUME NEW r \in Rows, NEW p \in Progress PROVE PaidBy(r, p) \in Nat
  OBVIOUS
<1>1. p.finish \in Nat /\ p.count \in Nat /\ EventCount[r[1]] \in Nat
  BY KeyIsKey, TaskEngineAssumption DEF Progress
<1>2. p.finish * EventCount[r[1]] \in Nat
  BY <1>1, Distribute
<1> QED BY <1>1, <1>2 DEF PaidBy

\* The row at hand of such an event.
LEMMA LooseRow ==
  ASSUME TInv, NEW h \in Handlers, Lost(h), tx[h].auto,
         tx[h].pc \notin {"idle", "failed"}, tx[h].task \in tx[h].active
  PROVE  /\ tx[h] \in Txs /\ tx[h].task \in Tasks /\ tx[h].day \in Days
         /\ Row(h) \in Rows /\ Row(h) \in loose /\ Row(h)[1] = tx[h].task
         /\ tx[h].task \in Nat /\ View(h) = Committed
<1>1. tx[h] \in Txs /\ tx[h].day \in Days
  BY DEF TInv, TypeOK, Open
<1>2. tx[h].task \in Tasks /\ tx[h].task \in Nat
  BY <1>1, RowsNat DEF Txs
<1>3. Row(h) \in Rows /\ Row(h)[1] = tx[h].task
  BY <1>1, <1>2, RowIsRow DEF TInv, Row, Task
<1>4. Row(h) \in loose
  BY <1>2 DEF Lost, Row, Task
<1> QED BY <1>1, <1>2, <1>3, <1>4 DEF Lost, View

LEMMA LostStays ==
  ASSUME IInv, TInv', Grows, NEW g \in Handlers, tx'[g] = tx[g], Lost(g)
  PROVE  Lost(g)'
<1>1. \A r \in loose : r \in loose'
  BY DEF Grows, IInv, TInv, TypeOK
<1>2. ASSUME tx[g].auto, tx[g].pc = "log" PROVE PaidBy(Row(g), tx[g].old) <= handled'[Row(g)]
  <2>1. Row(g) \in Rows /\ tx[g].old \in Progress
    BY <1>2, RowIsRow DEF IInv, TInv, TypeOK, Open, Txs
  <2>2. PaidBy(Row(g), tx[g].old) \in Nat /\ PaidBy(Row(g), tx[g].old) <= handled[Row(g)]
    BY <1>2, <2>1, PaidNat DEF Lost
  <2>3. handled[Row(g)] \in Nat /\ handled'[Row(g)] \in Nat /\ handled[Row(g)] <= handled'[Row(g)]
    BY <2>1 DEF Grows, IInv, TInv, TypeOK
  <2> QED BY <2>2, <2>3
<1>3. Row(g)' = Row(g)
  BY DEF Row, Task
<1> QED BY <1>1, <1>2, <1>3 DEF Lost, PaidBy

\* Its transaction is in order.
LEMMA LostTx ==
  ASSUME NEW h \in Handlers, tx'[h].auto, tx'[h].snap = None, tx'[h].new = NoRows,
         tx'[h].newLogs = {}, tx'[h].scored = {}, tx'[h].expd = {},
         tx'[h].pc = "exp" => tx'[h].task \in ExpTasks,
         tx'[h].pc = "save" => Earned(Row(h), tx[h].old)' /\ tx'[h].old.finish < MaxFinish[tx'[h].task]
  PROVE  TxInv(h)'
<1>1. ReadInv(h)' /\ WriteInv(h)' /\ LogInv(h)'
  BY DEF ReadInv, WriteInv, LogInv, NoRows
<1>2. RewardInv(h)'
  BY DEF RewardInv, Logged
<1> QED BY <1>1, <1>2 DEF TxInv

\* The points of a task lose the transaction.
LEMMA DeadlockStep ==
  ASSUME Inv, TInv', NEW h \in Handlers, ScoreDeadlock(h)
  PROVE  Inv' /\ loose' # {}
<1>1. /\ tx[h].pc = "score" /\ tx[h] \in Txs /\ tx[h].task \in Tasks /\ tx[h].task \in tx[h].active
      /\ tx[h].day \in Days /\ tx[h].task \in Nat /\ tx[h].active \subseteq Tasks
  <2>1. tx[h].pc = "score" /\ tx[h] \in Txs
    BY DEF ScoreDeadlock, Inv, IInv, TInv, TypeOK
  <2> QED BY <2>1, RowsNat DEF Inv, IInv, TInv, Open, Txs
<1> DEFINE new == [Bare(tx[h]) EXCEPT !.pc = "exp_read", !.auto = TRUE, !.snap = None]
<1>2. /\ new.pc = "exp_read" /\ new.auto /\ new.snap = None /\ new.new = NoRows /\ new.newLogs = {}
      /\ new.scored = {} /\ new.expd = {} /\ new.task = tx[h].task /\ new.day = tx[h].day
      /\ new.active = tx[h].active
  <2> DEFINE b == Bare(tx[h])
  <2>1. b \in Txs
    BY <1>1, BareIs
  <2>2. /\ b.task = tx[h].task /\ b.day = tx[h].day /\ b.active = tx[h].active
        /\ b.new = NoRows /\ b.newLogs = {} /\ b.scored = {} /\ b.expd = {}
    BY <1>1, BareIs
  <2> HIDE DEF b
  <2>3. new = [b EXCEPT !.pc = "exp_read", !.auto = TRUE, !.snap = None]
    BY DEF b
  <2> HIDE DEF new
  <2> QED BY <2>1, <2>2, <2>3 DEF Txs
<1>3. tx' = [tx EXCEPT ![h] = new] /\ UNCHANGED <<stored, handled>>
      /\ loose' = loose \cup {<<t, GetPeriodKey(t, tx[h].day)>> : t \in {u \in tx[h].active : u >= tx[h].task}}
  BY DEF ScoreDeadlock, Task
<1> HIDE DEF new
<1>4. tx'[h] = new /\ \A g \in Handlers : g # h => tx'[g] = tx[g]
  BY <1>3 DEF Inv, IInv, TInv, TypeOK
<1>5. Grows /\ \A r \in Rows : logs'[r] = logs[r]
  BY <1>3 DEF Grows, stored, Inv, IInv, TInv, TypeOK
<1>6. TxInv(h)'
  BY <1>2, <1>4, LostTx
<1>7. Lost(h)' /\ loose' # {}
  <2>1. \A t \in tx[h].active : t >= tx[h].task => <<t, GetPeriodKey(t, tx[h].day)>> \in loose'
    BY <1>3
  <2>2. loose' # {}
    <3>1. tx[h].task >= tx[h].task
      BY <1>1
    <3> QED BY <1>1, <2>1, <3>1
  <2> QED BY <1>2, <1>4, <2>1, <2>2 DEF Lost
<1>8. \A g \in Handlers : g # h => TxInv(g)' /\ Lost(g)'
  BY <1>4, <1>5, OthersStay, LostStays DEF Inv
<1>9. LogsApart'
  BY <1>2, <1>4 DEF LogsApart, Inv, IInv
<1>10. StoredInv'
  <2>1. FinishesEarned'
    BY <1>3 DEF FinishesEarned, stored, Inv, IInv, StoredInv
  <2>2. FinishesNumbered'
    BY <1>3 DEF FinishesNumbered, stored, Inv, IInv, StoredInv
  <2>3. RewardedOnce'
    BY <1>3 DEF RewardedOnce, stored, Inv, IInv, StoredInv
  <2>4. \A r \in Rows : progress[r] # None => Earned(r, progress[r])'
    BY <1>3 DEF Earned, PaidBy, stored, Inv, IInv, StoredInv
  <2> QED BY <1>3, <2>1, <2>2, <2>3, <2>4 DEF StoredInv, stored
<1> QED BY <1>6, <1>7, <1>8, <1>9, <1>10 DEF Inv, IInv

\* A statement of such an event changes loose rows, each as its events earned it.
LEMMA AutoKeeps ==
  ASSUME Inv, TInv', NEW h \in Handlers, Grows, loose' = loose,
         \A g \in Handlers : g # h => tx'[g] = tx[g],
         tx'[h].newLogs = {}, TxInv(h)', Lost(h)',
         \A r \in Rows \ loose : /\ progress'[r] = progress[r] /\ logs'[r] = logs[r]
                                 /\ scoreRows'[r] = scoreRows[r] /\ expRows'[r] = expRows[r],
         \A r \in Rows : progress'[r] # progress[r] /\ progress'[r] # None =>
           PaidBy(r, progress'[r]) <= handled'[r],
         \A r \in Rows : \A n \in logs'[r] \ logs[r] :
           /\ n \in 1..MaxFinish[r[1]] /\ n * EventCount[r[1]] <= handled'[r]
           /\ \A g \in Handlers : g # h => <<r, n>> \notin tx[g].newLogs
  PROVE  Inv'
<1>1. \A g \in Handlers : g # h => TxInv(g)' /\ Lost(g)'
  BY OthersStay, LostStays DEF Inv
<1>2. LogsApart'
  <2> SUFFICES ASSUME NEW a \in Handlers, NEW b \in Handlers, a # b
               PROVE  tx'[a].newLogs \cap tx'[b].newLogs = {}
    BY DEF LogsApart
  <2>1. CASE a = h \/ b = h
    BY <2>1
  <2>2. CASE a # h /\ b # h
    BY <2>2 DEF Inv, IInv, LogsApart
  <2> QED BY <2>1, <2>2
<1>3. \A r \in Rows : /\ handled[r] \in Nat /\ handled'[r] \in Nat /\ handled[r] <= handled'[r]
                      /\ logs[r] \subseteq Nat /\ logs'[r] \subseteq Nat /\ logs[r] \subseteq logs'[r]
  BY DEF Grows, Inv, IInv, TInv, TypeOK
<1>4. FinishesEarned'
  <2> SUFFICES ASSUME NEW r \in Rows, NEW n \in logs'[r]
               PROVE  n * EventCount[r[1]] <= handled'[r]
    BY DEF FinishesEarned
  <2>1. CASE n \in logs[r]
    <3>1. n \in Nat /\ EventCount[r[1]] \in Nat
      BY <1>3, KeyIsKey, TaskEngineAssumption
    <3>2. n * EventCount[r[1]] \in Nat
      BY <3>1, Distribute
    <3>3. n * EventCount[r[1]] <= handled[r]
      BY <2>1 DEF Inv, IInv, StoredInv, FinishesEarned
    <3> QED BY <1>3, <3>2, <3>3
  <2>2. CASE n \notin logs[r]
    BY <2>2
  <2> QED BY <2>1, <2>2
<1>5. FinishesNumbered'
  <2> SUFFICES ASSUME NEW r \in Rows
               PROVE  /\ logs'[r] \subseteq 1..MaxFinish[r[1]]
                      /\ r \notin loose =>
                           /\ \A n \in logs'[r] : n > 1 => n - 1 \in logs'[r]
                           /\ progress'[r] # None => progress'[r].finish \in logs'[r] \cup {0}
    BY DEF FinishesNumbered
  <2>1. logs[r] \subseteq 1..MaxFinish[r[1]]
    BY DEF Inv, IInv, StoredInv, FinishesNumbered
  <2>2. CASE r \in loose
    BY <2>1, <2>2
  <2>3. CASE r \notin loose
    BY <2>1, <2>3 DEF Inv, IInv, StoredInv, FinishesNumbered
  <2> QED BY <2>2, <2>3
<1>6. RewardedOnce'
  BY DEF RewardedOnce, Inv, IInv, StoredInv
<1>7. \A r \in Rows : progress'[r] # None => Earned(r, progress[r])'
  <2> SUFFICES ASSUME NEW r \in Rows, progress'[r] # None
               PROVE  /\ PaidBy(r, progress'[r]) <= handled'[r]
                      /\ r \in loose \/ progress'[r].finish \in logs'[r] \cup {0}
    BY DEF Earned, PaidBy
  <2>1. CASE progress'[r] = progress[r]
    <3>1. PaidBy(r, progress[r]) \in Nat
      BY <2>1, PaidNat DEF Inv, IInv, TInv, TypeOK
    <3>2. PaidBy(r, progress[r]) <= handled[r] /\ (r \in loose \/ progress[r].finish \in logs[r] \cup {0})
      BY <2>1 DEF Inv, IInv, StoredInv, Earned
    <3> QED BY <1>3, <2>1, <3>1, <3>2
  <2>2. CASE progress'[r] # progress[r]
    BY <2>2
  <2> QED BY <2>1, <2>2
<1> QED BY <1>1, <1>2, <1>4, <1>5, <1>6, <1>7 DEF Inv, IInv, StoredInv

\* A statement that leaves such an event with the transaction "new".
LEMMA AutoBecome ==
  ASSUME Inv, TInv', NEW h \in Handlers, tx[h].auto, NEW new \in Txs, Become(h, new),
         new.snap = None, new.expd = {}, new.scored \subseteq loose,
         \A r \in Rows : new.new[r] # None =>
           r \in loose /\ PaidBy(r, new.new[r]) <= handled[r] + (IF new.new[r] = Zero THEN 0 ELSE 1),
         \A r \in Rows, n \in Nat : <<r, n>> \in new.newLogs =>
           /\ r \in loose /\ n \in 1..MaxFinish[r[1]] /\ n * EventCount[r[1]] <= handled[r]
           /\ \A g \in Handlers : g # h => <<r, n>> \notin tx[g].newLogs,
         \/ ~ new.auto /\ new.pc \in {"idle", "failed"}
         \/ /\ new.auto /\ new.day = tx[h].day /\ new.active = tx[h].active
            /\ new.task = tx[h].task \/ (new.task = tx[h].task + 1 /\ tx[h].task \in Nat /\ tx[h].active \subseteq Nat)
            /\ new.pc = "exp" => new.task \in ExpTasks
            /\ new.pc \in {"save", "log"} => new.task = tx[h].task /\ PaidBy(Row(h), new.old) <= handled'[Row(h)]
            /\ new.pc = "save" => new.old.finish < MaxFinish[new.task]
            /\ new.pc = "log" => new.old.finish \in 1..MaxFinish[new.task]
  PROVE  Inv'
<1>0. TInv /\ tx[h] \in Txs /\ loose' = loose /\ Write(new) /\ tx' = [tx EXCEPT ![h] = Bare(new)]
  BY DEF Become, Inv, IInv, TInv, TypeOK
<1>1. tx'[h] = Bare(new) /\ \A g \in Handlers : g # h => tx'[g] = tx[g]
  BY <1>0 DEF TInv, TypeOK
<1>2. /\ tx'[h].pc = new.pc /\ tx'[h].day = new.day /\ tx'[h].active = new.active
      /\ tx'[h].task = new.task /\ tx'[h].auto = new.auto /\ tx'[h].snap = None
      /\ tx'[h].old = new.old /\ tx'[h].new = NoRows /\ tx'[h].newLogs = {}
      /\ tx'[h].scored = {} /\ tx'[h].expd = {}
  <2>1. PICK b : b = Bare(new)
    OBVIOUS
  <2>2. /\ b.pc = new.pc /\ b.day = new.day /\ b.active = new.active
        /\ b.task = new.task /\ b.auto = new.auto /\ b.snap = new.snap /\ b.old = new.old
        /\ b.new = NoRows /\ b.newLogs = {} /\ b.scored = {} /\ b.expd = {}
    BY <2>1, BareIs
  <2> QED BY <1>1, <2>1, <2>2
<1>3. \A r \in Rows :
         /\ progress'[r] = IF new.new[r] # None THEN new.new[r] ELSE progress[r]
         /\ logs[r] \subseteq logs'[r]
         /\ \A n \in Nat : n \in logs'[r] <=> n \in logs[r] \/ <<r, n>> \in new.newLogs
         /\ handled[r] \in Nat /\ handled'[r] \in Nat /\ handled[r] <= handled'[r]
         /\ handled'[r] = handled[r] + (IF new.new[r] \in {None, Zero} THEN 0 ELSE 1)
         /\ scoreRows'[r] = scoreRows[r] + (IF r \in new.scored THEN 1 ELSE 0)
         /\ expRows'[r] = expRows[r] + (IF r \in new.expd THEN 1 ELSE 0)
  BY <1>0, WriteIs
<1>4. Grows /\ \A r \in Rows : logs[r] \subseteq Nat /\ logs'[r] \subseteq Nat
  BY <1>0, <1>3 DEF Grows, TInv, TypeOK
<1>5. Lost(h)'
  <2> SUFFICES ASSUME new.auto PROVE Lost(h)'
    BY <1>2 DEF Lost
  <2>1. /\ loose # {}
        /\ \A t \in tx[h].active : t >= tx[h].task => <<t, GetPeriodKey(t, tx[h].day)>> \in loose
    BY DEF Inv, Lost
  <2>2. \A t \in new.active : t >= new.task => <<t, GetPeriodKey(t, new.day)>> \in loose
    BY <2>1
  <2>3. new.task = tx[h].task => Row(h)' = Row(h)
    BY <1>2 DEF Row, Task
  <2>4. \A r : PaidBy(r, tx[h].old)' = PaidBy(r, new.old)
    BY <1>2 DEF PaidBy
  <2> QED BY <1>0, <1>2, <2>1, <2>2, <2>3, <2>4 DEF Lost
<1>6. TxInv(h)'
  <2>1. CASE ~ new.auto
    <3>1. \A r \in Rows : NoRows[r] = None
      BY DEF NoRows
    <3> QED BY <1>2, <2>1, <3>1, EmptyTx
  <2>2. CASE new.auto
    <3>1. ASSUME new.pc = "save" PROVE Earned(Row(h), tx[h].old)'
      <4>1. Row(h)' = Row(h)
        BY <1>2, <2>2, <3>1 DEF Row, Task
      <4>2. Row(h)' \in loose'
        <5>1. tx'[h].task \in tx'[h].active /\ tx'[h].task \in Tasks
          BY <1>2, <3>1 DEF TInv, Open
        <5>2. \A t \in Tasks : t >= t
          BY RowsNat
        <5> QED BY <1>2, <1>5, <2>2, <5>1, <5>2 DEF Lost, Row, Task
      <4> QED BY <1>2, <2>2, <3>1, <4>1, <4>2 DEF Earned, PaidBy
    <3> QED BY <1>2, <2>2, <3>1, LostTx
  <2> QED BY <2>1, <2>2
<1>7. \A r \in Rows \ loose : /\ progress'[r] = progress[r] /\ logs'[r] = logs[r]
                              /\ scoreRows'[r] = scoreRows[r] /\ expRows'[r] = expRows[r]
  <2> SUFFICES ASSUME NEW r \in Rows, r \notin loose
               PROVE  /\ progress'[r] = progress[r] /\ logs'[r] = logs[r]
                      /\ scoreRows'[r] = scoreRows[r] /\ expRows'[r] = expRows[r]
    OBVIOUS
  <2>1. new.new[r] = None /\ r \notin new.scored /\ \A n \in Nat : <<r, n>> \notin new.newLogs
    OBVIOUS
  <2>2. logs'[r] = logs[r]
    <3>1. \A n \in Nat : n \in logs'[r] <=> n \in logs[r]
      BY <1>3, <2>1
    <3>2. logs[r] \subseteq Nat /\ logs'[r] \subseteq Nat
      BY <1>4
    <3> QED BY <3>1, <3>2
  <2>3. scoreRows[r] \in Nat /\ expRows[r] \in Nat
    BY <1>0 DEF TInv, TypeOK
  <2> QED BY <1>3, <2>1, <2>2, <2>3
<1>8. ASSUME NEW r \in Rows, progress'[r] # progress[r], progress'[r] # None
      PROVE  PaidBy(r, progress'[r]) <= handled'[r]
  <2>1. new.new[r] # None /\ progress'[r] = new.new[r]
    BY <1>3, <1>8
  <2>2. handled'[r] = handled[r] + (IF new.new[r] = Zero THEN 0 ELSE 1)
    BY <1>3, <2>1
  <2> QED BY <2>1, <2>2
<1>9. ASSUME NEW r \in Rows, NEW n \in logs'[r] \ logs[r]
      PROVE  /\ n \in 1..MaxFinish[r[1]] /\ n * EventCount[r[1]] <= handled'[r]
             /\ \A g \in Handlers : g # h => <<r, n>> \notin tx[g].newLogs
  <2>1. n \in Nat /\ <<r, n>> \in new.newLogs
    BY <1>3, <1>4
  <2>2. n * EventCount[r[1]] \in Nat
    BY <2>1, Distribute, KeyIsKey, TaskEngineAssumption
  <2> QED BY <1>3, <2>1, <2>2
<1> QED BY <1>0, <1>1, <1>2, <1>4, <1>5, <1>6, <1>7, <1>8, <1>9, AutoKeeps

LEMMA AutoStep ==
  ASSUME Inv, TInv', NEW h \in Handlers, tx[h].auto, Step(h)
  PROVE  Inv'
<1>1. /\ TInv /\ tx[h] \in Txs /\ Lost(h) /\ TxInv(h)
      /\ tx[h].active \subseteq Nat /\ tx[h].task \in Nat
  <2>1. TInv /\ tx[h] \in Txs /\ Lost(h) /\ TxInv(h)
    BY DEF Inv, IInv, TInv, TypeOK
  <2>2. tx[h].active \subseteq Nat
    BY <2>1, RowsNat DEF Txs
  <2>3. tx[h].task \in Nat
    <3>1. tx[h].task \in 1..(NTasks + 1)
      BY <2>1 DEF Txs
    <3> QED BY <3>1, TaskEngineAssumption
  <2> QED BY <2>1, <2>2, <2>3
<1>2. /\ tx[h].snap = None /\ tx[h].new = NoRows /\ tx[h].newLogs = {}
      /\ tx[h].scored = {} /\ tx[h].expd = {}
  BY <1>1 DEF Lost
<1>3. \A r \in Rows : NoRows[r] = None
  BY DEF NoRows
\* A step that writes nothing but points or a level.
<1>4. ASSUME NEW new \in Txs, Become(h, new), new.snap = None, new.expd = {},
             new.new = NoRows, new.newLogs = {}, new.scored \subseteq loose,
             \/ ~ new.auto /\ new.pc \in {"idle", "failed"}
             \/ /\ new.auto /\ new.day = tx[h].day /\ new.active = tx[h].active
                /\ new.task \in {tx[h].task, tx[h].task + 1}
                /\ new.pc = "exp" => new.task \in ExpTasks
                /\ new.pc = "save" =>
                     /\ new.task = tx[h].task /\ PaidBy(Row(h), new.old) <= handled'[Row(h)]
                     /\ new.old.finish < MaxFinish[new.task]
                /\ new.pc # "log"
      PROVE  Inv'
  BY <1>1, <1>3, <1>4, AutoBecome
<1>5. ASSUME NEW e \in {"duplicate row", "duplicate log", "duplicate badge", "database"},
             Become(h, Rollback(h, e))
      PROVE  Inv'
  <2>1. PICK new : new = Rollback(h, e)
    OBVIOUS
  <2>2. /\ new.pc = "failed" /\ ~ new.auto /\ new.snap = None /\ new.expd = {} /\ new.scored = {}
        /\ new.new = NoRows /\ new.newLogs = {}
    BY <2>1 DEF Rollback, Idle, NoRows
  <2>3. new \in Txs
    BY <2>1, RollbackType
  <2> QED BY <1>4, <1>5, <2>1, <2>2, <2>3
<1>6. ASSUME NEW new \in {NextTask(h), [NextTask(h) EXCEPT !.newBadge = TRUE]}, Become(h, new),
             tx[h].task \in Tasks, tx[h].day \in Days
      PROVE  Inv'
  <2>1. /\ new.pc = "take" /\ new.auto /\ new.snap = None /\ new.expd = {} /\ new.scored = {}
        /\ new.new = NoRows /\ new.newLogs = {} /\ new.day = tx[h].day
        /\ new.active = tx[h].active /\ new.task = tx[h].task + 1
    BY <1>1, <1>2 DEF NextTask, Txs
  <2>2. new \in Txs
    <3>1. NextTask(h) \in Txs
      BY <1>1, <1>6, NextTaskType
    <3>2. [NextTask(h) EXCEPT !.newBadge = TRUE] \in Txs
      BY <3>1 DEF Txs
    <3> QED BY <3>1, <3>2
  <2> QED BY <1>4, <1>6, <2>1, <2>2
<1>7. ASSUME tx[h].pc \notin {"idle", "failed"}, tx[h].task \in tx[h].active
      PROVE  /\ tx[h].task \in Tasks /\ tx[h].day \in Days /\ Row(h) \in Rows /\ Row(h) \in loose
             /\ Row(h)[1] = tx[h].task /\ View(h) = Committed /\ handled[Row(h)] \in Nat
             /\ handled'[Row(h)] \in Nat /\ MaxFinish[tx[h].task] \in Nat \ {0}
  <2>1. /\ tx[h].task \in Tasks /\ tx[h].day \in Days /\ Row(h) \in Rows /\ Row(h) \in loose
        /\ Row(h)[1] = tx[h].task /\ View(h) = Committed
    BY <1>1, <1>7, LooseRow
  <2>2. handled[Row(h)] \in Nat /\ handled'[Row(h)] \in Nat
    BY <1>1, <2>1 DEF TInv, TypeOK
  <2> QED BY <2>1, <2>2, TaskEngineAssumption
<1>8. tx[h].pc \notin {"idle", "failed", "take"} => tx[h].task \in tx[h].active
  BY <1>1 DEF TInv, Open
<1>9. CASE \E d \in Days, T \in SUBSET Tasks : Begin(h, d, T)
  <2>1. PICK d \in Days, T \in SUBSET Tasks : Begin(h, d, T)
    BY <1>9
  <2>2. IInv'
    BY <2>1, BeginStep DEF Inv
  <2> DEFINE new == [Idle EXCEPT !.pc = "take", !.day = d, !.active = T]
  <2>3. ~ new.auto
    BY DEF Idle
  <2>4. tx' = [tx EXCEPT ![h] = new] /\ UNCHANGED <<stored, handled, loose>>
    BY <2>1 DEF Begin
  <2> HIDE DEF new
  <2>5. tx'[h] = new /\ \A g \in Handlers : g # h => tx'[g] = tx[g]
    BY <1>1, <2>4 DEF TInv, TypeOK
  <2>6. Grows
    BY <1>1, <2>4 DEF Grows, stored, TInv, TypeOK
  <2>7. \A g \in Handlers : g # h => Lost(g)'
    BY <2>5, <2>6, LostStays DEF Inv
  <2>8. Lost(h)'
    BY <2>3, <2>5 DEF Lost
  <2> QED BY <2>2, <2>7, <2>8 DEF Inv
<1>10. CASE Take(h)
  <2>1. tx[h].pc = "take" /\ tx[h].task \in tx[h].active
    BY <1>10 DEF Take, Task
  <2> DEFINE seen == progress[Row(h)]
             one   == [tx[h] EXCEPT !.snap = None, !.pc = "create"]
             two   == [tx[h] EXCEPT !.snap = None, !.pc = "save", !.old = seen]
             three == [tx[h] EXCEPT !.snap = None, !.task = @ + 1]
  <2>2. \/ Become(h, one)
        \/ seen # None /\ seen.finish < MaxFinish[tx[h].task] /\ Become(h, two)
        \/ Become(h, three)
    <3> DEFINE self == [tx[h] EXCEPT !.snap = IF MySQL /\ ~ tx[h].auto THEN View(h) ELSE None]
    <3>1. self = [tx[h] EXCEPT !.snap = None]
      OBVIOUS
    <3>2. View(h).progress[Row(h)] = seen
      BY <1>7, <2>1 DEF Committed
    <3>3. \/ Become(h, [self EXCEPT !.pc = "create"])
          \/ /\ seen # None /\ seen.finish < MaxFinish[tx[h].task]
             /\ Become(h, [self EXCEPT !.pc = "save", !.old = seen])
          \/ Become(h, [self EXCEPT !.task = @ + 1])
      BY <1>10, <3>2 DEF Take, Task
    <3> HIDE DEF seen, self
    <3>4. /\ one = [self EXCEPT !.pc = "create"] /\ two = [self EXCEPT !.pc = "save", !.old = seen]
          /\ three = [self EXCEPT !.task = @ + 1]
      BY <1>1, <3>1 DEF Txs
    <3> HIDE DEF one, two, three
    <3> QED BY <3>3, <3>4
  <2>3. seen # None => seen \in Progress /\ PaidBy(Row(h), seen) <= handled[Row(h)]
    BY <1>1, <1>7, <2>1 DEF Inv, IInv, StoredInv, Earned, TInv, TypeOK
  <2> HIDE DEF seen
  <2>4. CASE Become(h, one)
    <3>1. /\ one \in Txs /\ one.pc = "create" /\ one.auto /\ one.snap = None /\ one.expd = {}
          /\ one.scored = {} /\ one.new = NoRows /\ one.newLogs = {} /\ one.day = tx[h].day
          /\ one.active = tx[h].active /\ one.task = tx[h].task
      <4>1. one \in Txs
        BY <1>1 DEF Txs, Pcs
      <4> QED BY <1>1, <1>2, <4>1 DEF Txs
    <3> HIDE DEF one
    <3> QED BY <1>4, <2>4, <3>1
  <2>5. CASE seen # None /\ seen.finish < MaxFinish[tx[h].task] /\ Become(h, two)
    <3>1. /\ two \in Txs /\ two.pc = "save" /\ two.auto /\ two.snap = None /\ two.expd = {}
          /\ two.scored = {} /\ two.new = NoRows /\ two.newLogs = {} /\ two.day = tx[h].day
          /\ two.active = tx[h].active /\ two.task = tx[h].task /\ two.old = seen
      <4>1. two \in Txs
        BY <1>1, <2>3, <2>5 DEF Txs, Pcs
      <4> QED BY <1>1, <1>2, <4>1 DEF Txs
    <3> HIDE DEF two
    <3>2. Write(two)
      BY <2>5 DEF Become
    <3>3. handled[Row(h)] <= handled'[Row(h)] /\ PaidBy(Row(h), seen) \in Nat
      BY <1>1, <1>7, <2>1, <2>3, <2>5, <3>1, <3>2, WriteIs, PaidNat
    <3>4. PaidBy(Row(h), two.old) <= handled'[Row(h)]
      BY <1>7, <2>1, <2>3, <2>5, <3>1, <3>3
    <3> QED BY <1>4, <2>5, <3>1, <3>4
  <2>6. CASE Become(h, three)
    <3>1. tx[h].task + 1 \in 1..(NTasks + 1)
      BY <1>7, <2>1, TaskEngineAssumption DEF Tasks
    <3>2. /\ three \in Txs /\ three.pc = "take" /\ three.auto /\ three.snap = None /\ three.expd = {}
          /\ three.scored = {} /\ three.new = NoRows /\ three.newLogs = {} /\ three.day = tx[h].day
          /\ three.active = tx[h].active /\ three.task = tx[h].task + 1
      <4>1. three \in Txs
        BY <1>1, <3>1 DEF Txs, Pcs
      <4> QED BY <1>1, <1>2, <2>1, <4>1 DEF Txs
    <3> HIDE DEF three
    <3> QED BY <1>4, <2>6, <3>2
  <2> QED BY <2>2, <2>4, <2>5, <2>6
<1>11. CASE SkipInactive(h)
  <2>1. tx[h].task \in Tasks /\ tx[h].day \in Days
    BY <1>1, <1>11 DEF SkipInactive, Task, TInv, Open
  <2> QED BY <1>6, <1>11, <2>1 DEF SkipInactive
<1>12. CASE Create(h)
  <2>1. tx[h].pc = "create"
    BY <1>12 DEF Create
  <2> DEFINE new == [tx[h] EXCEPT !.pc = "save", !.old = Zero, !.new[Row(h)] = Zero]
  <2>2. CASE Become(h, new)
    <3>1. Zero \in Progress /\ PaidBy(Row(h), Zero) = 0
      BY <1>7, <1>8, <2>1, TaskEngineAssumption DEF Zero, Progress, PaidBy
    <3>2. /\ new \in Txs /\ new.pc = "save" /\ new.auto /\ new.snap = None /\ new.expd = {}
          /\ new.scored = {} /\ new.newLogs = {} /\ new.day = tx[h].day
          /\ new.active = tx[h].active /\ new.task = tx[h].task /\ new.old = Zero
          /\ new.new = [NoRows EXCEPT ![Row(h)] = Zero]
      BY <1>1, <1>2, <1>7, <1>8, <2>1, <3>1 DEF Txs, Pcs
    <3> HIDE DEF new
    <3>3. \A r \in Rows : new.new[r] # None => r = Row(h) /\ new.new[r] = Zero
      BY <3>2 DEF NoRows
    <3>4. PaidBy(Row(h), new.old) <= handled'[Row(h)] /\ new.old.finish < MaxFinish[new.task]
      BY <1>7, <1>8, <2>1, <3>1, <3>2 DEF Zero
    <3>5. \A r \in Rows : new.new[r] # None =>
            r \in loose /\ PaidBy(r, new.new[r]) <= handled[r] + (IF new.new[r] = Zero THEN 0 ELSE 1)
      BY <1>7, <1>8, <2>1, <3>1, <3>3
    <3>6. \A r \in Rows, n \in Nat : <<r, n>> \notin new.newLogs
      BY <3>2
    <3>7. tx[h].auto /\ new.scored \subseteq loose
      BY <3>2
    <3>8. PaidBy(Row(h), new.old) <= handled'[Row(h)] /\ new.task = tx[h].task
      BY <3>2, <3>4
    <3> QED BY <2>2, <3>2, <3>4, <3>5, <3>6, <3>7, <3>8, AutoBecome
  <2> QED BY <1>5, <1>12, <2>2 DEF Create
<1>13. CASE Save(h)
  <2>1. tx[h].pc = "save" /\ tx[h].old \in Progress
    BY <1>1, <1>13 DEF Save, Txs
  <2>2. PICK p : p = Advance(Task(h), tx[h].old)
    OBVIOUS
  <2>3. Earned(Row(h), tx[h].old) /\ tx[h].old.finish < MaxFinish[tx[h].task]
    BY <1>1, <2>1 DEF TxInv, ReadInv
  <2>4. /\ p \in Progress /\ PaidBy(Row(h), p) <= handled[Row(h)] + 1
        /\ \/ p.finish = tx[h].old.finish
           \/ p.finish = tx[h].old.finish + 1 /\ p.count = 0 /\ p.finish \in 1..MaxFinish[tx[h].task]
    BY <1>1, <1>7, <1>8, <2>1, <2>2, <2>3, AdvanceIs DEF Task
  <2>5. p # None
    BY <2>4, TaskEngineAssumption DEF Progress
  <2>6. p # Zero
    <3>1. EventCount[tx[h].task] \in Nat \ {0}
      BY <1>7, <1>8, <2>1, TaskEngineAssumption
    <3>2. tx[h].old.count \in Nat /\ tx[h].old.finish \in Nat
      BY <2>1 DEF Progress
    <3>3. CASE tx[h].old.count + 1 < EventCount[Task(h)]
      <4>1. p = [tx[h].old EXCEPT !.count = @ + 1]
        BY <2>2, <3>3 DEF Advance
      <4>2. p.count = tx[h].old.count + 1
        BY <2>1, <4>1 DEF Progress
      <4> QED BY <3>2, <4>2 DEF Zero
    <3>4. CASE ~ (tx[h].old.count + 1 < EventCount[Task(h)])
      <4>1. p = [finish |-> tx[h].old.finish + 1, count |-> 0]
        BY <2>2, <3>4 DEF Advance
      <4>2. p.finish = tx[h].old.finish + 1
        BY <4>1
      <4> QED BY <3>2, <4>2 DEF Zero
    <3> QED BY <3>3, <3>4
  <2> DEFINE one == [NextTask(h) EXCEPT !.new[Row(h)] = p]
             two == [tx[h] EXCEPT !.pc = "log", !.old = p, !.new[Row(h)] = p]
  <2>7. \/ Become(h, one) \/ (p.finish # tx[h].old.finish /\ Become(h, two))
    BY <1>13, <2>2 DEF Save
  <2>8. /\ one \in Txs /\ one.pc = "take" /\ one.auto /\ one.snap = None /\ one.expd = {}
        /\ one.scored = {} /\ one.newLogs = {} /\ one.day = tx[h].day
        /\ one.active = tx[h].active /\ one.task = tx[h].task + 1
        /\ one.new = [NoRows EXCEPT ![Row(h)] = p]
    <3>1. /\ NextTask(h) \in Txs /\ NextTask(h).new = NoRows /\ NextTask(h).pc = "take"
          /\ NextTask(h).auto /\ NextTask(h).snap = None /\ NextTask(h).expd = {}
          /\ NextTask(h).scored = {} /\ NextTask(h).newLogs = {} /\ NextTask(h).day = tx[h].day
          /\ NextTask(h).active = tx[h].active /\ NextTask(h).task = tx[h].task + 1
      <4>1. NextTask(h) \in Txs
        BY <1>1, <1>7, <1>8, <2>1, NextTaskType
      <4> QED BY <1>1, <1>2, <4>1 DEF NextTask, Txs
    <3> QED BY <1>7, <1>8, <2>1, <2>4, <3>1 DEF Txs
  <2>9. /\ two \in Txs /\ two.pc = "log" /\ two.auto /\ two.snap = None /\ two.expd = {}
        /\ two.scored = {} /\ two.newLogs = {} /\ two.day = tx[h].day
        /\ two.active = tx[h].active /\ two.task = tx[h].task /\ two.old = p
        /\ two.new = [NoRows EXCEPT ![Row(h)] = p]
    BY <1>1, <1>2, <1>7, <1>8, <2>1, <2>4 DEF Txs, Pcs
  <2> HIDE DEF one, two
  <2>10. \A r \in Rows : one.new[r] # None => r = Row(h) /\ one.new[r] = p
    BY <2>8 DEF NoRows
  <2>11. \A r \in Rows : two.new[r] # None => r = Row(h) /\ two.new[r] = p
    BY <2>9 DEF NoRows
  <2>12. CASE Become(h, one)
    BY <1>1, <1>7, <1>8, <2>1, <2>4, <2>6, <2>8, <2>10, <2>12, AutoBecome
  <2>13. CASE p.finish # tx[h].old.finish /\ Become(h, two)
    <3>1. Write(two) /\ two.new[Row(h)] = p
      BY <1>7, <1>8, <2>1, <2>9, <2>13 DEF Become, NoRows
    <3>2. handled'[Row(h)] = handled[Row(h)] + 1
      BY <1>1, <1>7, <1>8, <2>1, <2>5, <2>6, <2>9, <3>1, WriteIs
    <3>3. two.old.finish \in 1..MaxFinish[two.task] /\ PaidBy(Row(h), two.old) <= handled'[Row(h)]
      BY <2>4, <2>9, <2>13, <3>2
    <3> QED BY <1>1, <1>7, <1>8, <2>1, <2>4, <2>6, <2>9, <2>11, <2>13, <3>3, AutoBecome
  <2> QED BY <2>7, <2>12, <2>13
<1>14. CASE InsertLog(h)
  <2>1. tx[h].pc = "log" /\ tx[h].old \in Progress
    BY <1>1, <1>14 DEF InsertLog, Txs
  <2>2. PICK n : n = tx[h].old.finish
    OBVIOUS
  <2>3. /\ n \in 1..MaxFinish[tx[h].task] /\ n \in Nat /\ tx[h].old.count \in Nat
        /\ PaidBy(Row(h), tx[h].old) <= handled[Row(h)]
    BY <1>1, <2>1, <2>2 DEF Lost, Progress
  <2>4. n * EventCount[Row(h)[1]] <= handled[Row(h)]
    <3>1. n * EventCount[Row(h)[1]] \in Nat
      BY <1>7, <1>8, <2>1, <2>3, Distribute, TaskEngineAssumption
    <3> QED BY <1>7, <1>8, <2>1, <2>2, <2>3, <3>1 DEF PaidBy
  <2>5. PICK L : L = {<<Row(h), n>>}
    OBVIOUS
  <2> DEFINE new == [tx[h] EXCEPT !.pc = "score", !.newLogs = L]
  <2>6. /\ Free(h)
        /\ \/ Become(h, new)
           \/ Become(h, NextTask(h)) \/ Become(h, Rollback(h, "duplicate log"))
    <3>1. L = tx[h].newLogs \cup {<<Row(h), n>>}
      BY <1>2, <2>5
    <3> QED BY <1>14, <2>2, <3>1 DEF InsertLog
  <2>7. CASE Become(h, new)
    <3>1. L \in SUBSET (Rows \X Nat)
      BY <1>7, <1>8, <2>1, <2>3, <2>5
    <3>2. /\ new \in Txs /\ new.pc = "score" /\ new.auto /\ new.snap = None /\ new.expd = {}
          /\ new.scored = {} /\ new.newLogs = L /\ new.day = tx[h].day
          /\ new.active = tx[h].active /\ new.task = tx[h].task /\ new.new = NoRows
      BY <1>1, <1>2, <3>1 DEF Txs, Pcs
    <3> HIDE DEF new
    <3>3. \A g \in Handlers : g # h => <<Row(h), n>> \notin tx[g].newLogs
      BY <2>1, <2>2, <2>6 DEF Free, Waits, Others
    <3>4. \A r \in Rows, m \in Nat : <<r, m>> \in new.newLogs => r = Row(h) /\ m = n
      BY <2>5, <3>2
    <3>5. \A r \in Rows, m \in Nat : <<r, m>> \in new.newLogs =>
            /\ r \in loose /\ m \in 1..MaxFinish[r[1]] /\ m * EventCount[r[1]] <= handled[r]
            /\ \A g \in Handlers : g # h => <<r, m>> \notin tx[g].newLogs
      BY <1>7, <1>8, <2>1, <2>3, <2>4, <3>3, <3>4
    <3> QED BY <1>1, <1>3, <2>7, <3>2, <3>5, AutoBecome
  <2> QED BY <1>5, <1>6, <1>7, <1>8, <2>1, <2>6, <2>7
<1>15. CASE Score(h)
  <2>1. tx[h].pc = "score"
    BY <1>15 DEF Score
  <2>2. PICK S \in {{}, {Row(h)}} : Become(h, [tx[h] EXCEPT !.pc = "exp_read", !.scored = S])
    <3>1. /\ [tx[h] EXCEPT !.pc = "exp_read"] = [tx[h] EXCEPT !.pc = "exp_read", !.scored = {}]
          /\ [tx[h] EXCEPT !.pc = "exp_read", !.scored = @ \cup {Row(h)}]
               = [tx[h] EXCEPT !.pc = "exp_read", !.scored = {Row(h)}]
      BY <1>1, <1>2 DEF Txs
    <3> QED BY <1>15, <3>1 DEF Score
  <2> DEFINE new == [tx[h] EXCEPT !.pc = "exp_read", !.scored = S]
  <2>3. /\ new \in Txs /\ new.pc = "exp_read" /\ new.auto /\ new.snap = None /\ new.expd = {}
        /\ new.scored = S /\ new.newLogs = {} /\ new.day = tx[h].day
        /\ new.active = tx[h].active /\ new.task = tx[h].task /\ new.new = NoRows
    <3>1. new \in Txs
      BY <1>1, <1>7, <1>8, <2>1 DEF Txs, Pcs
    <3> QED BY <1>1, <1>2, <3>1 DEF Txs
  <2>4. Become(h, new) /\ new.scored \subseteq loose
    BY <1>7, <1>8, <2>1, <2>2, <2>3
  <2> HIDE DEF new
  <2> QED BY <1>4, <2>3, <2>4
<1>16. CASE ExpRead(h)
  <2>1. tx[h].pc = "exp_read"
    BY <1>16 DEF ExpRead
  <2>2. PICK l : l = IF tx[h].newLevel # None THEN tx[h].newLevel
                     ELSE IF WritesUser(h) THEN level ELSE View(h).level
    OBVIOUS
  <2>3. l \in Nat
    <3>1. tx[h].newLevel \in Nat \cup {None} /\ level \in Nat /\ View(h).level \in Nat
      BY <1>1, ViewType DEF Txs, TInv, TypeOK, Snapshots
    <3> QED BY <2>2, <3>1
  <2>4. PICK pc \in {"badge", "exp"}, m \in Nat :
          /\ Become(h, [tx[h] EXCEPT !.pc = pc, !.oldLevel = m])
          /\ pc = "exp" => tx[h].task \in ExpTasks
    <3>1. [tx[h] EXCEPT !.pc = "badge"] = [tx[h] EXCEPT !.pc = "badge", !.oldLevel = tx[h].oldLevel]
          /\ tx[h].oldLevel \in Nat
      BY <1>1 DEF Txs
    <3>2. \/ Become(h, [tx[h] EXCEPT !.pc = "badge"])
          \/ tx[h].task \in ExpTasks /\ Become(h, [tx[h] EXCEPT !.pc = "exp", !.oldLevel = l])
      BY <1>16, <2>2 DEF ExpRead, Task
    <3> QED BY <2>3, <3>1, <3>2
  <2> DEFINE new == [tx[h] EXCEPT !.pc = pc, !.oldLevel = m]
  <2>5. /\ new \in Txs /\ new.pc \in {"badge", "exp"} /\ new.auto /\ new.snap = None /\ new.expd = {}
        /\ new.scored = {} /\ new.newLogs = {} /\ new.day = tx[h].day
        /\ new.active = tx[h].active /\ new.task = tx[h].task /\ new.new = NoRows
        /\ new.pc = "exp" => tx[h].task \in ExpTasks
    <3>1. new \in Txs
      BY <1>1 DEF Txs, Pcs
    <3> QED BY <1>1, <1>2, <2>4, <3>1 DEF Txs
  <2>6. Become(h, new)
    BY <2>4
  <2> HIDE DEF new
  <2> QED BY <1>4, <2>5, <2>6
<1>17. CASE AutoReadLevel(h)
  <2>1. PICK l : l = CalcLevelByExp(exp)
    OBVIOUS
  <2>2. l \in Nat
    BY <1>1, <2>1, LevelsNat DEF TInv, TypeOK
  <2>3. PICK pc \in {"badge", "set_level"}, m \in Nat :
          Become(h, [tx[h] EXCEPT !.pc = pc, !.oldLevel = m])
    <3>1. [tx[h] EXCEPT !.pc = "badge"] = [tx[h] EXCEPT !.pc = "badge", !.oldLevel = tx[h].oldLevel]
          /\ tx[h].oldLevel \in Nat
      BY <1>1 DEF Txs
    <3>2. \/ Become(h, [tx[h] EXCEPT !.pc = "badge"])
          \/ Become(h, [tx[h] EXCEPT !.pc = "set_level", !.oldLevel = l])
      BY <1>17, <2>1 DEF AutoReadLevel
    <3> QED BY <2>2, <3>1, <3>2
  <2> DEFINE new == [tx[h] EXCEPT !.pc = pc, !.oldLevel = m]
  <2>4. /\ new \in Txs /\ new.pc \in {"badge", "set_level"} /\ new.auto /\ new.snap = None /\ new.expd = {}
        /\ new.scored = {} /\ new.newLogs = {} /\ new.day = tx[h].day
        /\ new.active = tx[h].active /\ new.task = tx[h].task /\ new.new = NoRows
    <3>1. new \in Txs
      BY <1>1 DEF Txs, Pcs
    <3> QED BY <1>1, <1>2, <3>1 DEF Txs
  <2>5. Become(h, new)
    BY <2>3
  <2> HIDE DEF new
  <2> QED BY <1>4, <2>4, <2>5
<1>18. CASE AutoSetLevel(h)
  <2> DEFINE new == [tx[h] EXCEPT !.pc = "badge", !.newLevel = tx[h].oldLevel]
  <2>1. Become(h, new)
    BY <1>18 DEF AutoSetLevel
  <2>2. /\ new \in Txs /\ new.pc = "badge" /\ new.auto /\ new.snap = None /\ new.expd = {}
        /\ new.scored = {} /\ new.newLogs = {} /\ new.day = tx[h].day
        /\ new.active = tx[h].active /\ new.task = tx[h].task /\ new.new = NoRows
    BY <1>1, <1>2 DEF Txs, Pcs
  <2> HIDE DEF new
  <2> QED BY <1>4, <2>1, <2>2
<1>19. CASE CheckBadge(h)
  <2>1. tx[h].pc = "badge"
    BY <1>19 DEF CheckBadge
  <2> DEFINE new == [tx[h] EXCEPT !.pc = "give"]
  <2>2. Become(h, NextTask(h)) \/ Become(h, new)
    BY <1>19 DEF CheckBadge
  <2>3. CASE Become(h, new)
    <3>1. /\ new \in Txs /\ new.pc = "give" /\ new.auto /\ new.snap = None /\ new.expd = {}
          /\ new.scored = {} /\ new.newLogs = {} /\ new.day = tx[h].day
          /\ new.active = tx[h].active /\ new.task = tx[h].task /\ new.new = NoRows
      BY <1>1, <1>2 DEF Txs, Pcs
    <3> HIDE DEF new
    <3> QED BY <1>4, <2>3, <3>1
  <2> QED BY <1>6, <1>7, <1>8, <2>1, <2>2, <2>3
<1>20. CASE GiveBadge(h)
  <2>1. tx[h].pc = "give"
    BY <1>20 DEF GiveBadge
  <2>2. \/ Become(h, Rollback(h, "duplicate badge"))
        \/ Become(h, [NextTask(h) EXCEPT !.newBadge = TRUE])
    BY <1>20 DEF GiveBadge
  <2> QED BY <1>5, <1>6, <1>7, <1>8, <2>1, <2>2
<1>21. CASE AutoAddExp(h) \/ AutoLogExp(h)
  <2>1. PICK pc \in {"exp_log", "level"} : tx' = [tx EXCEPT ![h].pc = pc]
    BY <1>21 DEF AutoAddExp, AutoLogExp
  <2>2. /\ tx[h].pc \in {"exp", "exp_log"} /\ UNCHANGED <<progress, logs, scoreRows, handled, loose>>
        /\ expRows' = expRows \/ expRows' = [expRows EXCEPT ![Row(h)] = @ + 1]
    BY <1>21 DEF AutoAddExp, AutoLogExp
  <2> DEFINE new == [tx[h] EXCEPT !.pc = pc]
  <2>3. /\ new.pc = pc /\ new.auto /\ new.snap = None /\ new.expd = {}
        /\ new.scored = {} /\ new.newLogs = {} /\ new.day = tx[h].day
        /\ new.active = tx[h].active /\ new.task = tx[h].task /\ new.new = NoRows
    BY <1>1, <1>2 DEF Txs
  <2>4. tx'[h] = new /\ \A g \in Handlers : g # h => tx'[g] = tx[g]
    BY <1>1, <2>1 DEF TInv, TypeOK
  <2> HIDE DEF new
  <2>5. Grows
    BY <1>1, <2>2 DEF Grows, TInv, TypeOK
  <2>6. TxInv(h)'
    BY <2>3, <2>4, LostTx
  <2>7. Lost(h)'
    BY <1>1, <2>2, <2>3, <2>4 DEF Lost
  <2>8. \A r \in Rows \ loose : expRows'[r] = expRows[r]
    BY <1>1, <1>7, <1>8, <2>2 DEF TInv, TypeOK
  <2> QED BY <2>2, <2>3, <2>4, <2>5, <2>6, <2>7, <2>8, AutoKeeps
<1>22. CASE Commit(h)
  <2>1. Write(tx[h]) /\ tx' = [tx EXCEPT ![h] = Idle] /\ loose' = loose
    BY <1>22 DEF Commit
  <2>2. /\ Idle.pc = "idle" /\ ~ Idle.auto /\ Idle.snap = None /\ Idle.newLogs = {} /\ Idle.scored = {}
        /\ Idle.expd = {} /\ \A r \in Rows : Idle.new[r] = None
    BY DEF Idle
  <2>3. tx'[h] = Idle /\ \A g \in Handlers : g # h => tx'[g] = tx[g]
    BY <1>1, <2>1 DEF TInv, TypeOK
  <2>4. /\ \A r \in Rows : tx[h].new[r] = None /\ r \notin tx[h].scored /\ r \notin tx[h].expd
        /\ \A r \in Rows, n \in Nat : <<r, n>> \notin tx[h].newLogs
    BY <1>2, <1>3
  <2>5. ASSUME NEW r \in Rows
        PROVE  /\ progress'[r] = progress[r] /\ handled'[r] = handled[r] /\ logs'[r] = logs[r]
               /\ scoreRows'[r] = scoreRows[r] /\ expRows'[r] = expRows[r]
               /\ handled[r] \in Nat
    <3>1. /\ progress'[r] = IF tx[h].new[r] # None THEN tx[h].new[r] ELSE progress[r]
          /\ \A n \in Nat : n \in logs'[r] <=> n \in logs[r] \/ <<r, n>> \in tx[h].newLogs
          /\ handled'[r] = handled[r] + (IF tx[h].new[r] \in {None, Zero} THEN 0 ELSE 1)
          /\ scoreRows'[r] = scoreRows[r] + (IF r \in tx[h].scored THEN 1 ELSE 0)
          /\ expRows'[r] = expRows[r] + (IF r \in tx[h].expd THEN 1 ELSE 0)
      BY <1>1, <2>1, WriteIs
    <3>2. /\ handled[r] \in Nat /\ scoreRows[r] \in Nat /\ expRows[r] \in Nat
          /\ logs[r] \subseteq Nat /\ logs'[r] \subseteq Nat
      BY <1>1 DEF TInv, TypeOK
    <3>3. logs'[r] = logs[r]
      BY <2>4, <3>1, <3>2
    <3> QED BY <2>4, <3>1, <3>2, <3>3
  <2>6. Grows
    BY <2>1, <2>5 DEF Grows
  <2>7. TxInv(h)'
    BY <2>2, <2>3, EmptyTx
  <2>8. Lost(h)'
    BY <2>2, <2>3 DEF Lost
  <2> QED BY <2>1, <2>2, <2>3, <2>5, <2>6, <2>7, <2>8, AutoKeeps
<1>23. CASE Abort(h)
  BY <1>5, <1>23 DEF Abort
<1>24. CASE Drop(h)
  <2>1. /\ Idle.pc = "idle" /\ ~ Idle.auto /\ Idle.snap = None /\ Idle.newLogs = {} /\ Idle.scored = {}
        /\ Idle.expd = {} /\ Idle.new = NoRows
    BY DEF Idle, NoRows
  <2> QED BY <1>4, <1>24, <2>1, IdleType DEF Drop
<1>25. ~ AddExp(h) /\ ~ ScoreDeadlock(h)
  BY DEF AddExp, ScoreDeadlock
<1> QED BY <1>9, <1>10, <1>11, <1>12, <1>13, <1>14, <1>15, <1>16, <1>17, <1>18, <1>19, <1>20,
           <1>21, <1>22, <1>23, <1>24, <1>25 DEF Step


\* An event in a transaction stays in it, unless its points lose it.
LEMMA InTransaction ==
  ASSUME TInv, TInv', NEW h \in Handlers, ~ tx[h].auto, Step(h), ~ ScoreDeadlock(h)
  PROVE  /\ ~ tx'[h].auto /\ loose' = loose /\ Grows
         /\ \A g \in Handlers : g # h => tx'[g] = tx[g]
<1> DEFINE Goal == /\ ~ tx'[h].auto /\ loose' = loose /\ Grows
                   /\ \A g \in Handlers : g # h => tx'[g] = tx[g]
<1> SUFFICES Goal
  OBVIOUS
<1>0. tx[h] \in Txs
  BY DEF TInv, TypeOK
<1>1. ASSUME NEW new, Become(h, new), ~ new.auto PROVE Goal
  BY <1>1, BecomeIs DEF Grows, stored, TInv, TypeOK
<1>2. ASSUME Become(h, NextTask(h)) PROVE Goal
  <2>1. ~ NextTask(h).auto
    BY <1>0 DEF NextTask, Txs
  <2> QED BY <1>1, <1>2, <2>1
<1>3. ASSUME NEW e, Become(h, Rollback(h, e)) PROVE Goal
  <2>1. ~ Rollback(h, e).auto
    BY DEF Rollback, Idle
  <2> QED BY <1>1, <1>3, <2>1
<1> HIDE DEF Goal
<1>4. CASE \E d \in Days, T \in SUBSET Tasks : Begin(h, d, T)
  <2> PICK d \in Days, T \in SUBSET Tasks : Begin(h, d, T)
    BY <1>4
  <2> DEFINE new == [Idle EXCEPT !.pc = "take", !.day = d, !.active = T]
  <2>1. tx' = [tx EXCEPT ![h] = new] /\ UNCHANGED <<stored, handled, loose>>
    BY DEF Begin
  <2>2. ~ new.auto
    BY DEF Idle
  <2> HIDE DEF new
  <2>3. ~ tx'[h].auto /\ \A g \in Handlers : g # h => tx'[g] = tx[g]
    BY <2>1, <2>2 DEF TInv, TypeOK
  <2>4. Grows
    BY <2>1 DEF Grows, stored, TInv, TypeOK
  <2> QED BY <2>1, <2>3, <2>4 DEF Goal
<1>5. CASE Take(h)
  <2> DEFINE snap == IF MySQL /\ ~ tx[h].auto THEN View(h) ELSE None
             seen == View(h).progress[Row(h)]
             one   == [tx[h] EXCEPT !.snap = snap, !.pc = "create"]
             two   == [tx[h] EXCEPT !.snap = snap, !.pc = "save", !.old = seen]
             three == [tx[h] EXCEPT !.snap = snap, !.task = @ + 1]
  <2>1. Become(h, one) \/ Become(h, two) \/ Become(h, three)
    BY <1>5 DEF Take
  <2> HIDE DEF snap, seen
  <2>2. ~ one.auto /\ ~ two.auto /\ ~ three.auto
    BY <1>0 DEF Txs
  <2> HIDE DEF one, two, three
  <2> QED BY <1>1, <2>1, <2>2
<1>6. CASE Create(h)
  <2> DEFINE new == [tx[h] EXCEPT !.pc = "save", !.old = Zero, !.new[Row(h)] = Zero]
  <2>1. Become(h, new) \/ Become(h, Rollback(h, "duplicate row"))
    BY <1>6 DEF Create
  <2>2. ~ new.auto
    BY <1>0 DEF Txs
  <2> HIDE DEF new
  <2> QED BY <1>1, <1>3, <2>1, <2>2
<1>7. CASE Save(h)
  <2> DEFINE p == Advance(Task(h), tx[h].old)
             one == [NextTask(h) EXCEPT !.new[Row(h)] = p]
             two == [tx[h] EXCEPT !.pc = "log", !.old = p, !.new[Row(h)] = p]
  <2>1. Become(h, one) \/ Become(h, two)
    BY <1>7 DEF Save
  <2> HIDE DEF p
  <2>2. ~ one.auto /\ ~ two.auto
    BY <1>0 DEF NextTask, Txs
  <2> HIDE DEF one, two
  <2> QED BY <1>1, <2>1, <2>2
<1>8. CASE InsertLog(h)
  <2> DEFINE L == tx[h].newLogs \cup {<<Row(h), tx[h].old.finish>>}
             new == [tx[h] EXCEPT !.pc = "score", !.newLogs = L]
  <2>1. Become(h, new) \/ Become(h, NextTask(h)) \/ Become(h, Rollback(h, "duplicate log"))
    BY <1>8 DEF InsertLog
  <2> HIDE DEF L
  <2>2. ~ new.auto
    BY <1>0 DEF Txs
  <2> HIDE DEF new
  <2> QED BY <1>1, <1>2, <1>3, <2>1, <2>2
<1>9. CASE Score(h)
  <2> DEFINE S == tx[h].scored \cup {Row(h)}
             one == [tx[h] EXCEPT !.pc = "exp_read"]
             two == [tx[h] EXCEPT !.pc = "exp_read", !.scored = S]
  <2>1. Become(h, one) \/ Become(h, two)
    BY <1>9 DEF Score
  <2> HIDE DEF S
  <2>2. ~ one.auto /\ ~ two.auto
    BY <1>0 DEF Txs
  <2> HIDE DEF one, two
  <2> QED BY <1>1, <2>1, <2>2
<1>10. CASE ExpRead(h)
  <2> DEFINE l == IF tx[h].newLevel # None THEN tx[h].newLevel
                  ELSE IF WritesUser(h) THEN level ELSE View(h).level
             one == [tx[h] EXCEPT !.pc = "badge"]
             two == [tx[h] EXCEPT !.pc = "exp", !.oldLevel = l]
  <2>1. Become(h, one) \/ Become(h, two)
    BY <1>10 DEF ExpRead
  <2> HIDE DEF l
  <2>2. ~ one.auto /\ ~ two.auto
    BY <1>0 DEF Txs
  <2> HIDE DEF one, two
  <2> QED BY <1>1, <2>1, <2>2
<1>11. CASE AddExp(h)
  <2> DEFINE l == CalcLevelByExp(exp + Cardinality(tx[h].expd) + 1)
             m == IF l # tx[h].oldLevel THEN l ELSE tx[h].newLevel
             S == tx[h].expd \cup {Row(h)}
             new == [tx[h] EXCEPT !.pc = "badge", !.expd = S, !.newLevel = m]
  <2>1. Become(h, new)
    BY <1>11 DEF AddExp
  <2> HIDE DEF l, m, S
  <2>2. ~ new.auto
    BY <1>0 DEF Txs
  <2> HIDE DEF new
  <2> QED BY <1>1, <2>1, <2>2
<1>12. CASE CheckBadge(h)
  <2> DEFINE new == [tx[h] EXCEPT !.pc = "give"]
  <2>1. Become(h, NextTask(h)) \/ Become(h, new)
    BY <1>12 DEF CheckBadge
  <2>2. ~ new.auto
    BY <1>0 DEF Txs
  <2> HIDE DEF new
  <2> QED BY <1>1, <1>2, <2>1, <2>2
<1>13. CASE GiveBadge(h)
  <2> DEFINE new == [NextTask(h) EXCEPT !.newBadge = TRUE]
  <2>1. Become(h, new) \/ Become(h, Rollback(h, "duplicate badge"))
    BY <1>13 DEF GiveBadge
  <2>2. ~ new.auto
    BY <1>0 DEF NextTask, Txs
  <2> HIDE DEF new
  <2> QED BY <1>1, <1>3, <2>1, <2>2
<1>14. CASE Commit(h)
  <2>1. tx'[h] = Idle /\ loose' = loose /\ \A g \in Handlers : g # h => tx'[g] = tx[g]
    BY <1>14 DEF Commit, TInv, TypeOK
  <2>2. Write(tx[h])
    BY <1>14 DEF Commit
  <2>3. \A r \in Rows : logs[r] \subseteq logs'[r] /\ handled[r] <= handled'[r]
    BY <1>0, <2>2, WriteIs
  <2>4. Grows
    BY <2>1, <2>3 DEF Grows
  <2>5. ~ Idle.auto
    BY DEF Idle
  <2> QED BY <2>1, <2>4, <2>5 DEF Goal
<1>15. CASE SkipInactive(h)
  BY <1>2, <1>15 DEF SkipInactive
<1>16. CASE Abort(h)
  BY <1>3, <1>16 DEF Abort
<1>17. CASE Drop(h)
  <2>1. ~ Idle.auto
    BY DEF Idle
  <2> QED BY <1>1, <1>17, <2>1 DEF Drop
<1>18. ~ AutoAddExp(h) /\ ~ AutoLogExp(h) /\ ~ AutoReadLevel(h) /\ ~ AutoSetLevel(h)
  BY DEF AutoAddExp, AutoLogExp, AutoReadLevel, AutoSetLevel
<1> QED BY <1>4, <1>5, <1>6, <1>7, <1>8, <1>9, <1>10, <1>11, <1>12, <1>13, <1>14, <1>15, <1>16,
           <1>17, <1>18 DEF Step

-----------------------------------------------------------------------------
(* The invariant holds, and what follows from it                           *)

\* The steps of an event that is in a transaction, as its code and its tests have them.
LEMMA TransactionStep ==
  ASSUME IInv, NEW h \in Handlers, ~ tx[h].auto, Step(h), ~ ScoreDeadlock(h)
  PROVE  IInv'
<1>1. TInv'
  BY StepType DEF IInv
<1>2. CASE \E d \in Days, T \in SUBSET Tasks : Begin(h, d, T)
  BY <1>1, <1>2, BeginStep
<1>3. CASE Take(h)
  BY <1>1, <1>3, TakeStep
<1>4. CASE SkipInactive(h)
  BY <1>1, <1>4, NextTaskStep DEF SkipInactive, Task
<1>5. CASE Create(h)
  <2>1. tx[h].pc = "create"
    BY <1>5 DEF Create
  <2>2. CASE Become(h, Rollback(h, "duplicate row"))
    BY <1>1, <2>2, EndStep
  <2>3. CASE Become(h, [tx[h] EXCEPT !.pc = "save", !.old = Zero, !.new[Row(h)] = Zero])
    BY <1>1, <2>1, <2>3, CreateStep
  <2> QED BY <1>5, <2>2, <2>3 DEF Create
<1>6. CASE Save(h)
  BY <1>1, <1>6, SaveStep
<1>7. CASE InsertLog(h)
  BY <1>1, <1>7, InsertLogStep
<1>8. CASE Score(h)
  BY <1>1, <1>8, ScoreStep
<1>9. CASE ExpRead(h)
  BY <1>1, <1>9, ExpReadStep
<1>10. CASE AddExp(h)
  BY <1>1, <1>10, AddExpStep
<1>11. CASE CheckBadge(h)
  <2>1. tx[h].task \in Tasks
    BY <1>11 DEF CheckBadge, IInv, TInv, Open
  <2> QED BY <1>1, <1>11, <2>1, CheckBadgeStep
<1>12. CASE GiveBadge(h)
  <2>1. tx[h].task \in Tasks /\ tx[h].pc = "give"
    BY <1>12 DEF GiveBadge, IInv, TInv, Open
  <2>2. CASE Become(h, Rollback(h, "duplicate badge"))
    BY <1>1, <2>2, EndStep
  <2>3. CASE Become(h, [NextTask(h) EXCEPT !.newBadge = TRUE])
    BY <1>1, <2>1, <2>3, NextTaskStep
  <2> QED BY <1>12, <2>2, <2>3 DEF GiveBadge
<1>13. CASE Commit(h)
  BY <1>1, <1>13, CommitStep
<1>14. CASE Abort(h)
  BY <1>1, <1>14, EndStep DEF Abort
<1>15. CASE Drop(h)
  BY <1>1, <1>15, EndStep DEF Drop
<1>16. ~ AutoAddExp(h) /\ ~ AutoLogExp(h) /\ ~ AutoReadLevel(h) /\ ~ AutoSetLevel(h)
  BY DEF AutoAddExp, AutoLogExp, AutoReadLevel, AutoSetLevel
<1> QED BY <1>2, <1>3, <1>4, <1>5, <1>6, <1>7, <1>8, <1>9, <1>10, <1>11, <1>12, <1>13,
           <1>14, <1>15, <1>16 DEF Step

LEMMA StepKeeps ==
  ASSUME Inv, NEW h \in Handlers, Step(h)
  PROVE  Inv'
<1>1. TInv /\ TInv'
  BY StepType DEF Inv, IInv
<1>2. CASE tx[h].auto
  BY <1>1, <1>2, AutoStep
<1>3. CASE ScoreDeadlock(h)
  BY <1>1, <1>3, DeadlockStep
<1>4. CASE ~ tx[h].auto /\ ~ ScoreDeadlock(h)
  <2>1. IInv'
    BY <1>4, TransactionStep DEF Inv
  <2>2. ~ tx'[h].auto /\ Grows /\ \A g \in Handlers : g # h => tx'[g] = tx[g]
    BY <1>1, <1>4, InTransaction
  <2>3. \A g \in Handlers : g # h => Lost(g)'
    BY <1>1, <2>2, LostStays DEF Inv
  <2>4. Lost(h)'
    BY <2>2 DEF Lost
  <2> QED BY <2>1, <2>3, <2>4 DEF Inv
<1> QED BY <1>2, <1>3, <1>4

LEMMA InitKeeps == Init => Inv
<1> SUFFICES ASSUME Init PROVE Inv
  OBVIOUS
<1>1. \A h \in Handlers : tx[h] = Idle
  BY DEF Init
<1>2. /\ Idle.snap = None /\ Idle.pc = "idle" /\ \A r \in Rows : Idle.new[r] = None
      /\ Idle.newLogs = {} /\ Idle.scored = {} /\ Idle.expd = {}
  BY DEF Idle
<1>3. TInv
  <2>1. TypeOK
    BY IdleType DEF Init, TypeOK
  <2> QED BY <1>1, <1>2, <2>1 DEF TInv, Open
<1>4. \A r \in Rows : progress[r] = None /\ logs[r] = {} /\ scoreRows[r] = 0 /\ expRows[r] = 0
  BY DEF Init
<1>5. StoredInv
  <2>1. FinishesEarned
    BY <1>4 DEF FinishesEarned
  <2>2. FinishesNumbered
    BY <1>4 DEF FinishesNumbered
  <2>3. RewardedOnce
    <3>1. Cardinality({}) = 0
      BY FS_EmptySet
    <3> QED BY <1>4, <3>1 DEF RewardedOnce
  <2> QED BY <1>4, <2>1, <2>2, <2>3 DEF StoredInv
<1>6. LogsApart
  BY <1>1, <1>2 DEF LogsApart
<1>7. ASSUME NEW h \in Handlers PROVE TxInv(h)
  <2>1. ReadInv(h) /\ WriteInv(h) /\ LogInv(h)
    BY <1>1, <1>2 DEF ReadInv, WriteInv, LogInv
  <2>2. RewardInv(h)
    BY <1>1, <1>2 DEF RewardInv, Logged
  <2> QED BY <2>1, <2>2 DEF TxInv
<1>8. \A h \in Handlers : Lost(h)
  <2>1. ~ Idle.auto
    BY DEF Idle
  <2> QED BY <1>1, <2>1 DEF Lost
<1> QED BY <1>3, <1>5, <1>6, <1>7, <1>8 DEF Inv, IInv

LEMMA StutterKeeps == Inv /\ UNCHANGED vars => Inv'
<1> SUFFICES ASSUME Inv, IInv, UNCHANGED vars PROVE Inv'
  BY DEF Inv
<1>1. UNCHANGED <<stored, handled, loose>> /\ \A g \in Handlers : tx'[g] = tx[g]
  BY DEF vars
<1>2. TInv'
  <2>1. TypeOK'
    BY DEF IInv, TInv, TypeOK, vars, stored
  <2>2. \A g \in Handlers : Open(g)'
    BY <1>1 DEF IInv, TInv, Open, Row, Task
  <2> QED BY <2>1, <2>2 DEF TInv
<1>3. \A g \in Handlers : TxInv(g)' /\ Lost(g)'
  <2>1. Grows /\ \A r \in Rows : logs'[r] = logs[r]
    BY <1>1 DEF Grows, stored, IInv, TInv, TypeOK
  <2> QED BY <1>1, <1>2, <2>1, OthersStay, LostStays DEF Inv
<1>4. LogsApart'
  BY <1>1 DEF IInv, LogsApart
<1>5. StoredInv'
  BY <1>1 DEF IInv, StoredInv, FinishesEarned, FinishesNumbered, RewardedOnce, Earned, stored
<1> QED BY <1>2, <1>3, <1>4, <1>5 DEF Inv, IInv

LEMMA Inductive == Spec => []Inv
<1>1. Inv /\ [Next]_vars => Inv'
  BY StepKeeps, StutterKeeps DEF Next
<1> QED BY <1>1, InitKeeps, PTL DEF Spec

\* No finish is logged that its events did not earn, however stale the rows
\* that Save writes back.
THEOREM TaskFinishesEarned == Spec => []FinishesEarned
<1>1. Inv => FinishesEarned
  BY DEF Inv, IInv, StoredInv
<1> QED BY <1>1, Inductive, PTL

\* Finish numbers stop at the maximum, and but for the rows that an event wrote after it
\* had lost its transaction they have no gap and no row claims a finish that is not logged.
THEOREM TaskFinishesNumbered == Spec => []FinishesNumbered
<1>1. Inv => FinishesNumbered
  BY DEF Inv, IInv, StoredInv
<1> QED BY <1>1, Inductive, PTL

\* Experience is granted once for each logged finish and points at most once, but for the
\* tasks that an event rewarded after the points of one had lost it the transaction: the
\* error that grantReward drops (task_engine_service.go:197) costs no other task its log.
THEOREM TaskRewardedOnce == Spec => []RewardedOnce
<1>1. Inv => RewardedOnce
  BY DEF Inv, IInv, StoredInv
<1> QED BY <1>1, Inductive, PTL
-----------------------------------------------------------------------------
(* The level follows the experience                                        *)

\* The level of the experience the user has once h commits.
Due(h) == CalcLevelByExp(exp + Cardinality(tx[h].expd))

\* A transaction that granted experience knows the level it leads to, either as
\* a new one or because the level stays; one that is about to grant some has
\* compared with the level of its own write, or with one that is not too high.
LevelInv(h) ==
  /\ \A r \in tx[h].expd :
       r[1] < tx[h].task \/ (r[1] = tx[h].task /\ tx[h].pc \in {"badge", "give"})
  /\ tx[h].snap # None => tx[h].snap.level <= level
  /\ tx[h].newLevel # None => tx[h].expd # {} /\ tx[h].newLevel = Due(h)
  /\ tx[h].newLevel = None /\ tx[h].expd # {} => level = Due(h)
  /\ tx[h].pc = "exp" =>
       IF tx[h].newLevel # None THEN tx[h].oldLevel = tx[h].newLevel
       ELSE /\ tx[h].oldLevel <= level
            /\ WritesUser(h) => tx[h].oldLevel = level

UserApart == \A g, h \in Handlers : WritesUser(g) /\ WritesUser(h) => g = h

Leveled == level = CalcLevelByExp(exp)

\* As long as no event lost its transaction.
LInv == Leveled /\ UserApart /\ \A h \in Handlers : LevelInv(h)

LEMMA ExpdNat ==
  ASSUME TInv, NEW h \in Handlers
  PROVE  /\ tx[h] \in Txs /\ tx[h].expd \subseteq Rows
         /\ IsFiniteSet(tx[h].expd) /\ Cardinality(tx[h].expd) \in Nat
         /\ exp \in Nat /\ level \in Nat /\ tx[h].task \in Nat
         /\ \A r \in tx[h].expd : r[1] \in Nat
<1>1. tx[h] \in Txs /\ exp \in Nat /\ level \in Nat
  BY DEF TInv, TypeOK
<1>2. tx[h].expd \subseteq Rows /\ tx[h].task \in Nat
  <2>1. tx[h].expd \in SUBSET Rows /\ tx[h].task \in 1..(NTasks + 1)
    BY <1>1 DEF Txs
  <2> QED BY <2>1, TaskEngineAssumption
<1>3. IsFiniteSet(tx[h].expd)
  BY <1>2, RowsFinite
<1> QED BY <1>1, <1>2, <1>3, FS_CardinalityType, RowsNat, KeyIsKey

\* No other transaction has written the user.
UserFree(h) == \A g \in Others(h) : ~ WritesUser(g)

LEMMA FreeOfUser ==
  ASSUME NEW h, Free(h), tx[h].pc = "exp" \/ (tx[h].pc = "score" /\ Task(h) \in ScoreTasks)
  PROVE  UserFree(h)
  BY DEF Free, Waits, UserFree

\* A step that changes only the transaction of h, to one whose level is right.
LEMMA LevelLocal ==
  ASSUME TInv, LInv, NEW h \in Handlers, UNCHANGED stored,
         tx' = [tx EXCEPT ![h] = tx'[h]], LevelInv(h)',
         WritesUser(h)' => WritesUser(h) \/ UserFree(h)
  PROVE  LInv'
<1>1. \A g \in Handlers : g # h => tx'[g] = tx[g]
  BY DEF TInv, TypeOK
<1>2. exp' = exp /\ level' = level
  BY DEF stored
<1>3. \A g \in Handlers : g # h => LevelInv(g)'
  BY <1>1, <1>2 DEF LInv, LevelInv, WritesUser, Due
<1>4. UserApart'
  <2>1. \A g \in Handlers : g # h => WritesUser(g)' = WritesUser(g)
    BY <1>1 DEF WritesUser
  <2>2. WritesUser(h)' => \A g \in Handlers : g # h => ~ WritesUser(g)
    BY DEF LInv, UserApart, UserFree, Others
  <2> QED BY <2>1, <2>2 DEF LInv, UserApart
<1>5. Leveled'
  BY <1>2 DEF LInv, Leveled
<1> QED BY <1>3, <1>4, <1>5 DEF LInv

\* A step to a transaction that wrote nothing.
LEMMA LevelEmpty ==
  ASSUME TInv, LInv, NEW h \in Handlers, UNCHANGED stored,
         tx' = [tx EXCEPT ![h] = tx'[h]], tx'[h].pc # "exp", tx'[h].snap = None,
         tx'[h].scored = {}, tx'[h].expd = {}, tx'[h].newLevel = None
  PROVE  LInv'
<1>1. LevelInv(h)' /\ ~ WritesUser(h)'
  BY DEF LevelInv, WritesUser
<1> QED BY <1>1, LevelLocal

LEMMA LevelRollback ==
  ASSUME TInv, LInv, NEW h \in Handlers, ~ tx[h].auto, NEW e, Become(h, Rollback(h, e))
  PROVE  LInv'
<1>1. tx'[h] = Rollback(h, e) /\ tx' = [tx EXCEPT ![h] = tx'[h]] /\ UNCHANGED stored
  BY BecomeIs
<1>2. /\ Rollback(h, e).pc = "failed" /\ Rollback(h, e).snap = None /\ Rollback(h, e).scored = {}
      /\ Rollback(h, e).expd = {} /\ Rollback(h, e).newLevel = None
  BY DEF Rollback, Idle
<1> QED BY <1>1, <1>2, LevelEmpty

\* A step that grants no experience and does not come to the point of it.
LEMMA LevelQuiet ==
  ASSUME TInv, LInv, NEW h \in Handlers, ~ tx[h].auto, NEW new, Become(h, new), new.pc # "exp",
         new.expd = tx[h].expd, new.newLevel = tx[h].newLevel,
         new.scored = tx[h].scored \/ UserFree(h),
         new.snap # None => new.snap.level <= level,
         \/ new.task = tx[h].task /\ (tx[h].pc \in {"badge", "give"} => new.pc \in {"badge", "give"})
         \/ new.task = tx[h].task + 1
  PROVE  LInv'
<1>1. tx'[h] = new /\ tx' = [tx EXCEPT ![h] = tx'[h]] /\ UNCHANGED stored
  BY BecomeIs
<1>2. exp' = exp /\ level' = level /\ Due(h)' = Due(h)
  BY <1>1 DEF stored, Due
<1>3. \A r \in new.expd :
        r[1] < new.task \/ (r[1] = new.task /\ new.pc \in {"badge", "give"})
  <2>1. \A r \in tx[h].expd : r[1] \in Nat /\ tx[h].task \in Nat
    BY ExpdNat
  <2> QED BY <2>1 DEF LInv, LevelInv
<1>4. LevelInv(h)'
  BY <1>1, <1>2, <1>3 DEF LInv, LevelInv
<1>5. WritesUser(h)' => WritesUser(h) \/ UserFree(h)
  BY <1>1 DEF WritesUser
<1> QED BY <1>1, <1>4, <1>5, LevelLocal

LEMMA LevelNextTask ==
  ASSUME TInv, LInv, NEW h \in Handlers, ~ tx[h].auto, NEW new, Become(h, new), new.pc = "take",
         new.task = tx[h].task + 1, new.expd = tx[h].expd, new.newLevel = tx[h].newLevel,
         new.scored = tx[h].scored, new.snap = tx[h].snap
  PROVE  LInv'
  BY LevelQuiet DEF LInv, LevelInv

\* What a transaction sees of the level is not above it.
LEMMA ViewLevel ==
  ASSUME LInv, TInv, NEW h \in Handlers
  PROVE  View(h).level <= level
<1>1. level \in Nat
  BY ExpdNat
<1> QED BY <1>1 DEF View, Committed, LInv, LevelInv

\* The level is read, then the experience is granted.
LEMMA LevelExpRead ==
  ASSUME TInv, LInv, NEW h \in Handlers, ~ tx[h].auto, ExpRead(h)
  PROVE  LInv'
<1>1. tx[h] \in Txs /\ tx[h].pc = "exp_read" /\ level \in Nat
  BY ExpdNat DEF ExpRead
<1> DEFINE one == [tx[h] EXCEPT !.pc = "badge"]
<1>2. CASE Become(h, one)
  <2>1. /\ one.pc = "badge" /\ one.task = tx[h].task /\ one.expd = tx[h].expd /\ one.newLevel = tx[h].newLevel
        /\ one.scored = tx[h].scored /\ one.snap = tx[h].snap
    BY <1>1 DEF Txs
  <2> HIDE DEF one
  <2> QED BY <1>2, <2>1, LevelQuiet DEF LInv, LevelInv
<1>3. PICK l : l = IF tx[h].newLevel # None THEN tx[h].newLevel
                   ELSE IF WritesUser(h) THEN level ELSE View(h).level
  OBVIOUS
<1> DEFINE two == [tx[h] EXCEPT !.pc = "exp", !.oldLevel = l]
<1>4. CASE Become(h, two)
  <2>1. /\ two.pc = "exp" /\ two.task = tx[h].task /\ two.expd = tx[h].expd /\ two.newLevel = tx[h].newLevel
        /\ two.scored = tx[h].scored /\ two.snap = tx[h].snap /\ two.oldLevel = l
    BY <1>1 DEF Txs
  <2> HIDE DEF two
  <2>2. tx'[h] = two /\ tx' = [tx EXCEPT ![h] = tx'[h]] /\ UNCHANGED stored
    BY <1>4, BecomeIs
  <2>3. exp' = exp /\ level' = level /\ Due(h)' = Due(h) /\ WritesUser(h)' = WritesUser(h)
    BY <2>1, <2>2 DEF stored, Due, WritesUser
  <2>4. IF tx[h].newLevel # None THEN l = tx[h].newLevel
        ELSE l <= level /\ (WritesUser(h) => l = level)
    BY <1>1, <1>3, ViewLevel
  <2>5. \A r \in tx[h].expd : r[1] < tx[h].task
    BY <1>1 DEF LInv, LevelInv
  <2>6. LevelInv(h)'
    BY <2>1, <2>2, <2>3, <2>4, <2>5 DEF LInv, LevelInv
  <2> QED BY <2>2, <2>3, <2>6, LevelLocal
<1> QED BY <1>2, <1>3, <1>4 DEF ExpRead

LEMMA LevelAddExp ==
  ASSUME TInv, LInv, NEW h \in Handlers, AddExp(h)
  PROVE  LInv'
<1>1. /\ tx[h] \in Txs /\ tx[h].pc = "exp" /\ level \in Nat /\ exp \in Nat
      /\ Cardinality(tx[h].expd) \in Nat /\ IsFiniteSet(tx[h].expd) /\ tx[h].task \in Nat
  BY ExpdNat DEF AddExp
<1>0. ~ tx[h].auto
  BY DEF AddExp
<1>2. PICK l : l = CalcLevelByExp(exp + Cardinality(tx[h].expd) + 1)
  OBVIOUS
<1>3. PICK m : m = IF l # tx[h].oldLevel THEN l ELSE tx[h].newLevel
  OBVIOUS
<1> DEFINE new == [tx[h] EXCEPT !.pc = "badge", !.expd = @ \cup {Row(h)}, !.newLevel = m]
<1>4. Become(h, new) /\ UserFree(h)
  BY <1>1, <1>2, <1>3, FreeOfUser DEF AddExp
<1>5. /\ new.pc = "badge" /\ new.task = tx[h].task /\ new.expd = tx[h].expd \cup {Row(h)}
      /\ new.newLevel = m /\ new.snap = tx[h].snap
  BY <1>1 DEF Txs
<1> HIDE DEF new
<1>6. tx'[h] = new /\ tx' = [tx EXCEPT ![h] = tx'[h]] /\ UNCHANGED stored
  BY <1>0, <1>4, BecomeIs
<1>7. exp' = exp /\ level' = level /\ Row(h)[1] = tx[h].task
  BY <1>6 DEF stored, Row, Task
<1>8. Row(h) \notin tx[h].expd
  BY <1>1, <1>7 DEF LInv, LevelInv
<1>9. Cardinality(new.expd) = Cardinality(tx[h].expd) + 1
  BY <1>1, <1>5, <1>8, FS_AddElement
<1>10. Due(h)' = l
  BY <1>1, <1>2, <1>6, <1>7, <1>9 DEF Due
<1>11. l \in Nat /\ level <= l
  <2>1. exp + Cardinality(tx[h].expd) + 1 \in Nat /\ exp <= exp + Cardinality(tx[h].expd) + 1
    BY <1>1
  <2> QED BY <1>1, <1>2, <2>1, LevelsNat DEF LInv, Leveled
<1>12. m # None => m = l
  BY <1>1, <1>3 DEF LInv, LevelInv
<1>13. m = None => level = l
  <2> SUFFICES ASSUME m = None PROVE level = l
    OBVIOUS
  <2>1. tx[h].oldLevel = l /\ tx[h].newLevel = None
    BY <1>3, <1>11, TaskEngineAssumption
  <2>2. tx[h].oldLevel <= level
    BY <1>1, <2>1 DEF LInv, LevelInv
  <2> QED BY <1>1, <1>11, <2>1, <2>2
<1>14. LevelInv(h)'
  <2>1. \A r \in new.expd :
          r[1] < new.task \/ (r[1] = new.task /\ new.pc \in {"badge", "give"})
    BY <1>1, <1>5, <1>7 DEF LInv, LevelInv
  <2>2. new.snap # None => new.snap.level <= level
    BY <1>5 DEF LInv, LevelInv
  <2>3. new.expd # {} /\ new.pc # "exp"
    BY <1>5
  <2> QED BY <1>5, <1>6, <1>7, <1>10, <1>12, <1>13, <2>1, <2>2, <2>3 DEF LevelInv
<1> QED BY <1>4, <1>6, <1>14, LevelLocal

\* Only one transaction has written the user: its commit leaves the comparison
\* of every other one as good as it was.
LEMMA LevelCommit ==
  ASSUME TInv, LInv, NEW h \in Handlers, Commit(h)
  PROVE  LInv'
<1>1. /\ Cardinality(tx[h].expd) \in Nat /\ exp \in Nat /\ level \in Nat
  BY ExpdNat
<1>2. /\ exp' = exp + Cardinality(tx[h].expd)
      /\ level' = IF tx[h].newLevel # None THEN tx[h].newLevel ELSE level
      /\ tx'[h] = Idle /\ \A g \in Handlers : g # h => tx'[g] = tx[g]
  BY DEF Commit, Write, TInv, TypeOK
<1>3. tx[h].expd = {} => exp' = exp /\ level' = level
  <2>1. tx[h].expd = {} => Cardinality(tx[h].expd) = 0 /\ tx[h].newLevel = None
    BY FS_EmptySet DEF LInv, LevelInv
  <2> QED BY <1>1, <1>2, <2>1
<1>4. level' = CalcLevelByExp(exp')
  BY <1>2, <1>3 DEF LInv, LevelInv, Leveled, Due
<1>5. level' \in Nat /\ level <= level'
  <2>1. exp' \in Nat /\ exp <= exp'
    BY <1>1, <1>2
  <2> QED BY <1>1, <1>4, <2>1, LevelsNat DEF LInv, Leveled
<1>6. ASSUME NEW g \in Handlers, g # h PROVE LevelInv(g)'
  <2>1. tx'[g] = tx[g] /\ LevelInv(g)
    BY <1>2, <1>6 DEF LInv
  <2>2. CASE tx[h].expd = {}
    BY <1>3, <2>1, <2>2 DEF LevelInv, Due, WritesUser
  <2>3. CASE tx[h].expd # {}
    <3>1. ~ WritesUser(g) /\ tx[g].expd = {}
      BY <1>6, <2>3 DEF LInv, UserApart, WritesUser
    <3>2. tx[g].newLevel = None
      BY <2>1, <3>1 DEF LevelInv
    <3>3. tx[g].oldLevel \in Nat /\ (tx[g].snap # None => tx[g].snap.level \in Nat)
      BY ExpdNat DEF Txs, Snapshots
    <3>4. tx[g].pc = "exp" => tx[g].oldLevel <= level'
      BY <1>1, <1>5, <2>1, <3>2, <3>3 DEF LevelInv
    <3>5. tx[g].snap # None => tx[g].snap.level <= level'
      BY <1>1, <1>5, <2>1, <3>3 DEF LevelInv
    <3> QED BY <2>1, <3>1, <3>2, <3>4, <3>5 DEF LevelInv, WritesUser
  <2> QED BY <2>2, <2>3
<1>7. LevelInv(h)' /\ ~ WritesUser(h)'
  BY <1>2 DEF LevelInv, WritesUser, Idle
<1>8. UserApart'
  <2>1. \A g \in Handlers : g # h => WritesUser(g)' = WritesUser(g)
    BY <1>2 DEF WritesUser
  <2> QED BY <1>7, <2>1 DEF LInv, UserApart
<1>9. Leveled'
  BY <1>4 DEF Leveled
<1> QED BY <1>6, <1>7, <1>8, <1>9 DEF LInv

LEMMA LevelStep ==
  ASSUME TInv, LInv, NEW h \in Handlers, ~ tx[h].auto, Step(h), ~ ScoreDeadlock(h)
  PROVE  LInv'
<1>0. tx[h] \in Txs /\ (tx[h].snap # None => tx[h].snap.level <= level)
  BY ExpdNat DEF LInv, LevelInv
<1>1. \A new : Become(h, new) /\ new = NextTask(h) => LInv'
  <2>1. /\ NextTask(h).pc = "take" /\ NextTask(h).task = tx[h].task + 1 /\ NextTask(h).expd = tx[h].expd
        /\ NextTask(h).newLevel = tx[h].newLevel /\ NextTask(h).scored = tx[h].scored
        /\ NextTask(h).snap = tx[h].snap
    BY <1>0 DEF NextTask, Txs
  <2> QED BY <2>1, LevelNextTask
<1>2. CASE \E d \in Days, T \in SUBSET Tasks : Begin(h, d, T)
  <2> PICK d \in Days, T \in SUBSET Tasks : Begin(h, d, T)
    BY <1>2
  <2> DEFINE new == [Idle EXCEPT !.pc = "take", !.day = d, !.active = T]
  <2>1. /\ new.pc = "take" /\ new.snap = None /\ new.scored = {} /\ new.expd = {} /\ new.newLevel = None
    BY DEF Idle
  <2>2. tx' = [tx EXCEPT ![h] = new] /\ UNCHANGED stored
    BY DEF Begin
  <2> HIDE DEF new
  <2>3. tx'[h] = new
    BY <2>2 DEF TInv, TypeOK
  <2> QED BY <2>1, <2>2, <2>3, LevelEmpty
<1>3. CASE Take(h)
  <2> DEFINE snap == IF MySQL /\ ~ tx[h].auto THEN View(h) ELSE None
             seen == View(h).progress[Row(h)]
             one   == [tx[h] EXCEPT !.snap = snap, !.pc = "create"]
             two   == [tx[h] EXCEPT !.snap = snap, !.pc = "save", !.old = seen]
             three == [tx[h] EXCEPT !.snap = snap, !.task = @ + 1]
  <2>1. (Become(h, one) \/ Become(h, two) \/ Become(h, three)) /\ tx[h].pc = "take"
    BY <1>3 DEF Take
  <2>2. snap # None => snap.level <= level
    BY ViewLevel
  <2> HIDE DEF snap, seen
  <2>3. /\ one.pc = "create" /\ one.task = tx[h].task /\ one.expd = tx[h].expd
        /\ one.newLevel = tx[h].newLevel /\ one.scored = tx[h].scored /\ one.snap = snap
    BY <1>0 DEF Txs
  <2>4. /\ two.pc = "save" /\ two.task = tx[h].task /\ two.expd = tx[h].expd
        /\ two.newLevel = tx[h].newLevel /\ two.scored = tx[h].scored /\ two.snap = snap
    BY <1>0 DEF Txs
  <2>5. /\ three.pc = "take" /\ three.task = tx[h].task + 1 /\ three.expd = tx[h].expd
        /\ three.newLevel = tx[h].newLevel /\ three.scored = tx[h].scored /\ three.snap = snap
    BY <1>0, <2>1 DEF Txs
  <2> HIDE DEF one, two, three
  <2> QED BY <2>1, <2>2, <2>3, <2>4, <2>5, LevelQuiet
<1>4. CASE SkipInactive(h)
  BY <1>1, <1>4 DEF SkipInactive
<1>5. CASE Create(h)
  <2> DEFINE new == [tx[h] EXCEPT !.pc = "save", !.old = Zero, !.new[Row(h)] = Zero]
  <2>1. (Become(h, new) \/ Become(h, Rollback(h, "duplicate row"))) /\ tx[h].pc = "create"
    BY <1>5 DEF Create
  <2>2. /\ new.pc = "save" /\ new.task = tx[h].task /\ new.expd = tx[h].expd
        /\ new.newLevel = tx[h].newLevel /\ new.scored = tx[h].scored /\ new.snap = tx[h].snap
    BY <1>0 DEF Txs
  <2> HIDE DEF new
  <2> QED BY <1>0, <2>1, <2>2, LevelQuiet, LevelRollback
<1>6. CASE Save(h)
  <2> DEFINE p == Advance(Task(h), tx[h].old)
             one == [NextTask(h) EXCEPT !.new[Row(h)] = p]
             two == [tx[h] EXCEPT !.pc = "log", !.old = p, !.new[Row(h)] = p]
  <2>1. (Become(h, one) \/ Become(h, two)) /\ tx[h].pc = "save"
    BY <1>6 DEF Save
  <2> HIDE DEF p
  <2>2. /\ one.pc = "take" /\ one.task = tx[h].task + 1 /\ one.expd = tx[h].expd
        /\ one.newLevel = tx[h].newLevel /\ one.scored = tx[h].scored /\ one.snap = tx[h].snap
    BY <1>0 DEF NextTask, Txs
  <2>3. /\ two.pc = "log" /\ two.task = tx[h].task /\ two.expd = tx[h].expd
        /\ two.newLevel = tx[h].newLevel /\ two.scored = tx[h].scored /\ two.snap = tx[h].snap
    BY <1>0 DEF Txs
  <2> HIDE DEF one, two
  <2> QED BY <1>0, <2>1, <2>2, <2>3, LevelNextTask, LevelQuiet
<1>7. CASE InsertLog(h)
  <2> DEFINE L == tx[h].newLogs \cup {<<Row(h), tx[h].old.finish>>}
             new == [tx[h] EXCEPT !.pc = "score", !.newLogs = L]
  <2>1. /\ Become(h, new) \/ Become(h, NextTask(h)) \/ Become(h, Rollback(h, "duplicate log"))
        /\ tx[h].pc = "log"
    BY <1>7 DEF InsertLog
  <2> HIDE DEF L
  <2>2. /\ new.pc = "score" /\ new.task = tx[h].task /\ new.expd = tx[h].expd
        /\ new.newLevel = tx[h].newLevel /\ new.scored = tx[h].scored /\ new.snap = tx[h].snap
    BY <1>0 DEF Txs
  <2> HIDE DEF new
  <2> QED BY <1>0, <1>1, <2>1, <2>2, LevelQuiet, LevelRollback
<1>8. CASE Score(h)
  <2> DEFINE one == [tx[h] EXCEPT !.pc = "exp_read"]
             two == [tx[h] EXCEPT !.pc = "exp_read", !.scored = @ \cup {Row(h)}]
  <2>1. (Become(h, one) \/ (UserFree(h) /\ Become(h, two))) /\ tx[h].pc = "score"
    BY <1>8, FreeOfUser DEF Score
  <2>2. /\ one.pc = "exp_read" /\ one.task = tx[h].task /\ one.expd = tx[h].expd
        /\ one.newLevel = tx[h].newLevel /\ one.scored = tx[h].scored /\ one.snap = tx[h].snap
    BY <1>0 DEF Txs
  <2>3. /\ two.pc = "exp_read" /\ two.task = tx[h].task /\ two.expd = tx[h].expd
        /\ two.newLevel = tx[h].newLevel /\ two.snap = tx[h].snap
    BY <1>0 DEF Txs
  <2> HIDE DEF one, two
  <2> QED BY <1>0, <2>1, <2>2, <2>3, LevelQuiet
<1>9. CASE CheckBadge(h)
  <2> DEFINE new == [tx[h] EXCEPT !.pc = "give"]
  <2>1. Become(h, new) \/ Become(h, NextTask(h))
    BY <1>9 DEF CheckBadge
  <2>2. /\ new.pc = "give" /\ new.task = tx[h].task /\ new.expd = tx[h].expd
        /\ new.newLevel = tx[h].newLevel /\ new.scored = tx[h].scored /\ new.snap = tx[h].snap
    BY <1>0 DEF Txs
  <2> HIDE DEF new
  <2> QED BY <1>0, <1>1, <2>1, <2>2, LevelQuiet
<1>10. CASE GiveBadge(h)
  <2> DEFINE new == [NextTask(h) EXCEPT !.newBadge = TRUE]
  <2>1. Become(h, new) \/ Become(h, Rollback(h, "duplicate badge"))
    BY <1>10 DEF GiveBadge
  <2>2. /\ new.pc = "take" /\ new.task = tx[h].task + 1 /\ new.expd = tx[h].expd
        /\ new.newLevel = tx[h].newLevel /\ new.scored = tx[h].scored /\ new.snap = tx[h].snap
    BY <1>0 DEF NextTask, Txs
  <2> HIDE DEF new
  <2> QED BY <2>1, <2>2, LevelNextTask, LevelRollback
<1>11. CASE Abort(h)
  BY <1>11, LevelRollback DEF Abort
<1>12. CASE Drop(h)
  <2>1. tx'[h] = Idle /\ tx' = [tx EXCEPT ![h] = tx'[h]] /\ UNCHANGED stored
    BY <1>12, BecomeIs DEF Drop
  <2>2. /\ Idle.pc # "exp" /\ Idle.snap = None /\ Idle.scored = {} /\ Idle.expd = {}
        /\ Idle.newLevel = None
    BY DEF Idle
  <2> QED BY <2>1, <2>2, LevelEmpty
<1>13. ~ AutoAddExp(h) /\ ~ AutoLogExp(h) /\ ~ AutoReadLevel(h) /\ ~ AutoSetLevel(h)
  BY DEF AutoAddExp, AutoLogExp, AutoReadLevel, AutoSetLevel
<1> QED BY <1>2, <1>3, <1>4, <1>5, <1>6, <1>7, <1>8, <1>9, <1>10, <1>11, <1>12,
           <1>13, LevelExpRead, LevelAddExp, LevelCommit DEF Step

LEMMA LevelInit == Init => LInv
<1> SUFFICES ASSUME Init PROVE LInv
  OBVIOUS
<1>1. \A h \in Handlers : LevelInv(h) /\ ~ WritesUser(h)
  BY DEF Init, LevelInv, WritesUser, Idle
<1>2. Leveled
  <2> DEFINE S == {1} \cup {n \in DOMAIN NeedExp : NeedExp[n] <= 0}
  <2>1. S = {1}
    BY TaskEngineAssumption
  <2>2. Max(S) \in S
    BY <2>1, MaxOfBounded
  <2>3. Max(S) = 1
    BY <2>1, <2>2
  <2> QED BY <2>3 DEF Init, Leveled, CalcLevelByExp
<1> QED BY <1>1, <1>2 DEF LInv, UserApart

\* The level is the one that the experience gives, although addExpTx compares it
\* with a level that was read before it waited for the row of the user, until an event
\* loses its transaction to a deadlock.
THEOREM TaskLevel == Spec => []LevelMatchesExp
<1> DEFINE CInv == loose = {} => LInv
<1>1. Inv /\ CInv /\ [Next]_vars => CInv'
  <2> SUFFICES ASSUME Inv, CInv, [Next]_vars, loose' = {} PROVE LInv'
    OBVIOUS
  <2>1. CASE UNCHANGED vars
    BY <2>1 DEF LInv, Leveled, UserApart, LevelInv, WritesUser, Due, vars, stored
  <2>2. ASSUME NEW h \in Handlers, Step(h) PROVE LInv'
    <3>1. TInv /\ TInv'
      BY <2>2, StepType DEF Inv, IInv
    <3>2. ~ ScoreDeadlock(h)
      BY <3>1, DeadlockStep
    <3>3. loose = {}
      BY <2>2, <3>2 DEF Step, Begin, Take, SkipInactive, Create, Save, InsertLog, Score, ExpRead, AddExp,
         AutoAddExp, AutoLogExp, AutoReadLevel, AutoSetLevel, CheckBadge, GiveBadge, Commit, Abort, Drop,
         Become
    <3>4. ~ tx[h].auto
      BY <3>3 DEF Inv, Lost
    <3> QED BY <2>2, <3>1, <3>2, <3>3, <3>4, LevelStep
  <2> QED BY <2>1, <2>2 DEF Next
<1>2. CInv => LevelMatchesExp
  BY DEF LInv, Leveled, LevelMatchesExp
<1>3. Init => CInv
  BY LevelInit
<1> HIDE DEF CInv
<1> QED BY <1>1, <1>2, <1>3, Inductive, PTL DEF Spec
-----------------------------------------------------------------------------
(***************************************************************************)
(* A single worker.  What duplicates break (MCTaskPostgres has a           *)
(* behaviour) is due to overlapping events: alone, a transaction reads     *)
(* what is committed when it commits, and the log and the progress row     *)
(* say the same.                                                           *)
(***************************************************************************)
Exact == \A r \in Rows : logs[r] = 1..Finishes(r)

AloneTx(h) ==
  /\ ~ tx[h].auto
  /\ tx[h].err \in {"none", "database"}
  /\ tx[h].snap # None => tx[h].snap = Committed
  /\ tx[h].pc = "create" => progress[Row(h)] = None
  /\ tx[h].pc = "save" => tx[h].old.finish = Finishes(Row(h))
  /\ tx[h].pc = "log" => /\ tx[h].new[Row(h)] # None /\ tx[h].old = tx[h].new[Row(h)]
                          /\ tx[h].new[Row(h)].finish = Finishes(Row(h)) + 1
  /\ tx[h].pc = "give" => ~ badge
  /\ \A r \in Rows :
       IF tx[h].new[r] = None \/ (r = Row(h) /\ tx[h].pc = "log")
       THEN ~ Logged(h, r)
       ELSE \A n \in Nat : n \in 1..tx[h].new[r].finish <=> n \in logs[r] \/ <<r, n>> \in tx[h].newLogs

LEMMA FinishesNat ==
  ASSUME TypeOK
  PROVE  \A r \in Rows : Finishes(r) \in Nat
  BY DEF TypeOK, Finishes, Progress

LEMMA ViewAlone ==
  ASSUME NEW h \in Handlers, AloneTx(h)
  PROVE  View(h) = Committed
  BY DEF AloneTx, View

\* A transaction that has written nothing.
LEMMA AloneEmpty ==
  ASSUME NEW h \in Handlers, tx'[h].snap = None, tx'[h].pc \in {"idle", "failed", "take"},
         ~ tx'[h].auto, \A r \in Rows : tx'[h].new[r] = None, tx'[h].newLogs = {},
         tx'[h].err \in {"none", "database"}
  PROVE  AloneTx(h)'
  BY DEF AloneTx, Logged

\* A step that writes neither progress nor a log row.
LEMMA AloneQuiet ==
  ASSUME IInv, NEW h \in Handlers, AloneTx(h), NEW new, Become(h, new),
         ~ new.auto, new.err = tx[h].err, new.snap \in {tx[h].snap, None, Committed},
         new.new = tx[h].new, new.newLogs = tx[h].newLogs, new.day = tx[h].day,
         tx[h].pc # "log", new.pc # "log",
         new.pc = "create" => new.task = tx[h].task /\ progress[Row(h)] = None,
         new.pc = "save" => new.task = tx[h].task /\ new.old.finish = Finishes(Row(h)),
         new.pc = "give" => ~ badge
  PROVE  AloneTx(h)'
<1>1. tx'[h] = new /\ UNCHANGED stored
  BY BecomeIs DEF IInv, AloneTx
<1>2. new.task = tx[h].task => Row(h)' = Row(h)
  BY <1>1 DEF Row, Task
<1>3. Committed' = Committed /\ \A r : Finishes(r)' = Finishes(r) /\ Logged(h, r)' = Logged(h, r)
  BY <1>1 DEF stored, Committed, Finishes, Logged
<1>4. \A r \in Rows :
        IF new.new[r] = None THEN ~ Logged(h, r)
        ELSE \A n \in Nat : n \in 1..new.new[r].finish <=> n \in logs[r] \/ <<r, n>> \in new.newLogs
  BY DEF AloneTx
<1>5. /\ new.snap # None => new.snap = Committed
      /\ new.err \in {"none", "database"}
  BY DEF AloneTx
<1> QED BY <1>1, <1>2, <1>3, <1>4, <1>5 DEF AloneTx, stored

LEMMA AloneNext ==
  ASSUME IInv, NEW h \in Handlers, AloneTx(h), Become(h, NextTask(h)), tx[h].pc # "log"
  PROVE  AloneTx(h)'
<1>1. tx[h] \in Txs
  BY DEF IInv, TInv, TypeOK
<1>2. /\ NextTask(h).pc = "take" /\ NextTask(h).err = tx[h].err /\ NextTask(h).snap = tx[h].snap
      /\ NextTask(h).new = tx[h].new /\ NextTask(h).newLogs = tx[h].newLogs
      /\ NextTask(h).day = tx[h].day /\ ~ NextTask(h).auto
  BY <1>1 DEF AloneTx, NextTask, Txs
<1> QED BY <1>2, AloneQuiet

LEMMA AloneTake ==
  ASSUME IInv, NEW h \in Handlers, AloneTx(h), Take(h)
  PROVE  AloneTx(h)'
<1> DEFINE snap == IF MySQL /\ ~ tx[h].auto THEN View(h) ELSE None
           seen == View(h).progress[Row(h)]
           one   == [tx[h] EXCEPT !.snap = snap, !.pc = "create"]
           two   == [tx[h] EXCEPT !.snap = snap, !.pc = "save", !.old = seen]
           three == [tx[h] EXCEPT !.snap = snap, !.task = @ + 1]
<1>0. tx[h] \in Txs
  BY DEF IInv, TInv, TypeOK
<1>1. /\ tx[h].pc = "take"
      /\ \/ seen = None /\ Become(h, one)
         \/ seen # None /\ Become(h, two)
         \/ Become(h, three)
  BY DEF Take
<1>2. snap \in {None, Committed}
  BY ViewAlone
<1>3. seen = progress[Row(h)]
  BY ViewAlone DEF Committed
<1>4. seen # None => seen.finish = Finishes(Row(h))
  BY <1>3 DEF Finishes
<1> HIDE DEF snap, seen
<1>5. /\ one.pc = "create" /\ one.task = tx[h].task /\ one.err = tx[h].err /\ one.snap = snap
      /\ one.new = tx[h].new /\ one.newLogs = tx[h].newLogs /\ one.day = tx[h].day /\ ~ one.auto
  BY <1>0 DEF AloneTx, Txs
<1>6. /\ two.pc = "save" /\ two.task = tx[h].task /\ two.err = tx[h].err /\ two.snap = snap
      /\ two.new = tx[h].new /\ two.newLogs = tx[h].newLogs /\ two.day = tx[h].day /\ two.old = seen /\ ~ two.auto
  BY <1>0 DEF AloneTx, Txs
<1>7. /\ three.pc = "take" /\ three.err = tx[h].err /\ three.snap = snap
      /\ three.new = tx[h].new /\ three.newLogs = tx[h].newLogs /\ three.day = tx[h].day /\ ~ three.auto
  BY <1>0, <1>1 DEF AloneTx, Txs
<1> HIDE DEF one, two, three
<1>8. CASE seen = None /\ Become(h, one)
  BY <1>1, <1>2, <1>3, <1>5, <1>8, AloneQuiet
<1>9. CASE seen # None /\ Become(h, two)
  BY <1>1, <1>2, <1>4, <1>6, <1>9, AloneQuiet
<1>10. CASE Become(h, three)
  BY <1>1, <1>2, <1>7, <1>10, AloneQuiet
<1> QED BY <1>1, <1>8, <1>9, <1>10

\* The transaction of a new event, of a failed one, and of none.
LEMMA AloneFresh ==
  ASSUME IInv, NEW h \in Handlers,
         ~ tx[h].auto,
         \/ \E d \in Days, T \in SUBSET Tasks : Begin(h, d, T)
         \/ Abort(h) \/ Drop(h)
  PROVE  AloneTx(h)'
<1>1. ASSUME NEW d \in Days, NEW T \in SUBSET Tasks, Begin(h, d, T) PROVE AloneTx(h)'
  <2> DEFINE new == [Idle EXCEPT !.pc = "take", !.day = d, !.active = T]
  <2>1. /\ new.pc = "take" /\ new.snap = None /\ new.newLogs = {} /\ new.err = "none" /\ ~ new.auto
        /\ new.new = [r \in Rows |-> None]
    BY DEF Idle
  <2> HIDE DEF new
  <2>2. tx'[h] = new
    BY <1>1 DEF Begin, new, IInv, TInv, TypeOK
  <2> QED BY <2>1, <2>2, AloneEmpty
<1>2. ASSUME Abort(h) PROVE AloneTx(h)'
  <2> DEFINE new == Rollback(h, "database")
  <2>1. /\ new.pc = "failed" /\ new.snap = None /\ new.newLogs = {} /\ new.err = "database" /\ ~ new.auto
        /\ new.new = [r \in Rows |-> None]
    BY DEF Rollback, Idle
  <2> HIDE DEF new
  <2>2. tx'[h] = new
    BY <1>2, BecomeIs DEF Abort, new, IInv
  <2> QED BY <2>1, <2>2, AloneEmpty
<1>3. ASSUME Drop(h) PROVE AloneTx(h)'
  <2>1. /\ Idle.pc = "idle" /\ Idle.snap = None /\ Idle.newLogs = {} /\ Idle.err = "none" /\ ~ Idle.auto
        /\ Idle.new = [r \in Rows |-> None]
    BY DEF Idle
  <2>2. tx'[h] = Idle
    BY <1>3, BecomeIs DEF Drop, IInv
  <2> QED BY <2>1, <2>2, AloneEmpty
<1> QED BY <1>1, <1>2, <1>3

\* The task at hand has logged nothing before its row is written.
LEMMA NotYet ==
  ASSUME IInv, NEW h \in Handlers, tx[h].pc \in {"create", "save"}, NEW r \in Rows,
         r[1] = tx[h].task, tx[h].task \in Nat
  PROVE  ~ Logged(h, r)
<1> SUFFICES ASSUME NEW n \in Nat, <<r, n>> \in tx[h].newLogs PROVE FALSE
  BY DEF Logged
<1>1. LogInv(h)
  BY DEF IInv, TxInv
<1>2. \/ r[1] < tx[h].task
      \/ tx[h].pc \in {"score", "exp_read", "exp", "badge", "give"}
  BY <1>1 DEF LogInv
<1> QED BY <1>2

\* The row that Create inserts is the first.
LEMMA AloneCreate ==
  ASSUME IInv, Exact, NEW h \in Handlers, AloneTx(h), Create(h)
  PROVE  AloneTx(h)'
<1> DEFINE r0 == Row(h)
           new == [tx[h] EXCEPT !.pc = "save", !.old = Zero, !.new[r0] = Zero]
<1>0. tx[h] \in Txs /\ r0 \in Rows /\ tx[h].pc = "create"
  BY RowIsRow DEF IInv, TInv, TypeOK, Open, Create
<1>1. Become(h, new) /\ progress[r0] = None
  BY <1>0 DEF Create, AloneTx
<1>2. tx'[h] = new /\ UNCHANGED stored
  BY <1>1, BecomeIs DEF IInv, AloneTx
<1>3. /\ new.pc = "save" /\ new.old = Zero /\ new.snap = tx[h].snap /\ new.err = tx[h].err
      /\ new.newLogs = tx[h].newLogs /\ new.task = tx[h].task /\ new.day = tx[h].day
      /\ new.new[r0] = Zero /\ ~ new.auto /\ \A r \in Rows : r # r0 => new.new[r] = tx[h].new[r]
  BY <1>0 DEF AloneTx, Txs
<1> HIDE DEF new
<1>4. Row(h)' = r0
  BY <1>2, <1>3 DEF Row, Task
<1>5. Finishes(r0) = 0 /\ logs[r0] = {}
  BY <1>0, <1>1 DEF Finishes, Exact
<1>6. ~ Logged(h, r0)
  <2>1. r0[1] = tx[h].task /\ tx[h].task \in Nat
    BY <1>0, RowsNat, KeyIsKey DEF Row, Task
  <2> QED BY <1>0, <2>1, NotYet
<1>7. ASSUME NEW r \in Rows
      PROVE  IF new.new[r] = None THEN ~ Logged(h, r)
             ELSE \A n \in Nat : n \in 1..new.new[r].finish <=> n \in logs[r] \/ <<r, n>> \in new.newLogs
  <2>1. CASE r = r0
    <3>1. new.new[r] = Zero /\ Zero.finish = 0 /\ Zero # None
      BY <1>3, <2>1, TaskEngineAssumption DEF Zero
    <3>2. \A n \in Nat : n \notin logs[r] /\ <<r, n>> \notin new.newLogs
      BY <1>3, <1>5, <1>6, <2>1 DEF Logged
    <3> QED BY <3>1, <3>2
  <2>2. CASE r # r0
    BY <1>0, <1>3, <2>2 DEF AloneTx
  <2> QED BY <2>1, <2>2
<1>8. Zero.finish = 0
  BY DEF Zero
<1>9. Committed' = Committed /\ \A r : Finishes(r)' = Finishes(r) /\ Logged(h, r)' = Logged(h, r)
  BY <1>2, <1>3 DEF stored, Committed, Finishes, Logged
<1> QED BY <1>0, <1>2, <1>3, <1>4, <1>5, <1>7, <1>8, <1>9 DEF AloneTx, stored

LEMMA AloneSave ==
  ASSUME IInv, Exact, NEW h \in Handlers, AloneTx(h), Save(h)
  PROVE  AloneTx(h)'
<1> DEFINE r0 == Row(h)
           p == Advance(Task(h), tx[h].old)
           one == [NextTask(h) EXCEPT !.new[r0] = p]
           two == [tx[h] EXCEPT !.pc = "log", !.old = p, !.new[r0] = p]
<1>0. tx[h] \in Txs /\ r0 \in Rows /\ r0[1] = tx[h].task /\ tx[h].task \in Nat /\ tx[h].pc = "save"
  BY RowIsRow, RowsNat DEF IInv, TInv, TypeOK, Open, Save, Row, Task
<1>1. /\ \/ Become(h, one) /\ p.finish = tx[h].old.finish
         \/ Become(h, two) /\ p.finish # tx[h].old.finish
  BY DEF Save
<1>2. tx[h].old.finish = Finishes(r0) /\ Finishes(r0) \in Nat /\ logs[r0] = 1..Finishes(r0)
  BY <1>0, FinishesNat DEF AloneTx, Exact, IInv, TInv
<1>3. p \in Progress /\ (p.finish = tx[h].old.finish \/ p.finish = tx[h].old.finish + 1)
  BY <1>0, AdvanceIs DEF IInv, TxInv, ReadInv, Txs, Task
<1>4. ~ Logged(h, r0)
  BY <1>0, NotYet
<1> HIDE DEF p
<1>5. /\ one.pc = "take" /\ one.snap = tx[h].snap /\ one.err = tx[h].err
      /\ one.newLogs = tx[h].newLogs /\ ~ one.auto
      /\ one.new[r0] = p /\ \A r \in Rows : r # r0 => one.new[r] = tx[h].new[r]
  BY <1>0 DEF AloneTx, NextTask, Txs
<1>6. /\ two.pc = "log" /\ two.snap = tx[h].snap /\ two.err = tx[h].err
      /\ two.newLogs = tx[h].newLogs /\ ~ two.auto /\ two.old = p /\ two.task = tx[h].task /\ two.day = tx[h].day
      /\ two.new[r0] = p /\ \A r \in Rows : r # r0 => two.new[r] = tx[h].new[r]
  BY <1>0 DEF AloneTx, Txs
<1> HIDE DEF one, two
<1>7. \A r \in Rows : r # r0 =>
        IF tx[h].new[r] = None THEN ~ Logged(h, r)
        ELSE \A n \in Nat : n \in 1..tx[h].new[r].finish <=> n \in logs[r] \/ <<r, n>> \in tx[h].newLogs
  BY <1>0 DEF AloneTx
<1>8. tx'[h].newLogs = tx[h].newLogs =>
        Committed' = Committed /\ \A r : Finishes(r)' = Finishes(r) /\ Logged(h, r)' = Logged(h, r)
  <2>1. UNCHANGED stored
    BY <1>1, BecomeIs DEF IInv, AloneTx
  <2> QED BY <2>1 DEF stored, Committed, Finishes, Logged
<1>9. CASE Become(h, one) /\ p.finish = tx[h].old.finish
  <2>1. tx'[h] = one /\ UNCHANGED stored
    BY <1>9, BecomeIs DEF IInv, AloneTx
  <2>2. p # None
    BY <1>3, TaskEngineAssumption DEF Progress
  <2>3. \A n \in Nat : n \in 1..p.finish <=> n \in logs[r0] \/ <<r0, n>> \in one.newLogs
    BY <1>2, <1>4, <1>5, <1>9 DEF Logged
  <2> QED BY <1>5, <1>7, <1>8, <2>1, <2>2, <2>3 DEF AloneTx, stored
<1>10. CASE Become(h, two) /\ p.finish # tx[h].old.finish
  <2>1. tx'[h] = two /\ UNCHANGED stored
    BY <1>10, BecomeIs DEF IInv, AloneTx
  <2>2. Row(h)' = r0 /\ p # None
    BY <1>3, <1>6, <2>1, TaskEngineAssumption DEF Row, Task, Progress
  <2>3. p.finish = Finishes(r0) + 1
    BY <1>2, <1>3, <1>10
  <2> QED BY <1>4, <1>6, <1>7, <1>8, <2>1, <2>2, <2>3 DEF AloneTx, stored
<1> QED BY <1>1, <1>9, <1>10

\* The finish is not logged yet.
LEMMA AloneInsertLog ==
  ASSUME IInv, Exact, NEW h \in Handlers, AloneTx(h), InsertLog(h)
  PROVE  AloneTx(h)'
<1> DEFINE r0 == Row(h)
           n0 == tx[h].old.finish
           new == [tx[h] EXCEPT !.pc = "score", !.newLogs = @ \cup {<<r0, n0>>}]
<1>0. tx[h] \in Txs /\ r0 \in Rows /\ tx[h].pc = "log" /\ tx[h].new[r0] # None
  BY RowIsRow DEF IInv, TInv, TypeOK, Open, InsertLog, AloneTx
<1>1. n0 = Finishes(r0) + 1 /\ Finishes(r0) \in Nat /\ logs[r0] = 1..Finishes(r0)
  BY <1>0, FinishesNat DEF AloneTx, Exact, IInv, TInv
<1>2. n0 \notin logs[r0]
  BY <1>1
<1>3. Become(h, new)
  BY <1>2 DEF InsertLog
<1>4. tx'[h] = new /\ UNCHANGED stored
  BY <1>3, BecomeIs DEF IInv, AloneTx
<1>5. /\ ~ new.auto /\ new.pc = "score" /\ new.snap = tx[h].snap /\ new.err = tx[h].err
      /\ new.newLogs = tx[h].newLogs \cup {<<r0, n0>>} /\ new.new = tx[h].new
  BY <1>0 DEF AloneTx, Txs
<1>6. ~ Logged(h, r0)
  BY <1>0 DEF AloneTx
<1> HIDE DEF new
<1>7. ASSUME NEW r \in Rows
      PROVE  IF new.new[r] = None THEN ~ Logged(h, r)'
             ELSE \A n \in Nat : n \in 1..new.new[r].finish <=> n \in logs[r] \/ <<r, n>> \in new.newLogs
  <2>1. CASE r = r0
    <3>1. new.new[r].finish = n0 /\ new.new[r] # None
      BY <1>0, <1>5, <2>1 DEF AloneTx
    <3>2. \A n \in Nat : <<r, n>> \in new.newLogs <=> n = n0
      BY <1>5, <1>6, <2>1 DEF Logged
    <3>3. \A n \in Nat : n \in 1..n0 <=> n \in logs[r] \/ n = n0
      BY <1>1, <2>1
    <3> HIDE DEF n0, r0
    <3> QED BY <3>1, <3>2, <3>3
  <2>2. CASE r # r0
    <3>1. \A n \in Nat : <<r, n>> \in new.newLogs <=> <<r, n>> \in tx[h].newLogs
      BY <1>5, <2>2
    <3>2. IF tx[h].new[r] = None THEN ~ Logged(h, r)
          ELSE \A n \in Nat : n \in 1..tx[h].new[r].finish <=> n \in logs[r] \/ <<r, n>> \in tx[h].newLogs
      BY <2>2 DEF AloneTx
    <3> QED BY <1>4, <1>5, <3>1, <3>2 DEF Logged
  <2> QED BY <2>1, <2>2
<1>8. Committed' = Committed
  BY <1>4 DEF stored, Committed
<1> QED BY <1>4, <1>5, <1>7, <1>8 DEF AloneTx, stored

\* Rewards write neither progress nor log rows, and the badge is new.
LEMMA AloneReward ==
  ASSUME IInv, NEW h \in Handlers, AloneTx(h),
         Score(h) \/ ExpRead(h) \/ AddExp(h) \/ CheckBadge(h)
  PROVE  AloneTx(h)'
<1> DEFINE Same(new) ==
             /\ ~ new.auto /\ new.err = tx[h].err /\ new.snap = tx[h].snap /\ new.new = tx[h].new
             /\ new.newLogs = tx[h].newLogs /\ new.day = tx[h].day
             /\ new.pc \notin {"log", "create", "save"} /\ (new.pc = "give" => ~ badge)
<1>0. tx[h] \in Txs /\ tx[h].pc # "log" /\ ~ tx[h].auto
  BY DEF IInv, TInv, TypeOK, Score, ExpRead, AddExp, CheckBadge, AloneTx
<1>1. \A new : Same(new) /\ Become(h, new) => AloneTx(h)'
  BY <1>0, AloneQuiet
<1>2. \A s : Same([tx[h] EXCEPT !.pc = "exp_read", !.scored = s])
  BY <1>0 DEF Txs
<1>3. Same([tx[h] EXCEPT !.pc = "exp_read"]) /\ Same([tx[h] EXCEPT !.pc = "badge"])
  BY <1>0 DEF Txs
<1>4. \A l : Same([tx[h] EXCEPT !.pc = "exp", !.oldLevel = l])
  BY <1>0 DEF Txs
<1>5. \A s, l : Same([tx[h] EXCEPT !.pc = "badge", !.expd = s, !.newLevel = l])
  BY <1>0 DEF Txs
<1>6. ~ badge => Same([tx[h] EXCEPT !.pc = "give"])
  BY <1>0 DEF Txs
<1> HIDE DEF Same
<1>7. CASE Score(h)
  BY <1>1, <1>2, <1>3, <1>7 DEF Score
<1>8. CASE ExpRead(h)
  BY <1>1, <1>3, <1>4, <1>8 DEF ExpRead
<1>9. CASE AddExp(h)
  BY <1>1, <1>5, <1>9 DEF AddExp
<1>10. CASE CheckBadge(h)
  <2>1. View(h).badge = badge
    BY ViewAlone DEF Committed
  <2> QED BY <1>0, <1>1, <1>6, <1>10, <2>1, AloneNext DEF CheckBadge
<1> QED BY <1>7, <1>8, <1>9, <1>10

LEMMA AloneGiveBadge ==
  ASSUME IInv, NEW h \in Handlers, AloneTx(h), GiveBadge(h)
  PROVE  AloneTx(h)'
<1> DEFINE new == [NextTask(h) EXCEPT !.newBadge = TRUE]
<1>0. tx[h] \in Txs /\ tx[h].pc = "give"
  BY DEF IInv, TInv, TypeOK, GiveBadge
<1>1. Become(h, new)
  BY <1>0 DEF GiveBadge, AloneTx
<1>2. /\ new.pc = "take" /\ new.err = tx[h].err /\ new.snap = tx[h].snap
      /\ new.new = tx[h].new /\ new.newLogs = tx[h].newLogs /\ new.day = tx[h].day /\ ~ new.auto
  BY <1>0 DEF AloneTx, NextTask, Txs
<1> HIDE DEF new
<1> QED BY <1>0, <1>1, <1>2, AloneQuiet

\* What the transaction read was still so: the rows and the log agree again.
LEMMA AloneCommit ==
  ASSUME IInv, IInv', Exact, NEW h \in Handlers, AloneTx(h), Commit(h)
  PROVE  Exact' /\ AloneTx(h)'
<1>1. Exact'
  <2> SUFFICES ASSUME NEW r \in Rows PROVE logs'[r] = 1..Finishes(r)'
    BY DEF Exact
  <2>1. /\ progress'[r] = IF tx[h].new[r] # None THEN tx[h].new[r] ELSE progress[r]
        /\ \A n \in Nat : n \in logs'[r] <=> n \in logs[r] \/ <<r, n>> \in tx[h].newLogs
    BY CommitIs
  <2>2. logs'[r] \subseteq Nat /\ logs[r] \subseteq Nat
    BY DEF IInv, TInv, TypeOK
  <2>3. CASE tx[h].new[r] = None
    <3>1. \A n \in Nat : <<r, n>> \notin tx[h].newLogs
      BY <2>3 DEF AloneTx, Logged
    <3>2. logs'[r] = logs[r] /\ Finishes(r)' = Finishes(r)
      BY <2>1, <2>2, <2>3, <3>1 DEF Finishes
    <3> QED BY <3>2 DEF Exact
  <2>4. CASE tx[h].new[r] # None
    <3>1. \A n \in Nat : n \in 1..tx[h].new[r].finish <=> n \in logs[r] \/ <<r, n>> \in tx[h].newLogs
      BY <2>4 DEF AloneTx, Commit
    <3>2. Finishes(r)' = tx[h].new[r].finish
      BY <2>1, <2>4 DEF Finishes
    <3>3. 1..tx[h].new[r].finish \subseteq Nat
      <4>1. tx[h].new[r] \in Progress
        <5>1. tx[h] \in Txs
          BY DEF IInv, TInv, TypeOK
        <5>2. tx[h].new \in [Rows -> Progress \cup {None}]
          BY <5>1 DEF Txs
        <5> QED BY <2>4, <5>2
      <4>2. tx[h].new[r].finish \in Nat
        BY <4>1 DEF Progress
      <4> QED BY <4>2
    <3>4. logs'[r] = 1..tx[h].new[r].finish
      BY <2>1, <2>2, <3>1, <3>3
    <3> QED BY <3>2, <3>4
  <2> QED BY <2>3, <2>4
<1>2. /\ Idle.pc = "idle" /\ Idle.snap = None /\ Idle.newLogs = {} /\ Idle.err = "none" /\ ~ Idle.auto
      /\ Idle.new = [r \in Rows |-> None]
  BY DEF Idle
<1> QED BY <1>1, <1>2, CommitIs, AloneEmpty

LEMMA AloneStep ==
  ASSUME IInv, IInv', Exact, NEW h \in Handlers, Handlers = {h}, AloneTx(h), Step(h)
  PROVE  Exact' /\ AloneTx(h)'
<1>0. ~ tx[h].auto /\ ~ ScoreDeadlock(h)
  BY DEF AloneTx, ScoreDeadlock, Deadlocked
<1>1. UNCHANGED stored => Exact'
  BY DEF stored, Exact, Finishes
<1>2. CASE SkipInactive(h)
  BY <1>0, <1>1, <1>2, AloneNext DEF SkipInactive, Become
<1>3. CASE Commit(h)
  BY <1>3, AloneCommit
<1>4. CASE ~ Commit(h)
  <2>0. ~ AutoAddExp(h) /\ ~ AutoLogExp(h) /\ ~ AutoReadLevel(h) /\ ~ AutoSetLevel(h)
    BY <1>0 DEF AutoAddExp, AutoLogExp, AutoReadLevel, AutoSetLevel
  <2>1. UNCHANGED stored
    BY <1>0, <1>4, <2>0 DEF Step, Begin, Take, SkipInactive, Create, Save, InsertLog, Score, ExpRead, AddExp,
       CheckBadge, GiveBadge, Abort, Drop, Become
  <2> QED BY <1>0, <1>1, <1>2, <1>4, <2>0, <2>1, AloneFresh, AloneTake, AloneCreate, AloneSave,
             AloneInsertLog, AloneReward, AloneGiveBadge DEF Step
<1> QED BY <1>3, <1>4

\* With a single worker no event is lost to a duplicate key, on MySQL or PostgreSQL, and
\* the log says what the progress rows say: what lost updates and duplicates cost, the
\* overlap of events costs (task_engine_service.go: updateProgressAndCreateLog).
THEOREM TaskAlone ==
  ASSUME NEW one, Handlers = {one}
  PROVE  Spec => []ExactAlone
<1> DEFINE AInv == Exact /\ \A h \in Handlers : AloneTx(h)
<1>1. Init => AInv
  <2> SUFFICES ASSUME Init PROVE AInv
    OBVIOUS
  <2>1. Exact
    BY DEF Init, Exact, Finishes
  <2>2. \A h \in Handlers : AloneTx(h)
    BY DEF Init, AloneTx, Idle, Logged
  <2> QED BY <2>1, <2>2
<1>2. IInv /\ IInv' /\ AInv /\ [Next]_vars => AInv'
  <2> SUFFICES ASSUME IInv, IInv', AInv, [Next]_vars PROVE AInv'
    OBVIOUS
  <2>1. ASSUME NEW h \in Handlers, Step(h) PROVE AInv'
    <3>1. Handlers = {h}
      OBVIOUS
    <3>2. Exact' /\ AloneTx(h)'
      BY <2>1, <3>1, AloneStep
    <3> QED BY <3>1, <3>2
  <2>2. CASE UNCHANGED vars
    <3>1. Exact'
      BY <2>2 DEF vars, stored, Exact, Finishes
    <3>2. \A h \in Handlers : AloneTx(h)'
      BY <2>2 DEF vars, stored, AloneTx, Row, Task, Committed, Finishes, Logged
    <3> QED BY <3>1, <3>2
  <2> HIDE DEF AInv
  <2> QED BY <2>1, <2>2 DEF Next
<1>3. AInv => ExactAlone
  BY DEF Exact, AloneTx, ExactAlone
<1> HIDE DEF AInv
<1>4. Inv => IInv
  BY DEF Inv
<1> QED BY <1>1, <1>2, <1>3, <1>4, Inductive, PTL DEF Spec
=============================================================================
