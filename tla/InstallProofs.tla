----------------------------- MODULE InstallProofs -----------------------------
(***************************************************************************)
(* Proofs about Install, for any number of browsers, requests, databases   *)
(* and crashes.  The inductive invariant says what the one request that    *)
(* holds the mutex has done so far (Progress), that a configuration that   *)
(* says "installed" names a complete database (Installed), and what the    *)
(* wizards that wait know of their request (Waiting).                      *)
(***************************************************************************)
EXTENDS Install, FiniteSetTheorems, TLAPS

USE InstallAssumption

\* The installer that holds the mutex is the only one past the test of the database.
Holding == \A h \in Handlers : op[h].pc \in Locked <=> lock = h

Requests ==
  \A h \in Handlers : op[h].pc # "idle" => op[h].by \in Wizards /\ op[h].db \in Databases

Down ==
  ~ up => /\ mem = Blank /\ conn = None /\ lock = None
          /\ \A h \in Handlers : op[h].pc = "idle"

\* What the installer that holds the mutex has done so far.
Before(h, c) ==
  /\ op[h].pc \in {"config", "config_file", "open", "schema"} => ~ c.tables
  /\ op[h].pc \in {"user", "topic", "success", "success_file"} => c.tables /\ c.seeded
  /\ op[h].pc \in {"seed", "user"} => c.tables /\ c.admins = {}
  /\ op[h].pc \in {"seed", "user", "topic"} => c.topics = {}
  /\ op[h].pc \in {"success", "success_file"} => c.topics = {op[h].by}

Configured(h) ==
  /\ op[h].pc \in Locked \ {"config"} => mem.db = op[h].db
  /\ op[h].pc \in Locked \ {"config", "config_file", "open"} => conn = op[h].db
  /\ op[h].pc \in {"config_file", "success_file"} => ~ disk.installed \/ overtaken
  /\ op[h].pc \in Locked \ {"config", "success_file"} => ~ mem.installed \/ overtaken
  /\ op[h].pc = "success_file" => mem.installed

Progress ==
  \A h \in Handlers : op[h].pc \in Locked => Configured(h) /\ Before(h, data[op[h].db])

AtMostOne(S) == \A x, y \in S : x = y

Populated ==
  \A d \in Databases :
    /\ ~ data[d].tables => data[d].admins = {} /\ data[d].topics = {}
    /\ AtMostOne(data[d].admins) /\ AtMostOne(data[d].topics)

Complete1(c) ==
  c.installed /\ ~ overtaken =>
    c.db \in Databases /\ data[c.db].tables /\ data[c.db].seeded /\ data[c.db].topics # {}

Installed == Complete1(mem) /\ Complete1(disk) /\ (up /\ disk.installed /\ ~ overtaken => mem = disk)

Waiting ==
  \A w \in Wizards :
    /\ step[w] \in {"site", "admin"} => choice[w] \in Databases
    /\ fetch[w] # None =>
         /\ step[w] = "install" /\ op[fetch[w]].pc # "idle"
         /\ op[fetch[w]].by = w /\ op[fetch[w]].db = choice[w]

\* With one database, as in the Docker image, nobody is overtaken.
OneDatabase == (\E d \in Databases : Databases = {d}) => ~ overtaken

IInv ==
  /\ TypeOK /\ Holding /\ Requests /\ Down /\ Progress /\ Populated
  /\ Installed /\ Waiting /\ CompleteShown /\ OneDatabase

\* An update of what a database contains is well-formed.
LEMMA ContentsTyped ==
  ASSUME NEW c \in Contents, NEW ok \in BOOLEAN, NEW S \in SUBSET Wizards
  PROVE  /\ [c EXCEPT !.tables = TRUE] \in Contents
         /\ [c EXCEPT !.seeded = TRUE] \in Contents
         /\ [c EXCEPT !.tables = TRUE, !.seeded = @ \/ ok] \in Contents
         /\ [c EXCEPT !.admins = @ \cup S] \in Contents
         /\ [c EXCEPT !.topics = @ \cup S] \in Contents
  BY DEF Contents

\* A step that stores well-formed contents keeps the types.
LEMMA StoreTyped ==
  ASSUME TypeOK, NEW h \in Handlers, NEW pc \in Pcs, NEW next \in Pcs,
         NEW contents, conn \in Databases => contents \in Contents,
         Store(h, pc, contents, next)
  PROVE  TypeOK'
<1>1. data' \in [Databases -> Contents]
  BY DEF TypeOK, Store
<1>2. op' \in [Handlers -> [pc : Pcs, by : Wizards \cup {None}, db : Databases \cup {None}]]
  BY DEF TypeOK, Store, Goto
<1> QED
  BY <1>1, <1>2 DEF TypeOK, Store, process, wizard

\* A handler that returns keeps the types.
LEMMA AnswerTyped ==
  ASSUME TypeOK, NEW h \in Handlers, NEW ok \in BOOLEAN, Answer(h, ok)
  PROVE  /\ op' \in [Handlers -> [pc : Pcs, by : Wizards \cup {None},
                                  db : Databases \cup {None}]]
         /\ lock' \in Handlers \cup {None}
         /\ step' \in [Wizards -> Steps] /\ fetch' \in [Wizards -> Handlers \cup {None}]
  BY DEF TypeOK, Answer, Shown, Idle, Pcs, Steps

LEMMA OpenKeeps ==
  ASSUME IInv, NEW w \in Wizards, Open(w)
  PROVE  IInv'
<1>1. TypeOK'
  BY DEF IInv, TypeOK, Open, process, wizard, Contents, Configs, Pcs, Locked, Steps, Requests
<1>2. Holding' /\ Requests' /\ Down'
  BY DEF IInv, TypeOK, Holding, Requests, Down, Waiting, Open, process, wizard, Locked, Pcs
<1>3. Progress'
  BY DEF IInv, TypeOK, Holding, Requests, Down, Progress, Populated, Configured, Before, Open,
         process, wizard, Locked, Pcs, Contents, Configs
<1>4. Populated' /\ Installed'
  BY DEF IInv, TypeOK, Holding, Requests, Down, Progress, Configured, Before, Populated,
         AtMostOne, Installed, Complete1, Open, process, wizard, Locked, Pcs, Contents, Configs,
         Blank
<1>5. Waiting' /\ CompleteShown'
  BY DEF IInv, TypeOK, Holding, Requests, Down, Progress, Configured, Before, Installed,
         Waiting, CompleteShown, Open, process, wizard, Locked, Pcs, Steps, Contents, Configs,
         Blank
<1>6. OneDatabase'
  BY DEF IInv, TypeOK, Requests, Progress, Before, Installed, Complete1, OneDatabase, Open,
         process, wizard, Locked
<1> QED
  BY <1>1, <1>2, <1>3, <1>4, <1>5, <1>6 DEF IInv

LEMMA GotoStepKeeps ==
  ASSUME IInv, NEW w \in Wizards, NEW to \in Steps, GotoStep(w, to)
  PROVE  IInv'
<1>1. TypeOK'
  BY DEF IInv, TypeOK, GotoStep, Turns, process, wizard, Contents, Configs, Pcs, Locked, Steps,
         Requests
<1>2. Holding' /\ Requests' /\ Down'
  BY DEF IInv, TypeOK, Holding, Requests, Down, Waiting, GotoStep, Turns, process, wizard,
         Locked, Pcs
<1>3. Progress'
  BY DEF IInv, TypeOK, Holding, Requests, Down, Progress, Populated, Configured, Before,
         GotoStep, Turns, process, wizard, Locked, Pcs, Contents, Configs
<1>4. Populated' /\ Installed'
  BY DEF IInv, TypeOK, Holding, Requests, Down, Progress, Configured, Before, Populated,
         AtMostOne, Installed, Complete1, GotoStep, Turns, process, wizard, Locked, Pcs,
         Contents, Configs, Blank
<1>5. Waiting' /\ CompleteShown'
  BY DEF IInv, TypeOK, Holding, Requests, Down, Progress, Configured, Before, Installed,
         Waiting, CompleteShown, GotoStep, Turns, process, wizard, Locked, Pcs, Steps, Contents,
         Configs, Blank
<1>6. OneDatabase'
  BY DEF IInv, TypeOK, Requests, Progress, Before, Installed, Complete1, OneDatabase, GotoStep,
         Turns, process, wizard, Locked
<1> QED
  BY <1>1, <1>2, <1>3, <1>4, <1>5, <1>6 DEF IInv

LEMMA TestDbConnectionKeeps ==
  ASSUME IInv, NEW w \in Wizards, NEW d \in Databases, TestDbConnection(w, d)
  PROVE  IInv'
<1>1. TypeOK'
  BY DEF IInv, TypeOK, TestDbConnection, EmptyDatabase, process, wizard, Contents, Configs, Pcs,
         Locked, Steps, Requests
<1>2. Holding' /\ Requests' /\ Down'
  BY DEF IInv, TypeOK, Holding, Requests, Down, Waiting, TestDbConnection, EmptyDatabase,
         process, wizard, Locked, Pcs
<1>3. Progress'
  BY DEF IInv, TypeOK, Holding, Requests, Down, Progress, Populated, Configured, Before,
         TestDbConnection, EmptyDatabase, process, wizard, Locked, Pcs, Contents, Configs
<1>4. Populated' /\ Installed'
  BY DEF IInv, TypeOK, Holding, Requests, Down, Progress, Configured, Before, Populated,
         AtMostOne, Installed, Complete1, TestDbConnection, EmptyDatabase, process, wizard,
         Locked, Pcs, Contents, Configs, Blank
<1>5. Waiting' /\ CompleteShown'
  BY DEF IInv, TypeOK, Holding, Requests, Down, Progress, Configured, Before, Installed,
         Waiting, CompleteShown, TestDbConnection, EmptyDatabase, process, wizard, Locked, Pcs,
         Steps, Contents, Configs, Blank
<1>6. OneDatabase'
  BY DEF IInv, TypeOK, Requests, Progress, Before, Installed, Complete1, OneDatabase,
         TestDbConnection, EmptyDatabase, process, wizard, Locked
<1> QED
  BY <1>1, <1>2, <1>3, <1>4, <1>5, <1>6 DEF IInv

LEMMA ConfirmInstallKeeps ==
  ASSUME IInv, NEW w \in Wizards, NEW h \in Handlers, ConfirmInstall(w, h)
  PROVE  IInv'
<1> DEFINE sent == [pc |-> "check", by |-> w, db |-> choice[w]]
<1>0. op' \in {op, [op EXCEPT ![h] = sent]} /\ op[h].pc = "idle" /\ choice[w] \in Databases
  BY DEF IInv, Waiting, ConfirmInstall, Idle
<1>1. TypeOK'
  <2>1. sent \in [pc : Pcs, by : Wizards \cup {None}, db : Databases \cup {None}]
    BY <1>0 DEF Pcs
  <2>2. op' \in [Handlers -> [pc : Pcs, by : Wizards \cup {None}, db : Databases \cup {None}]]
    BY <1>0, <2>1 DEF IInv, TypeOK
  <2>3. step' \in [Wizards -> Steps] /\ fetch' \in [Wizards -> Handlers \cup {None}]
    BY DEF IInv, TypeOK, ConfirmInstall, Steps
  <2> QED
    BY <2>2, <2>3 DEF IInv, TypeOK, ConfirmInstall, process
<1>2. Holding' /\ Requests' /\ Down'
  BY DEF IInv, TypeOK, Holding, Requests, Down, Waiting, ConfirmInstall, Idle, process, wizard,
         Locked, Pcs
<1>3. Progress'
  <2>1. \A k \in Handlers : op'[k].pc \in Locked => op'[k] = op[k]
    BY <1>0 DEF IInv, TypeOK, Locked
  <2> QED
    BY <2>1 DEF IInv, Progress, Configured, Before, ConfirmInstall, process
<1>4. Populated' /\ Installed'
  BY DEF IInv, TypeOK, Holding, Requests, Down, Progress, Configured, Before, Populated,
         AtMostOne, Installed, Complete1, ConfirmInstall, Idle, process, wizard, Locked, Pcs,
         Contents, Configs, Blank
<1>5. Waiting' /\ CompleteShown'
  <2>1. CASE up
    BY <2>1 DEF IInv, TypeOK, Waiting, CompleteShown, ConfirmInstall, Idle, process, Down
  <2>2. CASE ~ up
    BY <2>2 DEF IInv, TypeOK, Waiting, CompleteShown, ConfirmInstall, Idle, process, Down
  <2> QED
    BY <2>1, <2>2
<1>6. OneDatabase'
  BY DEF IInv, TypeOK, Requests, Progress, Before, Installed, Complete1, OneDatabase,
         ConfirmInstall, Idle, process, wizard, Locked
<1> QED
  BY <1>1, <1>2, <1>3, <1>4, <1>5, <1>6 DEF IInv

LEMMA LoseConnectionKeeps ==
  ASSUME IInv, NEW w \in Wizards, LoseConnection(w)
  PROVE  IInv'
<1>1. TypeOK'
  BY DEF IInv, TypeOK, LoseConnection, process, wizard, Contents, Configs, Pcs, Locked, Steps,
         Requests
<1>2. Holding' /\ Requests' /\ Down'
  BY DEF IInv, TypeOK, Holding, Requests, Down, Waiting, LoseConnection, process, wizard,
         Locked, Pcs
<1>3. Progress'
  BY DEF IInv, TypeOK, Holding, Requests, Down, Progress, Populated, Configured, Before,
         LoseConnection, process, wizard, Locked, Pcs, Contents, Configs
<1>4. Populated' /\ Installed'
  BY DEF IInv, TypeOK, Holding, Requests, Down, Progress, Configured, Before, Populated,
         AtMostOne, Installed, Complete1, LoseConnection, process, wizard, Locked, Pcs,
         Contents, Configs, Blank
<1>5. Waiting' /\ CompleteShown'
  BY DEF IInv, TypeOK, Holding, Requests, Down, Progress, Configured, Before, Installed,
         Waiting, CompleteShown, LoseConnection, process, wizard, Locked, Pcs, Steps, Contents,
         Configs, Blank
<1>6. OneDatabase'
  BY DEF IInv, TypeOK, Requests, Progress, Before, Installed, Complete1, OneDatabase,
         LoseConnection, process, wizard, Locked
<1> QED
  BY <1>1, <1>2, <1>3, <1>4, <1>5, <1>6 DEF IInv

LEMMA CompleteKeeps ==
  ASSUME IInv, NEW w \in Wizards, Complete(w)
  PROVE  IInv'
<1>1. TypeOK'
  BY DEF IInv, TypeOK, Complete, process, wizard, Contents, Configs, Pcs, Locked, Steps,
         Requests
<1>2. Holding' /\ Requests' /\ Down'
  BY DEF IInv, TypeOK, Holding, Requests, Down, Waiting, Complete, process, wizard, Locked, Pcs
<1>3. Progress'
  BY DEF IInv, TypeOK, Holding, Requests, Down, Progress, Populated, Configured, Before,
         Complete, process, wizard, Locked, Pcs, Contents, Configs
<1>4. Populated' /\ Installed'
  BY DEF IInv, TypeOK, Holding, Requests, Down, Progress, Configured, Before, Populated,
         AtMostOne, Installed, Complete1, Complete, process, wizard, Locked, Pcs, Contents,
         Configs, Blank
<1>5. Waiting' /\ CompleteShown'
  BY DEF IInv, TypeOK, Holding, Requests, Down, Progress, Configured, Before, Installed,
         Waiting, CompleteShown, Complete, process, wizard, Locked, Pcs, Steps, Contents,
         Configs, Blank
<1>6. OneDatabase'
  BY DEF IInv, TypeOK, Requests, Progress, Before, Installed, Complete1, OneDatabase, Complete,
         process, wizard, Locked
<1> QED
  BY <1>1, <1>2, <1>3, <1>4, <1>5, <1>6 DEF IInv

LEMMA InstallInstallKeeps ==
  ASSUME IInv, NEW h \in Handlers, InstallInstall(h)
  PROVE  IInv'
<1>1. TypeOK'
  BY DEF IInv, TypeOK, InstallInstall, Answer, Goto, Shown, Idle, process, wizard, Contents,
         Configs, Pcs, Locked, Steps, Requests
<1>2. Holding' /\ Requests' /\ Down'
  BY DEF IInv, TypeOK, Holding, Requests, Down, Waiting, InstallInstall, Answer, Goto, Shown,
         Idle, process, wizard, Locked, Pcs
<1>3. Progress'
  BY DEF IInv, TypeOK, Holding, Requests, Down, Progress, Populated, Configured, Before,
         InstallInstall, Answer, Goto, Shown, Idle, process, wizard, Locked, Pcs, Contents,
         Configs
<1>4. Populated' /\ Installed'
  BY DEF IInv, TypeOK, Holding, Requests, Down, Progress, Configured, Before, Populated,
         AtMostOne, Installed, Complete1, InstallInstall, Answer, Goto, Shown, Idle, process,
         wizard, Locked, Pcs, Contents, Configs, Blank
<1>5. Waiting' /\ CompleteShown'
  BY DEF IInv, TypeOK, Holding, Requests, Down, Progress, Configured, Before, Installed,
         Waiting, CompleteShown, InstallInstall, Answer, Goto, Shown, Idle, process, wizard,
         Locked, Pcs, Steps, Contents, Configs, Blank
<1>6. OneDatabase'
  BY DEF IInv, TypeOK, Requests, Progress, Before, Installed, Complete1, OneDatabase,
         InstallInstall, Answer, Goto, Shown, Idle, process, wizard, Locked
<1> QED
  BY <1>1, <1>2, <1>3, <1>4, <1>5, <1>6 DEF IInv

LEMMA LockKeeps ==
  ASSUME IInv, NEW h \in Handlers, Lock(h)
  PROVE  IInv'
<1>1. TypeOK'
  BY DEF IInv, TypeOK, Lock, EmptyDatabase, Answer, Goto, Shown, Idle, process, wizard,
         Contents, Configs, Pcs, Locked, Steps, Requests
<1>2. Holding' /\ Requests' /\ Down'
  <2>1. CASE EmptyDatabase(op[h].db)
    BY <2>1 DEF IInv, TypeOK, Holding, Requests, Down, Lock, process, Locked, Goto
  <2>2. CASE ~ EmptyDatabase(op[h].db)
    <3>1. op' = [op EXCEPT ![h] = Idle] /\ lock' = None /\ lock = None
      BY <2>2 DEF IInv, TypeOK, Lock, Answer
    <3> QED
      BY <3>1 DEF IInv, TypeOK, Holding, Requests, Down, Lock, Idle, Locked
  <2> QED
    BY <2>1, <2>2
<1>3. Progress'
  <2>1. \A k \in Handlers : k # h => op'[k] = op[k]
    BY DEF IInv, TypeOK, Lock, Goto, Answer
  <2>2. \A k \in Handlers : op[k].pc \notin Locked
    BY DEF IInv, Holding, TypeOK, Lock
  <2>3. CASE EmptyDatabase(op[h].db)
    BY <2>1, <2>2, <2>3
    DEF IInv, TypeOK, Progress, Configured, Before, Locked, Lock, Goto, EmptyDatabase
  <2>4. CASE ~ EmptyDatabase(op[h].db)
    <3>1. op'[h].pc = "idle"
      BY <2>4 DEF IInv, TypeOK, Lock, Answer, Idle
    <3> QED
      BY <3>1, <2>1, <2>2 DEF Progress, Locked
  <2> QED
    BY <2>3, <2>4
<1>4. Populated' /\ Installed'
  BY DEF IInv, TypeOK, Holding, Requests, Down, Progress, Configured, Before, Populated,
         AtMostOne, Installed, Complete1, Lock, EmptyDatabase, Answer, Goto, Shown, Idle,
         process, wizard, Locked, Pcs, Contents, Configs, Blank
<1>5. Waiting' /\ CompleteShown'
  <2>1. CASE EmptyDatabase(op[h].db)
    BY <2>1 DEF IInv, TypeOK, Waiting, CompleteShown, Lock, Goto, wizard
  <2>2. CASE ~ EmptyDatabase(op[h].db)
    BY <2>2 DEF IInv, TypeOK, Waiting, CompleteShown, Lock, Answer, Shown
  <2> QED
    BY <2>1, <2>2
<1>6. OneDatabase'
  BY DEF IInv, TypeOK, Requests, Progress, Before, Installed, Complete1, OneDatabase, Lock,
         EmptyDatabase, Answer, Goto, Shown, Idle, process, wizard, Locked
<1> QED
  BY <1>1, <1>2, <1>3, <1>4, <1>5, <1>6 DEF IInv

LEMMA WriteConfigKeeps ==
  ASSUME IInv, NEW h \in Handlers, WriteConfig(h)
  PROVE  IInv'
<1>1. TypeOK'
  <2>1. Blank \in Configs
    BY DEF Blank, Configs
  <2>2. disk' \in Configs
    BY <2>1 DEF IInv, TypeOK, WriteConfig
  <2>3. mem' \in Configs
    BY DEF IInv, TypeOK, Requests, WriteConfig, ConfigFor, Configs
  <2>4. op' \in [Handlers -> [pc : Pcs, by : Wizards \cup {None}, db : Databases \cup {None}]]
    BY DEF IInv, TypeOK, WriteConfig, Goto, Pcs, Locked
  <2> QED
    BY <2>2, <2>3, <2>4 DEF IInv, TypeOK, WriteConfig, wizard
<1>2. Holding' /\ Requests' /\ Down'
  BY DEF IInv, TypeOK, Holding, Requests, Down, Waiting, WriteConfig, ConfigFor, Goto, Blank,
         Configs, process, wizard, Locked, Pcs
<1>3. Progress'
  <2>1. op' = [op EXCEPT ![h].pc = "config_file"] /\ data' = data /\ lock = h
    BY DEF IInv, Holding, WriteConfig, Goto, Locked
  <2>2. mem'.db = op[h].db /\ mem'.installed = mem.installed
    BY DEF IInv, TypeOK, Configs, WriteConfig, ConfigFor
  <2>3. up
    BY DEF IInv, Down, WriteConfig
  <2>4. (~ disk'.installed \/ overtaken') /\ (~ mem'.installed \/ overtaken')
    <3>1. overtaken' = (overtaken \/ mem.installed) /\ disk' \in {disk, Blank}
      BY DEF WriteConfig
    <3>2. disk.installed /\ ~ overtaken => mem.installed
      BY <2>3 DEF IInv, Installed
    <3>3. ~ Blank.installed
      BY DEF Blank
    <3>4. CASE disk' = disk
      BY <2>2, <3>1, <3>2, <3>4
    <3>5. CASE disk' = Blank
      BY <2>2, <3>1, <3>3, <3>5
    <3> QED
      BY <3>1, <3>4, <3>5
  <2>5. \A k \in Handlers : op'[k].pc \in Locked => k = h
    BY <2>1 DEF IInv, TypeOK, Holding
  <2>6. Before(h, data[op[h].db]) /\ op[h].pc = "config"
    BY DEF IInv, Progress, WriteConfig, Locked
  <2> QED
    BY <2>1, <2>2, <2>4, <2>5, <2>6 DEF IInv, TypeOK, Progress, Configured, Before
<1>4. Populated' /\ Installed'
  BY DEF IInv, TypeOK, Holding, Requests, Down, Progress, Configured, Before, Populated,
         AtMostOne, Installed, Complete1, WriteConfig, ConfigFor, Goto, Blank, Configs, process,
         wizard, Locked, Pcs, Contents
<1>5. Waiting' /\ CompleteShown'
  BY DEF IInv, TypeOK, Holding, Requests, Down, Progress, Configured, Before, Installed,
         Waiting, CompleteShown, WriteConfig, ConfigFor, Goto, Blank, Configs, process, wizard,
         Locked, Pcs, Steps, Contents
<1>6. OneDatabase'
  BY DEF IInv, TypeOK, Requests, Progress, Before, Installed, Complete1, OneDatabase,
         WriteConfig, ConfigFor, Goto, Blank, Configs, process, wizard, Locked
<1> QED
  BY <1>1, <1>2, <1>3, <1>4, <1>5, <1>6 DEF IInv

LEMMA WriteConfigFileKeeps ==
  ASSUME IInv, NEW h \in Handlers, WriteConfigFile(h)
  PROVE  IInv'
<1>1. TypeOK'
  BY DEF IInv, TypeOK, WriteConfigFile, Goto, process, wizard, Contents, Configs, Pcs, Locked,
         Steps, Requests
<1>2. Holding' /\ Requests' /\ Down'
  BY DEF IInv, TypeOK, Holding, Requests, Down, Waiting, WriteConfigFile, Goto, process, wizard,
         Locked, Pcs
<1>3. Progress'
  BY DEF IInv, TypeOK, Holding, Requests, Down, Progress, Populated, Configured, Before,
         WriteConfigFile, Goto, process, wizard, Locked, Pcs, Contents, Configs
<1>4. Populated' /\ Installed'
  BY DEF IInv, TypeOK, Holding, Requests, Down, Progress, Configured, Before, Populated,
         AtMostOne, Installed, Complete1, WriteConfigFile, Goto, process, wizard, Locked, Pcs,
         Contents, Configs, Blank
<1>5. Waiting' /\ CompleteShown'
  BY DEF IInv, TypeOK, Holding, Requests, Down, Progress, Configured, Before, Installed,
         Waiting, CompleteShown, WriteConfigFile, Goto, process, wizard, Locked, Pcs, Steps,
         Contents, Configs, Blank
<1>6. OneDatabase'
  BY DEF IInv, TypeOK, Requests, Progress, Before, Installed, Complete1, OneDatabase,
         WriteConfigFile, Goto, process, wizard, Locked
<1> QED
  BY <1>1, <1>2, <1>3, <1>4, <1>5, <1>6 DEF IInv

LEMMA InitDBKeeps ==
  ASSUME IInv, NEW h \in Handlers, InitDB(h)
  PROVE  IInv'
<1>1. TypeOK'
  BY DEF IInv, TypeOK, InitDB, Goto, Configs, process, wizard, Contents, Pcs, Locked, Steps,
         Requests
<1>2. Holding' /\ Requests' /\ Down'
  BY DEF IInv, TypeOK, Holding, Requests, Down, Waiting, InitDB, Goto, Configs, process, wizard,
         Locked, Pcs
<1>3. Progress'
  BY DEF IInv, TypeOK, Holding, Requests, Down, Progress, Populated, Configured, Before, InitDB,
         Goto, Configs, process, wizard, Locked, Pcs, Contents
<1>4. Populated' /\ Installed'
  BY DEF IInv, TypeOK, Holding, Requests, Down, Progress, Configured, Before, Populated,
         AtMostOne, Installed, Complete1, InitDB, Goto, Configs, process, wizard, Locked, Pcs,
         Contents, Blank
<1>5. Waiting' /\ CompleteShown'
  BY DEF IInv, TypeOK, Holding, Requests, Down, Progress, Configured, Before, Installed,
         Waiting, CompleteShown, InitDB, Goto, Configs, process, wizard, Locked, Pcs, Steps,
         Contents, Blank
<1>6. OneDatabase'
  BY DEF IInv, TypeOK, Requests, Progress, Before, Installed, Complete1, OneDatabase, InitDB,
         Goto, Configs, process, wizard, Locked
<1> QED
  BY <1>1, <1>2, <1>3, <1>4, <1>5, <1>6 DEF IInv

LEMMA AutoMigrateKeeps ==
  ASSUME IInv, NEW h \in Handlers, AutoMigrate(h)
  PROVE  IInv'
<1>1. TypeOK'
  <2>1. conn \in Databases => [data[conn] EXCEPT !.tables = TRUE] \in Contents
    BY ContentsTyped DEF IInv, TypeOK
  <2> QED
    BY <2>1, StoreTyped DEF IInv, AutoMigrate, Pcs, Locked
<1>2. Holding' /\ Requests' /\ Down'
  BY DEF IInv, TypeOK, Holding, Requests, Down, Waiting, AutoMigrate, Store, Goto, process,
         wizard, Locked, Pcs
<1>3. Progress'
  BY DEF IInv, TypeOK, Holding, Requests, Down, Progress, Populated, Configured, Before,
         AutoMigrate, Store, Goto, process, wizard, Locked, Pcs, Contents, Configs
<1>4. Populated' /\ Installed'
  BY DEF IInv, TypeOK, Holding, Requests, Down, Progress, Configured, Before, Populated,
         AtMostOne, Installed, Complete1, AutoMigrate, Store, Goto, process, wizard, Locked,
         Pcs, Contents, Configs, Blank
<1>5. Waiting' /\ CompleteShown'
  BY DEF IInv, TypeOK, Holding, Requests, Down, Progress, Configured, Before, Installed,
         Waiting, CompleteShown, AutoMigrate, Store, Goto, process, wizard, Locked, Pcs, Steps,
         Contents, Configs, Blank
<1>6. OneDatabase'
  BY DEF IInv, TypeOK, Requests, Progress, Before, Installed, Complete1, OneDatabase,
         AutoMigrate, Store, Goto, process, wizard, Locked
<1> QED
  BY <1>1, <1>2, <1>3, <1>4, <1>5, <1>6 DEF IInv

LEMMA MigrateKeeps ==
  ASSUME IInv, NEW h \in Handlers, Migrate(h)
  PROVE  IInv'
<1>1. TypeOK'
  <2>1. conn \in Databases => [data[conn] EXCEPT !.seeded = TRUE] \in Contents
    BY ContentsTyped DEF IInv, TypeOK
  <2> QED
    BY <2>1, StoreTyped DEF IInv, Migrate, Pcs, Locked
<1>2. Holding' /\ Requests' /\ Down'
  BY DEF IInv, TypeOK, Holding, Requests, Down, Waiting, Migrate, Store, Goto, process, wizard,
         Locked, Pcs
<1>3. Progress'
  BY DEF IInv, TypeOK, Holding, Requests, Down, Progress, Populated, Configured, Before,
         Migrate, Store, Goto, process, wizard, Locked, Pcs, Contents, Configs
<1>4. Populated' /\ Installed'
  BY DEF IInv, TypeOK, Holding, Requests, Down, Progress, Configured, Before, Populated,
         AtMostOne, Installed, Complete1, Migrate, Store, Goto, process, wizard, Locked, Pcs,
         Contents, Configs, Blank
<1>5. Waiting' /\ CompleteShown'
  BY DEF IInv, TypeOK, Holding, Requests, Down, Progress, Configured, Before, Installed,
         Waiting, CompleteShown, Migrate, Store, Goto, process, wizard, Locked, Pcs, Steps,
         Contents, Configs, Blank
<1>6. OneDatabase'
  BY DEF IInv, TypeOK, Requests, Progress, Before, Installed, Complete1, OneDatabase, Migrate,
         Store, Goto, process, wizard, Locked
<1> QED
  BY <1>1, <1>2, <1>3, <1>4, <1>5, <1>6 DEF IInv

LEMMA InitUserKeeps ==
  ASSUME IInv, NEW h \in Handlers, InitUser(h)
  PROVE  IInv'
<1>1. TypeOK'
  <2>1. PICK created \in {{}, {op[h].by}} :
          Store(h, "user", [data[conn] EXCEPT !.admins = @ \cup created], "topic")
    BY DEF InitUser
  <2>2. op[h].by \in Wizards
    BY <2>1 DEF IInv, Requests, Store
  <2>3. conn \in Databases => [data[conn] EXCEPT !.admins = @ \cup created] \in Contents
    BY <2>2, ContentsTyped DEF IInv, TypeOK
  <2> QED
    BY <2>1, <2>3, StoreTyped DEF IInv, Pcs, Locked
<1>2. Holding' /\ Requests' /\ Down'
  BY DEF IInv, TypeOK, Holding, Requests, Down, Waiting, InitUser, Store, Goto, process, wizard,
         Locked, Pcs
<1>3. Progress'
  BY DEF IInv, TypeOK, Holding, Requests, Down, Progress, Populated, Configured, Before,
         InitUser, Store, Goto, process, wizard, Locked, Pcs, Contents, Configs
<1>4. Populated' /\ Installed'
  BY DEF IInv, TypeOK, Holding, Requests, Down, Progress, Configured, Before, Populated,
         AtMostOne, Installed, Complete1, InitUser, Store, Goto, process, wizard, Locked, Pcs,
         Contents, Configs, Blank
<1>5. Waiting' /\ CompleteShown'
  BY DEF IInv, TypeOK, Holding, Requests, Down, Progress, Configured, Before, Installed,
         Waiting, CompleteShown, InitUser, Store, Goto, process, wizard, Locked, Pcs, Steps,
         Contents, Configs, Blank
<1>6. OneDatabase'
  BY DEF IInv, TypeOK, Requests, Progress, Before, Installed, Complete1, OneDatabase, InitUser,
         Store, Goto, process, wizard, Locked
<1> QED
  BY <1>1, <1>2, <1>3, <1>4, <1>5, <1>6 DEF IInv

LEMMA InitWelcomeTopicKeeps ==
  ASSUME IInv, NEW h \in Handlers, InitWelcomeTopic(h)
  PROVE  IInv'
<1>1. TypeOK'
  <2>1. op[h].by \in Wizards
    BY DEF IInv, Requests, InitWelcomeTopic, Store
  <2>2. conn \in Databases => [data[conn] EXCEPT !.topics = @ \cup {op[h].by}] \in Contents
    BY <2>1, ContentsTyped DEF IInv, TypeOK
  <2> QED
    BY <2>2, StoreTyped DEF IInv, InitWelcomeTopic, Pcs, Locked
<1>2. Holding' /\ Requests' /\ Down'
  BY DEF IInv, TypeOK, Holding, Requests, Down, Waiting, InitWelcomeTopic, Store, Goto, process,
         wizard, Locked, Pcs
<1>3. Progress'
  BY DEF IInv, TypeOK, Holding, Requests, Down, Progress, Populated, Configured, Before,
         InitWelcomeTopic, Store, Goto, process, wizard, Locked, Pcs, Contents, Configs
<1>4. Populated' /\ Installed'
  BY DEF IInv, TypeOK, Holding, Requests, Down, Progress, Configured, Before, Populated,
         AtMostOne, Installed, Complete1, InitWelcomeTopic, Store, Goto, process, wizard,
         Locked, Pcs, Contents, Configs, Blank
<1>5. Waiting' /\ CompleteShown'
  BY DEF IInv, TypeOK, Holding, Requests, Down, Progress, Configured, Before, Installed,
         Waiting, CompleteShown, InitWelcomeTopic, Store, Goto, process, wizard, Locked, Pcs,
         Steps, Contents, Configs, Blank
<1>6. OneDatabase'
  BY DEF IInv, TypeOK, Requests, Progress, Before, Installed, Complete1, OneDatabase,
         InitWelcomeTopic, Store, Goto, process, wizard, Locked
<1> QED
  BY <1>1, <1>2, <1>3, <1>4, <1>5, <1>6 DEF IInv

LEMMA WriteInstallSuccessKeeps ==
  ASSUME IInv, NEW h \in Handlers, WriteInstallSuccess(h)
  PROVE  IInv'
<1>1. TypeOK'
  <2>1. mem' \in Configs /\ disk' \in Configs
    <3>1. Blank \in Configs
      BY DEF Blank, Configs
    <3>2. disk' \in Configs
      BY <3>1 DEF IInv, TypeOK, WriteInstallSuccess
    <3> QED
      BY <3>2 DEF IInv, TypeOK, WriteInstallSuccess, Configs
  <2>2. op' \in [Handlers -> [pc : Pcs, by : Wizards \cup {None}, db : Databases \cup {None}]]
    BY DEF IInv, TypeOK, WriteInstallSuccess, Goto, Pcs, Locked
  <2> QED
    BY <2>1, <2>2 DEF IInv, TypeOK, WriteInstallSuccess, wizard
<1>2. Holding' /\ Requests' /\ Down'
  BY DEF IInv, TypeOK, Holding, Requests, Down, Waiting, WriteInstallSuccess, Goto, Blank,
         Configs, process, wizard, Locked, Pcs
<1>3. Progress'
  <2>1. op' = [op EXCEPT ![h].pc = "success_file"] /\ data' = data /\ lock = h
    BY DEF IInv, Holding, WriteInstallSuccess, Goto, Locked
  <2>2. mem'.db = mem.db /\ mem'.installed /\ conn' = conn /\ overtaken' = overtaken
    BY DEF IInv, TypeOK, Configs, WriteInstallSuccess
  <2>3. up /\ Configured(h) /\ Before(h, data[op[h].db]) /\ op[h].pc = "success"
    BY DEF IInv, Down, Progress, WriteInstallSuccess, Locked
  <2>4. ~ disk'.installed \/ overtaken'
    BY <2>2, <2>3 DEF IInv, Installed, Configured, WriteInstallSuccess, Locked, Blank
  <2>5. \A k \in Handlers : op'[k].pc \in Locked => k = h
    BY <2>1 DEF IInv, TypeOK, Holding
  <2> QED
    BY <2>1, <2>2, <2>3, <2>4, <2>5 DEF IInv, TypeOK, Progress, Configured, Before, Locked
<1>4. Populated' /\ Installed'
  <2>1. mem'.db = op[h].db /\ (~ disk'.installed \/ overtaken')
    BY DEF IInv, TypeOK, Configs, Down, Progress, Configured, Installed, WriteInstallSuccess,
           Locked, Blank
  <2>2. op[h].db \in Databases /\ Before(h, data[op[h].db])
    BY DEF IInv, Requests, Progress, WriteInstallSuccess, Locked
  <2>3. data[op[h].db].tables /\ data[op[h].db].seeded /\ data[op[h].db].topics # {}
    BY <2>2 DEF Before, WriteInstallSuccess
  <2> QED
    BY <2>1, <2>2, <2>3
    DEF IInv, Populated, AtMostOne, Installed, Complete1, WriteInstallSuccess, Blank
<1>5. Waiting' /\ CompleteShown'
  BY DEF IInv, TypeOK, Holding, Requests, Down, Progress, Configured, Before, Installed,
         Waiting, CompleteShown, WriteInstallSuccess, Goto, Blank, Configs, process, wizard,
         Locked, Pcs, Steps, Contents
<1>6. OneDatabase'
  BY DEF IInv, TypeOK, Requests, Progress, Before, Installed, Complete1, OneDatabase,
         WriteInstallSuccess, Goto, Blank, Configs, process, wizard, Locked
<1> QED
  BY <1>1, <1>2, <1>3, <1>4, <1>5, <1>6 DEF IInv

LEMMA WriteSuccessFileKeeps ==
  ASSUME IInv, NEW h \in Handlers, WriteSuccessFile(h)
  PROVE  IInv'
<1>1. TypeOK'
  BY DEF IInv, TypeOK, WriteSuccessFile, Answer, Shown, Idle, process, wizard, Contents,
         Configs, Pcs, Locked, Steps, Requests
<1>2. Holding' /\ Requests' /\ Down'
  BY DEF IInv, TypeOK, Holding, Requests, Down, Waiting, WriteSuccessFile, Answer, Shown, Idle,
         process, wizard, Locked, Pcs
<1>3. Progress'
  BY DEF IInv, TypeOK, Holding, Requests, Down, Progress, Populated, Configured, Before,
         WriteSuccessFile, Answer, Shown, Idle, process, wizard, Locked, Pcs, Contents, Configs
<1>4. Populated' /\ Installed'
  BY DEF IInv, TypeOK, Holding, Requests, Down, Progress, Configured, Before, Populated,
         AtMostOne, Installed, Complete1, WriteSuccessFile, Answer, Shown, Idle, process,
         wizard, Locked, Pcs, Contents, Configs, Blank
<1>5. Waiting' /\ CompleteShown'
  <2>1. /\ (~ disk.installed \/ overtaken) /\ mem.db = op[h].db /\ op[h].db \in Databases /\ op[h].by \in Wizards
        /\ data[op[h].db].topics = {op[h].by}
    BY DEF IInv, Requests, Progress, Configured, Before, WriteSuccessFile, Locked
  <2>2. mem = [installed |-> TRUE, db |-> op[h].db]
    <3>1. mem \in Configs /\ mem.installed
      BY DEF IInv, TypeOK, Progress, Configured, WriteSuccessFile, Locked
    <3> QED
      BY <2>1, <3>1 DEF Configs
  <2>3. Waiting'
    BY DEF IInv, TypeOK, Waiting, WriteSuccessFile, Answer, Shown
  <2>4. SUFFICES ASSUME NEW w \in Wizards, step'[w] \in {"done", "complete"}
                PROVE  /\ choice'[w] # None /\ w \in data'[choice'[w]].topics
                       /\ ~ overtaken' => disk' = [installed |-> TRUE, db |-> choice'[w]]
    BY <2>3 DEF CompleteShown
  <2>5. choice' = choice /\ data' = data /\ overtaken' = overtaken /\ disk' = mem
    BY DEF WriteSuccessFile, Answer
  <2>6. CASE fetch[w] = h
    <3>1. op[h].by = w /\ op[h].db = choice[w]
      BY <2>6, InstallAssumption DEF IInv, Waiting
    <3> QED
      BY <2>1, <2>2, <2>5, <3>1, InstallAssumption
  <2>7. CASE fetch[w] # h
    <3>1. step'[w] = step[w]
      BY <2>7 DEF WriteSuccessFile, Answer
    <3>2. disk # [installed |-> TRUE, db |-> choice[w]] \/ overtaken
      BY <2>1
    <3> QED
      BY <2>4, <2>5, <3>1, <3>2 DEF IInv, CompleteShown
  <2> QED
    BY <2>6, <2>7
<1>6. OneDatabase'
  BY DEF IInv, TypeOK, Requests, Progress, Before, Installed, Complete1, OneDatabase,
         WriteSuccessFile, Answer, Shown, Idle, process, wizard, Locked
<1> QED
  BY <1>1, <1>2, <1>3, <1>4, <1>5, <1>6 DEF IInv

LEMMA FailKeeps ==
  ASSUME IInv, NEW h \in Handlers, Fail(h)
  PROVE  IInv'
<1>1. TypeOK'
  BY DEF IInv, TypeOK, Fail, Answer, Shown, Idle, process, wizard, Contents, Configs, Pcs,
         Locked, Steps, Requests
<1>2. Holding' /\ Requests' /\ Down'
  BY DEF IInv, TypeOK, Holding, Requests, Down, Waiting, Fail, Answer, Shown, Idle, process,
         wizard, Locked, Pcs
<1>3. Progress'
  BY DEF IInv, TypeOK, Holding, Requests, Down, Progress, Populated, Configured, Before, Fail,
         Answer, Shown, Idle, process, wizard, Locked, Pcs, Contents, Configs
<1>4. Populated' /\ Installed'
  BY DEF IInv, TypeOK, Holding, Requests, Down, Progress, Configured, Before, Populated,
         AtMostOne, Installed, Complete1, Fail, Answer, Shown, Idle, process, wizard, Locked,
         Pcs, Contents, Configs, Blank
<1>5. Waiting' /\ CompleteShown'
  BY DEF IInv, TypeOK, Holding, Requests, Down, Progress, Configured, Before, Installed,
         Waiting, CompleteShown, Fail, Answer, Shown, Idle, process, wizard, Locked, Pcs, Steps,
         Contents, Configs, Blank
<1>6. OneDatabase'
  BY DEF IInv, TypeOK, Requests, Progress, Before, Installed, Complete1, OneDatabase, Fail,
         Answer, Shown, Idle, process, wizard, Locked
<1> QED
  BY <1>1, <1>2, <1>3, <1>4, <1>5, <1>6 DEF IInv

LEMMA CrashKeeps ==
  ASSUME IInv, Crash
  PROVE  IInv'
<1>1. TypeOK'
  <2>1. mem' \in Configs
    BY DEF Crash, Blank, Configs
  <2>2. op' \in [Handlers -> [pc : Pcs, by : Wizards \cup {None}, db : Databases \cup {None}]]
    BY DEF Crash, Idle, Pcs
  <2>3. crashes' \in 0 .. MaxCrashes
    BY DEF IInv, TypeOK, Crash
  <2> QED
    BY <2>1, <2>2, <2>3 DEF IInv, TypeOK, Crash, Steps
<1>2. Holding' /\ Requests' /\ Down'
  BY DEF IInv, TypeOK, Holding, Requests, Down, Waiting, Crash, Idle, Blank, Configs, process,
         wizard, Locked, Pcs
<1>3. Progress'
  BY DEF IInv, TypeOK, Holding, Requests, Down, Progress, Populated, Configured, Before, Crash,
         Idle, Blank, Configs, process, wizard, Locked, Pcs, Contents
<1>4. Populated' /\ Installed'
  BY DEF IInv, TypeOK, Holding, Requests, Down, Progress, Configured, Before, Populated,
         AtMostOne, Installed, Complete1, Crash, Idle, Blank, Configs, process, wizard, Locked,
         Pcs, Contents
<1>5. Waiting' /\ CompleteShown'
  BY DEF IInv, TypeOK, Holding, Requests, Down, Progress, Configured, Before, Installed,
         Waiting, CompleteShown, Crash, Idle, Blank, Configs, process, wizard, Locked, Pcs,
         Steps, Contents
<1>6. OneDatabase'
  BY DEF IInv, TypeOK, Requests, Progress, Before, Installed, Complete1, OneDatabase, Crash,
         Idle, Blank, Configs, process, wizard, Locked
<1> QED
  BY <1>1, <1>2, <1>3, <1>4, <1>5, <1>6 DEF IInv

LEMMA RestartKeeps ==
  ASSUME IInv, NEW ok \in BOOLEAN, Restart(ok)
  PROVE  IInv'
<1>1. TypeOK'
  <2>1. mem' \in Configs
    BY DEF IInv, TypeOK, Restart
  <2>2. data' \in [Databases -> Contents]
    <3>1. CASE disk.installed
      <4>1. disk.db \in Databases => data[disk.db] \in Contents
        BY DEF IInv, TypeOK
      <4>2. data' = [data EXCEPT ![disk.db] = [data[disk.db] EXCEPT !.tables = TRUE,
                                                                   !.seeded = @ \/ ok]]
        BY <3>1 DEF IInv, TypeOK, Restart, Contents
      <4> QED
        BY <4>1, <4>2, ContentsTyped DEF IInv, TypeOK
    <3>2. CASE ~ disk.installed
      BY <3>2 DEF IInv, TypeOK, Restart
    <3> QED
      BY <3>1, <3>2
  <2>3. conn' \in Databases \cup {None}
    BY DEF IInv, TypeOK, Restart, Configs
  <2> QED
    BY <2>1, <2>2, <2>3 DEF IInv, TypeOK, Restart, wizard
<1>2. Holding' /\ Requests' /\ Down'
  BY DEF IInv, TypeOK, Holding, Requests, Down, Waiting, Restart, Blank, Configs, Contents,
         process, wizard, Locked, Pcs
<1>3. Progress'
  BY DEF IInv, TypeOK, Holding, Requests, Down, Progress, Populated, Configured, Before,
         Restart, Blank, Configs, Contents, process, wizard, Locked, Pcs
<1>4. Populated' /\ Installed'
  <2>1. \A d \in Databases : /\ data'[d].admins = data[d].admins
                             /\ data'[d].topics = data[d].topics
                             /\ data[d].tables => data'[d].tables
                             /\ data[d].seeded => data'[d].seeded
    BY DEF IInv, TypeOK, Restart, Contents
  <2>2. Populated'
    BY <2>1 DEF IInv, Populated, AtMostOne
  <2>3. Complete1(disk)'
    BY <2>1 DEF IInv, Installed, Complete1, Restart
  <2>4. mem' \in {mem, disk}
    BY DEF Restart
  <2>5. Complete1(mem)'
    BY <2>1, <2>3, <2>4 DEF IInv, Installed, Complete1, Restart
  <2> QED
    BY <2>2, <2>3, <2>5 DEF Installed, Restart
<1>5. Waiting' /\ CompleteShown'
  BY DEF IInv, TypeOK, Holding, Requests, Down, Progress, Configured, Before, Installed,
         Waiting, CompleteShown, Restart, Blank, Configs, Contents, process, wizard, Locked,
         Pcs, Steps
<1>6. OneDatabase'
  BY DEF IInv, TypeOK, Requests, Progress, Before, Installed, Complete1, OneDatabase, Restart,
         Blank, Configs, Contents, process, wizard, Locked
<1> QED
  BY <1>1, <1>2, <1>3, <1>4, <1>5, <1>6 DEF IInv

LEMMA InstallInit == Init => IInv
<1> SUFFICES ASSUME Init PROVE IInv
  OBVIOUS
<1>1. TypeOK
  <2>1. Blank \in Configs /\ Empty \in Contents
    BY DEF Blank, Configs, Empty, Contents
  <2>2. Idle \in [pc : Pcs, by : Wizards \cup {None}, db : Databases \cup {None}]
    BY DEF Idle, Pcs
  <2>3. up \in BOOLEAN /\ overtaken \in BOOLEAN
    BY DEF Init
  <2>4. crashes \in 0 .. MaxCrashes
    BY DEF Init
  <2>5. op \in [Handlers -> [pc : Pcs, by : Wizards \cup {None}, db : Databases \cup {None}]]
    BY <2>2 DEF Init
  <2>6. data \in [Databases -> Contents]
    BY <2>1 DEF Init
  <2>7. step \in [Wizards -> Steps]
    BY DEF Init, Steps
  <2>8. /\ choice \in [Wizards -> Databases \cup {None}]
        /\ fetch \in [Wizards -> Handlers \cup {None}]
    BY DEF Init
  <2>9. /\ mem \in Configs /\ disk \in Configs
        /\ conn \in Databases \cup {None} /\ lock \in Handlers \cup {None}
    BY <2>1 DEF Init
  <2> QED
    BY <2>3, <2>4, <2>5, <2>6, <2>7, <2>8, <2>9 DEF TypeOK
<1>2. Holding /\ Requests /\ Down /\ Progress
  BY DEF Init, Holding, Requests, Down, Progress, Idle, Locked
<1>3. Populated /\ Installed /\ Waiting /\ CompleteShown /\ OneDatabase
  BY DEF Init, Populated, AtMostOne, Installed, Complete1, Waiting, CompleteShown, OneDatabase,
         Blank, Empty
<1> QED
  BY <1>1, <1>2, <1>3 DEF IInv

LEMMA InstallNext == IInv /\ [Next]_vars => IInv'
<1> SUFFICES ASSUME IInv, [Next]_vars PROVE IInv'
  OBVIOUS
<1>1. CASE Browse
  BY <1>1, OpenKeeps, GotoStepKeeps, TestDbConnectionKeeps, ConfirmInstallKeeps,
     LoseConnectionKeeps, CompleteKeeps DEF Browse
<1>2. CASE Serve
  BY <1>2, InstallInstallKeeps, LockKeeps, WriteConfigKeeps, WriteConfigFileKeeps, InitDBKeeps,
     AutoMigrateKeeps, MigrateKeeps, InitUserKeeps, InitWelcomeTopicKeeps,
     WriteInstallSuccessKeeps, WriteSuccessFileKeeps, FailKeeps DEF Serve
<1>3. CASE Crash \/ \E ok \in BOOLEAN : Restart(ok)
  BY <1>3, CrashKeeps, RestartKeeps
<1>4. CASE UNCHANGED vars
  BY <1>4 DEF IInv, TypeOK, Holding, Requests, Down, Progress, Configured, Before, Populated,
              AtMostOne, Installed, Complete1, Waiting, CompleteShown, OneDatabase, vars,
              process, wizard
<1> QED
  BY <1>1, <1>2, <1>3, <1>4 DEF Next

\* The invariant holds in every state of every installation (install.go: Install).
THEOREM InstallInvariant == Spec => []IInv
  BY InstallInit, InstallNext, PTL DEF Spec

\* A set whose elements are all the same has at most one.
LEMMA AtMostOneCardinality ==
  ASSUME NEW S, AtMostOne(S)
  PROVE  Cardinality(S) <= 1
<1>1. CASE S = {}
  BY <1>1, FS_EmptySet
<1>2. CASE S # {}
  <2>1. PICK x \in S : S = {x}
    BY <1>2 DEF AtMostOne
  <2> QED
    BY <2>1, FS_Singleton
<1> QED
  BY <1>1, <1>2

\* For any number of browsers, requests, databases and crashes, no database gets
\* two administrators or two welcome topics (install.go: Install, InitData).
THEOREM InstallPopulatedOnce == Spec => []PopulatedOnce
<1>1. IInv => PopulatedOnce
  BY AtMostOneCardinality DEF IInv, Populated, PopulatedOnce
<1> QED
  BY <1>1, InstallInvariant, PTL

\* An installed site is complete in the database it is configured for, unless a
\* request that was late rewrote its configuration (install_handlers.go:65).
THEOREM InstallIsComplete == Spec => []InstalledIsComplete
<1>1. IInv => InstalledIsComplete
  BY InstallAssumption DEF IInv, Installed, Complete1, InstalledIsComplete
<1> QED
  BY <1>1, InstallInvariant, PTL

\* A wizard that shows the completed installation is right, and stays right after
\* a crash (install-wizard.tsx: confirmInstall).
THEOREM InstallCompleteShown == Spec => []CompleteShown
<1>1. IInv => CompleteShown
  BY DEF IInv
<1> QED
  BY <1>1, InstallInvariant, PTL

\* Installed and complete, without exception.
BuiltinIsComplete ==
  (\E d \in Databases : Databases = {d}) =>
    \A c \in {mem, disk} :
      c.installed => c.db \in Databases /\ data[c.db].seeded /\ data[c.db].topics # {}

\* When every request names the same database, as in the Docker images that bring
\* one, nobody is overtaken: an installed site is complete without exception
\* (install.go:207).
THEOREM InstallOneDatabase == Spec => []BuiltinIsComplete
<1>1. IInv => BuiltinIsComplete
  BY DEF IInv, OneDatabase, Installed, Complete1, BuiltinIsComplete
<1> QED
  BY <1>1, InstallInvariant, PTL
================================================================================
