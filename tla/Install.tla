-------------------------------- MODULE Install --------------------------------
(***************************************************************************)
(* Installing the site: the wizard of the web client, the handler that     *)
(* installs, the configuration in memory and in its file, and the          *)
(* databases that are named.  The process may crash between two steps and  *)
(* comes back with what the file says; a response may be lost.             *)
(*                                                                         *)
(* Left out: the search index, the language, the id key, the role and the  *)
(* settings whose errors InitData ignores, the validation of the forms.    *)
(* With a database built into the Docker image, every request names it:    *)
(* Databases has one element.                                              *)
(***************************************************************************)
EXTENDS Integers, FiniteSets

CONSTANTS
  Wizards,     \* browsers; each names its own administrator
  Handlers, Databases,
  MaxCrashes,  \* bound of the model
  None

ASSUME InstallAssumption ==
  /\ None \notin Wizards /\ None \notin Handlers /\ None \notin Databases
  /\ MaxCrashes \in Nat

VARIABLES
  up,          \* the process runs
  mem,         \* config.Instance
  disk,        \* the configuration file
  conn,        \* the database of sqls.DB()
  lock,        \* installMx: the handler that holds it
  op,          \* the request each handler serves
  data,        \* what a database contains
  step,        \* the step each wizard shows
  choice,      \* dbConfig of the wizard
  fetch,       \* the handler whose answer the wizard waits for
  overtaken,   \* history: the configuration of an installed site was rewritten
  crashes

process == <<up, mem, conn, lock>>
wizard  == <<step, choice, fetch>>
vars    == <<process, disk, op, data, wizard, overtaken, crashes>>

\* A missing or empty file reads as a site that is not installed.
Blank == [installed |-> FALSE, db |-> None]
Configs == [installed : BOOLEAN, db : Databases \cup {None}]

\* "tables": it is not empty; "seeded": every migration ran; the users and the
\* welcome topics, by the wizard whose request created them.
Empty == [tables |-> FALSE, seeded |-> FALSE, admins |-> {}, topics |-> {}]
Contents == [tables : BOOLEAN, seeded : BOOLEAN,
             admins : SUBSET Wizards, topics : SUBSET Wizards]

Idle == [pc |-> "idle", by |-> None, db |-> None]
\* Where a request that holds the mutex may be.
Locked == {"config", "config_file", "open", "schema", "seed", "user", "topic",
           "success", "success_file"}
Pcs == {"idle", "check", "wait"} \cup Locked

\* "failed" is step "install" with installFailed; "done" is step "install" with
\* the timer that leads to "complete"; "home" is the redirect to the site.
Steps == {"welcome", "database", "site", "admin", "install", "failed", "done",
          "complete", "home"}

TypeOK ==
  /\ up \in BOOLEAN /\ overtaken \in BOOLEAN /\ crashes \in 0 .. MaxCrashes
  /\ mem \in Configs /\ disk \in Configs
  /\ conn \in Databases \cup {None}
  /\ lock \in Handlers \cup {None}
  /\ op \in [Handlers -> [pc : Pcs, by : Wizards \cup {None},
                          db : Databases \cup {None}]]
  /\ data \in [Databases -> Contents]
  /\ step \in [Wizards -> Steps]
  /\ choice \in [Wizards -> Databases \cup {None}]
  /\ fetch \in [Wizards -> Handlers \cup {None}]

Init ==
  /\ up = TRUE /\ mem = Blank /\ disk = Blank /\ conn = None /\ lock = None
  /\ op = [h \in Handlers |-> Idle]
  /\ data = [d \in Databases |-> Empty]
  /\ step = [w \in Wizards |-> "home"]
  /\ choice = [w \in Wizards |-> None]
  /\ fetch = [w \in Wizards |-> None]
  /\ overtaken = FALSE /\ crashes = 0

-----------------------------------------------------------------------------
(* The wizard                                                              *)

\* The route asks for the status; no answer counts as installed.
Open(w) ==
  /\ step' = [step EXCEPT ![w] = IF up /\ ~ mem.installed THEN "welcome" ELSE "home"]
  /\ choice' = [choice EXCEPT ![w] = None]
  /\ fetch' = [fetch EXCEPT ![w] = None]
  /\ UNCHANGED <<process, disk, op, data, overtaken, crashes>>

\* The buttons that need no answer of the server.
Turns == {<<"welcome", "database">>, <<"database", "welcome">>,
          <<"site", "database">>, <<"site", "admin">>, <<"admin", "site">>}

GotoStep(w, to) ==
  /\ <<step[w], to>> \in Turns
  /\ step' = [step EXCEPT ![w] = to]
  /\ UNCHANGED <<process, disk, op, data, choice, fetch, overtaken, crashes>>

\* Variant for mutation: the test of the database only connects to it.
ReachableDatabase(d) == d \in Databases

EmptyDatabase(d) == ~ data[d].tables

\* From "database" to "site": the server tests the database that was typed in.
TestDbConnection(w, d) ==
  /\ step[w] = "database"
  /\ up /\ ~ mem.installed /\ EmptyDatabase(d)
  /\ step' = [step EXCEPT ![w] = "site"]
  /\ choice' = [choice EXCEPT ![w] = d]
  /\ UNCHANGED <<process, disk, op, data, fetch, overtaken, crashes>>

ConfirmInstall(w, h) ==
  /\ step[w] = "admin" /\ op[h] = Idle
  /\ IF up
     THEN /\ op' = [op EXCEPT ![h] = [pc |-> "check", by |-> w, db |-> choice[w]]]
          /\ fetch' = [fetch EXCEPT ![w] = h]
          /\ step' = [step EXCEPT ![w] = "install"]
     ELSE /\ step' = [step EXCEPT ![w] = "failed"]
          /\ UNCHANGED <<op, fetch>>
  /\ UNCHANGED <<process, disk, data, choice, overtaken, crashes>>

\* The answer never arrives; the handler goes on.
LoseConnection(w) ==
  /\ fetch[w] # None
  /\ step' = [step EXCEPT ![w] = "failed"]
  /\ fetch' = [fetch EXCEPT ![w] = None]
  /\ UNCHANGED <<process, disk, op, data, choice, overtaken, crashes>>

\* The timer of a second after the success.
Complete(w) ==
  /\ step[w] = "done"
  /\ step' = [step EXCEPT ![w] = "complete"]
  /\ UNCHANGED <<process, disk, op, data, choice, fetch, overtaken, crashes>>

\* Variant for mutation: the wizard does not look at data.success.
AnyAnswer(ok) == "done"

Shown(ok) == IF ok THEN "done" ELSE "failed"

\* The handler returns, which releases the mutex, and the wizard that still waits
\* gets the answer.
Answer(h, ok) ==
  /\ op' = [op EXCEPT ![h] = Idle]
  /\ lock' = IF lock = h THEN None ELSE lock
  /\ step' = [w \in Wizards |-> IF fetch[w] = h THEN Shown(ok) ELSE step[w]]
  /\ fetch' = [w \in Wizards |-> IF fetch[w] = h THEN None ELSE fetch[w]]
  /\ UNCHANGED choice

-----------------------------------------------------------------------------
(* The handler                                                             *)

Goto(h, pc) == op' = [op EXCEPT ![h].pc = pc]

\* Before the mutex, and never again: is the site installed?
InstallInstall(h) ==
  /\ op[h].pc = "check"
  /\ IF mem.installed
     THEN Answer(h, FALSE)
     ELSE Goto(h, "wait") /\ UNCHANGED <<lock, wizard>>
  /\ UNCHANGED <<up, mem, conn, disk, data, overtaken, crashes>>

Lock(h) ==
  /\ op[h].pc = "wait" /\ lock = None
  /\ IF EmptyDatabase(op[h].db)
     THEN lock' = h /\ Goto(h, "config") /\ UNCHANGED wizard
     ELSE Answer(h, FALSE)
  /\ UNCHANGED <<up, mem, conn, disk, data, overtaken, crashes>>

\* Variant for mutation: the success is recorded with the database.
ConfigInstalled(c, d) == [c EXCEPT !.db = d, !.installed = TRUE]

ConfigFor(c, d) == [c EXCEPT !.db = d]

\* The configuration in memory first; then the file, which is opened, truncated and
\* written, and at any point that may fail or the process may crash.
WriteConfig(h) ==
  /\ op[h].pc = "config"
  /\ mem' = ConfigFor(mem, op[h].db)
  /\ disk' \in {disk, Blank}
  /\ overtaken' = (overtaken \/ mem.installed)
  /\ Goto(h, "config_file")
  /\ UNCHANGED <<up, conn, lock, data, wizard, crashes>>

WriteConfigFile(h) ==
  /\ op[h].pc = "config_file"
  /\ disk' = mem
  /\ Goto(h, "open")
  /\ UNCHANGED <<process, data, wizard, overtaken, crashes>>

InitDB(h) ==
  /\ op[h].pc = "open"
  /\ conn' = mem.db
  /\ Goto(h, "schema")
  /\ UNCHANGED <<up, mem, lock, disk, data, wizard, overtaken, crashes>>

\* A step of the installation that writes to the connected database.
Store(h, pc, contents, next) ==
  /\ op[h].pc = pc
  /\ data' = [data EXCEPT ![conn] = contents]
  /\ Goto(h, next)
  /\ UNCHANGED <<process, disk, wizard, overtaken, crashes>>

AutoMigrate(h) == Store(h, "schema", [data[conn] EXCEPT !.tables = TRUE], "seed")

Migrate(h) == Store(h, "seed", [data[conn] EXCEPT !.seeded = TRUE], "user")

\* UserService.Create returns no error when the insert fails.
InitUser(h) ==
  \E created \in {{}, {op[h].by}} :
    Store(h, "user", [data[conn] EXCEPT !.admins = @ \cup created], "topic")

InitWelcomeTopic(h) ==
  Store(h, "topic", [data[conn] EXCEPT !.topics = @ \cup {op[h].by}], "success")

WriteInstallSuccess(h) ==
  /\ op[h].pc = "success"
  /\ mem' = [mem EXCEPT !.installed = TRUE]
  /\ disk' \in {disk, Blank}
  /\ Goto(h, "success_file")
  /\ UNCHANGED <<up, conn, lock, data, wizard, overtaken, crashes>>

WriteSuccessFile(h) ==
  /\ op[h].pc = "success_file"
  /\ disk' = mem
  /\ Answer(h, TRUE)
  /\ UNCHANGED <<up, mem, conn, data, overtaken, crashes>>

\* A step fails: Install returns, and what was done so far stays.
Fail(h) ==
  /\ op[h].pc \in Locked
  /\ Answer(h, FALSE)
  /\ UNCHANGED <<up, mem, conn, disk, data, overtaken, crashes>>

-----------------------------------------------------------------------------
(* The process                                                             *)

Crash ==
  /\ up /\ crashes < MaxCrashes
  /\ up' = FALSE /\ mem' = Blank /\ conn' = None /\ lock' = None
  /\ op' = [h \in Handlers |-> Idle]
  /\ step' = [w \in Wizards |-> IF fetch[w] # None THEN "failed" ELSE step[w]]
  /\ fetch' = [w \in Wizards |-> None]
  /\ crashes' = crashes + 1
  /\ UNCHANGED <<disk, data, choice, overtaken>>

\* InitMigrations brings the database of an installed site up to date; when it
\* fails (ok = FALSE) the process stops.
Restart(ok) ==
  /\ ~ up /\ (ok \/ disk.installed)
  /\ up' = ok
  /\ IF disk.installed
     THEN data' = [data EXCEPT ![disk.db].tables = TRUE,
                               ![disk.db].seeded = @ \/ ok]
     ELSE UNCHANGED data
  /\ IF ok
     THEN mem' = disk /\ conn' = (IF disk.installed THEN disk.db ELSE None)
     ELSE UNCHANGED <<mem, conn>>
  /\ UNCHANGED <<lock, disk, op, wizard, overtaken, crashes>>

-----------------------------------------------------------------------------
Browse ==
  \E w \in Wizards :
    \/ Open(w) \/ LoseConnection(w) \/ Complete(w)
    \/ \E to \in Steps : GotoStep(w, to)
    \/ \E d \in Databases : TestDbConnection(w, d)
    \/ \E h \in Handlers : ConfirmInstall(w, h)

Serve ==
  \E h \in Handlers :
    \/ InstallInstall(h) \/ Lock(h) \/ WriteConfig(h) \/ WriteConfigFile(h)
    \/ InitDB(h) \/ AutoMigrate(h) \/ Migrate(h) \/ InitUser(h)
    \/ InitWelcomeTopic(h) \/ WriteInstallSuccess(h) \/ WriteSuccessFile(h) \/ Fail(h)

Next == Browse \/ Serve \/ Crash \/ \E ok \in BOOLEAN : Restart(ok)

Spec == Init /\ [][Next]_vars

-----------------------------------------------------------------------------
\* However requests overlap, fail and are repeated, and wherever the process
\* crashes, no database gets two administrators or two welcome topics
\* (install.go: installMx, TestDbConnection, InitData).
PopulatedOnce ==
  \A d \in Databases :
    Cardinality(data[d].admins) <= 1 /\ Cardinality(data[d].topics) <= 1

\* A site that says it is installed, in memory or in its file, has every migration
\* and its welcome topic in the database it is configured for, unless a request
\* that had passed the check of the handler before it was installed rewrote its
\* configuration (install_handlers.go:65, install.go: Install).
InstalledIsComplete ==
  \A c \in {mem, disk} :
    c.installed /\ ~ overtaken =>
      c.db # None /\ data[c.db].seeded /\ data[c.db].topics # {}

\* A wizard that shows the completed installation has installed the database that
\* was entered in it, and a crash does not undo it: the file says so
\* (install-wizard.tsx: confirmInstall; config.go: WriteConfig).
CompleteShown ==
  \A w \in Wizards :
    step[w] \in {"done", "complete"} =>
      /\ choice[w] # None /\ w \in data[choice[w]].topics
      /\ ~ overtaken => disk = [installed |-> TRUE, db |-> choice[w]]
=============================================================================
