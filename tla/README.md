# bbs-go in TLA+

This directory is the formal model of bbs-go: what the Go backend under
`internal/` keeps in its database, its process memory and its goroutines, what the
pages of the React client under `web/` keep in theirs, and what must stay true when
requests, event workers, caches, navigations, late answers and restarts interleave. TLC checks
every property on a small instance; TLAPS proves all but the liveness properties for every
value of the constants.

Contents: 1 inventory, 2 conventions, 3 the modules, 4 the runs and their
bounds, 5 fairness, 6 proofs, 7 findings, 8 what is left out, 9 the plan.

## 1. Inventory

bbs-go is one Go process (gin handlers, one goroutine per request) in front of
MySQL, PostgreSQL or SQLite (gorm), with a React client. Several processes may
share one database, but caches, mutexes, the event pool and the search index
are per process. `sqls.WithTransaction` runs a function in one transaction and
runs the registered callbacks after the commit.

| Component (source) | State | Operations | Interacts with |
| --- | --- | --- | --- |
| Votes (`services/vote_service.go`) | vote, options with counters, one record per voter | create with the topic, cast | topic publishing |
| Points ledger (`services/user_service.go` addScore) | `t_user.score`, `t_user_score_log` | add, deduct | bounty, attachments, tasks, banning |
| Questions and bounties (`services/topic_service.go`, `topic_publish_service.go`) | topic row: status, accepted comment, qa_status, bounty | publish, accept, unaccept, force status, delete, undelete, audit | ledger, comments, attachments, search, event bus, visible events |
| Paid attachments (`services/attachment_service.go`) | attachment rows, download log, stored objects | upload, bind, replace, price, unlock, read, soft delete | ledger, topics, object store |
| Experience and levels (`user_service.go` addExpTx) | exp, level, exp log | grant | tasks, event bus (level up) |
| Task engine (`services/task_engine_service.go`, `eventhandler/task_event_handler.go`) | per user, task and period: event count and finish count; task log | count an event, finish, reward | event bus, ledger, levels, badges |
| Event bus (`pkg/event/event.go`) | pool of 4 workers, blocked senders | send, run handlers | every service; handlers send again |
| Follows and feed (`services/user_follow_service.go`, `user_feed_service.go`, `eventhandler/*`) | follow rows, follower counters, feed rows, follow cache | follow, unfollow, push, pull | event bus |
| Likes and favourites (`services/user_like_service.go`, `favorite_service.go`) | like rows, like counters | like, unlike, favourite | event bus |
| Comments (`services/comment_service.go`) | comments, comment counters | publish, delete | topics, event bus, messages |
| Messages and notices (`services/message_service.go`, `eventhandler/*`) | messages, e-mail rate cache | send, read | event bus, SMTP |
| Unread topics (`services/topic_read_service.go`, `topic_unread_baseline_service.go`) | visible-event ids, per-role baselines, read marks | publish event, baseline, mark read, status | topics |
| Daily reviews (`services/daily_review_service.go`) | current report per date and kind, revisions | save (optimistic, retried), read | HTTP ingest |
| Calendar page and listing (`web/components/calendar/calendar-workbench.tsx`, `web/app/routes/calendar.tsx`, `web/lib/calendar/index.ts`, `services/calendar_service.go` ListEvents) | query shown, URL, data of the route, list with cursor, open event | choose, follow the URL, load more, refresh, open, close | React Router, calendar API |
| Calendar feed (`services/calendar_service.go` loadFeed, `calendar_client.go`) | feed cache, in-flight fetches, outbound slots | load, evict | upstream HTTP service |
| User tokens and user cache (`services/user_token_service.go`, `cache/*`) | token rows, loading caches | issue, look up, sign out, disable, reset password | sign-in |
| Sign-in, third-party accounts, SMS and e-mail codes (`services/third_user_service.go`, `sms_code_service.go`, `email_code_service.go`) | codes and their status | send, verify, bind | tokens |
| Check-in (`services/check_in_service.go`) | last day, consecutive days | check in, rank | event bus |
| Search index (`pkg/search`, `services/search_reindex_service.go`) | bleve documents, reindex state | update, delete, rebuild | topics |
| Id generator (`pkg/idgen/snowflake.go`) | last millisecond, sequence | next id | nothing: no caller in the repository |
| Roles and permissions (`services/permission_service.go`, `user_role_service.go`, `role_permission_service.go`) | roles, grants | sync, assign, check | admin handlers |
| Configuration (`services/sys_config_service.go`) | key/value rows, cache | get, set | every service |
| Articles, tags, categories, links, dictionaries, badges, reports, forbidden words | rows | create, read, update, delete | search, caches |
| Installation (`web/components/install/install-wizard.tsx`, `handlers/api/install_handlers.go`, `internal/install`, `pkg/config`) | steps of the wizard, configuration in memory and in its file, first data | test the database, install, restart | database |
| Migrations, scheduler, sitemap (`migrations`, `scheduler`, `services/seo_sitemap_service.go`) | schema version, files | migrate, generate | database |
| Document preview, uploaders (`pkg/docpreview`, `pkg/uploader`) | files, objects | validate, convert, put, delete | attachments |
| HTTP handlers, rendering, middleware (`internal/handlers`, `internal/middleware`, `internal/server`) | none | decode, check, call a service, encode | services |
| Web client, the rest (`web/`): comment tree (`components/comment`), "load more" lists, the notice of new topics, composer drafts, topic form with its attachment field, editors, dashboard | state of each component, local storage | fetch, append, poll, save a draft, submit | HTTP API |

What is hard in it, and what each part must get right:

* **Read outside, write inside.** Almost every service reads a row without a
  transaction, decides, then writes in a transaction that does not look again
  (publish with a bounty, accept, delete, follow, like, reset password). Only
  votes and attachment unlocking take row locks. Properties: counters and
  ledgers equal the rows they summarise; a charge happens once; what was
  decided is still true when it is written, or the consequences are bounded.
* **Money.** Points are debited by bounties and unlocks, credited by accepted
  answers, refunds and tasks. Properties: every change of a balance has its log
  row, an unlock charges once and never overdraws, a bounty is not paid twice.
* **Events.** Services send events after commit to a pool of four workers;
  handlers send again, in any order. Properties: the pool never waits on
  itself, feeds converge whatever the order, rewards are granted once.
* **Caches.** Loading caches are filled by one goroutine while another changes
  the row and invalidates. Properties: a revoked token is not honoured again.
* **Partial work.** The installation is a row of steps over a file, the memory of
  the process and a database, and any step may fail or be the last before a crash.
  Properties: no database is filled twice, and what says it is installed is complete.
* **Late answers.** A page of the client has several requests in the air while its user
  goes on. Properties: a list is never a mixture of two listings, details are those
  of the event that is open, and URL, query and data meet again.
* **Optimistic retries.** Daily reviews are saved by compare-and-set on a hash,
  retried up to five times. Properties: each replaced version is archived
  once, a successful save was current at some moment.

## 2. Conventions

* A request handler or a goroutine is a process. It is cut into one action per
  stretch that no other process can slip into: a read outside a transaction, a
  statement that takes a row lock, a check whose result is used later, the
  commit. The parameter that carries the program counter and the values the
  handler remembers is called `cast`, `op`, `req`, `tx`, `request` or `job`.
* Reads see committed rows. An `UPDATE` or a `SELECT ... FOR UPDATE` waits
  while another transaction holds the row, then sees the committed row again. A
  transaction that only writes rows it has locked shows its effect in its last
  action. SQLite has one writer: its schedules are those of the
  models in which transactions do not overlap.
* Any statement may fail. If the code looks at the error, the transaction is rolled back
  and `Abort`, `Fail` or `DatabaseError` leaves nothing of it. If the code drops the error, what
  follows depends on the database and is an outcome of its own in the model: on MySQL a wait
  that is too long undoes that statement only, a deadlock undoes the whole transaction,
  and in both cases the code goes on, after a deadlock with statements that commit
  one by one; on PostgreSQL every later statement fails as well; a lost connection fails
  whatever comes after it. A plain read waits for nobody, so inside a transaction it fails only with
  the connection. `Vote`, `UserFollow`, `TaskEngine` and `UserFeed` have the dropped errors of
  their code. The one left out is `topic_publish_service.go:121`, which updates a row that the
  transaction wrote in the statement before.
* A record's creation time and other columns no property reads are left out.
* Each table column a property depends on is a variable, indexed by its key.
  Titles, markdown, notices, messages, e-mail and logging are left out.
* In the client one event (a handler, a navigation that commits, a response) is one
  action, and so are the effects of one render; refs and state are variables, and
  an abort is a mark on the request whose answer still comes.
* A variable marked "history" or "for the properties" is no code state; it
  remembers what a property needs and no guard reads it.
* Bounds are constants called `Max...` and stand in the guards of requests, not
  of the steps that serve them, so that what was begun can always end.
* A definition under the comment "Variant for mutation" is not used by any
  specification. It is one plausible bug in the definition it stands next to;
  PROJECT.json names for every property a variant that makes it fail.
* `PROJECT.json`, key `map`, names the source lines of every definition.

## 3. The modules

| Module | Models | State | Composed with |
| --- | --- | --- | --- |
| `Vote` | casting on the vote of a topic | vote row, records, two kinds of counters, the row lock | implements `BallotBox` |
| `BallotBox` | what casting promises | the open vote, the ballots, the result shown, what is asked | abstract |
| `AttachmentAccess` | upload, price, binding, unlock, deletion | balances, download log, attachment and topic rows, three kinds of row lock | ledger (`Credit`, `BountyDebit` are every other movement of points) |
| `QaBounty` | questions, answers, bounties, refunds, status, bans | balances, topic and comment rows, numbers of ledger rows and visible events | ledger |
| `DailyReview` | ingest of one section, with script, network, instances | current row, revisions, mutexes, requests, publishers | implements `DailyReviewHistory` |
| `DailyReviewHistory` | what the documents promise of the ingest | current version, revisions, one outcome per request | abstract |
| `UserFollow` | following and unfollowing | follow rows, two counters, row locks | - |
| `TaskEngine` | task progress, rewards, experience, levels, badges of one user | progress rows, log rows, experience, level, badges | run by the workers of `UserFeed` |
| `Install` | wizard, handler, configuration, databases, crash and restart | steps and requests of the browsers, stage of each request, memory and file, contents of the databases | - |
| `CalendarPage` | the calendar page, the router below it, the listing behind it | URL, load in progress, data of the route, query, refs, list and cursor, requests with their aborts, effects to run | React Router and the feed are the environment |
| `UserFeed` | the event bus, its workers, and the feed they fill | topic status, follow rows, feed rows, callers, workers | composes the bus with topics, follows, the feed and, as one step, the task engine |

**Vote.** `CreateWithOptionsTx` inserts the vote; `Submit`, `LockVote`,
`CheckVote` or `RejectVote`, and `WriteVote` are the stages of `Cast`
(`vote_service.go:166-272`). Reading the earlier record and inserting the new
one are separate steps; only the row lock joins them. The unique index is
deliberately not a guard: `OneBallotPerUser` says it is never needed. `CastIsAtomic` says
that all this implements `BallotBox`, which has no lock and no counters: a request is
admitted while the vote is open (`CheckVote`), and later takes effect at one instant
(`WriteVote`), its ballot together with every number shown, or is refused by a check for a reason that
holds at that instant. Only closing may come in between, as `ExpiredAt` is compared once.
`DatabaseError` may end a cast at every statement: line 195 answers any failure of the
locking read with "vote not found", whatever the vote, and lines 202 to 256 return the error or report
"option not found". Such an answer (`told = "failed"`) says nothing of the vote; `BallotBox.GiveUp`
allows it at any time, but not a trace of the ballot. The commit may also succeed and its answer be lost:
then the ballot counts and its user is told of an error.

**AttachmentAccess.** `Access*` are the stages of `Access`: a check without a
transaction, the lock of the user row, the lock of the attachment row, the
second check of access, visibility and balance, and the charge. The other
actions are what may run next to it: publishing and editing topics with their
bindings, price changes, deletion, audit, and every debit or credit of the same
balance. A publication's check of a bounty balance happens outside its
transaction, so a balance may become negative in general: what is stated (and
true) is that an *unlock* never takes what is not there.

**QaBounty.** `PublishCheck`/`PublishCommit`, `AcceptRead`/`AcceptMark`/
`AcceptCommit`, `DeleteRead`/`DeleteRefund`/`DeleteCommit` and the read/write
pairs of unaccepting and forcing the state show how each service call reads the
topic once, outside its transaction, and trusts that copy. `CheckParams` keeps a
peculiarity of the code: with bounties disabled the check clears the bounty in
its own copy of the form only, and the publication goes on, unchecked.
`debits`, `rewards` and `refunds` count rows of `t_user_score_log`, `events` rows of
`t_topic_visible_event`.

**DailyReview.** `Push`, `Timeout`, `Resend` and `GiveUp` are
`scripts/push_daily_review.py`; `Enter` takes the mutex of one instance;
`Unchanged`, `Read`, `Create`, `Update`, `Conflict` and `Exhaust` are the loop of
`Save` and its transaction; `Lose` is the network and `Crash` the end of a
process or an error of the database, which rolls the same things back and is tried again as well. A resend may overtake, or be overtaken by, the request it repeats.
The refinement mapping keeps `report` and `revisions` and maps the state of a
request to *none*, *pending* or its result: a save takes effect in one instant.

**UserFollow.** The check "already following" is made before the transaction.
The transaction's statements are steps: update the reverse row, add one to each of
two counters, insert the row. Row locks, and the key lock of an insert, are
held until the commit. `Fail` is a statement whose error is returned, by a wait, a deadlock or
a duplicate. The errors of three statements are dropped: `WaitTooLong` reads the failed update of
line 88, or the failed deletion of line 137, as "no rows"; `LoseUpdate` leaves the reverse row as it is
while the deletion commits; `LoseTransaction` is the deadlock at line 139, after which the deletion is
undone and the two decrements, `LostUser` and `LostOther`, are commits of their own. (At 88 and 137 the
transaction holds nothing yet and can close no cycle.) `leftBoth` remembers the rows whose reset was lost.

**TaskEngine.** One user, any number of workers. A step reads the progress row
(`Take`), creates it if it is missing, writes the *whole* stale row back (`Save`, gorm's full
update), inserts the log row under its unique index, and grants points,
experience, level and badge. `MySQL` selects the texts `isDuplicateKeyError`
recognises and what is left of a transaction after an error. `Waits` says which writes wait for
which: rows of progress, keys of the log, the row of the user, the badge. `grantReward` drops the
error of `addScore`: `Score` may therefore write nothing and go on, and `ScoreDeadlock` is the worker that is
the victim of a cycle at its points. Its progress and log row are undone with everything else,
and the event goes on with `auto` set, where each statement is a commit (`Become`). `AutoAddExp` to
`AutoSetLevel` are `addExpTx` in that state, in which anything may happen between two of its statements.
`loose` remembers the tasks such an event may still write; the deadlocks considered are cycles over
the rows and keys above, not those of gap locks.

**UserFeed.** `Publish`, `DeleteTopic`, `Show`, `Follow`, `UnFollow*` commit and
then send. `Hand`, `Block` and `Overload` are `ants.PoolWithFunc`: an idle worker
takes the event, the sender blocks, or the send fails and the error is logged.
Handlers scan page by page (`ReadPage`, any page size) in the order of ids and insert row
by row. Ids are given before the commit, so a smaller id may appear behind the
cursor. Workers send too (`DoTask`), which is how all of them may block.
Nothing in this part is tried again, and no error reaches anybody: `InsertFails` goes on with
the next row (`follow_handler.go:24` drops the error, `topic_create_handler.go:26` logs it), `ReadFails` takes
the empty page of a failed read for the end of the scan, `ClearFails` leaves the rows of an unfollowed
author or a deleted topic, `DeletionFails` keeps the follow row and sends the event, `Unsent` is a commit
whose answer was lost, and `Restart` forgets every event that is being sent or
handled. `missed` and `dropped` remember the rows and events that were lost.

**Install.** `Open`, `GotoStep`, `TestDbConnection`, `ConfirmInstall`, `Shown` and
`Complete` are the wizard. `InstallInstall` is the handler, which asks "is it
installed?" before the mutex and never again; `Lock` takes the mutex and tests the
database; then each step of `install.Install` is an action, and `Fail` may end the request at
each of them. Writing the file is two actions: `os.WriteFile` may fail, truncates it
first. `Crash` forgets memory, connection and requests; `Restart` reads the file.
`overtaken` remembers that a request that was late rewrote the configuration of a site
that was installed.

**CalendarPage.** `UrlEffect`, `DataEffect` and `KeyEffect` are the three effects of
`CalendarWorkbench`; `Effects` runs those whose dependencies changed, with the values of the
render they belong to, and names the ones to run after the next. `LoadOf`, `Commit`
and `Revalidated` are what React Router does: a navigation replaces the one in
progress, and a revalidation starts it again. On the server a cursor is an offset with the
fingerprint of its listing. A query is a date and a kind; importance and
keyword are further filters of the same form.

## 4. The runs and their bounds

| Run | Instance | What it shows |
| --- | --- | --- |
| `vote` | 2 voters, 2 handlers, a vote with 2 options, 1 option of another vote, requests of up to 2 ids, clock 0..2 | `CountsMatchRecords`, `OneBallotPerUser`, `BallotsLegal`, `CastIsAtomic` (refinement), `EveryCastAnswered` |
| `attachment_access` | author and reader, 1 attachment, 1 topic, 2 handlers, scores to 2 | `ChargedOncePerDownload`, `UnlockCoveredAtCurrentPrice`, `PaidAttachmentIsVisible` |
| `qa_bounty` | 2 users, 1 topic, 1 comment, 2 handlers, bounties on and off, score 1, 2 rows of each kind | `LedgerBalanced`, `BountyDebitedOnce`, `AcceptedIsSolved`, `AcceptedAnswerPaid`, `OneEventPerAppearance`, `RefundWithDeletion` |
| `qa_refund_race` | as above, bounties on, 1 row of each kind | violated: `RefundOnlyUnaccepted` |
| `daily_review` | 2 publishers, 2 instances, 2 requests, 2 contents, 2 attempts, 2 tries, 1 revision | `KeepsHistory` (refinement), `NoRepeatedVersion`, `FailsOnlyUnderContention`, `RequestsEnd` |
| `user_follow` | 2 users, 3 handlers | `CountsNeverExceed`, `BothIsMutual` |
| `follow_mutual` | 2 users, 2 handlers | violated: `MutualIsBoth` |
| `task_engine` | 3 workers, 2 tasks (one daily; one lifetime, with points), 2 days, 4 events, MySQL | `FinishesEarned`, `FinishesNumbered`, `RewardedOnce`, `LevelMatchesExp` |
| `task_postgres` | 2 workers, 1 day, PostgreSQL | violated: `DuplicateLogSkipped` |
| `user_feed` | 2 callers, 2 workers, 1 follower, 1 author, 2 topics, 2 blocking senders, 3 requests, 2 level-ups, 1 failure | `FeedComplete`, `SendersGoOn` |
| `install` | 2 browsers, 2 handlers, 2 databases, 1 crash | `PopulatedOnce`, `InstalledIsComplete`, `CompleteShown` |
| `calendar_page` | 2 dates, 2 kinds, 2 versions of each feed, pages of 1 event, 3 actions of the user | `OneListing`, `DetailIsSelected`, `SettledShowsChoice`, `Settles` |

The types of `Vote` and `Install` are only proved; for every other module one of its passing
runs also checks `TypeOK` (`PageTypeOK` for the page).

Why the bounds are enough to meet the interesting cases:

* Two requests in flight are the least that interleave; the races of these
  modules are between pairs of transactions on one row. `task_engine` has three
  workers because its overwritten row needs a third event to be felt. `user_follow` has three requests
  of two users, since a row that is left "both" is met by the Follow and the UnFollow that come
  after the lost statement.
* `MaxIds` 2 contains a repeated id and, as `OwnIds` has two of the three options, a foreign id. `MaxTime` 2 lets a vote be
  cast on before its last instant, at it, and after it.
* `MaxScore` bounds the amounts offered and the credits, not the balance, which
  may go below zero. `MaxRows` 2 allows two deletions with refund, two
  acceptances and two appearances of one topic.
* `MaxAttempts` is 5 in the code, 2 here: one conflict is retried and the next
  one exhausts. `MaxRevisions` only stops new pushes, and a run with one
  publication after the first version contains every collision of two requests.
* `MaxBlocking` is 1000 in the code, and the pool has 4 workers: here 2 and 2, so
  that two blocked workers fill the pool, and a refused event is reachable as well. Two level-ups are the least
  that make every worker wait in `Send`.
* Three requests of `user_feed` are two topics and a follow, so that one handler scans two rows while
  another inserts one of them or a failure skips one. A handler with several followers to insert for, and ids of
  follow rows that commit out of order, are left to `FeedCompleteHolds`, which is proved for any number of them.
* `MaxEvents`, `MaxFollows`, `MaxRequests` and `MaxLevelUps` end the runs. `MaxFailures` 1 is one
  failed statement, lost answer or restart at any point: what a second one loses is excepted in the
  same way, and its effect on other rows and events is that of the first.
  Three actions are the least that meet a choice during a navigation that is then undone
  by a link, and a list that goes to another query and back while its next page is under way.
* Two databases, because a request that is late does harm only if it names another one; one
  crash, because what a second one meets is a state the first one leaves as well.
  The runs that end say `CHECK_DEADLOCK FALSE` for that reason only: the
  publishers, workers, callers and users have no more to do.
* Symmetry is used only where no liveness property is checked.

## 5. Fairness

* **Vote.** Weak fairness of a handler's own steps (a goroutine that can run
  does); strong fairness of taking the row lock, since InnoDB and PostgreSQL
  queue those who wait. No fairness of the voters, and none of database errors: no cast is
  answered only because one is due.
* **DailyReview.** Weak fairness of each step in the server, strong fairness of
  entering the mutex (Go's mutex hands over to a waiter that starves).
  Publishers, the network and crashes owe nothing, so "ends" includes "lost".
* **UserFeed.** Weak fairness of callers, workers and the bus, none of failures and restarts. `SendersGoOn`
  therefore excepts one state, in which every worker is itself waiting in
  `Send`. That state is reachable: handlers send on the pool that runs them.
  The pool never leaves it by itself; the senders wait until the process
  is restarted. The exception is in the property and not in the model.

* **CalendarPage.** Weak fairness of "something that is due happens": React runs its
  effects, the router commits, and each request is answered or fails. Nothing says
  which of them comes first. The user and the feed owe nothing. React is assumed
  to finish a render with its effects before the next event of the user or of the
  router, as it does for discrete events; responses may come in between.
  `Settles` excepts one case, described in section 7.

The other modules have safety properties only.

## 6. Proofs

The theorems hold for every value of the constants that satisfies the named
assumption of the module. The assumptions say that sets used with Cardinality are
finite, that numbers are natural and that `None` is none of the other values;
`UserFeedAssumption` also that callers and workers are different goroutines,
`CalendarAssumption` that a listing holds events of its own date, which is the filter of
`ListEvents`, and none twice, which no code of the repository enforces and the provider of the feed
is trusted with (a page that met an event twice would show it twice), and
`TaskEngineAssumption` that no level but the first is free, as
`validateLevelConfigItems` demands (`level_config_service.go:126-146`).

| Module | Theorems | The inductive invariant and why it is needed |
| --- | --- | --- |
| `VoteAndCalendarProofs`, first part | `VoteTypes_Invariant`, `VoteCounts`, `VoteBallots`, `VoteLegal`, `VoteAtomic` | `CheckStillTrue`: what `CheckVote` found is still true when `WriteVote` runs, because (`LockHeld`) the handler between them holds the row lock. `VoteAtomic` is the refinement: each step of `Vote`, database errors included, is a step of `BallotBox` or, taking the lock, a stutter |
| `VoteAndCalendarProofs`, second part | `CalendarTypes`, `CalendarOneListing`, `CalendarDetail`, `CalendarSettled` | `ListInv`: list, page and answers are beginnings of one listing, which their cursor names. `MoreInv`: of the requests for a next page at most one is not aborted, and it carries the present cursor. `SheetInv`: a request for details that is not aborted is for the selected event, and the effect that closes the sheet is due as soon as the query moves on. `SearchInv`: whichever of URL, data and query lags, the effect or navigation that brings it up to date is due |
| `AttachmentAccessProofs` | `AccessTypes`, `AccessIdempotent`, `AccessTakesCurrentPrice`, `AccessPaysForVisible` | `OpInv`: what each stage of a request knows - which rows it holds, and that an approved unlock is still not charged, still affordable at the current price and still for a readable attachment |
| `QaBountyProofs` | `QaTypes`, `QaDebits`, `QaSolved`, `QaPaid`, `QaEvents`, `QaRefunds`, `QaLedger`, `QaRefundAlone` | `RowsOf`, `OpOf`: a topic that does not exist has no ledger rows; only one publication creates it; a marked acceptance holds the topic row; a comment keeps its author for ever. `QaLedger` adds `NoRows` (no row before the topic) and `RefundOf` (a deletion refunds the bounty of the topic or nothing), and counts points as elements of sets, to which a row adds a block of as many new ones. `QaRefundAlone`: one request at a time |
| `DailyReviewProofs` | `DailyTypes`, `DailyKeepsHistory`, `DailyNoRepeat`, `DailyContention`, `DailySingleInstance` | `WriteDiffers`: who is about to write carries another content than it read; `ConflictPaidFor`: each failed attempt was paid for by a version written since; `NothingReplaced`. `DailyKeepsHistory` is the refinement: each step is a step of `DailyReviewHistory` or a stutter. `DailySingleInstance` adds `Alone`: with one process the row read is the row written over, so no save fails |
| `TaskEngineProofs` | `TaskTypes`, `TaskFinishesEarned`, `TaskFinishesNumbered`, `TaskRewardedOnce`, `TaskLevel` | `StoredInv` (rows and logs agree), `TxInv` (what an open transaction may still write, given its stale copies), `LogsApart` (two transactions never hold the same log row, by the unique index), `Lost` (an event that goes on after a deadlock holds nothing that is not committed, and every row it may still write is `loose`). `TaskRewardedOnce` says so for every row that is not loose, so the dropped error of the points costs no other task its log, and `TaskFinishesEarned` for loose rows too. `TaskLevel` adds `LevelInv`: a level read before the wait is not above the present one, experience never lowers a level, so a level that looks unchanged is unchanged, until an event loses its transaction. `TaskAlone`: a single worker, which can close no cycle |
| `UserFollowProofs` | `FollowTypes`, `FollowCounts`, `FollowMutual`, `FollowAlone` | `Held`, `Known`: a locked row exists, and a transaction holds the rows it found until it ends, so the row it deletes is still there and the reverse row is not made mutual behind its back; a transaction that lost its reset (`LoseUpdate`) knows that the other row is the only one its commit leaves "both", which `leftBoth` then names; the counters are compared with cardinalities of sets of rows, which change one row at a time. `FollowAlone`: one request at a time |
| `UserFeedProofs` | `FeedTypes`, `FeedCompleteHolds` | `DueInv`: every row that is due is in the feed, or somebody will still insert it: a sender that has the event, or a worker whose cursor or page has the row ahead of it. A row is due unless its event was lost (`dropped`) or its own insert or read was (`missed`), so every failing step is shown to lose no other row. `EndsInv`: an event that clears rows is about a pair that was unfollowed or a topic that was hidden, so it clears no row that is due |
| `InstallProofs` | `InstallPopulatedOnce`, `InstallIsComplete`, `InstallCompleteShown`, `InstallOneDatabase` | `Holding`: past the test of the database there is only the holder of the mutex; `Progress`: what each stage has left in memory, in the file and in the database; `Populated`: whoever has written to a database was the first, because it was empty; `Installed`: memory and file claim nothing that is not there |

`FeedCompleteHolds` is the one with the least obvious argument: follow and create handlers each
read the table the other request wrote. Whichever request committed last, its event
is handled after both commits, so that handler sees both rows; rows that commit
behind a moving cursor are exactly those whose own event is still to come.

Four theorems say where the disagreements of section 7 come from. With one process a save
never fails, database errors aside (`DailySingleInstance`); with one request at a time follow counters equal the rows
and who follows each other is told so (`FollowAlone`), and a refund is paid only if no answer is
accepted (`QaRefundAlone`); with one worker no event is lost to a duplicate key, and the log has
exactly the finishes of the progress row (`TaskAlone`). Their hypothesis is that there is one
handler, which a lightly used site approximates and no lock in the code guarantees; what the
three runs of section 7 find therefore needs two that overlap.

Only model-checked: the liveness properties (`EveryCastAnswered`, `RequestsEnd`,
`SendersGoOn`, `Settles`), which need fairness and ENABLED and are out of the prover's
reach. Every other property of a passing run is stated by a theorem.

## 7. Findings

Three runs are expected to find a counterexample; each quotes what a document, a
comment or a test of the repository says.

1. `qa_refund_race`: a deletion that read the topic before an acceptance committed refunds the
   bounty that the acceptance paid (`topic_service.go:133`).
2. `follow_mutual`: two users who follow each other at once both end with the one-sided
   status (`user_follow_service.go:88`).
3. `task_postgres`: `isDuplicateKeyError` does not know PostgreSQL's text, so that
   an event that meets an existing log row is lost (`task_engine_service.go:66`).

Behaviours the models contain and no property rules out:

* **After a deadlock at the points.** `grantReward` drops the error of `addScore` (`task_engine_service.go:197`).
  One worker has paid the experience of one task, another has logged a second task and waits for the row of the
  user at its points; when the first reaches the row of the second task, the wait is a cycle, and MySQL
  undoes the transaction of the second with its log row. The second goes on
  and pays the experience without a log; the first logs the same finish and pays it again, although
  the comment at `task_engine_service.go:179` says that the log avoids it. What `RewardedOnce`, `FinishesNumbered` and `LevelMatchesExp`
  except is this: the event that lost its transaction writes on, statement by statement, and only
  the rows of its remaining tasks (`loose`) may be paid without a log or have a gap; the level, which is one
  for all tasks, may be wrong from then on.
* **Follows.** An UPDATE that waits too long at `user_follow_service.go:139` drops its error: the deletion
  commits and the other row stays "both" alone. `BothIsMutual` excepts that row (`leftBoth`) until it is reset,
  deleted or mutual again. A deadlock there keeps both rows and lowers the counters.
* **Votes.** "Vote not found" may be the answer of an open vote (`vote_service.go:195`), and a cast that
  was told of an error may have counted.
* **Feed.** A topic stays missing for good where the insert of its row or the read of its page failed, where
  the bus refused one of its two events (`event.go:38`), or where an event was lost with a restart or an unanswered
  commit: nothing fills a feed again. `FeedComplete` excepts these rows and no others. A failed clearing
  leaves the rows of whoever was unfollowed.
* **Attachments.** An edit and a publication of one author may both find an attachment
  unbound and both bind it; the later one moves it out of the other topic
  (`attachment_service.go:593`), although `docs/script-api.md:882` asks that it not be bound
  to another topic.
* **Daily reviews.** A push that timed out may be served after a later one was
  acknowledged and makes the old content current again
  (`daily_review_service.go:190`); `docs/script-api.md:1059-1060` calls the replay safe.
* **Calendar page.** The case `Settles` and `SettledShowsChoice` except: the user chooses B, chooses
  C while B is loading, and then follows a link (or goes back) to the page being left. The
  second choice resets `requestedNavigationObservedRef`, and as `navigation.state` stays
  "loading" the effect does not run again to set it. When the load of the old URL
  ends, the effect sees neither a changed URL nor an ended request: the page
  shows C, the URL and the data are of the old query, and it goes on loading until
  the next choice. The rewriting of a bare URL counts as the first load. TLC finds a
  counterexample as soon as the exception is taken out of the two properties.
* **Installation.** A request that passed the check of the handler before another one
  finished gets the mutex afterwards; if it names another, empty database, it
  points the installed site at that database (`install_handlers.go:65`;
  `InstalledIsComplete` and `CompleteShown` except it, `InstallOneDatabase` shows that it cannot happen
  with the database of a Docker image). An installation that fails after its first
  table is refused on the same database for good, as that is no longer empty. A lost
  answer shows a failure although the site is installed. `userService.Create`
  returns no error when its insert fails (`user_service.go:74`), so the wizard may show
  "complete" for a site without an administrator: `CompleteShown` promises the
  welcome topic and not the user.

Further: an owner who deletes
a question again, or after its restoration, refunds it again; two publications
of one user may together overdraw the balance each of them checked; two
overlapping `UnFollow` of one pair decrement the counters twice
(`CountsNeverExceed` is an upper bound for this reason); with all four workers in
`Send` the bus stands still.

## 8. What is left out

The properties of section 4 are about the handlers that are modelled. The
following code changes the same state and is **not** in the models:

* The administrators' user form (`handlers/admin/user_handlers.go:149-168`)
  reads a user, changes the profile and saves the full row
  (`user_service.go:83-84`). If it races with anything that changes score,
  experience, level or the follow counters, it writes their old values back:
  `LedgerBalanced`, `LevelMatchesExp` and `CountsNeverExceed` do not survive it.
* `user_service.go:640` reads, changes and writes a user's comment counter.

Seen while modelling, outside the properties: rows of an author no longer followed
may stay in a feed when `UnFollow` overtakes `Follow`, and rows of a topic deleted
during its create handler; `Audit` and `Undelete` send no event, so whoever followed
in the meantime misses the topic; inserting for followers does not look at the topic's
status. A revision of a daily review records the update time it read, which may be
that of an earlier life of the same content (`daily_review_service.go:253`).
Favourites have no unique index (`favorite_service.go:100-103`). Verifying
an SMS code does not look at its expiry (`sms_code_service.go:112`), and a password
reset checks outside its transaction whether its code is used. Nothing calls the
snowflake generator.

Two more, of parts that have models: deleting a question locks user then topic, and accepting
locks topic then user (`topic_service.go:134`), so that four transactions on two questions may
wait in a circle, which the database breaks (`Abort`); an accepted comment may have been
deleted between the read and the acceptance (`topic_service.go:653`). The cache of
users is invalidated inside the transaction of a follow (`user_follow_service.go:100`), so
a load before the commit keeps the old counters. Two unlikes may both succeed and
decrement twice (`user_like_service.go:270`). Text typed in the calendar's search box loses
a trailing space when the delayed query comes back (`calendar-toolbar.tsx`).

The client is 54,000 lines of TypeScript, most of it forms, tables, editors, styling and
the texts of two languages, which have no state beyond one component and nothing a model checker
would add to. Modelled are the two parts with a protocol of their own. The
share of its lines in the models is therefore small, and stays so.

Repositories, HTTP handlers and table indexes are modelled through the services
that use them. Not modelled, with the reason in PROJECT.json: likes, favourites,
comment counters, tokens and caches, sign-in and codes, unread topics, the feed of
the calendar, the search index (all planned, below), and what is plain storage, I/O or user
interface: articles, permissions, third-party accounts, sitemap, configuration,
middleware, migrations, document preview, uploaders, the review of
attachments, and the rest of the web client.

## 9. Plan

In this order, the part that matters most first. The modules above
(`Vote` with `BallotBox`, `AttachmentAccess`, `QaBounty`, `DailyReview`, `UserFollow`, `TaskEngine`,
`UserFeed`, `Install`, `CalendarPage`) are done.

1. The full-row save of a user as an action of `QaBounty`, `TaskEngine` and
   `UserFollow`, with the properties restated as what is true next to it.
2. Abstract specifications of the two modules that move points: an unlock as one sale at
   the price of its instant (`AttachmentAccess`), the feed as a set that two events per pair
   fill and clear (`UserFeed`), each with its refinement proved as for `Vote` and `DailyReview`.
3. `UserTokens`: token rows, the two loading caches, sign-out, disabling and
   password reset; a revoked token is not honoured longer than the cache's
   lifetime (safety, and liveness of its end).
4. `UserLike` and `Favorites`: rows against counters, with an abstract set of
   likes that both implement; likely to share a run with `UserFollow`.
5. `TopicUnread`: visible events, baselines and read marks, with ids that are
   given before the commit.
6. `CalendarFeed`: shared fetches and outbound slots below `CalendarPage`, which it
   should implement: each fetch that is waited for ends, and no slot is lost.
7. `SearchIndex`: a rebuild next to deletions; a deleted topic does not return.
8. `CommentList`: the comment tree of the client, whose pages, new comments and
   deletions arrive next to each other, and the notice of new topics, which polls while
   the list is being reloaded.
