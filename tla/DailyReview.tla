------------------------------ MODULE DailyReview ------------------------------
(***************************************************************************)
(* Ingestion of one section (a date and a kind) of a daily review.         *)
(* Publishers run scripts/push_daily_review.py, one push after the other;  *)
(* a push that times out or meets a server error is sent again, while the  *)
(* request it gave up may still be on its way or being served.  Every      *)
(* instance of the server serves one request at a time under its mutex;    *)
(* instances share the database, where a version is replaced only if it is *)
(* still the one that was read.                                            *)
(*                                                                         *)
(* A transaction reads the committed row, then writes and commits; what it *)
(* writes is visible at once, so that the conditional write and the commit *)
(* are one step.  Contents stand for their hashes.                         *)
(***************************************************************************)
EXTENDS Integers, Sequences

CONSTANTS
  Publishers,    \* machines running the script
  Instances,     \* processes of the server
  Requests,      \* HTTP requests; bounds how many exist at once
  Contents,      \* Markdown documents
  MaxAttempts,   \* maxDailyReviewSaveAttempts
  MaxTries,      \* DEFAULT_MAX_ATTEMPTS of the script
  MaxRevisions,  \* bound: no new push once so many versions were replaced
  None

ASSUME DailyReviewAssumption ==
  /\ MaxAttempts \in Nat \ {0} /\ MaxTries \in Nat \ {0}
  /\ None \notin Contents /\ None \notin Requests

VARIABLES
  report,      \* t_daily_review_report: the current content
  revisions,   \* t_daily_review_report_revision: the contents replaced
  mutex,       \* dailyReviewSaveMu of each instance: the request holding it
  req,         \* the requests in the network and in the servers
  pub          \* the script of each publisher

vars == <<report, revisions, mutex, req, pub>>

Results == {"created", "updated", "unchanged", "failed"}

\* "seen" is the row read, "since" (for the properties) the number of
\* versions written before the request was sent.
NoRequest == [pc |-> "none", content |-> None, seen |-> None, attempt |-> 0,
              since |-> 0, result |-> "failed"]

Request == [pc : {"none", "sent", "read", "write", "done"}, content : Contents \cup {None},
            seen : Contents \cup {None}, attempt : Nat, since : Nat, result : Results]

\* A publisher waits for the answer to request "on"; "ok": its last push is
\* acknowledged.
Publisher == [pc : {"idle", "waiting", "retry"}, content : Contents \cup {None},
              tries : Nat, on : Requests \cup {None}, ok : BOOLEAN]

TypeOK ==
  /\ report \in Contents \cup {None}
  /\ revisions \in Seq(Contents)
  /\ mutex \in [Instances -> Requests \cup {None}]
  /\ req \in [Requests -> Request]
  /\ pub \in [Publishers -> Publisher]

Init ==
  /\ report = None
  /\ revisions = <<>>
  /\ mutex = [i \in Instances |-> None]
  /\ req = [r \in Requests |-> NoRequest]
  /\ pub = [p \in Publishers |->
              [pc |-> "idle", content |-> None, tries |-> 0, on |-> None, ok |-> FALSE]]

\* How many versions were ever current.
Versions == Len(revisions) + (IF report = None THEN 0 ELSE 1)

-----------------------------------------------------------------------------
(* The publisher's script.                                                 *)

Send(p, r, c, tries) ==
  /\ req[r] = NoRequest
  /\ req' = [req EXCEPT ![r] =
               [NoRequest EXCEPT !.pc = "sent", !.content = c, !.since = Versions]]
  /\ pub' = [pub EXCEPT ![p] =
               [pc |-> "waiting", content |-> c, tries |-> tries, on |-> r, ok |-> FALSE]]
  /\ UNCHANGED <<report, revisions, mutex>>

Push(p, r, c) ==
  /\ pub[p].pc = "idle"
  /\ Len(revisions) < MaxRevisions
  /\ Send(p, r, c, 1)

\* No answer within the timeout, or a broken connection.
Timeout(p) ==
  /\ pub[p].pc = "waiting"
  /\ pub' = [pub EXCEPT ![p].pc = "retry", ![p].on = None]
  /\ UNCHANGED <<report, revisions, mutex, req>>

Resend(p, r) ==
  /\ pub[p].pc = "retry" /\ pub[p].tries < MaxTries
  /\ Send(p, r, pub[p].content, pub[p].tries + 1)

GiveUp(p) ==
  /\ pub[p].pc = "retry" /\ pub[p].tries = MaxTries
  /\ pub' = [pub EXCEPT ![p].pc = "idle"]
  /\ UNCHANGED <<report, revisions, mutex, req>>

-----------------------------------------------------------------------------
(* The server: Save, a loop of saveSnapshot transactions under the mutex.  *)

Enter(r, i) ==
  /\ req[r].pc = "sent"
  /\ mutex[i] = None
  /\ mutex' = [mutex EXCEPT ![i] = r]
  /\ req' = [req EXCEPT ![r].pc = "read"]
  /\ UNCHANGED <<report, revisions, pub>>

\* Variant for mutation: the mutex stays locked when Save returns.
NoUnlock(r) == mutex' = [i \in Instances |-> IF mutex[i] = r THEN r ELSE mutex[i]]

Unlock(r) == mutex' = [i \in Instances |-> IF mutex[i] = r THEN None ELSE mutex[i]]

Return(r, result) ==
  /\ req' = [req EXCEPT ![r].pc = "done", ![r].result = result]
  /\ Unlock(r)

Unchanged(r) ==
  /\ req[r].pc = "read"
  /\ report = req[r].content
  /\ Return(r, "unchanged")
  /\ UNCHANGED <<report, revisions, pub>>

\* Variant for mutation: the hash of the stored row is not compared.
ReadAny(r) ==
  /\ req[r].pc = "read"
  /\ req' = [req EXCEPT ![r].pc = "write", ![r].seen = report]
  /\ UNCHANGED <<report, revisions, mutex, pub>>

Read(r) ==
  /\ req[r].pc = "read"
  /\ report # req[r].content
  /\ req' = [req EXCEPT ![r].pc = "write", ![r].seen = report]
  /\ UNCHANGED <<report, revisions, mutex, pub>>

\* CreateIfAbsent, when no row was read and none is there.
Create(r) ==
  /\ req[r].pc = "write"
  /\ req[r].seen = None /\ report = None
  /\ report' = req[r].content
  /\ Return(r, "created")
  /\ UNCHANGED <<revisions, pub>>

\* Variant for mutation: a row that was not found is saved as a revision.
UpdateMissing(r) ==
  /\ req[r].pc = "write"
  /\ report = req[r].seen
  /\ revisions' = Append(revisions, req[r].seen)
  /\ report' = req[r].content
  /\ Return(r, "updated")
  /\ UNCHANGED pub

\* CreateRevision and UpdateIfHash.
Update(r) ==
  /\ req[r].pc = "write"
  /\ req[r].seen # None /\ report = req[r].seen
  /\ revisions' = Append(revisions, req[r].seen)
  /\ report' = req[r].content
  /\ Return(r, "updated")
  /\ UNCHANGED pub

\* Variant for mutation: the revision row survives the conflict.
ConflictKeepsRevision(r) ==
  /\ req[r].pc = "write"
  /\ report # req[r].seen
  /\ req[r].attempt + 1 < MaxAttempts
  /\ req' = [req EXCEPT ![r].pc = "read", ![r].attempt = @ + 1]
  /\ revisions' = IF req[r].seen = None THEN revisions ELSE Append(revisions, req[r].seen)
  /\ UNCHANGED <<report, mutex, pub>>

\* Variant for mutation: UpdateIfHash is given the new hash, not the one read.
ConflictOnNewHash(r) ==
  /\ req[r].pc = "write"
  /\ report # req[r].content
  /\ req[r].attempt + 1 < MaxAttempts
  /\ req' = [req EXCEPT ![r].pc = "read", ![r].attempt = @ + 1]
  /\ UNCHANGED <<report, revisions, mutex, pub>>

\* errDailyReviewWriteConflict: the transaction rolls back and is tried again.
Conflict(r) ==
  /\ req[r].pc = "write"
  /\ report # req[r].seen
  /\ req[r].attempt + 1 < MaxAttempts
  /\ req' = [req EXCEPT ![r].pc = "read", ![r].attempt = @ + 1]
  /\ UNCHANGED <<report, revisions, mutex, pub>>

Exhaust(r) ==
  /\ req[r].pc = "write"
  /\ report # req[r].seen
  /\ req[r].attempt + 1 = MaxAttempts
  /\ req' = [req EXCEPT ![r].pc = "done", ![r].attempt = @ + 1, ![r].result = "failed"]
  /\ Unlock(r)
  /\ UNCHANGED <<report, revisions, pub>>

\* Only a publisher still waiting for this very request reads the answer; a
\* server error is tried again.
Answer(r) ==
  /\ req[r].pc = "done"
  /\ req' = [req EXCEPT ![r] = NoRequest]
  /\ pub' = [p \in Publishers |->
               IF pub[p].on # r THEN pub[p]
               ELSE IF req[r].result = "failed"
               THEN [pub[p] EXCEPT !.pc = "retry", !.on = None]
               ELSE [pub[p] EXCEPT !.pc = "idle", !.on = None, !.ok = TRUE]]
  /\ UNCHANGED <<report, revisions, mutex>>

\* The network loses the request or its answer; the publisher times out.
Lose(r) ==
  /\ req[r].pc \in {"sent", "done"}
  /\ \A p \in Publishers : pub[p].on # r
  /\ req' = [req EXCEPT ![r] = NoRequest]
  /\ UNCHANGED <<report, revisions, mutex, pub>>

\* The instance stops between two statements, or the database fails one of them: the
\* transaction rolls back, and the script tries again.
Crash(i) ==
  LET r == mutex[i] IN
  /\ r # None
  /\ mutex' = [mutex EXCEPT ![i] = None]
  /\ req' = [req EXCEPT ![r] = NoRequest]
  /\ pub' = [p \in Publishers |->
               IF pub[p].on = r THEN [pub[p] EXCEPT !.pc = "retry", !.on = None] ELSE pub[p]]
  /\ UNCHANGED <<report, revisions>>

-----------------------------------------------------------------------------
Publish(p) ==
  \/ \E r \in Requests, c \in Contents : Push(p, r, c)
  \/ \E r \in Requests : Resend(p, r)
  \/ Timeout(p)
  \/ GiveUp(p)

Serve(r) ==
  \/ Unchanged(r) \/ Read(r)
  \/ Create(r) \/ Update(r) \/ Conflict(r) \/ Exhaust(r)
  \/ Answer(r)

Arrive(r) == \E i \in Instances : Enter(r, i)

Next ==
  \/ \E p \in Publishers : Publish(p)
  \/ \E r \in Requests : Arrive(r) \/ Serve(r) \/ Lose(r)
  \/ \E i \in Instances : Crash(i)

Spec == Init /\ [][Next]_vars

\* A goroutine is scheduled, and Go's mutex starves nobody; publishers,
\* the network and crashes owe nothing.
FairSpec ==
  /\ Spec
  /\ \A r \in Requests : WF_vars(Serve(r)) /\ SF_vars(Arrive(r))

-----------------------------------------------------------------------------
(* The promised history, with the requests as they are in the server.      *)

Outcome == [r \in Requests |->
              CASE req[r].pc = "none" -> "none"
                [] req[r].pc = "done" -> req[r].result
                [] OTHER -> "pending"]

History == INSTANCE DailyReviewHistory WITH
  want <- [r \in Requests |-> req[r].content], outcome <- Outcome

\* Every request takes effect at one instant or not at all, a replaced
\* version is always kept, and the answer tells the truth
\* (docs/daily-review-ingest.md:26-27).
KeepsHistory == History!HSpec

\* No version is recorded twice in a row, however often pushes are repeated
\* or collide (the check of the hash and the conditional UPDATE, saveSnapshot).
NoRepeatedVersion ==
  /\ \A n \in 1..(Len(revisions) - 1) : revisions[n] # revisions[n + 1]
  /\ revisions # <<>> => revisions[Len(revisions)] # report

\* A request runs into a conflict only when another one wrote a version
\* since: Save gives up after MaxAttempts only under that much contention.
FailsOnlyUnderContention ==
  \A r \in Requests : req[r].pc # "none" => req[r].attempt <= Versions - req[r].since

\* The mutex serialises the writers of a process: with a single instance
\* no save ever runs out of attempts (a database error is a Crash here).
SingleInstanceNeverFails ==
  \A r \in Requests : req[r].pc = "done" => req[r].result # "failed"

\* Every request that was sent is served or lost, whatever crashes.
RequestsEnd == \A r \in Requests : (req[r].pc # "none") ~> (req[r].pc = "none")
=============================================================================
