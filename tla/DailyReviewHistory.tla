-------------------------- MODULE DailyReviewHistory --------------------------
(***************************************************************************)
(* What docs/daily-review-ingest.md and docs/script-api.md promise of the  *)
(* ingestion of one section of a daily review: a request takes effect at   *)
(* once or not at all, pushing the current content changes nothing, pushing *)
(* another content makes it current and keeps the previous version, and    *)
(* the answer says which of these happened.                                *)
(***************************************************************************)
EXTENDS Sequences

CONSTANTS Contents, Requests, None

VARIABLES
  report,      \* the current version
  revisions,   \* the replaced versions, oldest first
  want,        \* the content a request carries (None: no such request)
  outcome      \* "none", "pending", or what happened to the request

hvars == <<report, revisions, want, outcome>>

HInit ==
  /\ report = None
  /\ revisions = <<>>
  /\ want = [r \in Requests |-> None]
  /\ outcome = [r \in Requests |-> "none"]

Invoke(r, c) ==
  /\ outcome[r] = "none"
  /\ want' = [want EXCEPT ![r] = c]
  /\ outcome' = [outcome EXCEPT ![r] = "pending"]
  /\ UNCHANGED <<report, revisions>>

Settle(r, result) ==
  /\ outcome[r] = "pending"
  /\ outcome' = [outcome EXCEPT ![r] = result]
  /\ UNCHANGED want

Keep(r) ==
  /\ report = want[r]
  /\ Settle(r, "unchanged")
  /\ UNCHANGED <<report, revisions>>

First(r) ==
  /\ report = None
  /\ report' = want[r]
  /\ Settle(r, "created")
  /\ UNCHANGED revisions

Replace(r) ==
  /\ report # None /\ report # want[r]
  /\ report' = want[r]
  /\ revisions' = Append(revisions, report)
  /\ Settle(r, "updated")

Refuse(r) ==
  /\ Settle(r, "failed")
  /\ UNCHANGED <<report, revisions>>

\* The answer was given, or the request or its answer was lost.
Forget(r) ==
  /\ outcome[r] # "none"
  /\ want' = [want EXCEPT ![r] = None]
  /\ outcome' = [outcome EXCEPT ![r] = "none"]
  /\ UNCHANGED <<report, revisions>>

HNext ==
  \E r \in Requests :
    \/ \E c \in Contents : Invoke(r, c)
    \/ Keep(r) \/ First(r) \/ Replace(r) \/ Refuse(r) \/ Forget(r)

HSpec == HInit /\ [][HNext]_hvars
=============================================================================
