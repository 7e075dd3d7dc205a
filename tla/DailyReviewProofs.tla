--------------------------- MODULE DailyReviewProofs ---------------------------
(* Proofs about DailyReview: it implements DailyReviewHistory, for any      *)
(* publishers, instances, requests, contents and attempt limits.            *)
EXTENDS DailyReview, SequenceTheorems, TLAPS

(***************************************************************************)
(* The inductive invariant.  A conditional UPDATE replaces a version that  *)
(* differs from the new one because the comparison of the hashes came      *)
(* before it, on the version that the condition names; a crash drops       *)
(* exactly one request because only a request being served holds a mutex.  *)
(***************************************************************************)
WriteDiffers == \A r \in Requests : req[r].pc = "write" => req[r].seen # req[r].content

CarriesContent ==
  /\ \A r \in Requests : req[r].pc # "none" => req[r].content \in Contents
  /\ \A p \in Publishers : /\ pub[p].pc # "idle" => pub[p].content \in Contents
                           /\ pub[p].on # None => pub[p].pc = "waiting"

HolderServed ==
  /\ \A i \in Instances : mutex[i] # None => req[mutex[i]].pc \in {"read", "write"}
  /\ \A i, j \in Instances : mutex[i] = mutex[j] /\ mutex[i] # None => i = j

\* A request that read a version which is no longer current has the next
\* conflict already paid for.
ConflictPaidFor ==
  \A r \in Requests : req[r].pc # "none" =>
    /\ req[r].since + req[r].attempt <= Versions
    /\ req[r].pc = "write" /\ req[r].seen # report =>
         req[r].since + req[r].attempt < Versions

NothingReplaced == report = None => revisions = <<>>

IInv ==
  /\ TypeOK
  /\ NothingReplaced
  /\ WriteDiffers
  /\ CarriesContent
  /\ HolderServed
  /\ NoRepeatedVersion
  /\ ConflictPaidFor

-----------------------------------------------------------------------------
LEMMA VersionsNat == TypeOK => Versions \in Nat
BY DEF TypeOK, Versions

LEMMA DailyInit == Init => IInv
<1> SUFFICES ASSUME Init PROVE IInv
  OBVIOUS
<1> USE DEF Init
<1>1. TypeOK
  BY DEF TypeOK, Request, Publisher, NoRequest, Results
<1>2. NoRepeatedVersion
  BY DEF NoRepeatedVersion
<1> QED
  BY <1>1, <1>2 DEF IInv, WriteDiffers, CarriesContent, HolderServed, ConflictPaidFor, NothingReplaced, NoRequest

-----------------------------------------------------------------------------
(* Sending: a free request is filled, and its publisher waits for it.      *)
LEMMA SendStep ==
  ASSUME IInv, NEW p \in Publishers, NEW r \in Requests, NEW c \in Contents,
         NEW tries \in Nat, Send(p, r, c, tries)
  PROVE  IInv' /\ (\E c0 \in Contents : History!Invoke(r, c0))
<1> USE DEF IInv
<1> DEFINE new == [NoRequest EXCEPT !.pc = "sent", !.content = c, !.since = Versions]
           wait == [pc |-> "waiting", content |-> c, tries |-> tries, on |-> r, ok |-> FALSE]
<1>1. /\ new \in Request /\ wait \in Publisher
      /\ new.pc = "sent" /\ new.content = c /\ new.since = Versions /\ new.attempt = 0
      /\ wait.pc = "waiting" /\ wait.content = c
  BY VersionsNat DEF Request, Publisher, NoRequest, Results
<1> HIDE DEF new, wait
<1>2. /\ req' = [req EXCEPT ![r] = new] /\ pub' = [pub EXCEPT ![p] = wait]
      /\ req[r] = NoRequest
      /\ UNCHANGED <<report, revisions, mutex>>
  BY DEF Send, new, wait
<1>3. TypeOK'
  BY <1>1, <1>2 DEF TypeOK
<1>4. Versions' = Versions /\ Versions \in Nat
  BY <1>2, VersionsNat DEF Versions
<1>5. WriteDiffers' /\ CarriesContent' /\ NoRepeatedVersion' /\ NothingReplaced'
  BY <1>1, <1>2 DEF TypeOK, NothingReplaced, WriteDiffers, CarriesContent, NoRepeatedVersion
<1>6. HolderServed'
  BY <1>1, <1>2 DEF TypeOK, HolderServed, NoRequest
<1>7. ConflictPaidFor'
  BY <1>1, <1>2, <1>4 DEF TypeOK, ConflictPaidFor
<1>8. History!Invoke(r, c)
  <2>1. Outcome[r] = "none"
    BY <1>2 DEF Outcome, NoRequest
  <2>2. Outcome' = [Outcome EXCEPT ![r] = "pending"]
    BY <1>1, <1>2 DEF Outcome, TypeOK
  <2>3. [x \in Requests |-> req[x].content]' = [[x \in Requests |-> req[x].content] EXCEPT ![r] = c]
    BY <1>1, <1>2 DEF TypeOK
  <2> QED BY <1>2, <2>1, <2>2, <2>3 DEF History!Invoke
<1> QED BY <1>3, <1>5, <1>6, <1>7, <1>8

(* The publisher alone: its script moves between idle, waiting and retry.  *)
LEMMA PublisherStep ==
  ASSUME IInv, UNCHANGED <<report, revisions, mutex, req>>, pub' \in [Publishers -> Publisher],
         \A p \in Publishers : pub'[p].content = pub[p].content
           /\ (pub'[p].pc # "idle" => pub[p].pc # "idle")
           /\ (pub'[p].on # None => pub'[p].pc = "waiting")
  PROVE  IInv' /\ UNCHANGED History!hvars
<1>1. Versions' = Versions
  BY DEF Versions
<1>2. IInv'
  BY <1>1 DEF IInv, TypeOK, NothingReplaced, WriteDiffers, CarriesContent, HolderServed, NoRepeatedVersion, ConflictPaidFor
<1>3. UNCHANGED History!hvars
  BY DEF History!hvars, Outcome
<1> QED BY <1>2, <1>3

-----------------------------------------------------------------------------
(* A step of one request inside the server that leaves the database alone. *)
LEMMA LocalStep ==
  ASSUME IInv, NEW r \in Requests, req'[r] \in Request,
         req' = [req EXCEPT ![r] = req'[r]],
         UNCHANGED <<report, revisions, pub>>,
         mutex' \in [Instances -> Requests \cup {None}],
         req[r].pc # "none", req'[r].pc # "none",
         req'[r].content = req[r].content, req'[r].since = req[r].since,
         req'[r].since + req'[r].attempt <= Versions,
         req'[r].pc = "write" => req'[r].seen = report /\ report # req'[r].content,
         \A i \in Instances : mutex'[i] # None =>
            \/ mutex'[i] = r /\ req'[r].pc \in {"read", "write"}
            \/ mutex'[i] # r /\ mutex[i] = mutex'[i],
         \A i, j \in Instances : mutex'[i] = mutex'[j] /\ mutex'[i] # None => i = j
  PROVE  IInv'
<1> USE DEF IInv
<1>1. Versions' = Versions /\ Versions \in Nat
  BY VersionsNat DEF Versions
<1>2. TypeOK' /\ NoRepeatedVersion' /\ NothingReplaced'
  BY DEF TypeOK, NothingReplaced, NoRepeatedVersion
<1>3. WriteDiffers' /\ CarriesContent'
  BY DEF TypeOK, WriteDiffers, CarriesContent
<1>4. HolderServed'
  <2>1. \A i \in Instances : mutex'[i] # None => req'[mutex'[i]].pc \in {"read", "write"}
    BY DEF TypeOK, HolderServed
  <2> QED BY <2>1 DEF HolderServed
<1>5. ConflictPaidFor'
  BY <1>1 DEF TypeOK, ConflictPaidFor
<1> QED BY <1>2, <1>3, <1>4, <1>5

(* The commit of a new version: everybody who read the old one is behind.  *)
LEMMA CommitStep ==
  ASSUME IInv, NEW r \in Requests, NEW result \in Results,
         req[r].pc = "write", req[r].seen = report,
         report' = req[r].content,
         revisions' = IF report = None THEN revisions ELSE Append(revisions, report),
         Return(r, result), UNCHANGED pub
  PROVE  IInv'
<1> USE DEF IInv
<1> DEFINE new == [req[r] EXCEPT !.pc = "done", !.result = result]
<1>1. /\ req[r] \in Request /\ req[r].content \in Contents /\ report # req[r].content
      /\ report \in Contents \cup {None} /\ revisions \in Seq(Contents)
  BY DEF TypeOK, CarriesContent, WriteDiffers
<1>2. /\ new \in Request /\ new.pc = "done" /\ new.content = req[r].content
      /\ new.since = req[r].since /\ new.attempt = req[r].attempt
  BY <1>1 DEF Request
<1> HIDE DEF new
<1>3. /\ req' = [req EXCEPT ![r] = new]
      /\ mutex' = [i \in Instances |-> IF mutex[i] = r THEN None ELSE mutex[i]]
  BY DEF Return, Unlock, new, TypeOK
<1>4. report' \in Contents /\ report' # None /\ report' # report
  BY <1>1, DailyReviewAssumption
<1>5. /\ revisions' \in Seq(Contents)
      /\ Len(revisions') = Len(revisions) + (IF report = None THEN 0 ELSE 1)
  BY <1>1
<1>6. Versions \in Nat /\ Versions' = Versions + 1
  BY <1>1, <1>4, <1>5 DEF Versions
<1>7. TypeOK'
  BY <1>2, <1>3, <1>4, <1>5 DEF TypeOK
<1>8. WriteDiffers' /\ CarriesContent' /\ NothingReplaced'
  BY <1>1, <1>2, <1>3, <1>4 DEF NothingReplaced, TypeOK, WriteDiffers, CarriesContent
<1>9. HolderServed'
  BY <1>2, <1>3 DEF TypeOK, HolderServed
<1>10. NoRepeatedVersion'
  <2>1. CASE report = None
    BY <2>1, <1>1 DEF NoRepeatedVersion, NothingReplaced
  <2>2. CASE report # None
    <3>1. revisions' = Append(revisions, report) /\ report \in Contents
      BY <2>2, <1>1
    <3>2. \A n \in 1..Len(revisions) : revisions'[n] = revisions[n]
      BY <3>1, <1>1
    <3>3. revisions'[Len(revisions) + 1] = report /\ Len(revisions') = Len(revisions) + 1
      BY <3>1, <1>1
    <3>4. Len(revisions) \in Nat /\ (Len(revisions) > 0 => revisions # <<>>)
      BY <1>1
    <3>5. \A n \in 1..(Len(revisions') - 1) : revisions'[n] # revisions'[n + 1]
      BY <3>2, <3>3, <3>4 DEF NoRepeatedVersion
    <3> QED BY <3>3, <3>5, <1>4 DEF NoRepeatedVersion
  <2> QED BY <2>1, <2>2
<1>11. ConflictPaidFor'
  BY <1>2, <1>3, <1>4, <1>6 DEF TypeOK, Request, ConflictPaidFor
<1> QED BY <1>7, <1>8, <1>9, <1>10, <1>11

(* A request disappears: its answer is given, it is lost, or its instance  *)
(* stops.  The publisher, if it still waits for it, ends or tries again.   *)
LEMMA FreeStep ==
  ASSUME IInv, NEW r \in Requests, req[r].pc # "none",
         req' = [req EXCEPT ![r] = NoRequest],
         UNCHANGED <<report, revisions>>,
         mutex' \in [Instances -> Requests \cup {None}],
         pub' \in [Publishers -> Publisher],
         \A p \in Publishers : pub'[p].content = pub[p].content
           /\ (pub'[p].pc # "idle" => pub[p].pc # "idle")
           /\ (pub'[p].on # None => pub'[p].pc = "waiting"),
         \A i \in Instances : mutex'[i] # None => mutex'[i] = mutex[i] /\ mutex'[i] # r
  PROVE  IInv' /\ History!Forget(r)
<1> USE DEF IInv
<1>1. Versions' = Versions
  BY DEF Versions
<1>2. NoRequest \in Request /\ NoRequest.pc = "none" /\ NoRequest.content = None
  BY DEF NoRequest, Request, Results
<1>3. TypeOK' /\ NoRepeatedVersion' /\ NothingReplaced'
  BY <1>2 DEF TypeOK, NoRepeatedVersion, NothingReplaced
<1>4. WriteDiffers' /\ CarriesContent' /\ ConflictPaidFor'
  BY <1>1, <1>2 DEF TypeOK, WriteDiffers, CarriesContent, ConflictPaidFor
<1>5. HolderServed'
  BY <1>2 DEF TypeOK, HolderServed
<1>6. History!Forget(r)
  <2>1. Outcome[r] # "none"
    BY DEF Outcome, TypeOK, Request, Results
  <2>2. Outcome' = [Outcome EXCEPT ![r] = "none"]
    BY <1>2 DEF Outcome, TypeOK
  <2>3. [x \in Requests |-> req[x].content]' = [[x \in Requests |-> req[x].content] EXCEPT ![r] = None]
    BY <1>2 DEF TypeOK
  <2> QED BY <2>1, <2>2, <2>3 DEF History!Forget
<1> QED BY <1>3, <1>4, <1>5, <1>6

(* What the history sees of a request that stays: its outcome.             *)
LEMMA OutcomeStep ==
  ASSUME req \in [Requests -> Request], NEW r \in Requests, req[r].pc \in {"sent", "read", "write"},
         req' = [req EXCEPT ![r] = req'[r]], req'[r].content = req[r].content
  PROVE  /\ Outcome[r] = "pending"
         /\ Outcome' = [Outcome EXCEPT ![r] = Outcome'[r]]
         /\ req'[r].pc = "done" => Outcome'[r] = req'[r].result
         /\ req'[r].pc \in {"sent", "read", "write"} => Outcome' = Outcome
         /\ [x \in Requests |-> req[x].content]' = [x \in Requests |-> req[x].content]
<1>1. Outcome[r] = "pending"
  BY DEF Outcome
<1>2. /\ req'[r].pc = "done" => Outcome'[r] = req'[r].result
      /\ req'[r].pc \in {"sent", "read", "write"} => Outcome'[r] = "pending"
  BY DEF Outcome
<1>3. \A x \in Requests : x # r => Outcome'[x] = Outcome[x]
  BY DEF Outcome
<1>4. Outcome = [x \in Requests |-> Outcome[x]] /\ Outcome' = [x \in Requests |-> Outcome'[x]]
  BY DEF Outcome
<1>5. Outcome' = [Outcome EXCEPT ![r] = Outcome'[r]]
  BY <1>3, <1>4
<1>6. req'[r].pc \in {"sent", "read", "write"} => Outcome' = Outcome
  BY <1>1, <1>2, <1>3, <1>4
<1>7. [x \in Requests |-> req[x].content]' = [x \in Requests |-> req[x].content]
  OBVIOUS
<1> QED BY <1>1, <1>2, <1>5, <1>6, <1>7

-----------------------------------------------------------------------------
(* The steps of the server, one by one.                                    *)
LEMMA EnterAction ==
  ASSUME IInv, NEW r \in Requests, NEW i \in Instances, Enter(r, i)
  PROVE  IInv' /\ UNCHANGED History!hvars
<1> USE DEF Enter
<1>1. /\ req[r] \in Request /\ TypeOK
      /\ req[r].since + req[r].attempt <= Versions
      /\ \A j \in Instances : mutex[j] # None => mutex[j] # r
      /\ \A j, k \in Instances : mutex[j] = mutex[k] /\ mutex[j] # None => j = k
  BY DEF IInv, TypeOK, ConflictPaidFor, HolderServed
<1>2. req'[r] = [req[r] EXCEPT !.pc = "read"] /\ req' = [req EXCEPT ![r] = req'[r]]
  BY <1>1 DEF TypeOK
<1>3. /\ req'[r] \in Request /\ req'[r].pc = "read" /\ req'[r].content = req[r].content
      /\ req'[r].since = req[r].since /\ req'[r].attempt = req[r].attempt
  BY <1>1, <1>2 DEF Request
<1>4. mutex' \in [Instances -> Requests \cup {None}]
  BY <1>1 DEF TypeOK
<1>5. \A j \in Instances : mutex'[j] = IF j = i THEN r ELSE mutex[j]
  BY <1>1 DEF TypeOK
<1>6. IInv'
  <2>1. /\ \A j \in Instances : mutex'[j] # None =>
             \/ mutex'[j] = r /\ req'[r].pc \in {"read", "write"}
             \/ mutex'[j] # r /\ mutex[j] = mutex'[j]
        /\ \A j, k \in Instances : mutex'[j] = mutex'[k] /\ mutex'[j] # None => j = k
    BY <1>1, <1>3, <1>5
  <2>2. req'[r].since + req'[r].attempt <= Versions /\ req[r].pc # "none"
    BY <1>1, <1>3
  <2>3. UNCHANGED <<report, revisions, pub>>
    OBVIOUS
  <2> HIDE DEF Enter
  <2> QED BY <1>2, <1>3, <1>4, <2>1, <2>2, <2>3, LocalStep
<1>7. UNCHANGED History!hvars
  BY <1>1, <1>2, <1>3, OutcomeStep DEF TypeOK, History!hvars
<1> QED BY <1>6, <1>7

(* A step inside Save that keeps the mutex, and one that returns.          *)
LEMMA LoopStep ==
  ASSUME IInv, NEW r \in Requests, req'[r] \in Request,
         req[r].pc \in {"read", "write"}, req'[r].pc \in {"read", "write"},
         req' = [req EXCEPT ![r] = req'[r]],
         UNCHANGED <<report, revisions, mutex, pub>>,
         req'[r].content = req[r].content, req'[r].since = req[r].since,
         req'[r].since + req'[r].attempt <= Versions,
         req'[r].pc = "write" => req'[r].seen = report /\ report # req'[r].content
  PROVE  IInv' /\ UNCHANGED History!hvars
<1>1. /\ TypeOK
      /\ \A j, k \in Instances : mutex[j] = mutex[k] /\ mutex[j] # None => j = k
  BY DEF IInv, HolderServed
<1>2. mutex' \in [Instances -> Requests \cup {None}]
  BY <1>1 DEF TypeOK
<1>3. IInv'
  BY <1>1, <1>2, LocalStep
<1>4. UNCHANGED History!hvars
  BY <1>1, OutcomeStep DEF TypeOK, History!hvars
<1> QED BY <1>3, <1>4

LEMMA ReturnStep ==
  ASSUME IInv, NEW r \in Requests, req'[r] \in Request,
         req[r].pc \in {"read", "write"}, req'[r].pc = "done",
         req' = [req EXCEPT ![r] = req'[r]], Unlock(r),
         UNCHANGED <<report, revisions, pub>>,
         req'[r].content = req[r].content, req'[r].since = req[r].since,
         req'[r].since + req'[r].attempt <= Versions
  PROVE  IInv' /\ History!Settle(r, req'[r].result)
<1>1. /\ TypeOK
      /\ \A j, k \in Instances : mutex[j] = mutex[k] /\ mutex[j] # None => j = k
  BY DEF IInv, HolderServed
<1>2. /\ mutex' \in [Instances -> Requests \cup {None}]
      /\ \A i \in Instances : mutex'[i] = IF mutex[i] = r THEN None ELSE mutex[i]
  BY <1>1 DEF TypeOK, Unlock
<1>3. IInv'
  BY <1>1, <1>2, LocalStep
<1>4. History!Settle(r, req'[r].result)
  BY <1>1, OutcomeStep DEF TypeOK, History!Settle
<1> QED BY <1>3, <1>4

LEMMA ServeStep ==
  ASSUME IInv, NEW r \in Requests, Serve(r)
  PROVE  IInv' /\ [History!HNext]_History!hvars
<1> USE DEF IInv
<1>1. /\ TypeOK /\ req[r] \in Request /\ Versions \in Nat /\ req[r].attempt + 1 \in Nat
      /\ req[r].pc # "none" =>
           req[r].content \in Contents /\ req[r].since + req[r].attempt <= Versions
      /\ req[r].pc = "write" /\ req[r].seen # report =>
           req[r].since + req[r].attempt < Versions
  BY VersionsNat DEF TypeOK, Request, CarriesContent, ConflictPaidFor
<1>3. CASE Unchanged(r)
  <2>1. /\ req[r].pc = "read" /\ report = req[r].content /\ Unlock(r)
        /\ UNCHANGED <<report, revisions, pub>>
        /\ req' = [req EXCEPT ![r].pc = "done", ![r].result = "unchanged"]
    BY <1>3 DEF Unchanged, Return
  <2>2. req'[r] = [req[r] EXCEPT !.pc = "done", !.result = "unchanged"] /\ req' = [req EXCEPT ![r] = req'[r]]
    BY <2>1, <1>1 DEF TypeOK
  <2>3. /\ req'[r] \in Request /\ req'[r].pc = "done" /\ req'[r].content = req[r].content
        /\ req'[r].since = req[r].since /\ req'[r].attempt = req[r].attempt
        /\ req'[r].result = "unchanged"
    BY <2>2, <1>1 DEF Request, Results
  <2>4. IInv' /\ History!Settle(r, "unchanged")
    BY <1>1, <2>1, <2>2, <2>3, ReturnStep
  <2>5. History!Keep(r)
    BY <2>1, <2>4 DEF History!Keep
  <2> QED BY <2>4, <2>5 DEF History!HNext
<1>4. CASE Read(r)
  <2>1. /\ req[r].pc = "read" /\ report # req[r].content
        /\ UNCHANGED <<report, revisions, mutex, pub>>
        /\ req' = [req EXCEPT ![r].pc = "write", ![r].seen = report]
    BY <1>4 DEF Read
  <2>2. req'[r] = [req[r] EXCEPT !.pc = "write", !.seen = report] /\ req' = [req EXCEPT ![r] = req'[r]]
    BY <2>1, <1>1 DEF TypeOK
  <2>3. /\ req'[r] \in Request /\ req'[r].pc = "write" /\ req'[r].content = req[r].content
        /\ req'[r].since = req[r].since /\ req'[r].attempt = req[r].attempt
        /\ req'[r].seen = report
    BY <2>2, <1>1 DEF Request, TypeOK
  <2> QED BY <1>1, <2>1, <2>2, <2>3, LoopStep
<1>5. CASE Conflict(r)
  <2>1. /\ req[r].pc = "write" /\ report # req[r].seen
        /\ UNCHANGED <<report, revisions, mutex, pub>>
        /\ req' = [req EXCEPT ![r].pc = "read", ![r].attempt = @ + 1]
    BY <1>5 DEF Conflict
  <2>2. req'[r] = [req[r] EXCEPT !.pc = "read", !.attempt = req[r].attempt + 1] /\ req' = [req EXCEPT ![r] = req'[r]]
    BY <2>1, <1>1 DEF TypeOK
  <2>3. /\ req'[r] \in Request /\ req'[r].pc = "read" /\ req'[r].content = req[r].content
        /\ req'[r].since = req[r].since /\ req'[r].attempt = req[r].attempt + 1
    BY <2>2, <1>1 DEF Request
  <2>4. req'[r].since + req'[r].attempt <= Versions
    BY <1>1, <2>1, <2>3 DEF Request
  <2> QED BY <1>1, <2>1, <2>2, <2>3, <2>4, LoopStep
<1>6. CASE Exhaust(r)
  <2>1. /\ req[r].pc = "write" /\ report # req[r].seen /\ Unlock(r)
        /\ UNCHANGED <<report, revisions, pub>>
        /\ req' = [req EXCEPT ![r].pc = "done", ![r].attempt = @ + 1, ![r].result = "failed"]
    BY <1>6 DEF Exhaust
  <2>2. /\ req'[r] = [req[r] EXCEPT !.pc = "done", !.attempt = req[r].attempt + 1, !.result = "failed"]
        /\ req' = [req EXCEPT ![r] = req'[r]]
    BY <2>1, <1>1 DEF TypeOK
  <2>3. /\ req'[r] \in Request /\ req'[r].pc = "done" /\ req'[r].content = req[r].content
        /\ req'[r].since = req[r].since /\ req'[r].attempt = req[r].attempt + 1
        /\ req'[r].result = "failed"
    BY <2>2, <1>1 DEF Request, Results
  <2>4. req'[r].since + req'[r].attempt <= Versions
    BY <1>1, <2>1, <2>3 DEF Request
  <2>5. IInv' /\ History!Settle(r, "failed")
    BY <1>1, <2>1, <2>2, <2>3, <2>4, ReturnStep
  <2>6. History!Refuse(r)
    BY <2>1, <2>5 DEF History!Refuse
  <2> QED BY <2>5, <2>6 DEF History!HNext
<1>7. ASSUME NEW result \in Results, Return(r, result), req[r].pc = "write"
      PROVE  History!Settle(r, result)
  <2>1. req'[r] = [req[r] EXCEPT !.pc = "done", !.result = result] /\ req' = [req EXCEPT ![r] = req'[r]]
    BY <1>1, <1>7 DEF TypeOK, Return
  <2>2. req'[r].pc = "done" /\ req'[r].content = req[r].content /\ req'[r].result = result
    BY <2>1, <1>1 DEF Request
  <2> QED BY <1>1, <1>7, <2>1, <2>2, OutcomeStep DEF TypeOK, History!Settle
<1>8. CASE Create(r)
  <2>1. /\ req[r].pc = "write" /\ req[r].seen = None /\ report = None
        /\ report' = req[r].content /\ Return(r, "created") /\ UNCHANGED <<revisions, pub>>
    BY <1>8 DEF Create
  <2>2. IInv'
    BY <2>1, CommitStep DEF Results
  <2>3. History!Settle(r, "created")
    BY <2>1, <1>7 DEF Results
  <2>4. History!First(r)
    BY <2>1, <2>3 DEF History!First
  <2> QED BY <2>2, <2>4 DEF History!HNext
<1>9. CASE Update(r)
  <2>1. /\ req[r].pc = "write" /\ req[r].seen # None /\ report = req[r].seen
        /\ revisions' = Append(revisions, report)
        /\ report' = req[r].content /\ Return(r, "updated") /\ UNCHANGED pub
    BY <1>9 DEF Update
  <2>2. IInv'
    BY <2>1, CommitStep DEF Results
  <2>3. History!Settle(r, "updated")
    BY <2>1, <1>7 DEF Results
  <2>4. report # req[r].content
    BY <2>1 DEF WriteDiffers
  <2>5. History!Replace(r)
    BY <2>1, <2>3, <2>4 DEF History!Replace
  <2> QED BY <2>2, <2>5 DEF History!HNext
<1>10. CASE Answer(r)
  <2>1. /\ req[r].pc = "done" /\ req' = [req EXCEPT ![r] = NoRequest]
        /\ UNCHANGED <<report, revisions, mutex>>
    BY <1>10 DEF Answer
  <2>2. \A p \in Publishers :
          /\ pub'[p].content = pub[p].content /\ pub'[p] \in Publisher
          /\ pub'[p].pc # "idle" => pub[p].pc # "idle"
          /\ pub'[p].on # None => pub'[p].pc = "waiting"
    <3> SUFFICES ASSUME NEW p \in Publishers
                 PROVE  /\ pub'[p].content = pub[p].content /\ pub'[p] \in Publisher
                        /\ pub'[p].pc # "idle" => pub[p].pc # "idle"
                        /\ pub'[p].on # None => pub'[p].pc = "waiting"
      OBVIOUS
    <3>1. pub[p] \in Publisher /\ (pub[p].on # None => pub[p].pc = "waiting") /\ r # None
      BY DailyReviewAssumption DEF TypeOK, CarriesContent
    <3>2. \/ pub'[p] = pub[p]
          \/ pub[p].on = r /\ pub'[p] = [pub[p] EXCEPT !.pc = "retry", !.on = None]
          \/ pub[p].on = r /\ pub'[p] = [pub[p] EXCEPT !.pc = "idle", !.on = None, !.ok = TRUE]
      BY <1>10 DEF Answer
    <3> QED BY <3>1, <3>2 DEF Publisher
  <2>3. pub' \in [Publishers -> Publisher]
    BY <2>2, <1>10 DEF Answer
  <2>4. /\ mutex' \in [Instances -> Requests \cup {None}]
        /\ \A i \in Instances : mutex'[i] # None => mutex'[i] = mutex[i] /\ mutex'[i] # r
    BY <2>1 DEF TypeOK, HolderServed
  <2> QED BY <2>1, <2>2, <2>3, <2>4, FreeStep DEF History!HNext
<1> QED BY <1>3, <1>4, <1>5, <1>6, <1>8, <1>9, <1>10 DEF Serve

-----------------------------------------------------------------------------
LEMMA PublishStep ==
  ASSUME IInv, NEW p \in Publishers, Publish(p)
  PROVE  IInv' /\ [History!HNext]_History!hvars
<1>1. pub[p] \in Publisher /\ TypeOK /\ (pub[p].pc # "idle" => pub[p].content \in Contents)
  BY DEF IInv, TypeOK, CarriesContent
<1>2. CASE \E r \in Requests, c \in Contents : Push(p, r, c)
  <2>1. PICK r \in Requests, c \in Contents : Send(p, r, c, 1)
    BY <1>2 DEF Push
  <2> QED BY <2>1, SendStep DEF History!HNext
<1>3. CASE \E r \in Requests : Resend(p, r)
  <2>1. PICK r \in Requests : Resend(p, r)
    BY <1>3
  <2>2. pub[p].content \in Contents /\ pub[p].tries + 1 \in Nat
    BY <1>1, <2>1 DEF Resend, Publisher
  <2> QED BY <2>1, <2>2, SendStep DEF Resend, History!HNext
<1>4. CASE Timeout(p) \/ GiveUp(p)
  <2>1. /\ UNCHANGED <<report, revisions, mutex, req>>
        /\ \/ pub' = [pub EXCEPT ![p] = [pub[p] EXCEPT !.pc = "retry", !.on = None]]
              /\ pub[p].pc = "waiting"
           \/ pub' = [pub EXCEPT ![p] = [pub[p] EXCEPT !.pc = "idle"]]
              /\ pub[p].pc = "retry"
    BY <1>4 DEF Timeout, GiveUp
  <2>2. /\ [pub[p] EXCEPT !.pc = "retry", !.on = None] \in Publisher
        /\ [pub[p] EXCEPT !.pc = "idle"] \in Publisher
    BY <1>1 DEF Publisher
  <2>3. \A q \in Publishers : pub[q].on # None => pub[q].pc = "waiting"
    BY DEF IInv, CarriesContent
  <2>4. pub' \in [Publishers -> Publisher]
    BY <1>1, <2>1, <2>2 DEF TypeOK
  <2>5. \A q \in Publishers : q # p => pub'[q] = pub[q]
    BY <1>1, <2>1 DEF TypeOK
  <2>6. \/ /\ pub'[p] = [pub[p] EXCEPT !.pc = "retry", !.on = None]
           /\ pub[p].pc = "waiting"
        \/ pub'[p] = [pub[p] EXCEPT !.pc = "idle"] /\ pub[p].pc = "retry"
    BY <1>1, <2>1 DEF TypeOK
  <2>7. /\ pub'[p].content = pub[p].content
        /\ pub'[p].pc # "idle" => pub[p].pc # "idle"
        /\ pub'[p].on # None => pub'[p].pc = "waiting"
    BY <1>1, <2>3, <2>6 DEF Publisher
  <2> QED BY <2>1, <2>3, <2>4, <2>5, <2>7, PublisherStep
<1> QED BY <1>2, <1>3, <1>4 DEF Publish

LEMMA LoseStep ==
  ASSUME IInv, NEW r \in Requests, Lose(r)
  PROVE  IInv' /\ History!Forget(r)
<1>1. /\ mutex' \in [Instances -> Requests \cup {None}]
      /\ pub' \in [Publishers -> Publisher]
      /\ \A p \in Publishers : pub[p].on # None => pub[p].pc = "waiting"
      /\ \A i \in Instances : mutex'[i] # None => mutex'[i] = mutex[i] /\ mutex'[i] # r
  BY DEF Lose, IInv, TypeOK, HolderServed, CarriesContent
<1>2. /\ req[r].pc # "none" /\ req' = [req EXCEPT ![r] = NoRequest]
      /\ UNCHANGED <<report, revisions, pub>>
  BY DEF Lose
<1> QED BY <1>1, <1>2, FreeStep

LEMMA CrashStep ==
  ASSUME IInv, NEW i \in Instances, Crash(i)
  PROVE  IInv' /\ \E r \in Requests : History!Forget(r)
<1> DEFINE r == mutex[i]
<1>1. /\ r \in Requests /\ req[r].pc # "none" /\ r # None
      /\ mutex' = [mutex EXCEPT ![i] = None] /\ req' = [req EXCEPT ![r] = NoRequest]
      /\ UNCHANGED <<report, revisions>>
  BY DailyReviewAssumption DEF Crash, IInv, TypeOK, HolderServed
<1>2. /\ mutex' \in [Instances -> Requests \cup {None}]
      /\ \A j \in Instances : mutex'[j] # None => mutex'[j] = mutex[j] /\ mutex'[j] # r
  BY <1>1 DEF IInv, TypeOK, HolderServed
<1>3. pub' = [p \in Publishers |-> IF pub[p].on = r THEN [pub[p] EXCEPT !.pc = "retry", !.on = None]
                                                    ELSE pub[p]]
  BY DEF Crash
<1>4. r # None
  BY <1>1
<1> HIDE DEF r
<1>5. \A p \in Publishers :
        /\ pub'[p].content = pub[p].content /\ pub'[p] \in Publisher
        /\ pub'[p].pc # "idle" => pub[p].pc # "idle"
        /\ pub'[p].on # None => pub'[p].pc = "waiting"
  <2> SUFFICES ASSUME NEW p \in Publishers
               PROVE  /\ pub'[p].content = pub[p].content /\ pub'[p] \in Publisher
                      /\ pub'[p].pc # "idle" => pub[p].pc # "idle"
                      /\ pub'[p].on # None => pub'[p].pc = "waiting"
    OBVIOUS
  <2>1. pub[p] \in Publisher /\ (pub[p].on # None => pub[p].pc = "waiting")
    BY DEF IInv, TypeOK, CarriesContent
  <2>2. \/ pub'[p] = pub[p]
        \/ pub[p].on = r /\ pub'[p] = [pub[p] EXCEPT !.pc = "retry", !.on = None]
    BY <1>3
  <2> QED BY <1>4, <2>1, <2>2 DEF Publisher
<1>6. pub' \in [Publishers -> Publisher]
  BY <1>3, <1>5
<1> QED BY <1>1, <1>2, <1>5, <1>6, FreeStep

LEMMA DailyNext == IInv /\ [Next]_vars => IInv' /\ [History!HNext]_History!hvars
<1> SUFFICES ASSUME IInv, [Next]_vars PROVE IInv' /\ [History!HNext]_History!hvars
  OBVIOUS
<1>1. CASE \E p \in Publishers : Publish(p)
  BY <1>1, PublishStep
<1>2. CASE \E r \in Requests : Arrive(r)
  BY <1>2, EnterAction DEF Arrive
<1>3. CASE \E r \in Requests : Serve(r)
  BY <1>3, ServeStep
<1>4. CASE \E r \in Requests : Lose(r)
  BY <1>4, LoseStep DEF History!HNext
<1>5. CASE \E i \in Instances : Crash(i)
  BY <1>5, CrashStep DEF History!HNext
<1>6. CASE UNCHANGED vars
  <2>1. UNCHANGED <<report, revisions, mutex, req, pub>>
    BY <1>6 DEF vars
  <2>2. Versions' = Versions /\ Outcome' = Outcome
    BY <2>1 DEF Versions, Outcome
  <2> QED BY <2>1, <2>2 DEF IInv, TypeOK, WriteDiffers, CarriesContent, HolderServed,
             NoRepeatedVersion, NothingReplaced, ConflictPaidFor, History!hvars
<1> QED BY <1>1, <1>2, <1>3, <1>4, <1>5, <1>6 DEF Next

LEMMA DailyInvariant == Spec => []IInv
BY DailyInit, DailyNext, PTL DEF Spec

-----------------------------------------------------------------------------
\* Type correctness, for any numbers of publishers, instances and requests.
THEOREM DailyTypes == Spec => []TypeOK
<1>1. IInv => TypeOK
  BY DEF IInv
<1> QED BY <1>1, DailyInvariant, PTL

\* Save implements the promised history: every request takes effect at once
\* or not at all, no replaced version is lost, and the answer says what
\* happened, whatever the retries, crashes and lost messages.
THEOREM DailyKeepsHistory == Spec => KeepsHistory
<1>1. Init => History!HInit
  BY DEF Init, History!HInit, Outcome, NoRequest
<1> QED BY <1>1, DailyInit, DailyNext, DailyInvariant, PTL DEF Spec, KeepsHistory, History!HSpec

\* No version follows itself in the history: a replay adds no revision.
THEOREM DailyNoRepeat == Spec => []NoRepeatedVersion
<1>1. IInv => NoRepeatedVersion
  BY DEF IInv
<1> QED BY <1>1, DailyInvariant, PTL

\* A request has met at most as many conflicts as others wrote versions
\* since it was sent.
THEOREM DailyContention == Spec => []FailsOnlyUnderContention
<1>1. IInv => FailsOnlyUnderContention
  BY VersionsNat DEF IInv, TypeOK, Request, ConflictPaidFor, FailsOnlyUnderContention
<1> QED BY <1>1, DailyInvariant, PTL

-----------------------------------------------------------------------------
(* With one instance the mutex keeps everybody else out between the read   *)
(* and the write.                                                          *)
Alone ==
  \A r \in Requests :
    /\ req[r].pc \in {"read", "write"} => \E i \in Instances : mutex[i] = r
    /\ req[r].pc = "write" => req[r].seen = report
    /\ req[r].pc = "done" => req[r].result # "failed"

LEMMA AloneStep ==
  ASSUME NEW one, Instances = {one}, IInv, Alone, [Next]_vars
  PROVE  Alone'
<1>1. /\ TypeOK /\ None \notin Requests
      /\ \A r \in Requests : req[r].pc \in {"read", "write"} => mutex[one] = r
      /\ mutex[one] # None => req[mutex[one]].pc \in {"read", "write"}
  BY DailyReviewAssumption DEF IInv, Alone, HolderServed
<1>2. ASSUME NEW p \in Publishers, Publish(p) PROVE Alone'
  <2>1. CASE \E r \in Requests, c \in Contents, n \in Int : Send(p, r, c, n)
    <3>1. PICK r \in Requests, c \in Contents, n \in Int : Send(p, r, c, n)
      BY <2>1
    <3>2. /\ req'[r].pc = "sent" /\ UNCHANGED <<report, mutex>>
          /\ \A q \in Requests : q # r => req'[q] = req[q]
      BY <1>1, <3>1 DEF Send, TypeOK, NoRequest
    <3> QED BY <3>2 DEF Alone
  <2>2. CASE UNCHANGED <<report, mutex, req>>
    BY <2>2 DEF Alone
  <2>3. /\ Timeout(p) \/ GiveUp(p) => UNCHANGED <<report, mutex, req>>
        /\ \A r \in Requests, c \in Contents : Push(p, r, c) => Send(p, r, c, 1)
    BY DEF Timeout, GiveUp, Push
  <2>4. ASSUME NEW r \in Requests, Resend(p, r)
        PROVE  \E c \in Contents, n \in Int : Send(p, r, c, n)
    <3>1. pub[p].content \in Contents /\ pub[p].tries + 1 \in Int
      BY <2>4 DEF Resend, IInv, CarriesContent, TypeOK, Publisher
    <3> QED BY <2>4, <3>1 DEF Resend
  <2> QED BY <1>2, <2>1, <2>2, <2>3, <2>4 DEF Publish
<1>3. ASSUME NEW r \in Requests, NEW i \in Instances, Enter(r, i) PROVE Alone'
  <2>1. /\ req'[r].pc = "read" /\ mutex'[one] = r /\ mutex[one] = None /\ report' = report
        /\ \A q \in Requests : q # r => req'[q] = req[q]
    BY <1>1, <1>3 DEF Enter, TypeOK
  <2> QED BY <1>1, <2>1 DEF Alone
<1>4. ASSUME NEW r \in Requests, Serve(r) PROVE Alone'
  <2>1. req[r].pc = "write" => req[r].seen = report
    BY DEF Alone
  <2>2. CASE Answer(r)
    <3>1. /\ req'[r].pc = "none" /\ UNCHANGED <<report, mutex>>
          /\ \A q \in Requests : q # r => req'[q] = req[q]
      BY <1>1, <2>2 DEF Answer, TypeOK, NoRequest
    <3> QED BY <3>1 DEF Alone
  <2>3. CASE Read(r)
    <3>1. /\ req[r].pc = "read" /\ req'[r].pc = "write" /\ req'[r].seen = report
          /\ UNCHANGED <<report, mutex>> /\ \A q \in Requests : q # r => req'[q] = req[q]
      BY <1>1, <2>3 DEF Read, TypeOK, Request
    <3> QED BY <3>1 DEF Alone
  <2>4. CASE Unchanged(r) \/ Create(r) \/ Update(r)
    <3>1. PICK result \in {"created", "updated", "unchanged"} : Return(r, result)
      BY <2>4 DEF Unchanged, Create, Update
    <3>2. /\ req'[r].pc = "done" /\ req'[r].result = result
          /\ \A q \in Requests : q # r => req'[q] = req[q]
      BY <1>1, <3>1 DEF Return, TypeOK, Request
    <3>3. req[r].pc \in {"read", "write"}
      BY <2>4 DEF Unchanged, Create, Update
    <3>4. \A q \in Requests : q # r => req'[q].pc \notin {"read", "write"}
      BY <1>1, <3>2, <3>3
    <3> QED BY <3>1, <3>2, <3>4 DEF Alone
  <2>5. ~ Conflict(r) /\ ~ Exhaust(r)
    BY <2>1 DEF Conflict, Exhaust
  <2> QED BY <1>4, <2>2, <2>3, <2>4, <2>5 DEF Serve
<1>5. ASSUME NEW r \in Requests, Lose(r) PROVE Alone'
  <2>1. /\ req'[r].pc = "none" /\ UNCHANGED <<report, mutex>>
        /\ \A q \in Requests : q # r => req'[q] = req[q]
    BY <1>1, <1>5 DEF Lose, TypeOK, NoRequest
  <2> QED BY <2>1 DEF Alone
<1>6. ASSUME NEW i \in Instances, Crash(i) PROVE Alone'
  <2>1. i = one /\ mutex[one] \in Requests
    BY <1>1, <1>6 DEF Crash, TypeOK
  <2>2. /\ req'[mutex[one]].pc = "none" /\ report' = report
        /\ \A q \in Requests : q # mutex[one] => req'[q] = req[q]
    BY <1>1, <1>6, <2>1 DEF Crash, TypeOK, NoRequest
  <2> QED BY <1>1, <2>1, <2>2 DEF Alone
<1>7. CASE UNCHANGED vars
  BY <1>7 DEF vars, Alone
<1> QED BY <1>2, <1>3, <1>4, <1>5, <1>6, <1>7 DEF Next, Arrive

\* On a deployment with a single instance no save ever runs out of attempts, as long as
\* the database has no error.
THEOREM DailySingleInstance ==
  ASSUME NEW one, Instances = {one}
  PROVE  Spec => []SingleInstanceNeverFails
<1>1. Init => Alone
  BY DEF Init, Alone, NoRequest
<1>2. IInv /\ Alone /\ [Next]_vars => Alone'
  BY AloneStep
<1>3. Alone => SingleInstanceNeverFails
  BY DEF Alone, SingleInstanceNeverFails
<1> QED BY <1>1, <1>2, <1>3, DailyInvariant, PTL DEF Spec
=============================================================================
