----------------------------- MODULE UploadOutbox -----------------------------
(***************************************************************************)
(* The durable HTTP outbox: the SQLite upload ledger (upload_store.rs), the *)
(* uploader thread, its sink, its administration facade and its retention   *)
(* authority (upload.rs), and the order in which a recording epoch starts   *)
(* and stops them (lib.rs), with crashes, lost answers, operator edits of   *)
(* the capture directory and wall-clock corrections.                        *)
(*                                                                          *)
(* The publication and store mutexes make every ledger operation atomic, so *)
(* each is one action.  The wake channel is left out: the uploader's idle   *)
(* wait never exceeds MAX_IDLE_POLL, so a lost or a coalesced wake costs    *)
(* time and no behaviour.                                                   *)
(***************************************************************************)
EXTENDS Naturals, FiniteSets

CONSTANTS
    Artifacts,      \* generated files of the capture directory
    Movies,         \* those whose name is a function of the day (timelapse.rs)
    Contents,       \* SHA-256 digests (with their sizes)
    Auths,          \* authorization fingerprints
    None,           \* no file, no authorization, no claim
    RetryDelays,    \* retry delays, in clock units
    Horizon,        \* bound: retryable failures happen before this time
    MaxAttempts,    \* bound: claims of one row
    MaxDisturbances,\* bound: crashes, faults, operator edits, clock corrections
    MaxConfirms     \* bound: requeue requests an operator confirms

ASSUME OutboxAssumption ==
    /\ Movies \subseteq Artifacts
    /\ None \notin Artifacts \cup Contents \cup Auths
    /\ RetryDelays \subseteq Nat
    /\ Horizon \in Nat /\ MaxAttempts \in Nat
    /\ MaxDisturbances \in Nat /\ MaxConfirms \in Nat

VARIABLES
    files,      \* bytes of each artifact on disk, or None
    receipt,    \* bytes each artifact was last published with, or None
    done,       \* movies whose day is marked finished
    activated,  \* the ledger exists
    auth,       \* upload_metadata.authorization_sha256
    pre,        \* upload_preactivation_artifacts
    job,        \* upload_jobs, by artifact path
    nextId,     \* the next row id
    phase,      \* where the recording epoch stands
    inflight,   \* published by this process, not yet recorded
    scan,       \* reconciliation's eligible paths, not yet recorded
    stop,       \* the shared stop flag
    worker,     \* the uploader thread's position
    claim,      \* the uploader's ClaimedUpload and the outcome of its request
    classified, \* UploadRetentionAuthority.classified
    now,        \* the wall clock
    disturbances, \* environment budget spent
    confirmed,  \* requeue requests <<artifact, job revision>> operators sent
    received,   \* bodies the endpoint accepted: <<artifact, bytes, account>>
    reclaimed,  \* what retention deleted: <<artifact, bytes, had a row>>
    owner       \* account in force at an artifact's first publication

disk == <<files, receipt, done>>
ledger == <<activated, auth, pre, job, nextId>>
threads == <<inflight, stop, worker, claim, classified>>
ghosts == <<received, reclaimed, owner>>
vars == <<disk, ledger, phase, scan, threads, now, disturbances, confirmed, ghosts>>

-----------------------------------------------------------------------------
(* The row of one artifact. *)

LiveStates == {"pending", "in_progress", "retrying"}
UploadState == LiveStates \cup {"completed", "permanently_failed"}

\* "none" stands for the absence of a row; next is next_attempt_at_ms, 0 for
\* NULL; id is the rowid that breaks ties between equal due times.
Row == [state : UploadState \cup {"none"}, id : Nat, attempt : Nat, next : Nat,
        created : Nat, rev : Nat, requeues : Nat,
        sha : Contents \cup {None}, binding : Auths \cup {None}]

NoRow == [state |-> "none", id |-> 0, attempt |-> 0, next |-> 0, created |-> 0,
          rev |-> 0, requeues |-> 0, sha |-> None, binding |-> None]

Recorded(a) == job[a].state # "none"
Live(a) == job[a].state \in LiveStates

NewRow(sha) ==
    [state |-> "pending", id |-> nextId, attempt |-> 0, next |-> 0, created |-> now,
     rev |-> 1, requeues |-> 0, sha |-> sha, binding |-> auth]

\* Every UPDATE of a row moves its revision by exactly one.
Moved(row, state) == [row EXCEPT !.state = state, !.next = 0, !.rev = @ + 1]

Claimed(row) == [Moved(row, "in_progress") EXCEPT !.attempt = @ + 1]
Retrying(row, deadline) == [Moved(row, "retrying") EXCEPT !.next = deadline]
\* Seeded fault: a requeue starts the attempt numbers again.
RequeuedAfresh(row) == [Moved(row, "pending") EXCEPT !.requeues = @ + 1, !.attempt = 0]
Requeued(row) == [Moved(row, "pending") EXCEPT !.requeues = @ + 1]
\* Seeded fault: interrupted rows stay in progress.
RecoveredNothing(row) == row
Recovered(row) == IF row.state = "in_progress" THEN Moved(row, "pending") ELSE row

\* COALESCE(next_attempt_at_ms, created_at_ms)
Due(row) == IF row.state = "retrying" THEN row.next ELSE row.created

\* The row claim_due selects: due, and first by due time, then by id.
IsNextDue(a) ==
    LET Claimable == {b \in Artifacts : /\ job[b].state \in {"pending", "retrying"}
                                        /\ Due(job[b]) <= now}
    IN  /\ a \in Claimable
        /\ \A b \in Claimable :
              \/ Due(job[a]) < Due(job[b])
              \/ Due(job[a]) = Due(job[b]) /\ job[a].id <= job[b].id

-----------------------------------------------------------------------------
NoClaim == [artifact |-> None, attempt |-> 0, sha |-> None, outcome |-> "none"]
Claim == [artifact : Artifacts \cup {None}, attempt : Nat, sha : Contents \cup {None},
          outcome : {"none", "success", "retry", "permanent"}]

\* An UploadRetentionBinding; "protected" artifacts are never candidates.
Protected == [kind |-> "protected", rev |-> 0, sha |-> None]
Binding == [kind : {"protected", "completed", "preactivation"}, rev : Nat,
            sha : Contents \cup {None}]

Init ==
    /\ files = [a \in Artifacts |-> None]
    /\ receipt = [a \in Artifacts |-> None]
    /\ done = {}
    /\ activated = FALSE
    /\ auth = None
    /\ pre = {}
    /\ job = [a \in Artifacts |-> NoRow]
    /\ nextId = 1
    /\ phase = "down"
    /\ inflight = {}
    /\ scan = {}
    /\ stop = FALSE
    /\ worker = "off"
    /\ claim = NoClaim
    /\ classified = [a \in Artifacts |-> Protected]
    /\ now = 0
    /\ disturbances = 0
    /\ confirmed = {}
    /\ received = {}
    /\ reclaimed = {}
    /\ owner = [a \in Artifacts |-> None]

Disturb ==
    /\ disturbances < MaxDisturbances
    /\ disturbances' = disturbances + 1

-----------------------------------------------------------------------------
(* Starting an epoch: open, recover, reconcile, serve. *)

\* A regular generated file that is neither a job nor preactivation history.
CrashGap(a) == files[a] # None /\ a \notin pre /\ ~Recorded(a)

\* Seeded fault: rotation looks at the rows only.
RotationRefusedByRows == \E a \in Artifacts : Live(a)

\* rotate_authorization_if_drained's refusal: a different account may not take
\* over live rows, nor files that still have to be reconciled.
RotationRefused == \E a \in Artifacts : Live(a) \/ CrashGap(a)

\* UploadStore::open up to the authorization check.  A refused authorization
\* leaves everything as it was: no step.
Open(f) ==
    /\ phase = "down"
    /\ activated /\ f # auth => ~RotationRefused
    /\ activated' = TRUE
    /\ auth' = f
    /\ pre' = IF activated THEN pre ELSE {a \in Artifacts : files[a] # None}
    /\ phase' = "opened"
    /\ UNCHANGED <<disk, job, nextId, scan, threads, now, disturbances, confirmed, ghosts>>

\* recover_interrupted_jobs, its own transaction.
RecoverInterruptedJobs ==
    /\ phase = "opened"
    /\ job' = [a \in Artifacts |-> Recovered(job[a])]
    /\ phase' = "recovered"
    /\ UNCHANGED <<disk, activated, auth, pre, nextId, scan, threads, now, disturbances,
                   confirmed, ghosts>>

\* Seeded fault: the start does not look for unrecorded files.
ReconcileScanSkipped ==
    /\ phase = "recovered"
    /\ scan' = {}
    /\ phase' = "reconciling"
    /\ UNCHANGED <<disk, ledger, threads, now, disturbances, confirmed, ghosts>>

\* reconcile_capture_directory reads the directory once, then records the
\* eligible paths one transaction at a time.
ReconcileScan ==
    /\ phase = "recovered"
    /\ scan' = {a \in Artifacts : CrashGap(a)}
    /\ phase' = "reconciling"
    /\ UNCHANGED <<disk, ledger, threads, now, disturbances, confirmed, ghosts>>

Insert(a) ==
    /\ job' = [job EXCEPT ![a] = NewRow(files[a])]
    /\ nextId' = nextId + 1

\* A path that vanished since the scan fails the whole start.
ReconcileRecord(a) ==
    /\ phase = "reconciling"
    /\ a \in scan
    /\ IF files[a] = None
       THEN /\ scan' = {} /\ phase' = "down"
            /\ UNCHANGED <<job, nextId>>
       ELSE /\ Insert(a)
            /\ scan' = scan \ {a}
            /\ UNCHANGED phase
    /\ UNCHANGED <<disk, activated, auth, pre, threads, now, disturbances, confirmed, ghosts>>

\* The uploader thread, its sink, the administration facade and the retention
\* worker come up.
Serve ==
    /\ phase = "reconciling"
    /\ scan = {}
    /\ phase' = "running"
    /\ stop' = FALSE
    /\ worker' = "poll"
    /\ UNCHANGED <<disk, ledger, scan, inflight, claim, classified, now, disturbances,
                   confirmed, ghosts>>

\* An epoch with uploads disabled: no ledger is opened.
StartDisabled ==
    /\ phase = "down"
    /\ Disturb
    /\ phase' = "disabled"
    /\ UNCHANGED <<disk, ledger, scan, threads, now, confirmed, ghosts>>

-----------------------------------------------------------------------------
(* Publishing artifacts and recording them. *)

\* A still or a segment has a session nonce in its name, so its path is used
\* once; a day's movie is encoded again while the day is not marked finished.
MayPublish(a) == IF a \in Movies THEN a \notin done ELSE receipt[a] = None

\* The artifact is renamed into place; recording it is a later step.
Publish(a, bytes) ==
    /\ phase \in {"running", "disabled"}
    /\ MayPublish(a)
    /\ files[a] = None
    /\ a \notin inflight
    /\ files' = [files EXCEPT ![a] = bytes]
    /\ receipt' = [receipt EXCEPT ![a] = bytes]
    /\ inflight' = inflight \cup {a}
    /\ owner' = IF receipt[a] = None THEN [owner EXCEPT ![a] = auth] ELSE owner
    /\ UNCHANGED <<done, ledger, phase, scan, stop, worker, claim, classified, now,
                   disturbances, confirmed, received, reclaimed>>

\* finish_day_with finds the movie of an unfinished day already published.
ReofferMovie(a) ==
    /\ phase \in {"running", "disabled"}
    /\ a \in Movies \ done
    /\ a \notin inflight
    /\ files[a] # None
    /\ files[a] = receipt[a]
    /\ inflight' = inflight \cup {a}
    /\ UNCHANGED <<disk, ledger, phase, scan, stop, worker, claim, classified, now,
                   disturbances, confirmed, ghosts>>

\* A path may be recorded again only with the identity it already has.
RecordRefused(a) == \/ files[a] = None
                    \/ Recorded(a) /\ job[a].sha # files[a]

\* UploadSink::try_enqueue.  An error signals stop; a stopped worker is reported
\* to the publisher, which then leaves its day unfinished.
TryEnqueue(a) ==
    /\ phase = "running"
    /\ a \in inflight
    /\ inflight' = inflight \ {a}
    /\ IF RecordRefused(a)
       THEN /\ stop' = TRUE
            /\ UNCHANGED <<job, nextId, done>>
       ELSE /\ IF Recorded(a) THEN UNCHANGED <<job, nextId>> ELSE Insert(a)
            /\ done' = IF a \in Movies /\ ~stop THEN done \cup {a} ELSE done
            /\ UNCHANGED stop
    /\ UNCHANGED <<files, receipt, activated, auth, pre, phase, scan, worker, claim,
                   classified, now, disturbances, confirmed, ghosts>>

\* try_enqueue fails on the clock, SQLite, a lock or reading the file.
TryEnqueueFails(a) ==
    /\ phase = "running"
    /\ a \in inflight
    /\ Disturb
    /\ inflight' = inflight \ {a}
    /\ stop' = TRUE
    /\ UNCHANGED <<disk, ledger, phase, scan, worker, claim, classified, now, confirmed, ghosts>>

\* With uploads disabled there is no sink to record with.
FinishLocal(a) ==
    /\ phase = "disabled"
    /\ a \in inflight
    /\ inflight' = inflight \ {a}
    /\ done' = IF a \in Movies THEN done \cup {a} ELSE done
    /\ UNCHANGED <<files, receipt, ledger, phase, scan, stop, worker, claim, classified, now,
                   disturbances, confirmed, ghosts>>

-----------------------------------------------------------------------------
(* The uploader thread: upload_loop. *)

\* The loop top sees stop and returns.
WorkerExit ==
    /\ worker = "poll"
    /\ stop
    /\ worker' = "off"
    /\ UNCHANGED <<disk, ledger, phase, scan, inflight, stop, claim, classified, now,
                   disturbances, confirmed, ghosts>>

\* claim_and_publish.  A row bound to another account is an error, and the
\* thread's drop guard raises stop.
ClaimDue(a) ==
    /\ worker = "poll"
    /\ ~stop
    /\ IsNextDue(a)
    /\ job[a].attempt < MaxAttempts
    /\ IF job[a].binding = auth
       THEN /\ job' = [job EXCEPT ![a] = Claimed(job[a])]
            /\ claim' = [artifact |-> a, attempt |-> job[a].attempt + 1,
                         sha |-> job[a].sha, outcome |-> "none"]
            /\ worker' = "claimed"
            /\ UNCHANGED stop
       ELSE /\ worker' = "off"
            /\ stop' = TRUE
            /\ UNCHANGED <<job, claim>>
    /\ UNCHANGED <<disk, activated, auth, pre, nextId, phase, scan, inflight, classified, now,
                   disturbances, confirmed, ghosts>>

\* The fence of every outcome: the row is still this claim's.
StillClaimed(row, c) == row.state = "in_progress" /\ row.attempt = c.attempt

\* Stop was raised between the claim and the request: the claim is released and
\* its attempt number stays consumed.
ReleaseClaim ==
    /\ worker = "claimed"
    /\ stop
    /\ IF StillClaimed(job[claim.artifact], claim)
       THEN job' = [job EXCEPT ![claim.artifact] = Moved(@, "pending")]
       ELSE UNCHANGED job
    /\ worker' = "off"
    /\ claim' = NoClaim
    /\ UNCHANGED <<disk, activated, auth, pre, nextId, phase, scan, inflight, stop, classified,
                   now, disturbances, confirmed, ghosts>>

\* What can become of one request: whether the endpoint takes the body, and what
\* the uploader makes of the answer (classify_status; no answer is a retry).  The
\* endpoint says success only when it took the body.
Exchanges == [accepted : BOOLEAN, outcome : {"success", "retry", "permanent"}]
                \ {[accepted |-> FALSE, outcome |-> "success"]}

\* Seeded fault: the body is whatever the path holds.
SnapshotPresent == files[claim.artifact] # None

\* snapshot_claimed_artifact: only a private copy with the recorded identity is
\* sent.
SnapshotVerified == files[claim.artifact] = claim.sha

\* UreqTransport::upload.  No lock is held; retryable failures stop at Horizon.
\* Without a verified snapshot nothing is sent: a changed file is a permanent
\* failure, one that cannot be read a retry.
Upload ==
    /\ worker = "claimed"
    /\ ~stop
    /\ worker' = "answered"
    /\ \E x \in Exchanges :
          /\ x.accepted => SnapshotVerified
          /\ x.outcome = "retry" => now < Horizon
          /\ claim' = [claim EXCEPT !.outcome = x.outcome]
          /\ received' = IF x.accepted
                         THEN received \cup {<<claim.artifact, files[claim.artifact], auth>>}
                         ELSE received
    /\ UNCHANGED <<disk, ledger, phase, scan, inflight, stop, classified, now, disturbances,
                   confirmed, reclaimed, owner>>

Outcome(row, outcome, delay) ==
    CASE outcome = "success" -> Moved(row, "completed")
      [] outcome = "permanent" -> Moved(row, "permanently_failed")
      [] OTHER -> Retrying(row, now + delay)

\* persist_outcome_and_publish: the outcome is stored even when stop raced in.
\* A lost fence is an error, and the drop guard raises stop.
PersistOutcome(delay) ==
    /\ worker = "answered"
    /\ IF StillClaimed(job[claim.artifact], claim)
       THEN /\ job' = [job EXCEPT ![claim.artifact] = Outcome(@, claim.outcome, delay)]
            /\ worker' = IF stop THEN "off" ELSE "poll"
            /\ UNCHANGED stop
       ELSE /\ worker' = "off"
            /\ stop' = TRUE
            /\ UNCHANGED job
    /\ claim' = NoClaim
    /\ UNCHANGED <<disk, activated, auth, pre, nextId, phase, scan, inflight, classified, now,
                   disturbances, confirmed, ghosts>>

\* The thread returns an error (clock, SQLite, a poisoned lock) or panics; its
\* claim stays in the ledger and StopOnDrop raises stop.
WorkerFails ==
    /\ worker # "off"
    /\ Disturb
    /\ worker' = "off"
    /\ stop' = TRUE
    /\ claim' = NoClaim
    /\ UNCHANGED <<disk, ledger, phase, scan, inflight, classified, now, confirmed, ghosts>>

-----------------------------------------------------------------------------
(* The operator's requeue. *)

\* An operator lists a permanently failed row and confirms its requeue.  The
\* request names the revision that was listed.
ConfirmRequeue(a) ==
    /\ phase = "running"
    /\ job[a].state = "permanently_failed"
    /\ job[a].requeues < MaxConfirms
    /\ confirmed' = confirmed \cup {<<a, job[a].rev>>}
    /\ UNCHANGED <<disk, ledger, phase, scan, threads, now, disturbances, ghosts>>

\* Seeded fault: the requeue ignores the revision the operator saw.
RequeueAcceptedAtAnyRevision(a, rev) ==
    /\ job[a].state = "permanently_failed"
    /\ job[a].binding = auth
    /\ files[a] = job[a].sha

\* requeue_permanently_failed's conditions on the row and on the local file.
RequeueAccepted(a, rev) ==
    /\ job[a].state = "permanently_failed"
    /\ job[a].rev = rev
    /\ job[a].binding = auth
    /\ files[a] = job[a].sha

\* UploadAdmin::requeue, under the publication and store locks.  A request may
\* arrive late, or more than once; a refused one changes nothing.
Requeue(a, rev) ==
    /\ phase = "running"
    /\ <<a, rev>> \in confirmed
    /\ RequeueAccepted(a, rev)
    /\ job' = [job EXCEPT ![a] = Requeued(job[a])]
    /\ UNCHANGED <<disk, activated, auth, pre, nextId, phase, scan, threads, now, disturbances,
                   confirmed, ghosts>>

-----------------------------------------------------------------------------
(* Retention over the open ledger. *)

\* retention_snapshot: a row decides before the preactivation inventory does.
RetentionBinding(a) ==
    IF Recorded(a)
    THEN IF job[a].state = "completed"
         THEN [kind |-> "completed", rev |-> job[a].rev, sha |-> job[a].sha]
         ELSE Protected
    ELSE IF a \in pre THEN [kind |-> "preactivation", rev |-> 0, sha |-> None] ELSE Protected

\* classify_inventory, at the start of a sweep, replaces the previous one.
ClassifyInventory ==
    /\ phase = "running"
    /\ classified' = [a \in Artifacts |->
                        IF files[a] # None THEN RetentionBinding(a) ELSE Protected]
    /\ UNCHANGED <<disk, ledger, phase, scan, inflight, stop, worker, claim, now, disturbances,
                   confirmed, ghosts>>

\* Seeded fault: the preactivation branch does not look for a row again.
StillAuthorizedWithoutRow(a, b) ==
    \/ /\ b.kind = "completed"
       /\ job[a].state = "completed" /\ job[a].rev = b.rev /\ job[a].sha = b.sha
    \/ b.kind = "preactivation" /\ a \in pre

\* retention_still_authorized, under the publication and store locks.
StillAuthorized(a, b) ==
    \/ /\ b.kind = "completed"
       /\ job[a].state = "completed" /\ job[a].rev = b.rev /\ job[a].sha = b.sha
    \/ /\ b.kind = "preactivation"
       /\ a \in pre /\ ~Recorded(a)

\* delete_exact: the opened file must have the authorized digest, if there is one.
DeleteExact(a, b) == files[a] # None /\ (b.sha # None => files[a] = b.sha)

\* delete_if_still_authorized consumes the classification; whatever is not
\* deleted is retained.  The sweep's plan chooses the candidates (any of them).
Reclaim(a) ==
    /\ phase = "running"
    /\ classified[a] # Protected
    /\ classified' = [classified EXCEPT ![a] = Protected]
    /\ IF StillAuthorized(a, classified[a]) /\ DeleteExact(a, classified[a])
       THEN /\ files' = [files EXCEPT ![a] = None]
            /\ reclaimed' = reclaimed \cup {<<a, files[a], Recorded(a)>>}
       ELSE UNCHANGED <<files, reclaimed>>
    /\ UNCHANGED <<receipt, done, ledger, phase, scan, inflight, stop, worker, claim, now,
                   disturbances, confirmed, received, owner>>

\* The authority of an epoch with uploads disabled: everything is protected once
\* a ledger exists, and only plain local captures are reclaimable.
LocalOnly == ~activated

ReclaimLocal(a) ==
    /\ phase = "disabled"
    /\ LocalOnly
    /\ files[a] # None
    /\ files' = [files EXCEPT ![a] = None]
    /\ reclaimed' = IF activated THEN reclaimed \cup {<<a, files[a], Recorded(a)>>} ELSE reclaimed
    /\ UNCHANGED <<receipt, done, ledger, phase, scan, threads, now, disturbances, confirmed,
                   received, owner>>

-----------------------------------------------------------------------------
(* Ending an epoch, and the environment. *)

\* Writers are joined, then retention; administration is revoked; only then is
\* the uploader told to stop.
StopServices ==
    /\ phase = "running"
    /\ inflight = {}
    /\ IF stop THEN UNCHANGED disturbances ELSE Disturb
    /\ phase' = "closing"
    /\ stop' = TRUE
    /\ classified' = [a \in Artifacts |-> Protected]
    /\ UNCHANGED <<disk, ledger, scan, inflight, worker, claim, now, confirmed, ghosts>>

\* The uploader is joined and the ledger closes.
Closed ==
    /\ phase = "closing"
    /\ worker = "off"
    /\ phase' = "down"
    /\ stop' = FALSE
    /\ UNCHANGED <<disk, ledger, scan, inflight, worker, claim, classified, now, disturbances,
                   confirmed, ghosts>>

StopDisabled ==
    /\ phase = "disabled"
    /\ inflight = {}
    /\ phase' = "down"
    /\ UNCHANGED <<disk, ledger, scan, threads, now, disturbances, confirmed, ghosts>>

\* Process death at any point: the disk and the ledger survive.
Crash ==
    /\ phase # "down"
    /\ Disturb
    /\ phase' = "down"
    /\ inflight' = {}
    /\ scan' = {}
    /\ stop' = FALSE
    /\ worker' = "off"
    /\ claim' = NoClaim
    /\ classified' = [a \in Artifacts |-> Protected]
    /\ UNCHANGED <<disk, ledger, now, confirmed, ghosts>>

\* Someone removes, restores or replaces a published file.
EditFile(a, bytes) ==
    /\ Disturb
    /\ receipt[a] # None
    /\ bytes # files[a]
    /\ files' = [files EXCEPT ![a] = bytes]
    /\ owner' = [owner EXCEPT ![a] = None]
    /\ UNCHANGED <<receipt, done, ledger, phase, scan, threads, now, confirmed, received,
                   reclaimed>>

\* Time runs up to the horizon, and on to the last deadline set before it.
Tick ==
    /\ now < Horizon \/ \E a \in Artifacts : Live(a) /\ Due(job[a]) > now
    /\ now' = now + 1
    /\ UNCHANGED <<disk, ledger, phase, scan, threads, disturbances, confirmed, ghosts>>

\* The wall clock is corrected backwards.
ClockBack ==
    /\ now > 0
    /\ Disturb
    /\ now' = now - 1
    /\ UNCHANGED <<disk, ledger, phase, scan, threads, confirmed, ghosts>>

-----------------------------------------------------------------------------
StartStep ==
    \/ \E f \in Auths : Open(f)
    \/ RecoverInterruptedJobs
    \/ ReconcileScan
    \/ \E a \in Artifacts : ReconcileRecord(a)
    \/ Serve

WorkerStep ==
    \/ WorkerExit
    \/ \E a \in Artifacts : ClaimDue(a)
    \/ ReleaseClaim
    \/ Upload
    \/ \E d \in RetryDelays : PersistOutcome(d)

Next ==
    \/ StartStep
    \/ WorkerStep
    \/ StartDisabled
    \/ \E a \in Artifacts :
          \/ \E bytes \in Contents : Publish(a, bytes)
          \/ ReofferMovie(a)
          \/ TryEnqueue(a)
          \/ TryEnqueueFails(a)
          \/ FinishLocal(a)
          \/ ConfirmRequeue(a)
          \/ \E r \in confirmed : r[1] = a /\ Requeue(a, r[2])
          \/ Reclaim(a)
          \/ ReclaimLocal(a)
          \/ \E bytes \in Contents \cup {None} : EditFile(a, bytes)
    \/ ClassifyInventory
    \/ WorkerFails
    \/ StopServices
    \/ Closed
    \/ StopDisabled
    \/ Crash
    \/ Tick
    \/ ClockBack

\* The supervisor keeps starting the agent, each thread keeps running, an epoch
\* whose uploader stopped is torn down, and the clock advances.
Fairness ==
    /\ WF_vars(StartStep)
    /\ WF_vars(WorkerStep)
    /\ \A a \in Artifacts : WF_vars(TryEnqueue(a)) /\ WF_vars(FinishLocal(a))
    /\ WF_vars(stop /\ StopServices)
    /\ WF_vars(Closed)
    /\ WF_vars(StopDisabled)
    /\ WF_vars(Tick)

Spec == Init /\ [][Next]_vars
FairSpec == Spec /\ Fairness

-----------------------------------------------------------------------------
\* Every variable has its type: the rows, the claim and the classification keep
\* the shape the ledger schema and the Rust types give them.
TypeOK ==
    /\ files \in [Artifacts -> Contents \cup {None}]
    /\ receipt \in [Artifacts -> Contents \cup {None}]
    /\ done \subseteq Movies
    /\ activated \in BOOLEAN
    /\ auth \in Auths \cup {None}
    /\ pre \subseteq Artifacts
    /\ job \in [Artifacts -> Row]
    /\ nextId \in Nat
    /\ phase \in {"down", "opened", "recovered", "reconciling", "running", "closing", "disabled"}
    /\ inflight \subseteq Artifacts
    /\ scan \subseteq Artifacts
    /\ stop \in BOOLEAN
    /\ worker \in {"off", "poll", "claimed", "answered"}
    /\ claim \in Claim
    /\ classified \in [Artifacts -> Binding]
    /\ now \in Nat
    /\ disturbances \in Nat
    /\ confirmed \subseteq Artifacts \X Nat
    /\ received \subseteq Artifacts \X Contents \X Auths
    /\ reclaimed \subseteq Artifacts \X Contents \X BOOLEAN
    /\ owner \in [Artifacts -> Auths \cup {None}]

-----------------------------------------------------------------------------
(* What the outbox promises. *)

\* Retention deletes a captured file only when the endpoint accepted exactly
\* those bytes, or when the file predates the ledger and was never enqueued
\* (classify_inventory, delete_if_still_authorized, the disabled-epoch authority).
AcknowledgedBeforeReclaim ==
    \A r \in reclaimed :
        IF r[3] THEN \E f \in Auths : <<r[1], r[2], f>> \in received ELSE r[1] \in pre

\* A row is completed only if the endpoint accepted the recorded bytes for the
\* account the row is bound to, whatever answers were lost or claims re-run.
CompletedWasReceived ==
    \A a \in Artifacts :
        job[a].state = "completed" => <<a, job[a].sha, job[a].binding>> \in received

\* An idempotency key never carries two bodies, and never goes to two accounts:
\* everything the endpoint ever accepted for a path is what its row records.
OneBodyPerKey ==
    \A r \in received : /\ Recorded(r[1])
                        /\ r[2] = job[r[1]].sha
                        /\ r[3] = job[r[1]].binding

\* Live rows belong to the account in force, so claim_due never meets the
\* delivery-binding error, however tokens rotate between runs.
LiveRowsAreCurrent == \A a \in Artifacts : Live(a) => job[a].binding = auth

\* The uploader's claim is the only row in progress while the uploader runs, so
\* no outcome is ever refused by its own fence and no row is stranded.
ClaimIsExclusive ==
    /\ worker \in {"claimed", "answered"} =>
          /\ claim.artifact \in Artifacts
          /\ StillClaimed(job[claim.artifact], claim)
    /\ worker # "off" =>
          \A a \in Artifacts : job[a].state = "in_progress" =>
              worker # "poll" /\ a = claim.artifact

\* A capture is delivered only to the account that was in force when it was
\* published, across crashes between publishing and recording and across token
\* rotation (files an operator edited by hand are excepted).
DeliveredToOwner ==
    \A r \in received : owner[r[1]] # None => r[3] = owner[r[1]]

\* One confirmation requeues a row at most once, however often or late the
\* request arrives.
RequeuedOncePerConfirmation ==
    \A a \in Artifacts : job[a].requeues <= Cardinality({r \in confirmed : r[1] = a})

\* What a step may do to a recorded row.
RowStep ==
    \A a \in Artifacts : Recorded(a) =>
        /\ job'[a].attempt >= job[a].attempt
        /\ job'[a].sha = job[a].sha /\ job'[a].binding = job[a].binding
        /\ job[a].state = "completed" => job'[a] = job[a]

\* No claim, outcome, requeue, recovery or re-recording takes an attempt number
\* back (it is the fencing token), changes a row's identity or touches a
\* completed row.
RowHistory == [][RowStep]_vars

-----------------------------------------------------------------------------
(* The strengthening that makes the promises above inductive. *)

\* Where the threads of an epoch can be, and what its startup has established.
PhaseInv ==
    /\ activated <=> auth # None
    /\ phase \in {"opened", "recovered", "reconciling", "running", "closing"} => activated
    /\ ~activated => pre = {}
    /\ worker # "off" => phase \in {"running", "closing"}
    /\ scan # {} => phase = "reconciling"
    /\ \A a \in scan : ~Recorded(a)
    /\ phase \in {"recovered", "reconciling"} =>
          \A a \in Artifacts : job[a].state # "in_progress"

\* A recorded row has an identity, and its artifact was published.
RowInv ==
    \A a \in Artifacts :
        /\ Recorded(a) => job[a].sha \in Contents /\ job[a].binding \in Auths
        /\ Recorded(a) \/ files[a] # None \/ a \in pre => receipt[a] # None

\* What the uploader remembers agrees with the ledger and with the endpoint.
ClaimInv ==
    worker \in {"claimed", "answered"} =>
        /\ claim.artifact \in Artifacts
        /\ claim.sha = job[claim.artifact].sha
        /\ (worker = "answered" /\ claim.outcome = "success") =>
              <<claim.artifact, claim.sha, auth>> \in received

\* A capture whose owner is known is protected until it is recorded, and then
\* bound to its owner.
OwnerInv ==
    \A a \in Artifacts : owner[a] # None =>
        IF Recorded(a) THEN job[a].binding = owner[a] ELSE CrashGap(a) /\ owner[a] = auth

\* The inductive invariant: the promises above, and what startup, the claim and
\* the ownership of captures must keep so that every ledger operation preserves
\* them.
IndInv ==
    /\ PhaseInv /\ RowInv /\ ClaimInv /\ OwnerInv
    /\ ClaimIsExclusive /\ LiveRowsAreCurrent /\ OneBodyPerKey
    /\ CompletedWasReceived /\ AcknowledgedBeforeReclaim

\* A confirmation is spent when its row has moved past the revision it names, so
\* that RequeueAccepted refuses it; no row was requeued more often than that.
Spent(a) == {r \in confirmed : r[1] = a /\ r[2] < job[a].rev}
ConfirmInv ==
    /\ IsFiniteSet(confirmed)
    /\ \A a \in Artifacts : job[a].requeues <= Cardinality(Spent(a))

-----------------------------------------------------------------------------
(* Liveness, and a promise of the documentation the code does not keep. *)

\* Every file published after activation gets a row even if the process dies or
\* recording fails in between, unless an operator removes or replaces the file:
\* the next start's reconciliation finds it.
EveryCaptureIsRecorded ==
    \A a \in Artifacts : (owner[a] # None /\ CrashGap(a)) ~> (Recorded(a) \/ owner[a] = None)

\* Every live row reaches an outcome once retryable failures and disturbances
\* end: no claim, retry deadline or restart strands it.
EveryRowSettles == \A a \in Artifacts : Live(a) ~> ~Live(a)

\* "Reconciliation ignores ... preactivation inventory paths": the endpoint
\* never receives a file that was present when the ledger was activated.
PreactivationNotUploaded == \A r \in received : r[1] \notin pre

=============================================================================
