# TLA+ models of AutoPierCam

AutoPierCam is an unattended observatory camera for Windows: a tray host owns a
camera thread that captures stills and video, stores them in a directory it keeps
within quotas, uploads them over HTTP from a durable outbox, shows them in a Viewer
and a N.I.N.A. panel, and shares frames and daily movies with a companion service.
This directory holds TLA+ modules for the parts whose correctness depends on the order
of steps, TLC configurations that check them on small instances, and TLAPS proofs of
their safety properties for every instance.

    tlc -workers 2 -config MCUploadOutbox.cfg MCUploadOutbox
    tlc -workers 2 -config MCRetention.cfg MCRetention
    tlc -workers 2 -config MCCameraSupervisor.cfg CameraSupervisor
    tlc -workers 2 -config MCTimelapseDay.cfg TimelapseDay
    tlapm UploadOutbox_proofs.tla        # and likewise every other *_proofs module

`PROJECT.json` lists the runs, maps every definition to the lines it models, and
lists the hazards the properties are for.

## 1. Inventory

| Part | State it keeps | Operations | What is hard |
|---|---|---|---|
| Upload ledger, `upload_store.rs` | SQLite: metadata with the authorization fingerprint, preactivation inventory, one row per path with state, attempt, deadline, revision, digest, delivery binding | open/rotate, recover, reconcile, record, claim, release, outcome, requeue, list, retention snapshot and recheck | crash between rename and insert, crash in progress, token rotation, stale requeue, stale cursor |
| Uploader, `upload.rs` | claim, stop flag, wake channel, classification of the sweep | claim, send a verified copy, persist the outcome, back off, stop | lost answers, replaced files, stop between two steps |
| Ledger maintenance, `ledger_maintenance.rs` | lease file, archive and retired ledgers | migrate v3 to v4, archive, resume an archive | crash between backup, publication and removal; a live agent |
| Retention, `retention.rs` | one-slot wake channel, stop and suspension flags, the sweep in progress | plan, sweep, delete exactly, publish telemetry, stop with a final sweep | directory changes during a sweep, coalesced wakes, failed probes |
| Recording agent, `lib.rs` | control flags, settings in use, bounded writer queue, administration registry, shared monitor | start services in order, settle, capture, write, reload, stop in reverse order | stop order, full queue, lost reloads, calls that outlive an epoch |
| Video, `video.rs`, `native_video.rs` | private spool, encoder child | spool, finish segment, encode | storage pressure |
| Daily timelapse, `timelapse.rs` | sample cache, marker files of every window, movies | record, seal, encode, publish, deliver, clean | death between two markers, consent that changes, retention |
| Tray supervisor, `worker.rs` | three atomics, admission lock, command channel, intent, session | send, observe, join, retry, restart, shut down, watchdog | races of send with the loop, a hung owner, stale shared status |
| Preview, `preview.rs` of agent and tray, C# clients | session, latest-only queue, hub, connection tasks, picture and its age, leases | publish, encode, serve, reconnect, judge freshness | frames of an ended session, repeated frames, corrected clocks |
| Configuration and control pipe, `config_store.rs`, `ipc.rs`, `control_client.rs`, Viewer | file and revision, connection tasks, forms | get, replace, notify, shut down, edit, refresh | two writers, lost answers, mute clients at shutdown |
| Chatstronomy sharing, `service.rs`, `transport.rs` | settings and revision, credential, epoch, queued movie, outbox, snapshot | configure, pair, forget, offer, connect, send, chat rules | consent withdrawn while bytes are on their way |
| Camera driver and Regain worker | device handle, child process | open, frame, cancel, reset | native calls that do not return |

How the parts meet: the supervisor starts one camera thread, which runs recording
epochs. An epoch opens the ledger (or, without uploads, takes its lease), starts the
uploader, registers its administration facade, starts retention (whose authority is the
ledger when there is one), then video, timelapse and the still writer; it ends them in
the order writer, video, timelapse, retention, registration, uploader. Publishers rename a file
into place, record it through the upload sink and wake retention, in this order, and an
error in between ends them. Retention asks the
ledger, under the publication and store locks, whether a file may go, and the timelapse
markers, whether a movie waits for delivery. The camera thread reports through the
shared monitor, which the supervisor polls, and offers frames to the preview queue and
to sharing. Clients reach all of this over two pipes.

What makes each part correct:

- outbox: nothing is deleted before it was acknowledged; a completed row was really
  received; one key, one body, one account; no row or capture is stranded;
- maintenance: a ledger's content survives every crash, nothing unfinished is archived,
  nothing delivered is delivered again;
- retention: the plan is exact; capture goes on only within the quotas; no file is
  missed by the wake protocol, unless its publisher failed before it woke retention, and
  none by the last sweep;
- recording: no request, queued still or saved setting is lost; no administration call
  outlives its store; a shutdown ends;
- timelapse: a done movie shows every sample and is offered at most once; a window that
  ended is finished, unless a torn window directory makes every pass fail (finding 3);
- supervisor: one owner of the camera; no start after stop; pause, restart and
  capture requests survive faults; the host can always be ended;
- preview: nothing old is shown as live;
- settings: nobody overwrites what they have not seen, and capture follows the file;
- sharing: at the check that precedes a send, sharing is on, the device is paired and
  capture is in the session the image, snapshot or movie belongs to; of snapshots and
  movies also that their kind is allowed by the settings in force.

## 2. Modules

| Module | Models | Composes |
|---|---|---|
| `UploadOutbox` | ledger, uploader, sink, requeue, retention authority, epoch order | ledger + uploader + retention's deletions + publishers |
| `Retention` | plan, sweep, retention thread, writer, video spool | retention + publishers |
| `CameraSupervisor` | tray supervisor, clients, camera threads, watchdog | supervisor + agent lifecycle |
| `LedgerMaintenance` | lease, migration, archive, listing, the agent around them | maintenance + agent + operator |
| `LedgerCustody` | abstract: what maintenance promises about ledgers | implemented by `LedgerMaintenance` |
| `RecordingSession` | capture thread, writer, registry, control, reload | agent threads + clients |
| `PreviewStream` | queue, encoder, hub, preview pipe, reader, freshness, leases | agent + tray + C# clients |
| `TimelapseDay` | cache, worker, encoder, markers, delivery, sweep | timelapse + retention + sharing's consent |
| `ControlPipe` | configuration store, pipe server, Viewers, shutdown command, tray exit | store + tray + clients + capture |
| `SharingService` | settings, pairing, movie offers, Hub connection, Viewer draft | service + transport + Viewer + daily worker |
| `MCUploadOutbox`, `MCRetention`, `MCLedgerMaintenance`, `MCSharingService` | constants and symmetry for TLC | |
| `UploadOutbox_proofs`, `Retention_proofs`, `CameraSupervisor_proofs`, `LedgerMaintenance_proofs`, `RecordingSession_proofs`, `TimelapseDay_proofs`, `SharingService_proofs` | theorems about the module each extends | |
| `TrayPipes_proofs` | theorems about `ControlPipe` and `PreviewStream`, the tray's two pipes | |

Operators whose comment begins "Seeded fault" are plausible mistakes in the code
they stand beside; no specification uses them. Each property has one that breaks it
when put in the place of the faithful definition (`PROJECT.json`, "mutants"); an
invariant with several conjuncts often has one for more than one of them.

### UploadOutbox

`job` is the table of upload jobs, indexed by path, `pre` the activation inventory,
`auth` the fingerprint in the metadata, `phase` where the epoch stands, `inflight`
the files published and not yet recorded, `worker`/`claim` the uploader thread,
`classified` the retention authority's map. The publication and store mutexes make
every ledger operation atomic, so each is one action; the HTTP exchange holds no
lock and is a step of its own. Contents stand for digests, accounts for authorization
fingerprints. A row's `rev` is the revision the schema's triggers maintain. The wake channel is
left out because the idle wait is bounded by `MAX_IDLE_POLL`. `received`,
`reclaimed` and `owner` are history: what the endpoint took, what retention deleted,
and the account in force when a capture was first published.

The environment may crash the process, edit files, correct the clock backwards, fail
a thread, deliver a requeue late or twice, and lose an answer after the body was
taken. `MaxDisturbances` bounds these together. Someone who edits a file by hand
takes over its ownership (`owner` becomes `None`), since the ledger cannot know it.

### Retention

The plan is `plan_with_private_bytes` as a fold over the candidates, always with the
newest of them last, which is the code's loop over the sorted list; it is compared with
a declarative definition (`PlanIsExact`). A sweep deletes in the same order, the oldest
candidate first. A sweep is four kinds of steps (probe, inventory and
plan, one deletion at a time, publish) so that the writer and the video thread can
run between any two of them. `since` and `fresh` are history: bytes added since the
last inventory, and since the inventory behind the last published flag. Whether a
file may go is `guarded` here and decided in `UploadOutbox`. The policy of the epoch is
chosen in `Init` from `Policies`.

A publisher is between its file and its wake while it is in `pending`. The writer and
`finish_segment` return an error when the upload ledger refuses the file, or when the
uploader has stopped, and skip the wake (`PublisherFails`): their thread ends (`failed`),
the rest of its queue or its segment is gone with it, and the file is an orphan of the
wake protocol (`orphans`, history) that the next sweep finds. `PublisherFails` may also
come at any other point of the thread, for all its other errors. The daily worker, the
third publisher, is not here: its error leaves the window to its next pass, which
offers the file again and wakes retention.

### CameraSupervisor

`pc` walks one iteration of `supervise_camera_with`. A send is two steps (stores,
then enqueueing) under the admission lock: `sending` is the lock. Thread names are
reused, and a thread may hang, fail or panic at any point. `Snapshots` gives what
`AgentMonitor::snapshot` may return: the stored state, or Faulted when the owner
made no progress. Delays are a flag that `Elapse` raises. `reached` is history: the
thread itself has reported a capturing state. `Idle` never occurs, because the tray
runs without a frame limit. The calls to `SharingClient::invalidate` are in
`SharingService`; status events and logging are left out.

### LedgerMaintenance and LedgerCustody

`active` is the committed content of the ledger file, `base` that of its main file
without the write-ahead log, so that a death before a checkpoint leaves them apart;
`archive` and `retired` are the two files an archive leaves. `maint` walks the steps of
one command (`migrate_upload_ledger`, `archive_upload_ledger`), and `MaintenanceFails`
interrupts it between any two: a clean failure closes the connection, a death leaves the
log and the partial file. The agent before and after is modelled by what maintenance can
tell apart: opening, creating with an inventory, rotating, recording, settling,
requeueing, reclaiming, and holding the lease without a ledger. `list` is an operator
paging through `list_jobs` with its cursor while rows change. `owed` and `owner` are
history.

`LedgerCustody` says in two actions what an archive promises: a ledger is written until
it is archived, only a terminal one is archived, and an archived one never changes. The
refinement maps a ledger id to its retired content if there is one and to the active
content otherwise; every intermediate step of an archive is a stutter, and the rename
that retires the active file is the abstract archive.

### RecordingSession

`pc` is the capture thread in `run_agent_inner`, `run_recording_epoch`,
`wait_for_auto_settle` and `capture_loop`; the writer, each administration caller and the
clients are threads of their own. A save is two steps, the file and the request
to reload, so that the loop can read between them, and taking the reload flag and
reading the file are two steps of the loop. An epoch's end is join, revoke, drain, close,
each a step. The registry's lease count is the set of callers that hold the epoch.
`sent`, `saved`, `recorded`, `failed` and `lost` are history. Settings are a camera
layout, the upload switch and an interval: the three kinds of change the code treats
differently. A camera call that never returns is in `CameraSupervisor`.

### PreviewStream

The queue, the encoder, the hub with its change counter, the connection tasks of the
pipe server and one reader. The change counter is a flag per connection (`seen`). The
reader's pipe holds one frame. The age of a picture is the wall-clock age when it first
arrived plus monotonic time since; `skew` is the error of the wall clock until it is
corrected. The status the reader polls may be missing, old, or of another session. Leases
start and stop the reader. The Viewer's and the plugin's clients are the same
protocol and are one reader here; the map names the lines of both. `first` is history.

### TimelapseDay

`dir` is what the marker files of a window say, `movie` the published file, `wk` the
worker thread; between two steps the process may die and only `dir` and `movie` remain. No
two encodings have the same bytes (`gen`), so that a receipt can be of another file. The
default schedule and a shorter one, whose windows carry metadata and are delivered later,
may both have left windows, since a reload can change the schedule. A death while a window
of the shorter schedule gets its first sample leaves its directory bare, torn (the
temporary file of `window.json` and nothing else) or made (`RecordInterrupted`,
`LeftBehind`). `pending` skips a bare directory and fails at a torn one, having sealed
what it listed before (`ScanFails`); the next sample of the window makes it. A sweep takes
its inventory, reads the markers, and deletes, in three steps; a torn directory ends it.
Offers to sharing are counted in `hist`; what sharing does with one is in
`SharingService`.

### ControlPipe

A connection task reads, dispatches, replaces, notifies and replies in separate steps.
The revision of the file is its content (the code's is a digest). A Viewer has a
snapshot, a form and the two flags that forbid a save: stale and to be reviewed. A client
may time out while its request goes on, or connect and send nothing. Capture is reduced
to the configuration it runs with and the pending reload or restart. A task chooses between
these two when it dispatches a save, from the file as it is then, and the replacement
compares the file with the save's base later. When another save has changed the file at the
choice, and a second one restores the base before the replacement, the save goes through
with the choice made for the other file. Capture compares again: a reload that finds
another camera layout ends the attempt (`Reloaded`), and that is what `AgentFollowsFile` needs.

### SharingService

`lock` is the mutation lock with the commit its holder is in: cancel, save, and for a
forgotten device the deletion of the credential, with the Hub asked without the lock
during a pairing. The epoch and the movie generation are flags that every increment
resets. `link` is the transport task from reading the epoch to the session and
the back-off. The trigger scheduler and the scene detector are replaced by the
choice to make an image or not. `view` is the Viewer's draft, with the revision it
expects; `chatRev` and `view.ack` are history: the last revision made from chat, and the
last one the user was shown or chose to replace. A send is the instant of its last check;
what the network does after it cannot be called back.

## 3. Runs

| Run | Instance | Shows |
|---|---|---|
| `outbox` | one movie, two contents, two accounts, 3 attempts, 2 requeues, 4 disturbances | retention, idempotency, requeue, owner and row history |
| `outbox_live` | two stills, 2 disturbances, fairness | every capture recorded, every row settled |
| `outbox_preactivation` | one movie | finding 1 |
| `retention` | two policies: all limits, 3 files of sizes 1 and 2; a byte limit, 2 files, a spool, 2 faults | the plan, `keep_latest`, quotas, final sweep, wake protocol |
| `supervisor` | 2 thread names, 2 commands, 2 faults, fairness | one owner, pause, captures, restart, retry, shutdown |
| `supervisor_fence` | 2 commands, 1 fault | finding 2 |
| `ledger_maintenance` | 2 captures, 2 accounts, 2 ledger ids, pages of one row, 4 revisions, 2 faults | custody (refinement), nothing owed forgotten, nothing delivered twice, exact listing |
| `recording` | 2 attempts, 2 frames, 2 commands, 1 fault, a queue of one, one caller, fairness | requests, stills, reloads, calls, shutdown |
| `preview` | 2 sessions, 1 frame each, 2 connections, 2 leases, 1 fault, 1 tick, fairness | the hub, the stream, freshness, end of a session |
| `timelapse` | one day of two ticks under two schedules, 4 ticks, 2 samples, 1 fault, 1 change, 1 sweep, fairness | whole movies, one offer, kept while pending, finished |
| `control` | 2 Viewers, the shutdown command, 2 connections, 3 requests, 3 edits, shutdown commands and faults together (1 fault at most), fairness | informed saves, capture follows the file, shutdown |
| `sharing` | 3 revisions, 2 capture sessions, 2 posts, 2 edits, 1 fault, fairness | consent, credential, drafts, withdrawal |

Some invariants are conjunctions of smaller ones: `NoFileMissed`, `MaintenanceInv`,
`RecordingInv`, `PreviewInv`, `TimelapseInv`, `ControlInv` and `SharingInv`, the last six
with the module's type invariant.
Their parts are defined and explained beside them in the modules.

Why the bounds are enough to be interesting. One path suffices for the identity of a row,
since rows interact only through the claim and rotation; the theorems about `UploadOutbox`
hold for any set of paths, and `outbox_live` has two. Four disturbances allow a crash, an
edit, a stop and a second crash around one requeue. Three attempts allow a lost answer, a
requeue and a success. Three files are the least with a kept, an aged and a quota victim.
Two commands and two faults allow a restart, a fault during it and a command between any
two steps; two thread names would let a second owner show, and the safety theorems hold
for any number. Two ledger ids let an archived ledger have a successor; pages of one row
make a listing of two rows stop halfway; two faults let an archive be resumed and
interrupted again. A writer queue of one is full at the second still. Two sessions let an
encoder outlive one; the one tick is past the deadline. A day of two ticks has a boundary
and a time within it, and four ticks reach the expiry of a movie. Two Viewers that show
the settings, with three requests, can save from the same revision, and one can keep its
edits after the conflict; two saves that change the file and restore it, and a third with
the old base, are the three edits that send a reload where a restart is needed
(`AgentFollowsFile` breaks there when capture does not compare, and with two edits does
not). One file without its wake, and one more published by the other thread, are the least
that tell a publisher's failure from a lost wake. Three revisions let a change from chat
come between a draft and its save.

All runs turn off deadlock checking: an epoch, a host and the environment's budgets
really end.

### Fairness

Always weak, and on threads the code runs in loops. Nothing is asked of commands, edits,
failures, frames or the environment.

- Outbox: the supervisor keeps starting the agent (`StartStep`), the uploader and the
  publishers are threads that run, an epoch whose uploader stopped is torn down by
  the capture loop's health checks, and time passes. Retryable failures and
  disturbances are finite.
- Supervisor: the loop runs, a send ends, a delay elapses, the watchdog runs, and a
  camera thread that is not hung begins, answers a shutdown and returns.
- Recording: the capture thread, the writer and every administration caller run; their
  waits are bounded polls, and an administration call does a bounded piece of work.
- Preview: the encoder, the server's tasks and the reader's loop run, and a capture
  thread that is stopping joins its encoder. Time need not pass.
- Timelapse: the worker's loop runs, and a new epoch starts a worker again (the
  supervisor retries a camera). Failures are finite: an encoder that fails for ever
  finishes nothing. A torn window directory is repaired only by a sample of its window,
  which nothing guarantees; so `EndedIsFinished` speaks of behaviours in which, again and
  again, no directory is torn.
- Control: the connection tasks, capture and the event loop of the tray run.
- Sharing: the transport task and a commit that has begun run.
- Retention and maintenance: none. That a wake is not lost is an invariant
  (`NoLostWake`): no file waits for the sweep interval, but one whose publisher failed
  before its wake; that one waits for the interval, another publisher's wake or the end
  of the epoch, whose last sweep has seen it (`FinalSweepSawAll`).

## 4. Proofs

Each proof module shows, for all constants that satisfy its module's named assumptions,
that an inductive invariant holds in every behaviour (`Invariance`; `SupervisorInvariance`
and `PreviewInvariance` for those two components) and that the properties TLC checks
follow. The bounds of the models are parameters there, so the theorems hold for any number
of commands, faults, crashes, sessions and attempts. An inductive invariant is defined in
its component's module, under "the inductive invariant", as a conjunction of named parts;
TLC checked each one on the instance of the component's run. The proof that a step keeps
it has one case per action.

`TrayPipes_proofs` extends both of the tray's pipes. They share nothing, and the names of
`PreviewStream` are chosen so that the two can be extended together: its initial
states, steps, type and inductive invariants are `PreviewInit`, `PreviewNext`, `PreviewTypeOK`,
`PreviewIndInv`.

| Module | Property: theorem | Inductive invariant |
|---|---|---|
| `UploadOutbox` | `AcknowledgedBeforeReclaim`: `ReclaimIsSafe`; `OneBodyPerKey`: `Idempotency`; `DeliveredToOwner`: `DeliveryIsToOwner`; `RowHistory`: `RowsAreMonotone`; `RequeuedOncePerConfirmation`: `RequeuesAreConfirmed`; also `TypeCorrect`, `CompletionIsHonest`, `RotationIsSafe`, `Fencing` | `TypeOK`, `IndInv`, and `ConfirmInv` |
| `Retention` | `PlanIsExact`: `PlansAreExact`; `NewestIsKept`: `TheNewestIsKept`; `WithinQuotas`: `QuotasHold`; `NoFileMissed`: `NoFileIsMissed`; also `TypeCorrect` | `IndInv` |
| `CameraSupervisor` | `OneOwner`: `OwnerIsUnique`; `PauseAgrees`: `PauseReachesCamera`; `CapturesConserved`: `NoCaptureIsLost`; `NoStartAfterStop`: `NoLateStart`; `CapturesReachCamera`: `CapturesGoToReady`; also `SupervisorTypes`, `RestartIsOwned` | `TypeOK`, `SupervisorInv` |
| `LedgerMaintenance` | `MaintenanceInv`: `MaintenanceIsSound`; `OwedIsSafe`: `NothingOwedIsForgotten`; `DeliveredOnce`: `DeliveredIsNotRepeated`; `CustodyKept`: `CommandsKeepCustody` | `IndInv` |
| `RecordingSession` | `RecordingInv`: `RecordingIsSound`; `StoreOutlivesCalls`: `CallsHaveStore`; `QueuedIsSaved`: `NothingQueuedIsLost` | `IndInv` |
| `PreviewStream` | `PreviewInv`: `PreviewIsSound`; `LiveIsRecent`: `LivePicturesAreRecent` (in `TrayPipes_proofs`) | `PreviewIndInv` |
| `TimelapseDay` | `TimelapseInv`: `TimelapseIsSound`; `OfferedOnce`: `MoviesAreOfferedOnce` | `IndInv` |
| `ControlPipe` | `ControlInv`: `AnswersReachTheirClient`; `SavesAreInformed`: `NoEditIsOverwrittenUnseen` (in `TrayPipes_proofs`) | `IndInv` |
| `SharingService` | `SharingInv`: `SharingIsSound`; `SendsAreConsented`: `NothingIsSentWithoutConsent`; `SavesAreReviewed`: `ChatIsNotOverwritten` | `IndInv` |

Why the properties need more than themselves:

- `UploadOutbox`. `IndInv` adds where the threads can be in each phase (`PhaseInv`), that
  a recorded row has an identity (`RowInv`), that the uploader's memory agrees with the
  ledger and the endpoint (`ClaimInv`), and that an unrecorded capture with a known owner
  is a crash gap of the account in force (`OwnerInv`). The last is why rotation must look
  at the directory as well as at the rows. `CompletedWasReceived`, `LiveRowsAreCurrent`
  and `ClaimIsExclusive` (a completed row was received, live rows are of the account in
  force, one claim at a time) are stated by theorems only. Requeues are counted against
  the confirmations that are spent (`ConfirmInv`): every UPDATE moves a row's revision on,
  so a requeue spends the confirmation that named the revision it found.
- `Retention`. A file the last inventory missed has a publisher that will still wake the
  thread or has failed before that, a token in the slot or a sweep that has yet to look,
  and once joined the last sweep cannot be skipped (`MissedInv`, which rests on the stop
  protocol, `StopInv`). The running byte count of a sweep is an upper bound only if the
  files that are gone without having been attempted are still in it (`ManagedInv`): that
  is what lets an operator, a publisher and a deletion come in any order before the flag
  is stored (`WithinQuotas`). What is about to be deleted had a newer file when the plan
  was made and publishing only adds newer ones (`TodoInv`), hence `NewestIsKept`. Files
  never share a path (`Numbered`), so their order is total.
- The plan itself. `Bytes` and `Plan` are folds over sets, defined by recursion with
  `CHOOSE`. `Retention_proofs` proves what they compute without an induction rule that
  takes a formula as a parameter: a set of numbers has a least element (`LeastNumber`,
  from the well-foundedness of `<`), so a set of counterexamples has a smallest one
  (`SmallestSubset`), and a recursion over the subsets of a finite set has a solution
  (`RecursionHasSolution`). From there, a sum does not depend on the order of its terms
  (`SumsAddUp`, `BytesWithout`), a finite set of files has a newest and an oldest
  (`NewestExists`, `OldestExists`), and every stage of the selection keeps the promise for
  the files it has looked at (`SelectionIsExact`), which gives `PlanIsSelection`.
- `CameraSupervisor`. An absent session is empty and only over an absent one a camera is
  started (`SessionInv`), the last pause command on its way decides the sharing fence
  (`PauseInv`), a live camera's control follows the intent (`ControlInv`), and a capturing
  status or a ready session is the present thread's own report (`ReadyInv`).
- `LedgerMaintenance`. Between the checks of a command and its effects nothing has changed
  (`CommandInv`); a gap in the directory belongs to the account in force (`OwnerInv`); what
  an archived ledger delivered is in no successor's gap (`DeliveredInv`, with `FreshInv`
  for names not used yet); an owed capture survives the creation of the ledger (`OwedInv`);
  while the cursor's revision is current, what was shown and what is left is what
  matched (`ListInv`). The refinement maps each step of an archive to a stutter, and the
  rename that retires the active file to the abstract archive.
- `RecordingSession`. Which of ledger, registration and writer exists at each step of an
  epoch (`PhaseInv`); a still on its way is in the channel, or saved and in the writer's
  hands (`WriterInv`); epochs are not more than attempts and saves together, which bounds the
  reloads (`EpochInv`); a changed file has a reload pending (`ReloadInv`).
- `PreviewStream`. A job belongs to the session whose encoder is joined before it ends
  (`SessionInv`); a task serves the reader exactly while its stream goes on (`LinkInv`);
  what the hub still has to send is newer than everything in the pipe (`StreamInv`); age
  counts from the first arrival (`ClockInv`); `LeaseInv`.
- `TimelapseDay`. The samples on disk are within the cache's limit also while no worker
  counts them (`CountInv`); a window takes samples until it is sealed and its movie is made
  after that (`WindowInv`); the worker sealed what it works on (`WorkerInv`); an offer has
  a claim, or comes on the way from the done marker (`OfferInv`); consent is decided before
  a movie exists, so that a sweep that lists a movie and then reads the markers sees every
  movie that waits (`PendingInv`).
- `ControlPipe`. A task holds the request of the client that waits for it (`TaskInv`,
  `ClientInv`) and a form does not change while its save is under way (`FormInv`), which is
  why a save that is still waited for writes exactly what the form shows
  (`SavesAreInformed`).
- `SharingService`. A commit under way holds the next revision and has switched sharing
  off once it has cancelled (`CommitInv`); a connection no change has reached works with
  the settings in force (`LinkInv`); a scheduled movie is claimed for a session that is
  ready (`MovieInv`); the draft expects the revision its user has seen.

Assumptions on the constants: the bounds are natural numbers, the constant that stands for
"nothing" is not a member of the sets it is added to (with `NoneIsNoLedger`,
`NoneIsNoRecord` and `NoneIsNoFile` for sets of records), the sets that are counted are
finite (`Artifacts` of `LedgerMaintenance`, `Days` of `TimelapseDay`), and the few the code
justifies: a writer queue and a page hold at least one entry, a day has at least one tick,
a capture batch, a revision bound, a session bound and the bound of retention's clock are at
least one, and to allow every kind is one of the choices of sharing. Retention's limits may
be any numbers or absent, and published files of any size, empty ones included.

Every safety property the runs check is the statement of a theorem. Only model-checked are
the liveness properties, since fairness is out of the prover's reach: `EveryCaptureIsRecorded`,
`EveryRowSettles`, `CameraComesBack`, `ShutdownEnds`, `ShutdownEndsAttempt`,
`StoppedIsNotLive`, `EndedIsFinished`, `AgentFollowsFile` and `WithdrawnSharingEnds`.

## 5. Findings

1. `outbox_preactivation`: `finish_day_with` (timelapse.rs:1151) offers the movie of a
   day that is not marked done although the file is already there, and
   `record_artifact` does not consult the activation inventory. A movie published
   while uploads were disabled, with a stop before its done marker, is uploaded by the
   first enabled epoch. `docs/architecture.md` says first startup does not adopt older
   captures.
2. `supervisor_fence`: a restart's `send` raises `restart_pending` before it enqueues;
   the supervisor, handling an earlier reload while faulted without a session, clears
   it without the admission lock, finds no command, and starts a camera. The restart
   then stops that camera with the fence down, against the comment at worker.rs:488.
3. `timelapse`: a death in `marker(window.json)` (timelapse.rs:297, 772-776) leaves the
   marker's temporary file in a new window directory. The comment at timelapse.rs:156 says
   that a crash between making the directory and writing its metadata must not block other
   windows; but `uninitialized_window` takes an empty directory only, so that `read_window`
   fails, and with it `pending` and `protected_outputs` for all windows: nothing is
   finished and every sweep of retention fails, until a sample of that window comes.
   After the window's end, or under another schedule, none does. The run checks
   `EndedIsFinished` under `[]<>~Blocked`; without this condition TLC finds a default
   window that ended and is never finished beside a torn directory of the other schedule.

An observation that shaped a property: the comment on `Outbound` (transport.rs:89) says
that an automatic image never survives a privacy or session change. `run` clears the
outbox when it sees a change while it waits in a session or in the back-off; a change that
falls between the end of the back-off and the next reading of the epoch, or while it waits
after an unreadable credential, leaves the image in place. It is then sent only if sharing
is on and paired again and capture is still in the image's session, which is what
`SendsAreConsented` asks of images; of snapshots and movies it also asks that their kind
is allowed.

## 6. Not modelled

- Without control state: image arithmetic, exposure adaptation, vision inference, the
  timelapse overlay, sunset and calendar arithmetic, validation of settings, message
  encoding and size limits.
- Input and output: Win32 and XAML layout and wording, pipe security descriptors, the
  native SDK and encoder, the HTTP client, installer, scripts, vendored code. Their
  outcomes are choices of the models.
- The camera driver and the Regain worker: strict request and answer with one child;
  what reaches the capture thread is a frame, a failure or a call that never returns,
  and these are modelled.
- The daily worker as a publisher in `Retention`: a movie whose wake is left out by an
  error is offered again, and retention woken, by its next pass.
- Camera discovery and its back-off, and `max_frames`, which the tray does not set.
- The trigger scheduler, the scene detector and observation overlays of sharing: they
  decide whether an image is made, which the model leaves open.
