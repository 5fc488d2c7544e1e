-------------------------- MODULE RecordingSession --------------------------
(***************************************************************************)
(* The recording agent (autopiercam/src/lib.rs): the capture                *)
(* thread that runs camera attempts one after the other, the recording      *)
(* epochs inside an attempt, the still writer, the registry of upload        *)
(* administration calls, and the clients that pause, request stills, save   *)
(* settings and shut down at any moment.                                    *)
(*                                                                          *)
(* CameraSupervisor decides when an attempt starts, UploadOutbox what the   *)
(* ledger does with a recorded still, Retention what is deleted,            *)
(* PreviewStream what becomes of the frames shown.                          *)
(***************************************************************************)
EXTENDS Naturals, Sequences, FiniteSets

CONSTANTS
    Callers,      \* threads that call the upload administration
    QueueCap,     \* writer_queue_capacity
    MaxAttempts,  \* bound: camera attempts
    MaxGrabs,     \* bound: frames the camera delivers
    MaxCommands,  \* bound: pauses, capture requests and saves by clients
    MaxFaults     \* bound: failures of the camera, a worker or a thread

ASSUME RecordingAssumption ==
    /\ QueueCap \in Nat \ {0}
    /\ {MaxAttempts, MaxGrabs, MaxCommands, MaxFaults} \subseteq Nat

VARIABLES
    pc,         \* where the capture thread is
    outcome,    \* result of the epoch, then of the attempt
    ctl,        \* AgentControl of the attempt
    file, conf, \* settings on disk, settings in use
    quiet,      \* a save that has not asked for a reload yet
    loop,       \* CaptureLoopState
    frame,      \* settling has left a frame to use
    epoch,      \* recording epochs so far; its nonce is the epoch number
    store,      \* the epoch whose upload store is open, 0 for none
    dead,       \* its upload worker has stopped
    lease,      \* the ledger lease of an epoch without uploads
    reg,        \* registered upload administration: epoch and accepting
    calls,      \* the epoch whose store a caller works on, 0 for none
    writer,     \* the writer thread: state, job in hand
    queue,      \* its channel
    sent, saved, recorded,  \* stills of the attempt sent, published, recorded
    failed,     \* epochs whose writer failed
    attempt,    \* camera attempts so far
    mon,        \* AgentStatus.state
    lost,       \* requests answered by a full queue
    grabs, commands, faults

control == <<ctl, file, quiet, commands>>
admin == <<reg, calls>>
still == <<writer, queue, sent, saved, recorded, failed>>
services == <<store, dead, lease>>
vars == <<pc, outcome, control, conf, loop, frame, epoch, services, admin, still,
          attempt, mon, lost, grabs, faults>>

-----------------------------------------------------------------------------
(* Settings: a layout change needs a new camera attempt, a change of the    *)
(* upload settings a new epoch; the interval and exposure settings are      *)
(* changed in place.                                                        *)
Configs == [layout : {0, 1}, uploads : BOOLEAN, interval : {0, 1}]
RequiresCameraRestart(a, b) == a.layout # b.layout
RequiresRecordingReload(a, b) == a.uploads # b.uploads

FreshControl(p) == [shutdown |-> FALSE, paused |-> p, gen |-> 0, reload |-> FALSE]
FreshLoop == [settled |-> FALSE, seen |-> 0, queued |-> 0, stills |-> 0]
Looping == {"settle", "loop"}
Running == Looping \cup {"load"}

Init ==
    /\ pc = "idle" /\ outcome = "ok" /\ mon = "starting"
    /\ ctl = FreshControl(FALSE)
    /\ file \in [layout : {0}, uploads : BOOLEAN, interval : {0}]
    /\ conf = file /\ quiet = FALSE
    /\ loop = FreshLoop /\ frame = FALSE
    /\ epoch = 0 /\ store = 0 /\ dead = FALSE /\ lease = FALSE
    /\ reg = [epoch |-> 0, accepting |-> FALSE]
    /\ calls = [c \in Callers |-> 0]
    /\ writer = [st |-> "none", job |-> <<>>]
    /\ queue = <<>> /\ sent = {} /\ saved = {} /\ recorded = {} /\ failed = {}
    /\ attempt = 0
    /\ lost = 0 /\ grabs = 0 /\ commands = 0 /\ faults = 0

Command == commands < MaxCommands /\ commands' = commands + 1
Fault == faults < MaxFaults /\ faults' = faults + 1

-----------------------------------------------------------------------------
(* The clients. *)

Pause(p) ==
    /\ pc # "idle" /\ ctl.paused # p /\ Command
    /\ ctl' = [ctl EXCEPT !.paused = p]
    /\ UNCHANGED <<pc, outcome, conf, file, quiet, loop, frame, epoch, services,
                   admin, still, attempt, mon, lost, grabs, faults>>

CaptureNow ==
    /\ pc # "idle" /\ Command
    /\ ctl' = [ctl EXCEPT !.gen = @ + 1]
    /\ UNCHANGED <<pc, outcome, conf, file, quiet, loop, frame, epoch, services,
                   admin, still, attempt, mon, lost, grabs, faults>>

Shutdown ==
    /\ pc # "idle" /\ ~ctl.shutdown
    /\ ctl' = [ctl EXCEPT !.shutdown = TRUE]
    /\ UNCHANGED <<pc, outcome, conf, file, quiet, commands, loop, frame, epoch, services,
                   admin, still, attempt, mon, lost, grabs, faults>>

\* A client replaces the file and asks for a reload in a later step.
Save(k) ==
    /\ pc # "idle" /\ Command
    /\ file' = [layout |-> IF k = "layout" THEN 1 - file.layout ELSE file.layout,
                uploads |-> file.uploads # (k = "uploads"),
                interval |-> IF k = "interval" THEN 1 - file.interval ELSE file.interval]
    /\ quiet' = TRUE
    /\ UNCHANGED <<pc, outcome, ctl, conf, loop, frame, epoch, services, admin, still,
                   attempt, mon, lost, grabs, faults>>

ReloadConfiguration ==
    /\ quiet
    /\ quiet' = FALSE
    /\ ctl' = IF pc = "idle" THEN ctl ELSE [ctl EXCEPT !.reload = TRUE]
    /\ UNCHANGED <<pc, outcome, conf, file, commands, loop, frame, epoch, services, admin,
                   still, attempt, mon, lost, grabs, faults>>

-----------------------------------------------------------------------------
(* Upload administration: acquire and drop of a lease on the session. *)

Acquire(c) ==
    /\ calls[c] = 0 /\ reg.epoch # 0 /\ reg.accepting
    /\ calls' = [calls EXCEPT ![c] = reg.epoch]
    /\ UNCHANGED <<pc, outcome, control, conf, loop, frame, epoch, services, reg, still,
                   attempt, mon, lost, grabs, faults>>

Release(c) ==
    /\ calls[c] # 0
    /\ calls' = [calls EXCEPT ![c] = 0]
    /\ UNCHANGED <<pc, outcome, control, conf, loop, frame, epoch, services, reg, still,
                   attempt, mon, lost, grabs, faults>>

-----------------------------------------------------------------------------
(* The still writer. *)

WriterSaves ==
    /\ writer.st = "run" /\ writer.job = <<>> /\ queue # <<>>
    /\ writer' = [writer EXCEPT !.job = <<Head(queue)>>]
    /\ queue' = Tail(queue)
    /\ saved' = saved \cup {Head(queue)}
    /\ UNCHANGED <<pc, outcome, control, conf, loop, frame, epoch, services, admin, sent,
                   recorded, failed, attempt, mon, lost, grabs, faults>>

\* With uploads the still is recorded durably, and a stopped worker then ends
\* the writer.
WriterRecords ==
    /\ writer.st = "run" /\ writer.job # <<>>
    /\ recorded' = IF store = 0 THEN recorded ELSE recorded \cup {writer.job[1]}
    /\ writer' = [st |-> IF dead THEN "failed" ELSE "run", job |-> <<>>]
    /\ failed' = IF dead THEN failed \cup {epoch} ELSE failed
    /\ UNCHANGED <<pc, outcome, control, conf, loop, frame, epoch, services, admin, queue,
                   sent, saved, attempt, mon, lost, grabs, faults>>

WriterFails ==
    /\ writer.st = "run" /\ Fault
    /\ queue # <<>> \/ writer.job # <<>>
    /\ writer' = [st |-> "failed", job |-> <<>>]
    /\ failed' = failed \cup {epoch}
    /\ UNCHANGED <<pc, outcome, control, conf, loop, frame, epoch, services, admin, queue,
                   sent, saved, recorded, attempt, mon, lost, grabs>>

\* Seeded fault: a sender of the channel lives until the attempt has ended.
WriterOutlived ==
    /\ writer.st = "run" /\ writer.job = <<>> /\ queue = <<>> /\ pc = "idle"
    /\ writer' = [writer EXCEPT !.st = "done"]
    /\ UNCHANGED <<pc, outcome, control, conf, loop, frame, epoch, services, admin, queue,
                   sent, saved, recorded, failed, attempt, mon, lost, grabs, faults>>
\* The channel is empty and its sender dropped.
WriterEnds ==
    /\ writer.st = "run" /\ writer.job = <<>> /\ queue = <<>> /\ pc = "join"
    /\ writer' = [writer EXCEPT !.st = "done"]
    /\ UNCHANGED <<pc, outcome, control, conf, loop, frame, epoch, services, admin, queue,
                   sent, saved, recorded, failed, attempt, mon, lost, grabs, faults>>

UploaderDies ==
    /\ store # 0 /\ ~dead /\ Fault
    /\ dead' = TRUE
    /\ UNCHANGED <<pc, outcome, control, conf, loop, frame, epoch, store, lease, admin, still,
                   attempt, mon, lost, grabs>>

-----------------------------------------------------------------------------
(* The capture thread: attempt, epoch, settling, loop. *)

Paused == IF ctl.paused THEN "paused" ELSE "capturing"

\* begin_session and begin_attempt, with the control of the new attempt; the
\* supervisor carries a pause over.
BeginAttempt ==
    /\ pc = "idle" /\ attempt < MaxAttempts
    /\ pc' = "open" /\ mon' = "starting"
    /\ attempt' = attempt + 1
    /\ UNCHANGED <<outcome, control, conf, loop, frame, epoch, services, admin, still,
                   lost, grabs, faults>>

\* The settings are loaded, the camera is opened, the encoder is started.
OpenCamera ==
    /\ pc = "open"
    /\ conf' = file
    /\ \/ pc' = "services" /\ UNCHANGED <<outcome, faults>>
       \/ Fault /\ pc' = "end" /\ outcome' = "error"
    /\ UNCHANGED <<control, loop, frame, epoch, services, admin, still, attempt, mon, lost,
                   grabs>>

StartServices ==
    /\ pc = "services"
    /\ epoch' = epoch + 1
    /\ \/ /\ pc' = "register"
          /\ store' = IF conf.uploads THEN epoch' ELSE 0
          /\ lease' = ~conf.uploads
          /\ UNCHANGED <<outcome, faults>>
       \/ Fault /\ pc' = "camera" /\ outcome' = "error" /\ UNCHANGED <<store, lease>>
    /\ UNCHANGED <<control, conf, loop, frame, dead, admin, still, attempt, mon, lost, grabs>>

\* register_upload_admin: only an epoch with uploads has something to register.
Registered == [epoch |-> store, accepting |-> store # 0]

\* Registration, then the other workers and the writer; when one does not
\* start, what was started is dropped in reverse order.
StartWorkers ==
    /\ pc = "register"
    /\ reg' = Registered
    /\ \/ /\ pc' = IF loop.settled THEN "loop" ELSE "settle"
          /\ mon' = IF loop.settled THEN Paused ELSE mon
          /\ writer' = [st |-> "run", job |-> <<>>] /\ queue' = <<>>
          /\ UNCHANGED <<outcome, faults>>
       \/ Fault /\ pc' = "revoke" /\ outcome' = "error" /\ UNCHANGED <<writer, queue, mon>>
    /\ UNCHANGED <<control, conf, loop, frame, epoch, services, calls, sent, saved, recorded,
                   failed, attempt, lost, grabs>>

\* CaptureObserver: the camera delivers a frame.
FrameReceived == grabs < MaxGrabs /\ grabs' = grabs + 1

\* wait_for_auto_settle: frames reach the preview, the last one is kept.
SettleFrame(done) ==
    /\ pc = "settle" /\ ~ctl.shutdown /\ FrameReceived
    /\ pc' = IF done THEN "loop" ELSE "settle"
    /\ loop' = [loop EXCEPT !.settled = done]
    /\ frame' = done
    /\ mon' = IF done THEN Paused ELSE mon
    /\ UNCHANGED <<outcome, control, conf, epoch, services, admin, still, attempt,
                   lost, faults>>

StopCapture ==
    /\ pc \in {"settle", "loop"} /\ ctl.shutdown
    /\ pc' = "join" /\ outcome' = "ok"
    /\ UNCHANGED <<control, conf, loop, frame, epoch, services, admin, still, attempt, mon,
                   lost, grabs, faults>>

\* A camera error, a missed deadline, unreadable settings, or a worker found
\* stopped.
CaptureFails ==
    /\ pc \in {"settle", "loop", "load"} /\ ~ctl.shutdown
    /\ \/ pc = "loop" /\ dead /\ UNCHANGED faults
       \/ Fault
    /\ pc' = "join" /\ outcome' = "error"
    /\ UNCHANGED <<control, conf, loop, frame, epoch, services, admin, still, attempt, mon,
                   lost, grabs>>

\* The pending flag is taken before the settings are read.
TakeReload ==
    /\ pc = "loop" /\ ~ctl.shutdown /\ ctl.reload
    /\ ctl' = [ctl EXCEPT !.reload = FALSE]
    /\ pc' = "load"
    /\ UNCHANGED <<outcome, file, quiet, commands, conf, loop, frame, epoch, services, admin,
                   still, attempt, mon, lost, grabs, faults>>

LoadReload ==
    /\ pc = "load"
    /\ IF RequiresCameraRestart(conf, file) \/ RequiresRecordingReload(conf, file)
       THEN pc' = "join" /\ outcome' = "reload" /\ UNCHANGED conf
       ELSE pc' = "loop" /\ conf' = file /\ UNCHANGED outcome
    /\ UNCHANGED <<control, loop, frame, epoch, services, admin, still, attempt, mon, lost, grabs,
                   faults>>

Requested == ctl.gen # loop.seen
Name == [epoch |-> epoch, seq |-> loop.queued, up |-> store # 0]

\* Seeded fault: one still answers every request so far.
SeenAll == ctl.gen
\* One frame answers one request.
Seen == IF Requested THEN loop.seen + 1 ELSE loop.seen

\* The frame settling left, or one the camera delivers, whose settings may still
\* be moving.  It reaches the preview either way, and becomes a still when its
\* settings are known and a still was requested or a periodic one is due (its
\* time has come and retention has not suspended capture), unless the writer's
\* queue is full.
UseFrame(kind, due) ==
    LET known == frame \/ kind = "settled"
        requested == known /\ Requested
        periodic == known /\ ~ctl.paused /\ due
        gone == writer.st = "failed"
        send == (requested \/ periodic) /\ ~gone /\ Len(queue) < QueueCap
    IN  /\ pc = "loop" /\ ~ctl.shutdown /\ ~ctl.reload /\ ~dead
        /\ \/ frame /\ UNCHANGED <<grabs, mon>>
           \/ ~frame /\ FrameReceived /\ mon' = Paused
        /\ frame' = FALSE
        /\ sent' = IF send THEN sent \cup {Name} ELSE sent
        /\ queue' = IF send THEN Append(queue, Name) ELSE queue
        /\ loop' = [loop EXCEPT !.seen = IF known THEN Seen ELSE @,
                                !.queued = IF send THEN @ + 1 ELSE @,
                                !.stills = IF send /\ requested THEN @ + 1 ELSE @]
        /\ lost' = IF requested /\ ~send THEN lost + 1 ELSE lost
        /\ IF (requested \/ periodic) /\ gone
           THEN pc' = "join" /\ outcome' = "error"
           ELSE UNCHANGED <<pc, outcome>>
        /\ UNCHANGED <<control, conf, epoch, services, admin, writer, saved, recorded, failed,
                       attempt, faults>>

-----------------------------------------------------------------------------
(* The end of an epoch and of an attempt. *)

\* Seeded fault: the sender is dropped and the writer left to itself.
JoinWithoutWaiting ==
    /\ pc = "join" /\ pc' = "revoke"
    /\ UNCHANGED <<outcome, control, conf, loop, frame, epoch, services, admin, still, attempt,
                   mon, lost, grabs, faults>>
\* The writer is joined, then the video, timelapse and retention workers.
JoinWriter ==
    /\ pc = "join" /\ writer.st \in {"done", "failed"}
    /\ pc' = "revoke"
    /\ outcome' = IF writer.st = "failed" THEN "error" ELSE outcome
    /\ writer' = [st |-> "none", job |-> <<>>] /\ queue' = <<>>
    /\ UNCHANGED <<control, conf, loop, frame, epoch, services, admin, sent, saved, recorded,
                   failed, attempt, mon, lost, grabs, faults>>

\* The registration is taken back under the registry lock.
Revoke ==
    /\ pc = "revoke" /\ pc' = "drain"
    /\ reg' = [epoch |-> 0, accepting |-> FALSE]
    /\ UNCHANGED <<outcome, control, conf, loop, frame, epoch, services, calls, still, attempt,
                   mon, lost, grabs, faults>>

\* Seeded fault: the store is closed without waiting for calls under way.
DrainAtOnce ==
    /\ pc = "drain" /\ pc' = "close"
    /\ UNCHANGED <<outcome, control, conf, loop, frame, epoch, services, admin, still, attempt,
                   mon, lost, grabs, faults>>
Drain ==
    /\ pc = "drain" /\ \A c \in Callers : calls[c] = 0
    /\ pc' = "close"
    /\ UNCHANGED <<outcome, control, conf, loop, frame, epoch, services, admin, still, attempt,
                   mon, lost, grabs, faults>>

\* The uploader is joined, the lease dropped; a requested reload goes on with
\* another epoch.
CloseServices ==
    LET result == IF dead THEN "error" ELSE outcome
    IN  /\ pc = "close"
        /\ store' = 0 /\ dead' = FALSE /\ lease' = FALSE
        /\ outcome' = IF result = "reload" /\ ctl.shutdown THEN "ok" ELSE result
        /\ pc' = IF outcome' = "reload" THEN "next" ELSE "camera"
        /\ UNCHANGED <<control, conf, loop, frame, epoch, admin, still, attempt, mon, lost,
                       grabs, faults>>

\* Seeded fault: the settings read before the epoch ended are kept.
NextEpochUnread ==
    /\ pc = "next" /\ pc' = "services" /\ outcome' = "ok"
    /\ UNCHANGED <<control, conf, loop, frame, epoch, services, admin, still, attempt, mon,
                   lost, grabs, faults>>
NextEpoch ==
    /\ pc = "next"
    /\ IF RequiresCameraRestart(conf, file)  \* only the supervisor restarts a camera
       THEN pc' = "camera" /\ outcome' = "error" /\ UNCHANGED conf
       ELSE pc' = "services" /\ outcome' = "ok" /\ conf' = file
    /\ UNCHANGED <<control, loop, frame, epoch, services, admin, still, attempt, mon, lost, grabs,
                   faults>>

\* The camera is stopped and the encoder joined.
StopCamera ==
    /\ pc = "camera" /\ pc' = "end"
    /\ UNCHANGED <<outcome, control, conf, loop, frame, epoch, services, admin, still, attempt,
                   mon, lost, grabs, faults>>

\* The result is published, the attempt's locals and its session are dropped.
EndAttempt ==
    /\ pc = "end" /\ pc' = "idle"
    /\ mon' = IF outcome = "error" THEN "faulted"
              ELSE IF ctl.shutdown THEN "stopping" ELSE "idle"
    /\ ctl' = FreshControl(ctl.paused)
    /\ outcome' = "ok" /\ loop' = FreshLoop /\ frame' = FALSE /\ lost' = 0
    /\ sent' = {} /\ saved' = {} /\ recorded' = {} /\ failed' = {}
    /\ UNCHANGED <<conf, file, quiet, commands, epoch, services, admin, writer, queue, attempt,
                   grabs, faults>>

Clients ==
    \/ \E p \in BOOLEAN : Pause(p)
    \/ CaptureNow \/ Shutdown \/ ReloadConfiguration
    \/ \E k \in {"layout", "uploads", "interval"} : Save(k)
    \/ \E c \in Callers : Acquire(c)
    \/ UploaderDies
    \/ BeginAttempt

CaptureThread ==
    \/ OpenCamera \/ StartServices \/ StartWorkers \/ StopCapture \/ CaptureFails
    \/ \E done \in BOOLEAN : SettleFrame(done)
    \/ TakeReload \/ LoadReload
    \/ \E kind \in {"settled", "moving"}, due \in BOOLEAN : UseFrame(kind, due)
    \/ JoinWriter \/ Revoke \/ Drain \/ CloseServices \/ NextEpoch
    \/ StopCamera \/ EndAttempt

WriterThread == WriterSaves \/ WriterRecords \/ WriterFails \/ WriterEnds
CallerThread(c) == Release(c)

Next ==
    \/ Clients \/ CaptureThread \/ WriterThread
    \/ \E c \in Callers : CallerThread(c)

Spec == Init /\ [][Next]_vars
\* Every thread is scheduled; polls, saves and calls are bounded in the code.
FairSpec ==
    /\ Spec
    /\ WF_vars(CaptureThread) /\ WF_vars(WriterThread)
    /\ \A c \in Callers : WF_vars(CallerThread(c))

-----------------------------------------------------------------------------
(* Properties. *)

\* An attempt or a reload begins an epoch.
MaxEpochs == MaxAttempts + MaxCommands
Names == [epoch : 1 .. MaxEpochs, seq : Nat, up : BOOLEAN]
ThreadType ==
    /\ pc \in {"idle", "open", "services", "register", "settle", "loop", "load", "join",
               "revoke", "drain", "close", "next", "camera", "end"}
    /\ outcome \in {"ok", "reload", "error"}
    /\ mon \in {"starting", "capturing", "paused", "idle", "stopping", "faulted"}
    /\ loop \in [settled : BOOLEAN, seen : Nat, queued : Nat, stills : Nat]
    /\ frame \in BOOLEAN /\ attempt \in 0 .. MaxAttempts
    /\ lost \in Nat /\ grabs \in 0 .. MaxGrabs /\ faults \in 0 .. MaxFaults
ControlType ==
    /\ ctl \in [shutdown : BOOLEAN, paused : BOOLEAN, gen : 0 .. MaxCommands, reload : BOOLEAN]
    /\ file \in Configs /\ conf \in Configs /\ quiet \in BOOLEAN
    /\ commands \in 0 .. MaxCommands
EpochType ==
    /\ epoch \in 0 .. MaxEpochs /\ store \in {0, epoch} /\ dead \in BOOLEAN /\ lease \in BOOLEAN
    /\ reg \in [epoch : 0 .. MaxEpochs, accepting : BOOLEAN]
    /\ calls \in [Callers -> 0 .. MaxEpochs]
StillType ==
    /\ writer \in [st : {"none", "run", "done", "failed"}, job : Seq(Names)]
    /\ queue \in Seq(Names) /\ Len(queue) <= QueueCap
    /\ saved \cup recorded \subseteq sent /\ sent \subseteq Names
    /\ failed \subseteq 1 .. MaxEpochs
TypeOK == ThreadType /\ ControlType /\ EpochType /\ StillType

\* Every request of capture_now is answered by a still of its own or refused by
\* a full queue, never twice and never merged with another (capture_loop).
RequestsAnsweredOnce ==
    loop.seen <= ctl.gen /\ loop.seen = loop.stills + lost

\* While the writer can publish a still the epoch holds the ledger, by its store
\* or by the lease that keeps offline maintenance out (run_recording_epoch).
PublicationIsFenced == writer.st = "run" => lease \/ store = epoch

\* An attempt that has ended is not shown as capturing (publish_attempt_result).
EndedIsNotCapturing == pc = "idle" => mon \notin {"capturing", "paused"}

\* An administration call works on an open store, across every end of an epoch
\* and reload (UploadAdminSession, UploadAdminRegistration::drop).
StoreOutlivesCalls == \A c \in Callers : calls[c] # 0 => calls[c] = store

\* Once an epoch has stopped its writer, every still it queued is a file and,
\* with uploads, a row of the ledger, unless that writer failed.
QueuedIsSaved ==
    \A n \in sent :
        (n.epoch \notin failed /\ (n.epoch # epoch \/ pc \notin Running \cup {"join"}))
            => n \in saved /\ (n.up => n \in recorded)

\* Settings in use differ from the file only while a reload is announced or
\* about to be: no interleaving of saves, reloads and epochs loses one.
NoLostReload == pc \in Looping /\ conf # file => ctl.reload \/ quiet

RecordingInv ==
    /\ TypeOK /\ RequestsAnsweredOnce /\ PublicationIsFenced /\ EndedIsNotCapturing
    /\ NoLostReload

-----------------------------------------------------------------------------
(* The inductive invariant behind these properties. *)

\* No epoch is under way; it has a ledger, a registration, a writer.
Between == {"idle", "open", "services", "next", "camera", "end"}
Written == Running \cup {"join"}
Unregistered == [epoch |-> 0, accepting |-> FALSE]
PhaseInv ==
    /\ IF pc \in Between THEN store = 0 /\ ~lease ELSE epoch > 0 /\ (lease \/ store = epoch)
    /\ dead => store # 0
    /\ reg = IF pc \in Written \cup {"revoke"} THEN Registered ELSE Unregistered
    /\ writer.st = "none" <=> pc \notin Written
    /\ writer.st = "done" => pc = "join"
    /\ pc \in Between \cup {"register", "close"} => \A c \in Callers : calls[c] = 0

\* A still on its way is in the channel, or saved and in the writer's hands.
InChannel(n) == \E i \in 1 .. Len(queue) : queue[i] = n
InHand(n) == writer.job = <<n>>
Stored(n) == n \in saved /\ (n.up => n \in recorded)
WriterInv ==
    /\ writer.st # "run" => writer.job = <<>>
    /\ writer.st \in {"none", "done"} => queue = <<>>
    /\ writer.st = "failed" => epoch \in failed
    /\ \A i \in 1 .. Len(queue) : queue[i] \in sent
    /\ writer.job # <<>> => \E n \in saved : InHand(n)
    /\ \A n \in sent : /\ n.epoch <= epoch
                       /\ n.epoch = epoch /\ pc \notin Between => n.up = (store # 0)
                       /\ \/ n.epoch \in failed \/ Stored(n)
                          \/ n.epoch = epoch /\ writer.st = "run"
                                /\ (InChannel(n) \/ (InHand(n) /\ n \in saved))

\* Every epoch is owed to an attempt or to a save that asked for a reload.
One(b) == IF b THEN 1 ELSE 0
EpochInv ==
    /\ outcome = "reload" => pc \in {"join", "revoke", "drain", "close", "next"}
    /\ pc = "next" => outcome = "reload"
    /\ epoch + One(quiet) + One(ctl.reload) + One(pc = "load" \/ outcome = "reload")
             + One(pc \in {"open", "services"}) <= attempt + commands
    /\ ctl.gen <= commands

ReloadInv ==
    pc \in {"services", "register"} \cup Looping /\ conf # file => ctl.reload \/ quiet

IndInv ==
    /\ TypeOK /\ PhaseInv /\ WriterInv /\ EpochInv /\ ReloadInv
    /\ RequestsAnsweredOnce /\ EndedIsNotCapturing /\ StoreOutlivesCalls

-----------------------------------------------------------------------------
\* A shutdown ends the attempt, whatever the writer, the encoder and the calls
\* under way are doing (stop order of run_recording_epoch and run_agent_inner).
ShutdownEndsAttempt == ctl.shutdown ~> pc = "idle"
=============================================================================
