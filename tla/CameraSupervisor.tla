------------------------- MODULE CameraSupervisor -------------------------
(***************************************************************************)
(* The capture supervisor of the tray host (autopiercam-tray/src/worker.rs)*)
(* and the three threads around it:                                        *)
(*                                                                         *)
(*   - clients (the tray menu and the IPC server) send commands.  A send   *)
(*     holds the start_admission lock from its first store to its last, so *)
(*     at most one is under way; it is two steps here, the stores and the  *)
(*     enqueueing, because the supervisor stores to restart_pending        *)
(*     without that lock;                                                  *)
(*   - the supervisor polls the session, drains commands, joins finished   *)
(*     camera threads and starts new ones;                                 *)
(*   - each camera thread owns the SDK handle while it lives and writes    *)
(*     the shared status monitor;                                          *)
(*   - the watchdog terminates a host that does not finish its shutdown.   *)
(*                                                                         *)
(* Time is abstract: a delay is a flag that Elapse raises, the stale-      *)
(* progress test of the monitor and the shutdown grace are choices.  The   *)
(* preview, the logging, the published status events and the sharing       *)
(* service behind the fences are left out.                                 *)
(***************************************************************************)
EXTENDS Naturals, Sequences, SequencesExt

CONSTANTS
    Ids,          \* names for the camera threads alive at one time; reused
    MaxCommands,  \* commands a behaviour may send
    MaxFaults,    \* failures, panics and hangs a behaviour may meet
    BatchCap      \* MAX_CAPTURE_REQUESTS_PER_POLL

ASSUME SupervisorAssumption ==
    /\ 0 \notin Ids /\ MaxCommands \in Nat
    /\ MaxFaults \in Nat /\ BatchCap \in Nat \ {0}

VARIABLES
    stopping,        \* WorkerSignals.stopping
    restartPending,  \* WorkerSignals.restart_pending
    sharingPaused,   \* WorkerSignals.sharing_paused
    sending,         \* the command whose send holds start_admission, or "none"
    queue,           \* the command channel
    clients,         \* a WorkerClient still holds the sending side
    receiver,        \* the supervisor still holds the receiving side
    pc,              \* where the supervisor is in supervise_camera_with
    intent,          \* SupervisorIntent
    session,         \* Option<CameraSession>: id 0 is None
    cam,             \* the camera threads, each with its AgentControl
    due,             \* Instant::now() >= retry_at
    monitor,         \* AgentStatus.state, without the stale-progress override
    watchdog,        \* the shutdown watchdog has seen stopping
    host,            \* the process
    sent, faults,    \* bounds: commands sent and faults met so far
    accepted, delivered  \* history: capture requests taken and handed to cameras

vars == <<stopping, restartPending, sharingPaused, sending, queue, clients,
          receiver, pc, intent, session, cam, due, monitor, watchdog, host,
          sent, faults, accepted, delivered>>

signalVars == <<stopping, restartPending, sharingPaused>>
channelVars == <<sending, queue, clients, receiver>>
superVars == <<pc, intent, session, due>>
hostVars == <<watchdog, host>>
bounds == <<sent, faults>>
history == <<accepted, delivered>>

Commands == {"pause", "resume", "capture", "restart", "reload", "shutdown"}
SetPaused == {"pause", "resume"}
States == {"Starting", "Capturing", "Paused", "Faulted", "Stopping"}
Ready == {"Capturing", "Paused"}

(***************************************************************************)
(* A camera thread and the AgentControl it polls.  "new" has not reached   *)
(* begin_attempt, "leaving" has published its result and not yet returned, *)
(* "hung" is inside a native call that never returns.  reached is history: *)
(* the thread itself has reported Capturing or Paused.  A thread that has  *)
(* returned, or was never started, is "finished" and its name is free.     *)
(***************************************************************************)
Threads == {"new", "starting", "running", "leaving", "hung", "finished"}
Cams == [thread : Threads, paused : BOOLEAN, shutdown : BOOLEAN,
         reload : BOOLEAN, reached : BOOLEAN]
Blank(thread) == [thread |-> thread, paused |-> FALSE, shutdown |-> FALSE,
                  reload |-> FALSE, reached |-> FALSE]

Intents == [faulted : BOOLEAN, paused : BOOLEAN, pending : Nat]
Sessions == [id : Ids \cup {0}, ready : BOOLEAN, stop : BOOLEAN]
NoSession == [id |-> 0, ready |-> FALSE, stop |-> FALSE]
HasSession == session.id # 0
Alive(i) == cam[i].thread # "finished"

\* Seeded fault: a session asked to stop counts as finished.
IsFinishedOnceAsked == HasSession /\ (session.stop \/ ~Alive(session.id))

IsFinished == HasSession /\ ~Alive(session.id)

Init ==
    /\ stopping = FALSE /\ restartPending = FALSE /\ sharingPaused = FALSE
    /\ sending = "none" /\ queue = <<>> /\ clients = TRUE /\ receiver = TRUE
    /\ pc = "top" /\ due = TRUE
    /\ intent = [faulted |-> FALSE, paused |-> FALSE, pending |-> 0]
    /\ session = NoSession /\ cam = [i \in Ids |-> Blank("finished")]
    /\ monitor = "Starting" /\ watchdog = FALSE /\ host = "running"
    /\ sent = 0 /\ faults = 0 /\ accepted = 0 /\ delivered = 0

----------------------------------------------------------------------------
(***************************************************************************)
(* WorkerClient::send.  The lock is free when sending is "none".           *)
(***************************************************************************)

\* The checks and stores before commands.send; a coalesced restart returns.
BeginSend(c) ==
    /\ clients /\ sending = "none" /\ ~stopping /\ sent < MaxCommands
    /\ sent' = sent + 1
    /\ sharingPaused' = IF c \in SetPaused THEN c = "pause" ELSE sharingPaused
    /\ restartPending' = (restartPending \/ c = "restart")
    /\ stopping' = (c = "shutdown")
    /\ sending' = IF c = "restart" /\ restartPending THEN "none" ELSE c
    /\ UNCHANGED <<queue, clients, receiver, superVars, cam, monitor, hostVars,
                   faults, history>>

\* commands.send, or the error path of a channel whose receiver is gone.
EndSend ==
    /\ sending # "none"
    /\ sending' = "none"
    /\ \/ /\ receiver
          /\ queue' = Append(queue, sending)
          /\ accepted' = accepted + (IF sending = "capture" THEN 1 ELSE 0)
          /\ UNCHANGED signalVars
       \/ /\ ~receiver
          /\ restartPending' = (restartPending /\ sending # "restart")
          /\ stopping' = TRUE
          /\ UNCHANGED <<queue, sharingPaused, accepted>>
    /\ UNCHANGED <<clients, receiver, superVars, cam, monitor, hostVars, bounds,
                   delivered>>

\* The last WorkerClient is dropped: the channel is disconnected once drained.
DropClients ==
    /\ clients /\ sending = "none"
    /\ clients' = FALSE
    /\ UNCHANGED <<signalVars, sending, queue, receiver, superVars, cam, monitor,
                   hostVars, bounds, history>>

----------------------------------------------------------------------------
(***************************************************************************)
(* The supervisor loop.  pc names the next step of one iteration: "top"    *)
(* reads stopping and observes the session, "check" joins a finished one,  *)
(* "recv" is try_recv, "start" the retry, "wait" is recv_timeout.          *)
(***************************************************************************)

\* AgentMonitor::snapshot: an owner without progress reads as Faulted.
Snapshots == {monitor} \cup (IF monitor \in {"Starting"} \cup Ready THEN {"Faulted"} ELSE {})

\* orderly_shutdown up to the join; the session stays until its thread ends.
BeginShutdown ==
    /\ monitor' = "Stopping"
    /\ cam' = IF HasSession THEN [cam EXCEPT ![session.id].shutdown = TRUE] ELSE cam
    /\ pc' = "joining"
    /\ UNCHANGED <<intent, session, due>>

TopStops ==
    /\ pc = "top" /\ stopping
    /\ BeginShutdown
    /\ UNCHANGED <<signalVars, channelVars, hostVars, bounds, history>>

\* What one poll hands over of the captures that waited for a ready camera.
Batch == IF intent.pending < BatchCap THEN intent.pending ELSE BatchCap

\* observe_session_status for a session that is not being stopped.
Observe(state) ==
    LET ready == HasSession /\ state \in Ready IN
    /\ pc = "top" /\ ~stopping /\ ~session.stop
    /\ session' = IF HasSession THEN [session EXCEPT !.ready = ready] ELSE session
    /\ intent' = IF ready THEN [intent EXCEPT !.pending = @ - Batch] ELSE intent
    /\ delivered' = delivered + (IF ready THEN Batch ELSE 0)
    /\ pc' = "check"
    /\ UNCHANGED <<signalVars, channelVars, due, cam, monitor, hostVars, bounds,
                   accepted>>

\* observe_session_status for a session being stopped: before, or after, the grace.
ObserveStopping ==
    /\ pc = "top" /\ ~stopping /\ session.stop
    /\ monitor' \in {"Stopping", "Faulted"}
    /\ pc' = "check"
    /\ UNCHANGED <<signalVars, channelVars, intent, session, due, cam, hostVars,
                   bounds, history>>

CheckLive ==
    /\ pc = "check" /\ ~IsFinished
    /\ pc' = "recv"
    /\ UNCHANGED <<signalVars, channelVars, intent, session, due, cam, monitor,
                   hostVars, bounds, history>>

\* A camera thread that ended after a requested stop is joined.
JoinRestarting ==
    /\ pc = "check" /\ IsFinished /\ session.stop
    /\ monitor' = "Stopping"
    /\ restartPending' = FALSE
    /\ session' = NoSession /\ due' = TRUE /\ pc' = "top"
    /\ UNCHANGED <<stopping, sharingPaused, channelVars, intent, cam, hostVars,
                   bounds, history>>

\* Seeded fault: the exit is not reported, and the dead owner's status stays.
JoinUnexpectedSilent ==
    /\ pc = "check" /\ IsFinished /\ ~session.stop
    /\ intent' = [intent EXCEPT !.faulted = TRUE]
    /\ session' = NoSession /\ due' = FALSE /\ pc' = "top"
    /\ UNCHANGED <<signalVars, channelVars, cam, monitor, hostVars, bounds, history>>

\* A camera thread that ended by itself is joined, and the retry delayed.
JoinUnexpected ==
    /\ pc = "check" /\ IsFinished /\ ~session.stop
    /\ monitor' = "Faulted"
    /\ intent' = [intent EXCEPT !.faulted = TRUE]
    /\ session' = NoSession /\ due' = FALSE /\ pc' = "top"
    /\ UNCHANGED <<signalVars, channelVars, cam, hostVars, bounds, history>>

\* handle_command's readiness test, on the status it has read.
SessionReady(state) ==
    state \in Ready /\ HasSession /\ session.ready /\ ~session.stop /\ ~IsFinished

\* Seeded fault: a restart forgets the captures that wait for a camera.
AcceptAfresh(c, ready) ==
    [faulted |-> IF c \in {"restart", "reload"} THEN FALSE ELSE intent.faulted,
     paused  |-> IF c \in SetPaused THEN c = "pause" ELSE intent.paused,
     pending |-> IF c = "capture" /\ ~ready THEN intent.pending + 1
                 ELSE IF c = "restart" THEN 0 ELSE intent.pending]

\* SupervisorIntent::accept.
Accept(c, ready) ==
    [faulted |-> IF c \in {"restart", "reload"} THEN FALSE ELSE intent.faulted,
     paused  |-> IF c \in SetPaused THEN c = "pause" ELSE intent.paused,
     pending |-> IF c = "capture" /\ ~ready THEN intent.pending + 1 ELSE intent.pending]

\* The lifecycle request accept returns for a command that is not a shutdown.
Restarts(c) == c = "restart" \/ (c = "reload" /\ intent.faulted)

\* Seeded fault: a restart does not raise the control's shutdown flag.
ControlledOnlyMarked(c, control) ==
    [thread   |-> control.thread,
     paused   |-> IF c \in SetPaused THEN c = "pause" ELSE control.paused,
     shutdown |-> control.shutdown,
     reload   |-> control.reload \/ c = "reload",
     reached  |-> control.reached]

\* The AgentControl of the session after a command and its lifecycle request.
Controlled(c, control) ==
    [thread   |-> control.thread,
     paused   |-> IF c \in SetPaused THEN c = "pause" ELSE control.paused,
     shutdown |-> control.shutdown \/ Restarts(c),
     reload   |-> control.reload \/ c = "reload",
     reached  |-> control.reached]

\* handle_command for every command but Shutdown.
Handle(c, state) ==
    LET ready == SessionReady(state) IN
    /\ intent' = Accept(c, ready)
    /\ cam' = IF HasSession THEN [cam EXCEPT ![session.id] = Controlled(c, @)] ELSE cam
    /\ delivered' = delivered + (IF c = "capture" /\ ready THEN 1 ELSE 0)
    /\ IF Restarts(c)
       THEN /\ monitor' = "Stopping"
            /\ session' = IF HasSession
                          THEN [session EXCEPT !.stop = TRUE, !.ready = FALSE]
                          ELSE session
            /\ restartPending' = (restartPending /\ HasSession)
            /\ due' = TRUE
       ELSE UNCHANGED <<monitor, session, restartPending, due>>
    /\ pc' = "top"

\* try_recv and recv_timeout take the oldest command.
Dequeue(state) ==
    LET c == Head(queue) IN
    /\ pc \in {"recv", "wait"} /\ queue # <<>>
    /\ queue' = Tail(queue)
    /\ \/ c = "shutdown" /\ BeginShutdown /\ UNCHANGED <<restartPending, delivered>>
       \/ c # "shutdown" /\ Handle(c, state)
    /\ UNCHANGED <<stopping, sharingPaused, sending, clients, receiver, hostVars,
                   bounds, accepted>>

\* Seeded fault: a faulted supervisor waits for a command instead of retrying.
RecvEmptyUnlessFaulted ==
    /\ pc \in {"recv", "wait"} /\ queue = <<>> /\ clients
    /\ pc' = IF pc = "wait" THEN "top"
             ELSE IF ~HasSession /\ due /\ ~intent.faulted THEN "start" ELSE "wait"
    /\ UNCHANGED <<signalVars, channelVars, intent, session, due, cam, monitor,
                   hostVars, bounds, history>>

\* Neither receive found a command.
RecvEmpty ==
    /\ pc \in {"recv", "wait"} /\ queue = <<>> /\ clients
    /\ pc' = IF pc = "wait" THEN "top"
             ELSE IF ~HasSession /\ due THEN "start" ELSE "wait"
    /\ UNCHANGED <<signalVars, channelVars, intent, session, due, cam, monitor,
                   hostVars, bounds, history>>

RecvDisconnected ==
    /\ pc \in {"recv", "wait"} /\ queue = <<>> /\ ~clients
    /\ stopping' = TRUE
    /\ BeginShutdown
    /\ UNCHANGED <<restartPending, sharingPaused, channelVars, hostVars, bounds,
                   history>>

\* Seeded fault: stopping is not read again under the lock.
StartNeverRefused == FALSE

\* The second look at stopping, under start_admission.
StartRefused == stopping

StartAborted ==
    /\ pc = "start" /\ sending = "none" /\ StartRefused
    /\ pc' = "top"
    /\ UNCHANGED <<signalVars, channelVars, intent, session, due, cam, monitor,
                   hostVars, bounds, history>>

\* Seeded fault: a new session ignores the operator's pause.
FirstControlUnpaused == Blank("new")

\* The AgentControl a session is created with.
FirstControl == [Blank("new") EXCEPT !.paused = intent.paused]

\* CameraSession::start spawns a camera thread.
Start(id) ==
    /\ pc = "start" /\ sending = "none" /\ ~StartRefused /\ ~Alive(id)
    /\ intent' = [intent EXCEPT !.faulted = FALSE]
    /\ session' = [NoSession EXCEPT !.id = id]
    /\ cam' = [cam EXCEPT ![id] = FirstControl]
    /\ pc' = "top"
    /\ UNCHANGED <<signalVars, channelVars, due, monitor, hostVars, bounds, history>>

\* The thread cannot be spawned.
StartFails ==
    /\ pc = "start" /\ sending = "none" /\ ~StartRefused /\ faults < MaxFaults
    /\ faults' = faults + 1
    /\ intent' = [intent EXCEPT !.faulted = TRUE]
    /\ monitor' = "Faulted" /\ due' = FALSE /\ pc' = "top"
    /\ UNCHANGED <<signalVars, channelVars, session, cam, hostVars, sent, history>>

\* retry_at is reached.
Elapse ==
    /\ ~due
    /\ due' = TRUE
    /\ UNCHANGED <<signalVars, channelVars, pc, intent, session, cam, monitor,
                   hostVars, bounds, history>>

\* A panic in the loop: dropping the session stops and joins its owner.
Panic ==
    /\ pc \in {"top", "check", "recv", "start", "wait"} /\ faults < MaxFaults
    /\ faults' = faults + 1
    /\ cam' = IF HasSession THEN [cam EXCEPT ![session.id].shutdown = TRUE] ELSE cam
    /\ pc' = "unwinding"
    /\ UNCHANGED <<signalVars, channelVars, intent, session, due, monitor, hostVars,
                   sent, history>>

\* The join of orderly_shutdown or of Drop returns, and the receiver is dropped.
Joined ==
    /\ pc \in {"joining", "unwinding"} /\ (HasSession => IsFinished)
    /\ monitor' = IF pc = "joining" THEN "Stopping" ELSE "Faulted"
    /\ session' = NoSession
    /\ receiver' = FALSE /\ queue' = <<>> /\ pc' = "returned"
    /\ UNCHANGED <<signalVars, sending, clients, intent, due, cam, hostVars,
                   bounds, history>>

\* The supervisor thread's last store.
Stop ==
    /\ pc = "returned"
    /\ stopping' = TRUE /\ pc' = "stopped"
    /\ UNCHANGED <<restartPending, sharingPaused, channelVars, intent, session, due,
                   cam, monitor, hostVars, bounds, history>>

----------------------------------------------------------------------------
(***************************************************************************)
(* A camera thread: run_camera and the agent loop it calls.                *)
(***************************************************************************)

BeginAttempt(i) ==
    /\ cam[i].thread = "new"
    /\ cam' = [cam EXCEPT ![i].thread = "starting"]
    /\ monitor' = "Starting"
    /\ UNCHANGED faults

\* What is left of a thread that has returned: nobody reads its control again.
Ended(i) == [Blank("finished") EXCEPT !.reached = cam[i].reached]

\* Every frame, and the end of settling, reports the control's pause flag; the
\* loop takes a reload once settled.
Frame(i) ==
    /\ cam[i].thread \in {"starting", "running"}
    /\ cam' = [cam EXCEPT ![i] =
                  [thread |-> "running", paused |-> cam[i].paused,
                   shutdown |-> cam[i].shutdown, reached |-> TRUE,
                   reload |-> cam[i].reload /\ cam[i].thread = "starting"]]
    /\ monitor' = IF cam[i].paused THEN "Paused" ELSE "Capturing"
    /\ UNCHANGED faults

\* The loop sees the shutdown flag and publishes the result of the attempt.
Leave(i) ==
    /\ cam[i].thread \in {"starting", "running"} /\ cam[i].shutdown
    /\ cam' = [cam EXCEPT ![i].thread = "leaving"]
    /\ monitor' = "Stopping"
    /\ UNCHANGED faults

\* An error is published; one before begin_attempt is only returned.
Fail(i) ==
    /\ cam[i].thread \in {"new", "starting", "running"} /\ faults < MaxFaults
    /\ faults' = faults + 1
    /\ cam' = [cam EXCEPT ![i].thread = "leaving"]
    /\ monitor' = IF cam[i].thread = "new" THEN monitor ELSE "Faulted"

\* A panic ends the thread and publishes nothing.
CameraPanics(i) ==
    /\ cam[i].thread \in {"new", "starting", "running"} /\ faults < MaxFaults
    /\ faults' = faults + 1
    /\ cam' = [cam EXCEPT ![i] = Ended(i)]
    /\ UNCHANGED monitor

\* A native call that never returns.
Hang(i) ==
    /\ cam[i].thread \in {"new", "starting", "running"} /\ faults < MaxFaults
    /\ faults' = faults + 1
    /\ cam' = [cam EXCEPT ![i].thread = "hung"]
    /\ UNCHANGED monitor

Return(i) ==
    /\ cam[i].thread = "leaving"
    /\ cam' = [cam EXCEPT ![i] = Ended(i)]
    /\ UNCHANGED <<monitor, faults>>

CameraStep(i) ==
    /\ \/ BeginAttempt(i) \/ Frame(i) \/ Leave(i) \/ Fail(i)
       \/ CameraPanics(i) \/ Hang(i) \/ Return(i)
    /\ UNCHANGED <<signalVars, channelVars, superVars, hostVars, sent, history>>

----------------------------------------------------------------------------
(***************************************************************************)
(* The watchdog and the end of the process.                                *)
(***************************************************************************)

\* Seeded fault: the watchdog waits for the supervisor to leave its loop.
WatchdogSeesReturn == stopping /\ pc \in {"returned", "stopped"}

\* What starts the watchdog's grace period.
WatchdogSees == stopping

Arm ==
    /\ host = "running" /\ ~watchdog /\ WatchdogSees
    /\ watchdog' = TRUE
    /\ UNCHANGED <<signalVars, channelVars, superVars, cam, monitor, host, bounds,
                   history>>

\* The process takes every thread with it.
ProcessEnds(how) ==
    /\ host = "running"
    /\ host' = how
    /\ sending' = "none" /\ queue' = <<>> /\ clients' = FALSE /\ receiver' = FALSE
    /\ pc' = "gone" /\ due' = TRUE /\ session' = NoSession
    /\ cam' = [i \in Ids |-> Blank("finished")]
    /\ UNCHANGED <<signalVars, intent, monitor, watchdog, bounds, history>>

\* The grace has passed and the process is still there.
Terminate == watchdog /\ ProcessEnds("terminated")

\* The host joins the supervisor and leaves.
ExitHost == pc = "stopped" /\ ProcessEnds("exited")

SupervisorStep ==
    \/ TopStops \/ (\E state \in Snapshots : Observe(state)) \/ ObserveStopping
    \/ CheckLive \/ JoinRestarting \/ JoinUnexpected
    \/ (\E state \in Snapshots : Dequeue(state)) \/ RecvEmpty \/ RecvDisconnected
    \/ StartAborted \/ (\E id \in Ids : Start(id)) \/ Joined \/ Stop

Next ==
    \/ \E c \in Commands : BeginSend(c)
    \/ EndSend \/ DropClients
    \/ SupervisorStep \/ StartFails \/ Panic \/ Elapse
    \/ \E i \in Ids : CameraStep(i)
    \/ Arm \/ Terminate \/ ExitHost

(***************************************************************************)
(* Threads are scheduled, a send that has begun ends, and delays elapse.   *)
(* A camera thread makes progress unless it is hung: it attempts, delivers *)
(* frames, and answers a shutdown.  No failure is fair.                    *)
(***************************************************************************)
Fairness ==
    /\ WF_vars(SupervisorStep) /\ WF_vars(EndSend) /\ WF_vars(Elapse)
    /\ WF_vars(Arm) /\ WF_vars(Terminate)
    /\ \A i \in Ids :
          /\ WF_vars(BeginAttempt(i) /\ CameraStep(i))
          /\ WF_vars(Leave(i) /\ CameraStep(i))
          /\ WF_vars(Return(i) /\ CameraStep(i))

Spec == Init /\ [][Next]_vars
FairSpec == Spec /\ Fairness

----------------------------------------------------------------------------
(***************************************************************************)
(* Properties.                                                             *)
(***************************************************************************)

Flags ==
    /\ stopping \in BOOLEAN /\ restartPending \in BOOLEAN /\ sharingPaused \in BOOLEAN
    /\ clients \in BOOLEAN /\ receiver \in BOOLEAN
    /\ due \in BOOLEAN /\ watchdog \in BOOLEAN

\* Every variable has its type; in particular the count of waiting captures,
\* an unsigned integer, is never taken below zero.
TypeOK ==
    /\ Flags
    /\ sending \in Commands \cup {"none"} /\ queue \in Seq(Commands)
    /\ pc \in {"top", "check", "recv", "start", "wait", "joining", "unwinding",
              "returned", "stopped", "gone"}
    /\ intent \in Intents /\ session \in Sessions /\ cam \in [Ids -> Cams]
    /\ monitor \in States /\ host \in {"running", "exited", "terminated"}
    /\ sent \in 0 .. MaxCommands /\ faults \in 0 .. MaxFaults
    /\ accepted \in Nat /\ delivered \in Nat

\* Only the thread of the present session is ever alive: no replacement opens
\* the camera while an old owner, hung ones included, still runs
\* (supervise_camera_with joins before it starts).
OneOwner == \A i \in Ids : Alive(i) => session.id = i

\* Once stopping is set no camera thread is started, however a due retry races
\* the Shutdown command (the second load under start_admission).
NoStartAfterStop ==
    [][stopping => \A i \in Ids : Alive(i)' => Alive(i)]_vars

\* When no pause command is on its way, the sharing fence, the supervisor's
\* intent and the control of the live camera agree on the operator's pause,
\* across faults, retries and restarts.
PauseAgrees ==
    receiver /\ sending \notin SetPaused /\ ToSet(queue) \cap SetPaused = {} =>
        /\ intent.paused = sharingPaused
        /\ HasSession /\ ~IsFinished => cam[session.id].paused = sharingPaused

\* Every accepted capture request is queued, waiting or handed to a camera:
\* faults, retries and restarts lose none (pending_captures).
Captures(commands) == {k \in DOMAIN commands : commands[k] = "capture"}
CapturesConserved ==
    receiver => accepted = delivered + intent.pending + Cardinality(Captures(queue))

\* A capture request is handed only to a session that is not being stopped and
\* whose own thread has reported a capturing state: the status an earlier
\* owner left in the shared monitor never makes a new session ready.
CapturesReachCamera ==
    [][delivered' # delivered =>
          HasSession /\ ~session.stop /\ cam[session.id].reached]_vars

\* A raised restart_pending belongs to a restart being sent, queued or carried
\* out, so a coalesced request is never lost and the fence never stays up for
\* nothing.
RestartHasOwner ==
    restartPending /\ receiver =>
        sending = "restart" \/ "restart" \in ToSet(queue) \/ session.stop

(***************************************************************************)
(* What makes the safety properties inductive.                             *)
(***************************************************************************)

\* No session is an empty one, only an empty one is started, and the channel is
\* open as long as the supervisor is in its loop.
SessionInv ==
    /\ ~HasSession => session = NoSession
    /\ pc = "start" => ~HasSession
    /\ receiver \/ pc \in {"returned", "stopped", "gone"}

\* The last pause command on its way decides what the sharing fence shows.
PauseInv ==
    /\ receiver /\ sending \in SetPaused => sharingPaused = (sending = "pause")
    /\ receiver /\ sending \notin SetPaused =>
          \A k \in DOMAIN queue :
              /\ queue[k] \in SetPaused
              /\ \A n \in DOMAIN queue : n > k => queue[n] \notin SetPaused
              => sharingPaused = (queue[k] = "pause")

\* The control of a live camera follows the supervisor's intent.
ControlInv == HasSession /\ Alive(session.id) => cam[session.id].paused = intent.paused

\* A capturing status, or a ready session, is the present thread's own report.
ReadyInv ==
    /\ receiver /\ monitor \in Ready => HasSession /\ cam[session.id].reached
    /\ session.ready => HasSession /\ cam[session.id].reached

\* The inductive invariant of the supervisor: the safety properties, and the
\* parts above that each step of the loop, the clients and the camera keeps.
SupervisorInv ==
    /\ SessionInv /\ OneOwner /\ RestartHasOwner
    /\ ControlInv /\ PauseInv /\ PauseAgrees /\ ReadyInv

\* A restart is carried out unless the host shuts down or the owner hangs.
RestartServed ==
    restartPending ~> ~restartPending \/ stopping \/ \E i \in Ids : cam[i].thread = "hung"

\* A supervisor without a camera starts one again, unless it is stopping.
CameraRetried == ~HasSession ~> HasSession \/ stopping

\* Neither a coalesced restart nor a fault leaves the host without a camera.
CameraComesBack == RestartServed /\ CameraRetried

\* Once stopping is set the process ends, whatever the camera owner does.
ShutdownEnds == stopping ~> host # "running"

\* The comment in handle_command: sharing stays fenced, and repeated requests
\* coalesced, while the original owner stops.
RestartStaysFenced == session.stop => restartPending

============================================================================
