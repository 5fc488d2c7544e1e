---------------------------- MODULE PreviewStream ----------------------------
(***************************************************************************)
(* The preview from the camera to the screen: the latest-only queue, the    *)
(* encoder and the hub of the agent (autopiercam/src/preview.rs), the       *)
(* preview pipe of the tray (autopiercam-tray/src/preview.rs), and a reader *)
(* of it: its pipe client, its picture, the age of that picture, the        *)
(* exposure status it polls and the leases that keep it running (the        *)
(* Viewer's and the N.I.N.A. plugin's C# code).  The names differ from those *)
(* of ControlPipe, so that one module can reason about both of the tray's    *)
(* pipes.                                                                   *)
(***************************************************************************)
EXTENDS Naturals, Sequences

CONSTANTS
    Nothing,
    PreviewTasks, \* connection tasks of the pipe server, MAX_ACTIVE_PREVIEW_CLIENTS
    Deadline,     \* age at which a picture is stale
    FreshFor,     \* age at which an exposure status is no longer used
    MaxSessions,  \* bound: camera sessions
    MaxFrames,    \* bound: pictures offered for each session
    MaxTime,      \* bound: clock ticks
    MaxLeases,    \* bound: leases of the reader taken
    MaxBreaks     \* bound: broken pipes, timeouts, clock corrections

ASSUME PreviewAssumption ==
    /\ Nothing \notin Nat /\ PreviewTasks \subseteq Nat
    /\ Deadline \in Nat \ {0} /\ FreshFor \in Nat
    /\ {MaxSessions, MaxFrames, MaxTime, MaxLeases, MaxBreaks} \subseteq Nat

VARIABLES
    now, skew,   \* monotonic clock; the wall clock is ahead of it until corrected
    cam,         \* camera session: "off", "on" or "stopping", and its generation
    slot,        \* LatestPreviewQueue: pending job, closed
    enc,         \* encoder thread: state, job
    hub,         \* PreviewHub: session, frame
    seq,         \* next_sequence
    listener,    \* the pipe instance waiting for a client: taken by one or not
    conn,        \* connection tasks: open, last change seen, sent a frame, to the reader
    link,        \* the reader's end: state, inbox, end of stream, last frame
    view,        \* what the reader shows: phase, picture, its clock
    first,       \* history: when the picture shown first arrived
    obs,         \* last exposure status: session, active, time
    lease,       \* leases of the reader held and taken so far
    breaks

camera == <<cam, slot, enc, hub, seq>>
reader == <<link, view, first, obs, lease>>
previewVars == <<now, skew, camera, listener, conn, reader, breaks>>

Wall == now + skew
Unconnected == [open |-> FALSE, seen |-> FALSE, sent |-> FALSE, live |-> FALSE]
Down == [st |-> "down", inbox |-> <<>>, eof |-> FALSE, last |-> Nothing]
Break == breaks < MaxBreaks /\ breaks' = breaks + 1

PreviewInit ==
    /\ now = 0 /\ skew = 1
    /\ cam = [st |-> "off", gen |-> 0]
    /\ slot = [pending |-> Nothing, closed |-> TRUE]
    /\ enc = [st |-> "exited", job |-> Nothing]
    /\ hub = [cur |-> 0, frame |-> Nothing]
    /\ seq = 0
    /\ listener = FALSE
    /\ conn = [s \in PreviewTasks |-> Unconnected]
    /\ link = Down
    /\ view = [phase |-> "none", frame |-> Nothing, initial |-> 0, received |-> 0]
    /\ first = 0 /\ obs = Nothing
    /\ lease = [held |-> 0, taken |-> 0]
    /\ breaks = 0

-----------------------------------------------------------------------------
(* The agent. *)

\* change_generation advances: what the connection tasks have seen is old.
Changed == [s \in PreviewTasks |-> [conn[s] EXCEPT !.seen = FALSE]]

BeginSession ==
    /\ cam.st = "off" /\ cam.gen < MaxSessions
    /\ cam' = [st |-> "on", gen |-> cam.gen + 1]
    /\ hub' = [cur |-> cam'.gen, frame |-> Nothing] /\ conn' = Changed
    /\ slot' = [pending |-> Nothing, closed |-> FALSE]
    /\ enc' = [st |-> "wait", job |-> Nothing]
    /\ UNCHANGED <<now, skew, seq, listener, reader, breaks>>

\* try_publish: a waiting job is replaced by the newer one.
TryPublish ==
    /\ cam.st = "on" /\ ~slot.closed /\ seq < MaxFrames * cam.gen
    /\ slot' = [slot EXCEPT !.pending = [sess |-> cam.gen, at |-> Wall]]
    /\ UNCHANGED <<now, skew, cam, enc, hub, seq, listener, conn, reader, breaks>>

EncoderTakes ==
    /\ enc.st = "wait" /\ slot.pending # Nothing
    /\ enc' = [st |-> "encode", job |-> slot.pending]
    /\ slot' = [slot EXCEPT !.pending = Nothing]
    /\ UNCHANGED <<now, skew, cam, hub, seq, listener, conn, reader, breaks>>

Picture(job) == [sess |-> job.sess, seq |-> seq + 1, at |-> job.at]

\* The hub numbers every picture and keeps it if its session is the current one.
EncoderPublishes ==
    /\ enc.st = "encode"
    /\ enc' = [st |-> "wait", job |-> Nothing]
    /\ seq' = seq + 1
    /\ IF hub.cur # enc.job.sess THEN UNCHANGED <<hub, conn>>
       ELSE hub' = [hub EXCEPT !.frame = Picture(enc.job)] /\ conn' = Changed
    /\ UNCHANGED <<now, skew, cam, slot, listener, reader, breaks>>

EncoderFails ==
    /\ enc.st = "encode" /\ Break
    /\ enc' = [st |-> "wait", job |-> Nothing]
    /\ UNCHANGED <<now, skew, cam, slot, hub, seq, listener, conn, reader>>

\* Seeded fault: the encoder goes back to wait for a notification.
EncoderMissesClose ==
    /\ enc.st = "wait" /\ slot.closed /\ slot.pending # Nothing
    /\ enc' = [st |-> "exited", job |-> Nothing]
    /\ UNCHANGED <<now, skew, cam, slot, hub, seq, listener, conn, reader, breaks>>
EncoderExits ==
    /\ enc.st = "wait" /\ slot.closed /\ slot.pending = Nothing
    /\ enc' = [st |-> "exited", job |-> Nothing]
    /\ UNCHANGED <<now, skew, cam, slot, hub, seq, listener, conn, reader, breaks>>

\* The capture thread ends: it closes the queue and joins the encoder.
StopCamera ==
    /\ cam.st = "on"
    /\ cam' = [cam EXCEPT !.st = "stopping"]
    /\ slot' = [pending |-> Nothing, closed |-> TRUE]
    /\ UNCHANGED <<now, skew, enc, hub, seq, listener, conn, reader, breaks>>

\* Seeded fault: the hub keeps the picture of the session that ended.
ClearedLazily == [hub EXCEPT !.cur = 0]
Cleared == [cur |-> 0, frame |-> Nothing]

EndSession ==
    /\ cam.st = "stopping" /\ enc.st = "exited"
    /\ cam' = [cam EXCEPT !.st = "off"]
    /\ IF hub.cur # cam.gen THEN UNCHANGED <<hub, conn>>
       ELSE hub' = Cleared /\ conn' = Changed
    /\ UNCHANGED <<now, skew, slot, enc, seq, listener, reader, breaks>>

-----------------------------------------------------------------------------
(* The pipe server.  A task learns that its reader has gone when it writes. *)

AcceptReader(s) ==
    /\ listener /\ ~conn[s].open
    /\ \A t \in PreviewTasks : t < s => conn[t].open
    /\ listener' = FALSE
    /\ conn' = [conn EXCEPT ![s] = [Unconnected EXCEPT !.open = TRUE,
                                                      !.live = link.st = "attached"]]
    /\ link' = IF link.st = "attached" THEN [link EXCEPT !.st = "served"] ELSE link
    /\ UNCHANGED <<now, skew, camera, view, first, obs, lease, breaks>>

\* The task ends; the reader finds the end of the stream after what was sent.
Hangup(s) ==
    /\ conn' = [conn EXCEPT ![s] = Unconnected]
    /\ link' = IF conn[s].live THEN [link EXCEPT !.eof = TRUE] ELSE link

\* One poll of serve_connection.
ServeReader(s) ==
    /\ conn[s].open /\ ~conn[s].seen
    /\ \/ hub.frame = Nothing /\ conn[s].sent /\ Hangup(s)
       \/ /\ hub.frame = Nothing /\ ~conn[s].sent
          /\ conn' = [conn EXCEPT ![s].seen = TRUE] /\ UNCHANGED link
       \/ hub.frame # Nothing /\ ~conn[s].live /\ Hangup(s)
       \/ /\ hub.frame # Nothing /\ conn[s].live /\ link.inbox = <<>>
          /\ conn' = [conn EXCEPT ![s].seen = TRUE, ![s].sent = TRUE]
          /\ link' = [link EXCEPT !.inbox = <<hub.frame>>]
    /\ UNCHANGED <<now, skew, camera, listener, view, first, obs, lease, breaks>>

\* The reader does not take a frame in time.
WriteTimesOut(s) ==
    /\ conn[s].open /\ conn[s].live /\ ~conn[s].seen
    /\ hub.frame # Nothing /\ link.inbox # <<>> /\ Break
    /\ Hangup(s)
    /\ UNCHANGED <<now, skew, camera, listener, view, first, obs, lease>>

\* A session generation or sequence that does not advance is a protocol error.
Advances(f) ==
    link.last # Nothing => f.seq > link.last.seq /\ f.sess >= link.last.sess

-----------------------------------------------------------------------------
(* The reader. *)

\* Its end is closed: the task that serves it is left without a reader.
Dropped == [s \in PreviewTasks |-> [conn[s] EXCEPT !.live = FALSE]]

Reconnecting ==
    /\ link' = [Down EXCEPT !.st = "retry"]
    /\ conn' = Dropped
    /\ view' = [view EXCEPT !.phase = "reconnecting"]
    /\ obs' = Nothing

\* The first lease starts the reader.
AcquireLease ==
    /\ lease.taken < MaxLeases /\ link.st # "cancelled"
    /\ lease' = [held |-> lease.held + 1, taken |-> lease.taken + 1]
    /\ IF lease.held = 0
       THEN link' = [Down EXCEPT !.st = "start"] /\ obs' = Nothing
       ELSE UNCHANGED <<link, obs>>
    /\ UNCHANGED <<now, skew, camera, listener, conn, view, first, breaks>>

\* The last lease cancels it; the gate is held until its tasks have ended.
ReleaseLease ==
    /\ lease.held > 0 /\ link.st # "cancelled"
    /\ lease' = [lease EXCEPT !.held = @ - 1]
    /\ IF lease.held = 1
       THEN link' = [Down EXCEPT !.st = "cancelled"] /\ conn' = Dropped
       ELSE UNCHANGED <<link, conn>>
    /\ UNCHANGED <<now, skew, camera, listener, view, first, obs, breaks>>

Stopped ==
    /\ link.st = "cancelled"
    /\ link' = Down /\ obs' = Nothing
    /\ UNCHANGED <<now, skew, camera, listener, conn, view, first, lease, breaks>>

Connecting ==
    /\ link.st = "start"
    /\ link' = [Down EXCEPT !.st = "retry"]
    /\ view' = [view EXCEPT !.phase = "reconnecting"]
    /\ UNCHANGED <<now, skew, camera, listener, conn, first, obs, lease, breaks>>

Connect ==
    /\ link.st = "retry" /\ ~listener
    /\ listener' = TRUE
    /\ link' = [Down EXCEPT !.st = "attached"]
    /\ view' = [view EXCEPT !.phase = "waiting"]
    /\ obs' = Nothing
    /\ UNCHANGED <<now, skew, camera, conn, first, lease, breaks>>

\* Seeded fault: a picture that arrives again starts to age anew.
RecordAgain(f) == [view EXCEPT !.phase = "live", !.frame = f,
                               !.initial = IF Wall > f.at THEN Wall - f.at ELSE 0,
                               !.received = now]
\* PreviewFrameClock: the wall clock is read once for every distinct picture.
Record(f) ==
    IF view.frame = f
    THEN [view EXCEPT !.phase = "live"]
    ELSE [phase |-> "live", frame |-> f,
          initial |-> IF Wall > f.at THEN Wall - f.at ELSE 0,
          received |-> now]

ReadFrame ==
    /\ link.st = "served" /\ link.inbox # <<>>
    /\ LET f == link.inbox[1]
       IN  IF Advances(f)
           THEN /\ link' = [link EXCEPT !.inbox = <<>>, !.last = f]
                /\ view' = Record(f)
                /\ first' = IF view.frame = f THEN first ELSE now
                /\ UNCHANGED <<conn, obs>>
           ELSE Reconnecting /\ UNCHANGED first
    /\ UNCHANGED <<now, skew, camera, listener, lease, breaks>>

\* The end of the stream, or a broken pipe.
LoseStream ==
    /\ link.st = "served"
    /\ \/ link.inbox = <<>> /\ link.eof /\ UNCHANGED breaks
       \/ Break
    /\ Reconnecting
    /\ UNCHANGED <<now, skew, camera, listener, first, lease>>

\* ExposureProgressClient: the status of the agent, or nothing when it fails.
PollStatus ==
    /\ link.st \in {"retry", "attached", "served"}
    /\ obs' \in {Nothing, [sess |-> cam.gen, active |-> cam.st # "off", at |-> now]}
    /\ UNCHANGED <<now, skew, camera, listener, conn, link, view, first, lease, breaks>>

Age == view.initial + (now - view.received)
StatusContradicts ==
    /\ obs # Nothing
    /\ ~obs.active \/ obs.sess # view.frame.sess
IsLive ==
    /\ view.frame # Nothing /\ view.phase = "live"
    /\ ~StatusContradicts
    /\ Age < Deadline

\* A status that is too old is not used again: it is forgotten here.
Tick ==
    /\ now < MaxTime
    /\ now' = now + 1
    /\ obs' = IF obs # Nothing /\ now' - obs.at < FreshFor THEN obs ELSE Nothing
    /\ UNCHANGED <<skew, camera, listener, conn, link, view, first, lease, breaks>>

ClockCorrected ==
    /\ skew = 1 /\ Break
    /\ skew' = 0
    /\ UNCHANGED <<now, camera, listener, conn, reader>>

Encoder == EncoderTakes \/ EncoderPublishes \/ EncoderFails \/ EncoderExits
Server(s) == AcceptReader(s) \/ ServeReader(s) \/ WriteTimesOut(s)
Client == Connecting \/ Connect \/ ReadFrame \/ LoseStream \/ Stopped

PreviewNext ==
    \/ BeginSession \/ TryPublish \/ StopCamera \/ EndSession \/ Encoder
    \/ \E s \in PreviewTasks : Server(s)
    \/ Client \/ AcquireLease \/ ReleaseLease \/ PollStatus
    \/ Tick \/ ClockCorrected

PreviewSpec == PreviewInit /\ [][PreviewNext]_previewVars
\* The encoder thread, the server's tasks and the reader's loop are scheduled,
\* and a capture thread that is stopping joins its encoder.
PreviewFairSpec ==
    /\ PreviewSpec
    /\ WF_previewVars(EndSession) /\ WF_previewVars(Encoder) /\ WF_previewVars(Client)
    /\ \A s \in PreviewTasks : WF_previewVars(Server(s))

-----------------------------------------------------------------------------
(* Properties. *)

Pictures == [sess : 1 .. MaxSessions, seq : Nat, at : Nat]
Jobs == [sess : 1 .. MaxSessions, at : Nat]
Conns == [open : BOOLEAN, seen : BOOLEAN, sent : BOOLEAN, live : BOOLEAN]
Links == [st : {"down", "start", "retry", "attached", "served", "cancelled"},
          inbox : Seq(Pictures), eof : BOOLEAN, last : Pictures \cup {Nothing}]
Views == [phase : {"none", "waiting", "live", "reconnecting"},
          frame : Pictures \cup {Nothing}, initial : Nat, received : Nat]
CameraType ==
    /\ now \in 0 .. MaxTime /\ skew \in {0, 1} /\ breaks \in 0 .. MaxBreaks
    /\ cam \in [st : {"off", "on", "stopping"}, gen : 0 .. MaxSessions]
    /\ slot \in [pending : Jobs \cup {Nothing}, closed : BOOLEAN]
    /\ enc \in [st : {"wait", "encode", "exited"}, job : Jobs \cup {Nothing}]
    /\ hub \in [cur : 0 .. MaxSessions, frame : Pictures \cup {Nothing}]
    /\ seq \in Nat
ServerType ==
    /\ listener \in BOOLEAN
    /\ conn \in [PreviewTasks -> Conns]
ReaderType ==
    /\ link \in Links
    /\ Len(link.inbox) <= 1
    /\ view \in Views
    /\ first \in Nat
    /\ obs \in [sess : 0 .. MaxSessions, active : BOOLEAN, at : Nat] \cup {Nothing}
    /\ lease \in [held : 0 .. MaxLeases, taken : 0 .. MaxLeases]
PreviewTypeOK == CameraType /\ ServerType /\ ReaderType

\* The hub holds a picture of the session in progress or none: no encoder leaves
\* one behind or publishes one late (PreviewHub::publish, end_session).
HubIsCurrent ==
    /\ hub.frame # Nothing => hub.frame.sess = hub.cur
    /\ cam.st = "off" => hub.cur = 0

\* The reader runs while a lease on it is held, and only then, outside of a
\* transition (PierCameraPreviewLifetime).
RunningWhileLeased ==
    IF lease.held = 0 THEN link.st \in {"down", "cancelled"}
                      ELSE link.st \in {"start", "retry", "attached", "served"}

\* One task at most serves the reader, and a reader being served has one until
\* the end of its stream is announced (serve, serve_connection).
OneTaskPerReader ==
    /\ \A s, t \in PreviewTasks : conn[s].live /\ conn[t].live => s = t
    /\ link.st = "served" /\ ~link.eof => \E s \in PreviewTasks : conn[s].live

\* The agent never sends what its readers must reject: across sessions and
\* reconnections every frame on a connection advances (ValidateMonotonicOrder).
StreamAdvances == \A i \in DOMAIN link.inbox : Advances(link.inbox[i])

PreviewInv ==
    /\ PreviewTypeOK /\ HubIsCurrent /\ RunningWhileLeased /\ OneTaskPerReader /\ StreamAdvances

\* A picture shown as live reached the reader for the first time less than the
\* deadline ago: neither a reconnection that repeats it nor a correction of the
\* wall clock makes it young again (PreviewFrameClock, ExposurePresentation).
LiveIsRecent == IsLive => now - first < Deadline

-----------------------------------------------------------------------------
(* The inductive invariant behind these properties. *)

\* A job belongs to the session whose encoder is joined before it ends, and the
\* hub has numbered every picture it holds.
SessionInv ==
    /\ HubIsCurrent
    /\ cam.st # "off" => cam.gen > 0 /\ hub.cur = cam.gen
    /\ cam.st = "off" => enc.st = "exited"
    /\ cam.st # "on" => slot.closed /\ slot.pending = Nothing
    /\ slot.pending # Nothing => slot.pending \in Jobs /\ slot.pending.sess = cam.gen
    /\ enc.st = "encode" => enc.job \in Jobs /\ enc.job.sess = cam.gen
    /\ hub.frame # Nothing => hub.frame \in Pictures /\ hub.frame.seq <= seq

\* A task serves the reader exactly while its stream goes on; a reader that is not
\* served has nothing in its pipe and no frame to compare with.
LinkInv ==
    /\ OneTaskPerReader
    /\ \A s \in PreviewTasks : conn[s].live => conn[s].open /\ link.st = "served" /\ ~link.eof
    /\ link.st # "served" => link.inbox = <<>> /\ link.last = Nothing /\ ~link.eof

\* The newest frame sent to the reader is older than what the hub has to send.
Older(f, seqno, sess) == f # Nothing => f \in Pictures /\ f.seq < seqno /\ f.sess <= sess
StreamInv ==
    /\ StreamAdvances
    /\ Older(link.last, seq + 1, cam.gen)
    /\ \A i \in DOMAIN link.inbox : Older(link.inbox[i], seq + 1, cam.gen)
    /\ \A s \in PreviewTasks : conn[s].live /\ ~conn[s].seen /\ hub.frame # Nothing =>
          /\ Older(link.last, hub.frame.seq, hub.frame.sess)
          /\ \A i \in DOMAIN link.inbox : Older(link.inbox[i], hub.frame.seq, hub.frame.sess)

\* The age of a picture counts from its first arrival.
ClockInv == view.received = first /\ first <= now

LeaseInv == RunningWhileLeased /\ lease.held <= lease.taken

PreviewIndInv == PreviewTypeOK /\ SessionInv /\ LinkInv /\ StreamInv /\ ClockInv /\ LeaseInv

-----------------------------------------------------------------------------
\* When a camera session stops, a running reader stops showing it as live: the
\* encoder ends, the hub is cleared, the pipe is closed and the reader sees it.
ShowsStopped ==
    /\ lease.held > 0 /\ IsLive
    /\ ~(cam.st = "on" /\ cam.gen = view.frame.sess)
StoppedIsNotLive == ShowsStopped ~> ~ShowsStopped
=============================================================================
