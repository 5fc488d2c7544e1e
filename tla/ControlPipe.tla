------------------------------ MODULE ControlPipe ------------------------------
(***************************************************************************)
(* Settings over the control pipe: the configuration file and its           *)
(* compare-and-replace (autopiercam-core/src/config_store.rs), the pipe     *)
(* server with its connection tasks (autopiercam-tray/src/ipc.rs), the      *)
(* Viewers that load, edit and save settings (AgentPipeClient.cs,           *)
(* MainWindow*.cs), the command-line shutdown (control_client.rs), and what *)
(* the agent does with a saved configuration.                               *)
(***************************************************************************)
EXTENDS Naturals

CONSTANTS
    None,
    Viewers,     \* windows that edit the settings
    Cli,         \* the command that shuts the tray down
    Slots,       \* connection tasks, MAX_IN_FLIGHT_CONNECTIONS
    MaxEdits,    \* bound: edits of the settings form, shutdown commands and faults, together
    MaxRequests, \* bound: requests of the clients
    MaxFaults    \* bound: timeouts, mute clients, failed writes, quits

Clients == Viewers \cup {Cli}

ASSUME ControlAssumption ==
    /\ None \notin Clients /\ Cli \notin Viewers
    /\ Slots \subseteq Nat /\ {MaxEdits, MaxRequests, MaxFaults} \subseteq Nat

VARIABLES
    file,     \* the configuration on disk; its revision is its content
    agent,    \* what capture runs with: state, configuration, pending reload, restart
    host,     \* the tray: "up", "stopping" (shutdown accepted), "stopped", "exited"
    stop,     \* stop flag of the pipe server
    task,     \* connection tasks: step, client, request, reply
    client,   \* a client's operation, its request and the reply it has read
    form,     \* a Viewer's settings: snapshot, form, needs refresh, needs review
    edits, requests, faults

vars == <<file, agent, host, stop, task, client, form, edits, requests, faults>>

\* What requires_camera_restart looks at, and the rest.
Config == [cam : {0, 1}, rec : {0, 1}]
RequiresRestart(old, new) == old.cam # new.cam

Free == [pc |-> "free", who |-> None, live |-> FALSE, req |-> None, restart |-> FALSE, reply |-> None]
Quiet == [op |-> "idle", req |-> None, got |-> None]
Get == [kind |-> "get", base |-> None, next |-> None, keep |-> FALSE]
Replace(base, next) == [Get EXCEPT !.kind = "replace", !.base = base, !.next = next]

\* A Viewer's window, before it has read the settings and after.
NotLoaded(cfg) == [snap |-> None, values |-> cfg, stale |-> TRUE, review |-> FALSE]
Shows(cfg) == [snap |-> cfg, values |-> cfg, stale |-> FALSE, review |-> FALSE]

\* ConfigStore::open writes the defaults when there is no file.
DefaultConfig == [cam |-> 0, rec |-> 0]

Init ==
    /\ file = DefaultConfig
    /\ agent = [st |-> "running", cfg |-> file, reload |-> FALSE, restart |-> FALSE]
    /\ host = "up" /\ stop = FALSE
    /\ task = [t \in Slots |-> Free]
    /\ client = [c \in Clients |-> Quiet]
    /\ \E f \in {NotLoaded(file), Shows(file)} : form = [v \in Viewers |-> f]
    /\ edits = 0 /\ requests = 0 /\ faults = 0

\* An edit, a shutdown command (counted with the edits) or a fault is within its bound.
Bounded == edits + faults < MaxEdits
Fault == Bounded /\ faults < MaxFaults /\ faults' = faults + 1

-----------------------------------------------------------------------------
(* Clients.  A client has one request at a time (_requestGate). *)

Request(c, req) ==
    /\ client[c].op = "idle" /\ requests < MaxRequests
    /\ requests' = requests + 1
    /\ client' = [client EXCEPT ![c] = [op |-> "connect", req |-> req, got |-> None]]
    /\ UNCHANGED <<file, agent, host, stop, task, faults>>

\* RefreshStatusAndConfigurationAsync: nothing may be saved until it is complete.
Refresh(v) ==
    /\ Request(v, Get) /\ UNCHANGED edits
    /\ form' = [form EXCEPT ![v].stale = TRUE]

\* KeepCaptureEditsAsync, after a conflict: adopt the revision, keep the form.
KeepEdits(v) ==
    /\ form[v].review
    /\ Request(v, [Get EXCEPT !.keep = TRUE])
    /\ UNCHANGED <<form, edits>>

Edited(cfg) == {[cfg EXCEPT !.cam = 1 - @], [cfg EXCEPT !.rec = 1 - @]}

\* One control of the form is changed.
Edit(v) ==
    /\ client[v].op = "idle" /\ form[v].snap # None /\ Bounded
    /\ edits' = edits + 1
    /\ \E values \in Edited(form[v].values) : form' = [form EXCEPT ![v].values = values]
    /\ UNCHANGED <<file, agent, host, stop, task, client, requests, faults>>

\* SaveConfigurationAsync.
Save(v) ==
    /\ form[v].snap # None /\ ~form[v].stale /\ ~form[v].review
    /\ form[v].values # form[v].snap
    /\ Request(v, Replace(form[v].snap, form[v].values))
    /\ UNCHANGED <<form, edits>>

\* autopiercam shutdown.
ShutdownAgent ==
    /\ Bounded
    /\ edits' = edits + 1
    /\ Request(Cli, [Get EXCEPT !.kind = "shutdown"])
    /\ UNCHANGED form

\* The operation of a client ends without an answer to its request: offline, or
\* uncertain.  A Viewer has to reload its settings before it saves again.
Unanswered(c) ==
    /\ client' = [client EXCEPT ![c] = Quiet]
    /\ form' = IF c \in Viewers THEN [form EXCEPT ![c].stale = TRUE] ELSE form

\* There is no pipe, or no instance of it is free in time.
ConnectFails(c) ==
    /\ client[c].op = "connect"
    /\ IF host = "exited" THEN UNCHANGED faults ELSE Fault
    /\ Unanswered(c)
    /\ UNCHANGED <<file, agent, host, stop, task, edits, requests>>

\* The request is answered too late: it may still complete.
RequestTimesOut(c) ==
    /\ client[c].op = "wait" /\ client[c].got = None /\ Fault
    /\ Unanswered(c)
    /\ task' = [t \in Slots |-> IF task[t].who = c THEN [task[t] EXCEPT !.live = FALSE] ELSE task[t]]
    /\ UNCHANGED <<file, agent, host, stop, edits, requests>>

\* The end of the stream instead of an answer.
Disconnected(c) ==
    /\ client[c].op = "wait" /\ client[c].got = None
    /\ \A t \in Slots : ~(task[t].who = c /\ task[t].live)
    /\ Unanswered(c)
    /\ UNCHANGED <<file, agent, host, stop, task, edits, requests, faults>>

\* What a Viewer shows after a reply.
Shown(f, req, reply) ==
    CASE reply.code = "snapshot" /\ ~req.keep -> Shows(reply.cfg)
      [] reply.code = "snapshot" /\ req.keep ->
            [Shows(reply.cfg) EXCEPT !.values = f.values]
      [] reply.code = "saved" -> Shows(req.next)
      [] reply.code = "conflict" -> [f EXCEPT !.stale = TRUE, !.review = TRUE]
      [] reply.code = "saved_agent_stopped" -> [f EXCEPT !.stale = TRUE]
      [] OTHER -> f

ReadReply(c) ==
    /\ client[c].got # None
    /\ client' = [client EXCEPT ![c] = Quiet]
    /\ form' = IF c \in Viewers
               THEN [form EXCEPT ![c] = Shown(@, client[c].req, client[c].got)] ELSE form
    /\ UNCHANGED <<file, agent, host, stop, task, edits, requests, faults>>

-----------------------------------------------------------------------------
(* The pipe server. *)

Step(t, pc) == task' = [task EXCEPT ![t].pc = pc]
Reply(code, cfg) == [code |-> code, cfg |-> cfg]
Answer(t, code, cfg) == task' = [task EXCEPT ![t].pc = "reply", ![t].reply = Reply(code, cfg)]
Closed(t) == task' = [task EXCEPT ![t] = Free]

\* A connected client that sends nothing is "mute".  A task takes the first name
\* that is free.
Accept(t, c) ==
    /\ ~stop /\ host # "exited" /\ task[t].pc = "free" /\ client[c].op = "connect"
    /\ \A u \in Slots : u < t => task[u].pc # "free"
    /\ \/ UNCHANGED faults
          /\ task' = [task EXCEPT ![t] = [Free EXCEPT !.pc = "read", !.who = c, !.live = TRUE,
                                                      !.req = client[c].req]]
       \/ Fault /\ task' = [task EXCEPT ![t] = [Free EXCEPT !.pc = "mute", !.who = c, !.live = TRUE,
                                                            !.req = client[c].req]]
    /\ client' = [client EXCEPT ![c].op = "wait"]
    /\ UNCHANGED <<file, agent, host, stop, form, edits, requests>>

\* read_request: the request, or the end of the stream.
ReadRequest(t) ==
    /\ task[t].pc = "read" /\ ~stop
    /\ IF task[t].live THEN Step(t, "dispatch") ELSE Closed(t)
    /\ UNCHANGED <<file, agent, host, stop, client, form, edits, requests, faults>>

\* Seeded fault: reading polls neither the deadline nor the stop flag.
GiveUpAtEnd(t) ==
    /\ task[t].pc = "mute" /\ ~task[t].live
    /\ Closed(t)
    /\ UNCHANGED <<file, agent, host, stop, client, form, edits, requests, faults>>
\* No request within CLIENT_REQUEST_TIMEOUT, or the server stops.
GiveUp(t) ==
    /\ task[t].pc = "mute" \/ (task[t].pc = "read" /\ stop)
    /\ Closed(t)
    /\ UNCHANGED <<file, agent, host, stop, client, form, edits, requests, faults>>

\* Seeded fault: the answer to a shutdown does not wait for the command.
DispatchEarly(t) ==
    /\ task[t].pc = "dispatch" /\ task[t].req.kind # "replace"
    /\ Answer(t, IF task[t].req.kind = "get" THEN "snapshot" ELSE "accepted", file)
    /\ UNCHANGED <<file, agent, host, stop, client, form, edits, requests, faults>>
\* dispatch, and the first half of config_replace_response: the kind of command
\* is chosen from the configuration as it is before the replacement.
Dispatch(t) ==
    /\ task[t].pc = "dispatch"
    /\ CASE task[t].req.kind = "get" -> Answer(t, "snapshot", file) /\ UNCHANGED host
         [] task[t].req.kind = "replace" ->
                /\ task' = [task EXCEPT ![t].pc = "replace",
                                        ![t].restart = RequiresRestart(file, task[t].req.next)]
                /\ UNCHANGED host
         [] task[t].req.kind = "shutdown" ->
                IF host = "up" THEN host' = "stopping" /\ Answer(t, "accepted", None)
                               ELSE UNCHANGED host /\ Answer(t, "agent_stopped", None)
    /\ UNCHANGED <<file, agent, stop, client, form, edits, requests, faults>>

\* Seeded fault: the replacement does not compare revisions.
IsAnything(t) == TRUE
IsCurrent(t) == file = task[t].req.base

\* ConfigStore::replace, under its lock: a temporary file is renamed over the target.
StoreReplace(t) ==
    /\ task[t].pc = "replace"
    /\ \/ IsCurrent(t) /\ file' = task[t].req.next /\ Step(t, "notify") /\ UNCHANGED faults
       \/ ~IsCurrent(t) /\ Answer(t, "conflict", None) /\ UNCHANGED <<file, faults>>
       \/ IsCurrent(t) /\ Fault /\ Answer(t, "error", None) /\ UNCHANGED file
    /\ UNCHANGED <<agent, host, stop, client, form, edits, requests>>

\* The rest of config_replace_response: WorkerClient::send.
Notify(t) ==
    /\ task[t].pc = "notify"
    /\ IF host = "up"
       THEN /\ agent' = IF task[t].restart THEN [agent EXCEPT !.restart = TRUE]
                                           ELSE [agent EXCEPT !.reload = TRUE]
            /\ Answer(t, "saved", task[t].req.next)
       ELSE UNCHANGED agent /\ Answer(t, "saved_agent_stopped", None)
    /\ UNCHANGED <<file, host, stop, client, form, edits, requests, faults>>

\* send_response_and_finish: the server stops only after a client that shut it
\* down has its answer; a write that fails leaves that to the tray.
Respond(t) ==
    /\ task[t].pc = "reply"
    /\ Closed(t)
    /\ IF task[t].live
       THEN /\ client' = [client EXCEPT ![task[t].who].got = task[t].reply]
            /\ stop' = (stop \/ task[t].reply.code = "accepted")
       ELSE UNCHANGED <<client, stop>>
    /\ UNCHANGED <<file, agent, host, form, edits, requests, faults>>

-----------------------------------------------------------------------------
(* Capture and the tray. *)

\* Seeded fault: a reload is always carried out in place; that the camera layout is the
\* same is taken from the server, which sends a restart otherwise.
ReloadedInPlace(next) == [agent EXCEPT !.cfg.rec = next.rec, !.reload = FALSE]

\* The capture loop reads the file; another camera layout ends the attempt.
Reloaded(next) ==
    IF RequiresRestart(agent.cfg, next) THEN [agent EXCEPT !.st = "down", !.reload = FALSE]
    ELSE [agent EXCEPT !.cfg = next, !.reload = FALSE]

Reload ==
    /\ host = "up" /\ agent.st = "running" /\ agent.reload
    /\ agent' = Reloaded(file)
    /\ UNCHANGED <<file, host, stop, task, client, form, edits, requests, faults>>

\* The supervisor stops the camera session for a restart...
StopSession ==
    /\ host = "up" /\ agent.st = "running" /\ agent.restart
    /\ agent' = [agent EXCEPT !.st = "down", !.reload = FALSE]
    /\ UNCHANGED <<file, host, stop, task, client, form, edits, requests, faults>>

\* ...and starts one, which loads the file, when it has ended.  A reload asked for
\* meanwhile finds no camera and is dropped, or reaches the new session.
StartSession ==
    /\ host = "up" /\ agent.st = "down"
    /\ \E r \in {FALSE, agent.reload} :
          agent' = [st |-> "running", cfg |-> file, reload |-> r, restart |-> FALSE]
    /\ UNCHANGED <<file, host, stop, task, client, form, edits, requests, faults>>

\* Quit in the tray's menu.
Quit ==
    /\ host = "up" /\ Fault
    /\ host' = "stopping"
    /\ UNCHANGED <<file, agent, stop, task, client, form, edits, requests>>

\* The worker stops the camera and reports; the tray then stops the pipe server.
WorkerStopped ==
    /\ host = "stopping"
    /\ host' = "stopped" /\ stop' = TRUE
    /\ agent' = [agent EXCEPT !.st = "down"]
    /\ UNCHANGED <<file, task, client, form, edits, requests, faults>>

\* The server thread is joined: it waits for the tasks that are left.
Exit ==
    /\ host = "stopped" /\ \A t \in Slots : task[t].pc = "free"
    /\ host' = "exited"
    /\ UNCHANGED <<file, agent, stop, task, client, form, edits, requests, faults>>

Serve(t) ==
    ReadRequest(t) \/ GiveUp(t) \/ Dispatch(t) \/ StoreReplace(t) \/ Notify(t) \/ Respond(t)
Capture == Reload \/ StopSession \/ StartSession
Tray == WorkerStopped \/ Exit

Next ==
    \/ \E v \in Viewers : Refresh(v) \/ KeepEdits(v) \/ Edit(v) \/ Save(v)
    \/ ShutdownAgent
    \/ \E c \in Clients : ConnectFails(c) \/ RequestTimesOut(c) \/ Disconnected(c) \/ ReadReply(c)
    \/ \E t \in Slots : Serve(t) \/ \E c \in Clients : Accept(t, c)
    \/ Capture \/ Quit \/ Tray

Spec == Init /\ [][Next]_vars
\* Connection tasks, capture and the tray's event loop are scheduled.
FairSpec ==
    /\ Spec
    /\ \A t \in Slots : WF_vars(Serve(t))
    /\ WF_vars(Capture) /\ WF_vars(Tray)

-----------------------------------------------------------------------------
(* Properties. *)

Requests == [kind : {"get", "replace", "shutdown"}, base : Config \cup {None},
             next : Config \cup {None}, keep : BOOLEAN]
Replies == [code : {"snapshot", "saved", "saved_agent_stopped", "conflict", "error", "accepted",
                    "agent_stopped"},
            cfg : Config \cup {None}]
Tasks == [pc : {"free", "read", "mute", "dispatch", "replace", "notify", "reply"},
          who : Clients \cup {None}, live : BOOLEAN, req : Requests \cup {None},
          restart : BOOLEAN, reply : Replies \cup {None}]
Operations == [op : {"idle", "connect", "wait"}, req : Requests \cup {None},
               got : Replies \cup {None}]
Forms == [snap : Config \cup {None}, values : Config, stale : BOOLEAN, review : BOOLEAN]

AgentType ==
    /\ file \in Config
    /\ agent \in [st : {"running", "down"}, cfg : Config, reload : BOOLEAN, restart : BOOLEAN]
    /\ host \in {"up", "stopping", "stopped", "exited"} /\ stop \in BOOLEAN
TaskType == task \in [Slots -> Tasks]
ClientType == client \in [Clients -> Operations] /\ form \in [Viewers -> Forms]
BoundsType ==
    /\ edits \in 0 .. MaxEdits /\ requests \in 0 .. MaxRequests /\ faults \in 0 .. MaxFaults
TypeOK == AgentType /\ TaskType /\ ClientType /\ BoundsType

\* An answer reaches the client that asked, and the server never stops before
\* the shutdown it was told of is under way (serve_connection).
AnswersMatch ==
    /\ \A t, u \in Slots : task[t].live /\ task[u].live /\ task[t].who = task[u].who => t = u
    /\ stop => host # "up"
    /\ \A c \in Clients : client[c].got # None /\ client[c].got.code = "accepted"
                            => c = Cli /\ host # "up"

ControlInv == TypeOK /\ AnswersMatch

\* A save replaces only what its Viewer has shown: whatever was saved in between,
\* answered late or not at all, no edit is overwritten unseen, and while its Viewer
\* waits it writes what the form shows.
SavesAreInformed ==
    [][file' # file =>
          \E t \in Slots :
             /\ task[t].pc = "replace" /\ task[t].req.base = file
             /\ task[t].live => LET f == form[task[t].who] IN f.snap = file /\ f.values = file']_vars

\* What is saved reaches capture, although the choice between a reload and a restart
\* is made from a configuration that another save may replace first: a save whose
\* base is restored between the choice and its replacement goes through with the
\* choice for another change, and a reload is sent where a restart was needed.
AgentFollowsFile == agent.cfg # file ~> (agent.cfg = file \/ host # "up")

\* A shutdown that was accepted ends the process: no connection holds it up.
ShutdownEnds == host = "stopping" ~> host = "exited"

-----------------------------------------------------------------------------
(* The inductive invariant behind these properties. *)

\* A request its client may have sent.
RequestOf(c, req) ==
    /\ req \in Requests
    /\ req.kind = "replace" => c \in Viewers /\ req.base \in Config /\ req.next \in Config
    /\ req.kind = "shutdown" => c = Cli

\* A reply to that request; "accepted" is one only once the tray stops.
AnswerTo(req, reply) ==
    /\ reply \in Replies
    /\ reply.code = "snapshot" => reply.cfg \in Config
    /\ reply.code = "saved" => req.kind = "replace"
    /\ reply.code = "accepted" => req.kind = "shutdown" /\ host # "up"

\* A task holds the request of its client, which waits for it while both are connected.
TaskInv ==
    \A t \in Slots :
        /\ task[t].pc = "free" => ~task[t].live
        /\ task[t].pc # "free" => RequestOf(task[t].who, task[t].req) /\ task[t].who \in Clients
        /\ task[t].pc \in {"replace", "notify"} => task[t].req.kind = "replace"
        /\ task[t].pc = "reply" => AnswerTo(task[t].req, task[t].reply)
        /\ task[t].live => LET c == client[task[t].who]
                           IN  c.op = "wait" /\ c.got = None /\ c.req = task[t].req

\* A client reads at most one reply, to the request it sent.
ClientInv ==
    \A c \in Clients :
        /\ client[c].op # "idle" => RequestOf(c, client[c].req)
        /\ client[c].got # None =>
              client[c].op = "wait" /\ AnswerTo(client[c].req, client[c].got)

\* The form does not change while a save is on its way.
FormInv ==
    \A v \in Viewers : client[v].op # "idle" /\ client[v].req.kind = "replace" =>
        client[v].req.base = form[v].snap /\ client[v].req.next = form[v].values

IndInv == TypeOK /\ AnswersMatch /\ TaskInv /\ ClientInv /\ FormInv
=============================================================================
