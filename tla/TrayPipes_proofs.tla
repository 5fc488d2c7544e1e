--------------------------- MODULE TrayPipes_proofs ---------------------------
(* Machine-checked proofs about the tray's two named pipes: ControlPipe, for any  *)
(* Viewers, any number of connection tasks and any bounds, and PreviewStream, for *)
(* any number of pipe tasks, sessions, pictures, leases and ticks.                *)
EXTENDS ControlPipe, PreviewStream, TLAPS

-----------------------------------------------------------------------------
(* The control pipe. *)

USE ControlAssumption

\* What tasks, operations and forms start with is well formed.
LEMMA StartIsTyped ==
    /\ Free \in Tasks /\ Free.pc = "free" /\ ~Free.live
    /\ Quiet \in Operations /\ Quiet.op = "idle" /\ Quiet.got = None
    /\ Get \in Requests /\ Get.kind = "get" /\ DefaultConfig \in Config
<1>1. Free \in Tasks /\ Free.pc = "free" /\ ~Free.live
  BY DEF Free, Tasks
<1>2. Quiet \in Operations /\ Quiet.op = "idle" /\ Quiet.got = None
  BY DEF Quiet, Operations
<1>3. Get \in Requests /\ Get.kind = "get"
  BY DEF Get, Requests
<1>4. DefaultConfig \in Config
  BY DEF DefaultConfig, Config
<1> QED
  BY <1>1, <1>2, <1>3, <1>4

\* A form with a configuration that was read, or with one that is not loaded yet.
LEMMA ShownIsTyped ==
    ASSUME NEW cfg \in Config
    PROVE  Shows(cfg) \in Forms /\ NotLoaded(cfg) \in Forms
BY DEF Shows, NotLoaded, Forms

\* The fields of tasks, operations and forms.
LEMMA Fields ==
    ASSUME TypeOK
    PROVE  /\ task \in [Slots -> Tasks] /\ client \in [Clients -> Operations]
           /\ form \in [Viewers -> Forms] /\ file \in Config
           /\ \A t \in Slots : task[t] \in Tasks
           /\ \A c \in Clients : client[c] \in Operations
           /\ \A v \in Viewers : /\ form[v] \in Forms /\ form[v].values \in Config
                                 /\ form[v].snap \in Config \cup {None}
BY DEF TypeOK, TaskType, ClientType, AgentType, Forms

-----------------------------------------------------------------------------
(* What the steps of each actor have in common. *)

\* A client sends a request; the forms keep what they show.
Sent(c, req) ==
    /\ client[c].op = "idle" /\ RequestOf(c, req)
    /\ client' = [client EXCEPT ![c] = [op |-> "connect", req |-> req, got |-> None]]
    /\ req.kind = "replace" => req.base = form[c].snap /\ req.next = form[c].values
    /\ form' \in [Viewers -> Forms]
    /\ \A v \in Viewers : form'[v].snap = form[v].snap /\ form'[v].values = form[v].values
    /\ UNCHANGED <<file, agent, host, stop, task>>

\* An operation ends; no task is connected to its client any more.
Ended(c) ==
    /\ client' = [client EXCEPT ![c] = Quiet]
    /\ form' \in [Viewers -> Forms] /\ \A v \in Viewers : v # c => form'[v] = form[v]
    /\ task' \in [Slots -> Tasks]
    /\ \A t \in Slots :
          /\ task'[t].pc = task[t].pc /\ task'[t].who = task[t].who
          /\ task'[t].req = task[t].req /\ task'[t].reply = task[t].reply
          /\ task'[t].live => task[t].live /\ task[t].who # c
    /\ UNCHANGED <<file, agent, host, stop>>

\* The form of a Viewer without an operation is edited.
FormEdited(v) ==
    /\ client[v].op = "idle"
    /\ form' \in [Viewers -> Forms] /\ \A w \in Viewers : w # v => form'[w] = form[w]
    /\ UNCHANGED <<file, agent, host, stop, task, client>>

\* A task takes the request of a client that connects.
Accepted(t, c) ==
    /\ task[t].pc = "free" /\ client[c].op = "connect"
    /\ \E new \in Tasks :
          /\ task' = [task EXCEPT ![t] = new]
          /\ new.pc \in {"read", "mute"} /\ new.who = c /\ new.live /\ new.req = client[c].req
    /\ client' = [client EXCEPT ![c].op = "wait"]
    /\ UNCHANGED <<file, agent, host, stop, form>>

\* A task works on its request, or gives it up.
Served(t) ==
    /\ task[t].pc # "free"
    /\ \E new \in Tasks :
          /\ task' = [task EXCEPT ![t] = new]
          /\ new.pc = "free" => ~new.live
          /\ new.pc # "free" =>
                new.who = task[t].who /\ new.req = task[t].req /\ new.live = task[t].live
          /\ new.pc \in {"replace", "notify"} => new.req.kind = "replace"
          /\ new.pc = "reply" =>
                /\ new.reply \in Replies
                /\ new.reply.code = "snapshot" => new.reply.cfg \in Config
                /\ new.reply.code = "saved" => new.req.kind = "replace"
                /\ new.reply.code = "accepted" => new.req.kind = "shutdown" /\ host' # "up"
    /\ AgentType' /\ (host # "up" => host' # "up")
    /\ file' # file =>
          task[t].pc = "replace" /\ task[t].req.base = file /\ file' = task[t].req.next
    /\ UNCHANGED <<stop, client, form>>

\* A task writes its reply and is free.
Responded(t) ==
    /\ task[t].pc = "reply"
    /\ task' = [task EXCEPT ![t] = Free]
    /\ IF task[t].live
       THEN /\ client' = [client EXCEPT ![task[t].who].got = task[t].reply]
            /\ stop' = (stop \/ task[t].reply.code = "accepted")
       ELSE UNCHANGED <<client, stop>>
    /\ UNCHANGED <<file, agent, host, form>>

\* Capture or the tray runs.
Ran ==
    /\ AgentType' /\ (host # "up" => host' # "up") /\ (stop' => stop \/ host' # "up")
    /\ UNCHANGED <<file, task, client, form>>

SomeStep ==
    \/ \E c \in Clients : Ended(c) \/ \E req \in Requests : Sent(c, req)
    \/ \E v \in Viewers : FormEdited(v)
    \/ \E t \in Slots : Served(t) \/ Responded(t) \/ \E c \in Clients : Accepted(t, c)
    \/ Ran

\* The requests that clients send are theirs.
LEMMA RequestsAreSent ==
    ASSUME TypeOK, NEW c \in Clients,
           \/ c \in Viewers /\ (Refresh(c) \/ KeepEdits(c) \/ Save(c))
           \/ c = Cli /\ ShutdownAgent
    PROVE  \E req \in Requests : Sent(c, req)
<1>1. /\ form \in [Viewers -> Forms] /\ \A v \in Viewers : form[v] \in Forms
      /\ \A v \in Viewers : form[v].values \in Config /\ form[v].snap \in Config \cup {None}
  BY Fields
<1>2. CASE c \in Viewers /\ Refresh(c)
  <2>1. /\ form' = [form EXCEPT ![c].stale = TRUE] /\ Request(c, Get)
    BY <1>2 DEF Refresh
  <2>2. form' \in [Viewers -> Forms]
    BY <1>1, <1>2, <2>1 DEF Forms
  <2>3. \A v \in Viewers : form'[v].snap = form[v].snap /\ form'[v].values = form[v].values
    BY <1>1, <2>1 DEF Forms
  <2>4. RequestOf(c, Get) /\ Get.kind = "get"
    BY StartIsTyped DEF RequestOf
  <2> QED
    BY <2>1, <2>2, <2>3, <2>4 DEF Sent, Request, RequestOf
<1>3. CASE c \in Viewers /\ KeepEdits(c)
  <2> DEFINE req == [Get EXCEPT !.keep = TRUE]
  <2>1. Request(c, req) /\ form' = form
    BY <1>3 DEF KeepEdits
  <2>2. req \in Requests /\ req.kind = "get"
    BY DEF Get, Requests
  <2> HIDE DEF req
  <2>3. RequestOf(c, req)
    BY <2>2 DEF RequestOf
  <2> QED
    BY <1>1, <2>1, <2>2, <2>3 DEF Sent, Request
<1>4. CASE c \in Viewers /\ Save(c)
  <2> DEFINE req == Replace(form[c].snap, form[c].values)
  <2>1. Request(c, req) /\ form' = form /\ form[c].snap # None
    BY <1>4 DEF Save
  <2>2. /\ req \in Requests /\ req.kind = "replace" /\ req.base = form[c].snap
        /\ req.next = form[c].values
    BY <1>1, <1>4 DEF Replace, Get, Requests
  <2> HIDE DEF req
  <2>3. RequestOf(c, req)
    BY <1>1, <1>4, <2>1, <2>2 DEF RequestOf
  <2> QED
    BY <1>1, <2>1, <2>2, <2>3 DEF Sent, Request
<1>5. CASE c = Cli /\ ShutdownAgent
  <2> DEFINE req == [Get EXCEPT !.kind = "shutdown"]
  <2>1. Request(c, req) /\ form' = form
    BY <1>5 DEF ShutdownAgent
  <2>2. req \in Requests /\ req.kind = "shutdown"
    BY DEF Get, Requests
  <2> HIDE DEF req
  <2>3. RequestOf(c, req)
    BY <1>5, <2>2 DEF RequestOf
  <2> QED
    BY <1>1, <2>1, <2>2, <2>3 DEF Sent, Request
<1> QED
  BY <1>2, <1>3, <1>4, <1>5

\* An operation without an answer leaves a form that has to be refreshed.
LEMMA UnansweredEffect ==
    ASSUME TypeOK, NEW c \in Clients, Unanswered(c)
    PROVE  /\ client' = [client EXCEPT ![c] = Quiet]
           /\ form' \in [Viewers -> Forms] /\ \A v \in Viewers : v # c => form'[v] = form[v]
<1>1. form \in [Viewers -> Forms] /\ \A v \in Viewers : form[v] \in Forms
  BY Fields
<1>2. CASE c \in Viewers
  <2>1. form' = [form EXCEPT ![c].stale = TRUE]
    BY <1>2 DEF Unanswered
  <2>2. form' \in [Viewers -> Forms]
    BY <1>1, <1>2, <2>1 DEF Forms
  <2> QED
    BY <1>1, <2>1, <2>2 DEF Unanswered
<1>3. CASE c \notin Viewers
  BY <1>1, <1>3 DEF Unanswered
<1> QED
  BY <1>2, <1>3

\* What a Viewer shows after a reply is a form.
LEMMA ReplyIsShown ==
    ASSUME NEW f \in Forms, NEW req, NEW c, RequestOf(c, req), NEW reply, AnswerTo(req, reply)
    PROVE  Shown(f, req, reply) \in Forms
<1>1. /\ reply.code = "snapshot" => reply.cfg \in Config
      /\ reply.code = "saved" => req.next \in Config
      /\ reply.code \in {"snapshot", "saved", "saved_agent_stopped", "conflict", "error",
                         "accepted", "agent_stopped"}
      /\ req.keep \in BOOLEAN
  BY DEF AnswerTo, RequestOf, Replies, Requests
<1>2. CASE reply.code = "snapshot" /\ ~req.keep
  BY <1>1, <1>2, ShownIsTyped DEF Shown
<1>3. CASE reply.code = "snapshot" /\ req.keep
  <2>1. Shown(f, req, reply) = [Shows(reply.cfg) EXCEPT !.values = f.values]
    BY <1>3 DEF Shown
  <2>2. [Shows(reply.cfg) EXCEPT !.values = f.values] \in Forms
    BY <1>1, <1>3, ShownIsTyped DEF Forms
  <2> QED
    BY <2>1, <2>2
<1>4. CASE reply.code = "saved"
  BY <1>1, <1>4, ShownIsTyped DEF Shown
<1>5. CASE reply.code = "conflict"
  <2>1. Shown(f, req, reply) = [f EXCEPT !.stale = TRUE, !.review = TRUE]
    BY <1>5 DEF Shown
  <2> QED
    BY <2>1 DEF Forms
<1>6. CASE reply.code = "saved_agent_stopped"
  <2>1. Shown(f, req, reply) = [f EXCEPT !.stale = TRUE]
    BY <1>6 DEF Shown
  <2> QED
    BY <2>1 DEF Forms
<1>7. CASE reply.code \in {"error", "accepted", "agent_stopped"}
  <2>1. Shown(f, req, reply) = f
    BY <1>7 DEF Shown
  <2> QED
    BY <2>1
<1> QED
  BY <1>1, <1>2, <1>3, <1>4, <1>5, <1>6, <1>7

\* The four ways in which an operation ends.
LEMMA OperationsEnd ==
    ASSUME TypeOK, TaskInv, ClientInv, NEW c \in Clients,
           ConnectFails(c) \/ RequestTimesOut(c) \/ Disconnected(c) \/ ReadReply(c)
    PROVE  Ended(c)
<1>1. task \in [Slots -> Tasks] /\ form \in [Viewers -> Forms] /\ \A t \in Slots : task[t] \in Tasks
  BY Fields
<1>2. CASE ConnectFails(c)
  <2>1. Unanswered(c) /\ client[c].op = "connect" /\ UNCHANGED <<file, agent, host, stop, task>>
    BY <1>2 DEF ConnectFails
  <2>2. \A t \in Slots : task[t].live => task[t].who # c
    BY <2>1 DEF TaskInv
  <2> QED
    BY <1>1, <2>1, <2>2, UnansweredEffect DEF Ended
<1>3. CASE RequestTimesOut(c)
  <2>1. /\ Unanswered(c) /\ UNCHANGED <<file, agent, host, stop>>
        /\ task' = [t \in Slots |-> IF task[t].who = c THEN [task[t] EXCEPT !.live = FALSE]
                                                       ELSE task[t]]
    BY <1>3 DEF RequestTimesOut
  <2>2. \A t \in Slots : task'[t] = IF task[t].who = c THEN [task[t] EXCEPT !.live = FALSE]
                                                       ELSE task[t]
    BY <2>1
  <2>3. \A t \in Slots : task'[t] \in Tasks
    <3>1. \A x \in Tasks : [x EXCEPT !.live = FALSE] \in Tasks
      BY DEF Tasks
    <3> QED
      BY <1>1, <2>2, <3>1
  <2>4. task' \in [Slots -> Tasks]
    BY <2>1, <2>3
  <2>5. \A t \in Slots :
          /\ task'[t].pc = task[t].pc /\ task'[t].who = task[t].who
          /\ task'[t].req = task[t].req /\ task'[t].reply = task[t].reply
          /\ task'[t].live => task[t].live /\ task[t].who # c
    BY <1>1, <2>2 DEF Tasks
  <2> QED
    BY <2>1, <2>4, <2>5, UnansweredEffect DEF Ended
<1>4. CASE Disconnected(c)
  <2>1. /\ Unanswered(c) /\ UNCHANGED <<file, agent, host, stop, task>>
        /\ \A t \in Slots : ~(task[t].who = c /\ task[t].live)
    BY <1>4 DEF Disconnected
  <2> QED
    BY <1>1, <2>1, UnansweredEffect DEF Ended
<1>5. CASE ReadReply(c)
  <2>1. /\ client[c].got # None /\ client' = [client EXCEPT ![c] = Quiet]
        /\ form' = IF c \in Viewers
                   THEN [form EXCEPT ![c] = Shown(@, client[c].req, client[c].got)] ELSE form
        /\ UNCHANGED <<file, agent, host, stop, task>>
    BY <1>5 DEF ReadReply
  <2>2. /\ RequestOf(c, client[c].req) /\ AnswerTo(client[c].req, client[c].got)
    BY <2>1 DEF ClientInv
  <2>3. \A t \in Slots : task[t].live => task[t].who # c
    BY <2>1 DEF TaskInv
  <2>4. c \in Viewers => Shown(form[c], client[c].req, client[c].got) \in Forms
    BY <1>1, <2>2, ReplyIsShown
  <2>5. form' \in [Viewers -> Forms]
    BY <1>1, <2>1, <2>4
  <2>6. \A v \in Viewers : v # c => form'[v] = form[v]
    BY <1>1, <2>1
  <2> QED
    BY <1>1, <2>1, <2>3, <2>5, <2>6 DEF Ended
<1> QED
  BY <1>2, <1>3, <1>4, <1>5

\* One control changes.
LEMMA EditEffect ==
    ASSUME TypeOK, NEW v \in Viewers, Edit(v)
    PROVE  FormEdited(v)
<1>1. form \in [Viewers -> Forms] /\ form[v] \in Forms /\ form[v].values \in Config
  BY Fields
<1>2. PICK values \in Edited(form[v].values) : form' = [form EXCEPT ![v].values = values]
  BY DEF Edit
<1>3. values \in Config
  BY <1>1, <1>2 DEF Edited, Config
<1>4. form' \in [Viewers -> Forms]
  BY <1>1, <1>2, <1>3 DEF Forms
<1> QED
  BY <1>1, <1>2, <1>4 DEF FormEdited, Edit

\* A client is accepted.
LEMMA AcceptEffect ==
    ASSUME TypeOK, ClientInv, NEW t \in Slots, NEW c \in Clients, Accept(t, c)
    PROVE  Accepted(t, c)
<1>1. client[c].req \in Requests
  BY DEF Accept, ClientInv, RequestOf
<1> DEFINE new(pc) == [Free EXCEPT !.pc = pc, !.who = c, !.live = TRUE, !.req = client[c].req]
<1>2. ASSUME NEW pc \in {"read", "mute"}
      PROVE  /\ new(pc) \in Tasks /\ new(pc).pc = pc /\ new(pc).who = c /\ new(pc).live
             /\ new(pc).req = client[c].req
  BY <1>1 DEF Free, Tasks
<1>3. task' = [task EXCEPT ![t] = new("read")] \/ task' = [task EXCEPT ![t] = new("mute")]
  BY DEF Accept
<1>4. /\ task[t].pc = "free" /\ client[c].op = "connect" /\ client' = [client EXCEPT ![c].op = "wait"]
      /\ UNCHANGED <<file, agent, host, stop, form>>
  BY DEF Accept
<1> HIDE DEF new
<1>5. CASE task' = [task EXCEPT ![t] = new("read")]
  BY <1>2, <1>4, <1>5 DEF Accepted
<1>6. CASE task' = [task EXCEPT ![t] = new("mute")]
  BY <1>2, <1>4, <1>6 DEF Accepted
<1> QED
  BY <1>3, <1>5, <1>6

\* A task goes on to its next step, or answers.
LEMMA TaskMoves ==
    ASSUME TypeOK, NEW t \in Slots
    PROVE  /\ \A pc \in {"dispatch", "notify"} :
                 LET new == [task[t] EXCEPT !.pc = pc]
                 IN  /\ new \in Tasks /\ new.pc = pc /\ new.who = task[t].who
                     /\ new.req = task[t].req /\ new.live = task[t].live
           /\ \A r \in BOOLEAN :
                 LET new == [task[t] EXCEPT !.pc = "replace", !.restart = r]
                 IN  /\ new \in Tasks /\ new.pc = "replace" /\ new.who = task[t].who
                     /\ new.req = task[t].req /\ new.live = task[t].live
           /\ \A reply \in Replies :
                 LET new == [task[t] EXCEPT !.pc = "reply", !.reply = reply]
                 IN  /\ new \in Tasks /\ new.pc = "reply" /\ new.who = task[t].who
                     /\ new.req = task[t].req /\ new.live = task[t].live /\ new.reply = reply
<1>1. task[t] \in Tasks
  BY Fields
<1> QED
  BY <1>1 DEF Tasks

\* The steps of a task before it responds.
LEMMA ServeEffect ==
    ASSUME TypeOK, TaskInv, NEW t \in Slots,
           ReadRequest(t) \/ GiveUp(t) \/ Dispatch(t) \/ StoreReplace(t) \/ Notify(t)
    PROVE  Served(t)
<1>0. /\ task \in [Slots -> Tasks] /\ task[t] \in Tasks /\ AgentType /\ file \in Config
  BY Fields DEF TypeOK
<1>1. ASSUME Closed(t), task[t].pc # "free", UNCHANGED <<file, agent, host, stop, client, form>>
      PROVE  Served(t)
  BY <1>0, <1>1, StartIsTyped DEF Served, Closed, AgentType
<1>2. ASSUME NEW code, NEW cfg, Reply(code, cfg) \in Replies, Answer(t, code, cfg),
             task[t].pc # "free", UNCHANGED <<stop, client, form, file>>, AgentType',
             host # "up" => host' # "up",
             code = "snapshot" => cfg \in Config,
             code = "saved" => task[t].req.kind = "replace",
             code = "accepted" => task[t].req.kind = "shutdown" /\ host' # "up"
      PROVE  Served(t)
  <2> DEFINE new == [task[t] EXCEPT !.pc = "reply", !.reply = Reply(code, cfg)]
  <2>1. task' = [task EXCEPT ![t] = new]
    BY <1>0, <1>2 DEF Answer
  <2>2. Reply(code, cfg).code = code /\ Reply(code, cfg).cfg = cfg
    BY DEF Reply
  <2>3. /\ new \in Tasks /\ new.pc = "reply" /\ new.who = task[t].who
        /\ new.req = task[t].req /\ new.live = task[t].live /\ new.reply = Reply(code, cfg)
    BY <1>2, TaskMoves
  <2> HIDE DEF new
  <2> QED
    BY <1>2, <2>1, <2>2, <2>3 DEF Served
<1>3. CASE ReadRequest(t)
  <2>1. CASE task[t].live
    <3> DEFINE new == [task[t] EXCEPT !.pc = "dispatch"]
    <3>1. task' = [task EXCEPT ![t] = new]
      BY <1>0, <1>3, <2>1 DEF ReadRequest, Step
    <3>2. /\ new \in Tasks /\ new.pc = "dispatch" /\ new.who = task[t].who
          /\ new.req = task[t].req /\ new.live = task[t].live
      BY TaskMoves
    <3>3. task[t].pc # "free" /\ UNCHANGED <<file, agent, host, stop, client, form>>
      BY <1>3 DEF ReadRequest
    <3> HIDE DEF new
    <3> QED
      BY <1>0, <3>1, <3>2, <3>3 DEF Served, AgentType
  <2>2. CASE ~task[t].live
    BY <1>1, <1>3, <2>2 DEF ReadRequest
  <2> QED
    BY <2>1, <2>2
<1>4. CASE GiveUp(t)
  BY <1>1, <1>4 DEF GiveUp
<1>5. CASE Dispatch(t)
  <2>1. /\ task[t].pc = "dispatch" /\ UNCHANGED <<file, agent, stop, client, form>>
        /\ task[t].req.kind \in {"get", "replace", "shutdown"}
        /\ RequestOf(task[t].who, task[t].req)
    BY <1>5 DEF Dispatch, TaskInv, RequestOf, Requests
  <2>2. CASE task[t].req.kind = "get"
    <3>1. Answer(t, "snapshot", file) /\ UNCHANGED host
      BY <1>5, <2>2 DEF Dispatch
    <3>2. Reply("snapshot", file) \in Replies
      BY <1>0 DEF Reply, Replies
    <3>3. AgentType'
      BY <1>0, <2>1, <3>1 DEF AgentType
    <3> QED
      BY <1>0, <1>2, <2>1, <3>1, <3>2, <3>3
  <2>3. CASE task[t].req.kind = "replace"
    <3> DEFINE r == RequiresRestart(file, task[t].req.next)
               new == [task[t] EXCEPT !.pc = "replace", !.restart = r]
    <3>1. /\ task' = [task EXCEPT ![t].pc = "replace", ![t].restart = r]
          /\ UNCHANGED host
      BY <1>5, <2>3 DEF Dispatch
    <3>2. r \in BOOLEAN
      BY DEF RequiresRestart
    <3>3. task' = [task EXCEPT ![t] = new]
      BY <1>0, <3>1
    <3> HIDE DEF r
    <3>4. /\ new \in Tasks /\ new.pc = "replace" /\ new.who = task[t].who
          /\ new.req = task[t].req /\ new.live = task[t].live
      BY <3>2, TaskMoves
    <3> HIDE DEF new
    <3> QED
      BY <1>0, <2>1, <2>3, <3>1, <3>3, <3>4 DEF Served, AgentType
  <2>4. CASE task[t].req.kind = "shutdown" /\ host = "up"
    <3>1. host' = "stopping" /\ Answer(t, "accepted", None)
      BY <1>5, <2>4 DEF Dispatch
    <3>2. Reply("accepted", None) \in Replies
      BY DEF Reply, Replies
    <3>3. AgentType'
      BY <1>0, <2>1, <3>1 DEF AgentType
    <3> QED
      BY <1>2, <2>1, <2>4, <3>1, <3>2, <3>3
  <2>5. CASE task[t].req.kind = "shutdown" /\ host # "up"
    <3>1. UNCHANGED host /\ Answer(t, "agent_stopped", None)
      BY <1>5, <2>5 DEF Dispatch
    <3>2. Reply("agent_stopped", None) \in Replies
      BY DEF Reply, Replies
    <3>3. AgentType'
      BY <1>0, <2>1, <3>1 DEF AgentType
    <3> QED
      BY <1>2, <2>1, <2>5, <3>1, <3>2, <3>3
  <2> QED
    BY <2>1, <2>2, <2>3, <2>4, <2>5
<1>6. CASE StoreReplace(t)
  <2>1. /\ task[t].pc = "replace" /\ UNCHANGED <<agent, host, stop, client, form>>
        /\ task[t].req.kind = "replace" /\ RequestOf(task[t].who, task[t].req)
    BY <1>6 DEF StoreReplace, TaskInv
  <2>2. CASE IsCurrent(t) /\ file' = task[t].req.next /\ Step(t, "notify")
    <3> DEFINE new == [task[t] EXCEPT !.pc = "notify"]
    <3>1. task' = [task EXCEPT ![t] = new]
      BY <1>0, <2>2 DEF Step
    <3>2. /\ new \in Tasks /\ new.pc = "notify" /\ new.who = task[t].who
          /\ new.req = task[t].req /\ new.live = task[t].live
      BY TaskMoves
    <3>3. file' \in Config /\ task[t].req.base = file
      BY <2>1, <2>2 DEF RequestOf, IsCurrent
    <3>4. AgentType'
      BY <1>0, <2>1, <3>3 DEF AgentType
    <3> HIDE DEF new
    <3> QED
      BY <2>1, <2>2, <3>1, <3>2, <3>3, <3>4 DEF Served
  <2>3. CASE Answer(t, "conflict", None) /\ UNCHANGED file
    <3>1. Reply("conflict", None) \in Replies
      BY DEF Reply, Replies
    <3>2. AgentType'
      BY <1>0, <2>1, <2>3 DEF AgentType
    <3> QED
      BY <1>2, <2>1, <2>3, <3>1, <3>2
  <2>4. CASE Answer(t, "error", None) /\ UNCHANGED file
    <3>1. Reply("error", None) \in Replies
      BY DEF Reply, Replies
    <3>2. AgentType'
      BY <1>0, <2>1, <2>4 DEF AgentType
    <3> QED
      BY <1>2, <2>1, <2>4, <3>1, <3>2
  <2> QED
    BY <1>6, <2>2, <2>3, <2>4 DEF StoreReplace
<1>7. CASE Notify(t)
  <2>1. /\ task[t].pc = "notify" /\ UNCHANGED <<file, host, stop, client, form>>
        /\ task[t].req.kind = "replace" /\ RequestOf(task[t].who, task[t].req)
    BY <1>7 DEF Notify, TaskInv
  <2>2. CASE host = "up"
    <3>1. /\ agent' = IF task[t].restart THEN [agent EXCEPT !.restart = TRUE]
                                         ELSE [agent EXCEPT !.reload = TRUE]
          /\ Answer(t, "saved", task[t].req.next)
      BY <1>7, <2>2 DEF Notify
    <3>2. Reply("saved", task[t].req.next) \in Replies
      BY <2>1 DEF RequestOf, Reply, Replies
    <3>3. AgentType'
      BY <1>0, <2>1, <3>1 DEF AgentType
    <3> QED
      BY <1>2, <2>1, <3>1, <3>2, <3>3
  <2>3. CASE host # "up"
    <3>1. UNCHANGED agent /\ Answer(t, "saved_agent_stopped", None)
      BY <1>7, <2>3 DEF Notify
    <3>2. Reply("saved_agent_stopped", None) \in Replies
      BY DEF Reply, Replies
    <3>3. AgentType'
      BY <1>0, <2>1, <3>1 DEF AgentType
    <3> QED
      BY <1>2, <2>1, <3>1, <3>2, <3>3
  <2> QED
    BY <2>2, <2>3
<1> QED
  BY <1>3, <1>4, <1>5, <1>6, <1>7

\* Capture and the tray touch neither the tasks nor the clients.
LEMMA RunEffect ==
    ASSUME TypeOK, Capture \/ Tray \/ Quit \/ UNCHANGED vars
    PROVE  Ran
<1>1. AgentType
  BY DEF TypeOK
<1>2. CASE Reload
  BY <1>1, <1>2 DEF Reload, Reloaded, Ran, AgentType
<1>3. CASE StopSession
  BY <1>1, <1>3 DEF StopSession, Ran, AgentType
<1>4. CASE StartSession
  <2>1. PICK r \in {FALSE, agent.reload} :
             agent' = [st |-> "running", cfg |-> file, reload |-> r, restart |-> FALSE]
    BY <1>4 DEF StartSession
  <2>2. r \in BOOLEAN /\ file \in Config
    BY <1>1 DEF AgentType
  <2>3. UNCHANGED <<file, host, stop, task, client, form>>
    BY <1>4 DEF StartSession
  <2> QED
    BY <1>1, <2>1, <2>2, <2>3 DEF Ran, AgentType
<1>5. CASE WorkerStopped
  BY <1>1, <1>5 DEF WorkerStopped, Ran, AgentType
<1>6. CASE Exit
  BY <1>1, <1>6 DEF Exit, Ran, AgentType
<1>7. CASE Quit
  BY <1>1, <1>7 DEF Quit, Ran, AgentType
<1>8. CASE UNCHANGED vars
  BY <1>1, <1>8 DEF vars, Ran, AgentType
<1> QED
  BY <1>2, <1>3, <1>4, <1>5, <1>6, <1>7, <1>8 DEF Capture, Tray

\* Every step is one of these.
LEMMA EveryStep ==
    ASSUME TypeOK, TaskInv, ClientInv, [Next]_vars
    PROVE  SomeStep
<1>0. Viewers \subseteq Clients /\ Cli \in Clients
  BY DEF Clients
<1>1. ASSUME NEW v \in Viewers, Refresh(v) \/ KeepEdits(v) \/ Save(v) PROVE SomeStep
  BY <1>0, <1>1, RequestsAreSent DEF SomeStep
<1>2. CASE ShutdownAgent
  BY <1>0, <1>2, RequestsAreSent DEF SomeStep
<1>3. ASSUME NEW v \in Viewers, Edit(v) PROVE SomeStep
  BY <1>3, EditEffect DEF SomeStep
<1>4. ASSUME NEW c \in Clients,
             ConnectFails(c) \/ RequestTimesOut(c) \/ Disconnected(c) \/ ReadReply(c)
      PROVE  SomeStep
  BY <1>4, OperationsEnd DEF SomeStep
<1>5. ASSUME NEW t \in Slots, NEW c \in Clients, Accept(t, c) PROVE SomeStep
  BY <1>5, AcceptEffect DEF SomeStep
<1>6. ASSUME NEW t \in Slots,
             ReadRequest(t) \/ GiveUp(t) \/ Dispatch(t) \/ StoreReplace(t) \/ Notify(t)
      PROVE  SomeStep
  BY <1>6, ServeEffect DEF SomeStep
<1>7. ASSUME NEW t \in Slots, Respond(t) PROVE SomeStep
  <2>1. Responded(t)
    BY <1>7 DEF Respond, Closed, Responded
  <2> QED
    BY <2>1 DEF SomeStep
<1>8. CASE Capture \/ Tray \/ Quit \/ UNCHANGED vars
  BY <1>8, RunEffect DEF SomeStep
<1> QED
  BY <1>1, <1>2, <1>3, <1>4, <1>5, <1>6, <1>7, <1>8 DEF Next, Serve

-----------------------------------------------------------------------------

\* What was an answer stays one.
LEMMA AnswerStays ==
    ASSUME host # "up" => host' # "up", NEW req, NEW reply, AnswerTo(req, reply)
    PROVE  /\ reply \in Replies
           /\ reply.code = "snapshot" => reply.cfg \in Config
           /\ reply.code = "saved" => req.kind = "replace"
           /\ reply.code = "accepted" => req.kind = "shutdown" /\ host' # "up"
BY DEF AnswerTo

\* Every step keeps the types.
LEMMA NextTypes ==
    ASSUME IndInv, SomeStep
    PROVE  AgentType' /\ TaskType' /\ ClientType'
<1>0. /\ TypeOK /\ AnswersMatch /\ TaskInv /\ ClientInv /\ FormInv
      /\ task \in [Slots -> Tasks] /\ client \in [Clients -> Operations]
      /\ form \in [Viewers -> Forms]
      /\ \A c \in Clients : client[c] \in Operations
      /\ \A t \in Slots : task[t] \in Tasks
  BY Fields DEF IndInv
<1>1. ASSUME NEW c \in Clients, NEW req \in Requests, Sent(c, req) PROVE AgentType' /\ TaskType' /\ ClientType'
  <2>1. [op |-> "connect", req |-> req, got |-> None] \in Operations
    BY DEF Operations
  <2>2. client' \in [Clients -> Operations]
    BY <1>0, <1>1, <2>1 DEF Sent
  <2> QED
    BY <1>0, <1>1, <2>2 DEF Sent, TypeOK, AgentType, TaskType, ClientType
<1>2. ASSUME NEW c \in Clients, Ended(c) PROVE AgentType' /\ TaskType' /\ ClientType'
  <2>1. client' \in [Clients -> Operations]
    BY <1>0, <1>2, StartIsTyped DEF Ended
  <2> QED
    BY <1>0, <1>2, <2>1 DEF Ended, TypeOK, AgentType, TaskType, ClientType
<1>3. ASSUME NEW v \in Viewers, FormEdited(v) PROVE AgentType' /\ TaskType' /\ ClientType'
  BY <1>0, <1>3 DEF FormEdited, TypeOK, AgentType, TaskType, ClientType
<1>4. ASSUME NEW t \in Slots, NEW c \in Clients, Accepted(t, c) PROVE AgentType' /\ TaskType' /\ ClientType'
  <2>1. PICK new \in Tasks : task' = [task EXCEPT ![t] = new]
    BY <1>4 DEF Accepted
  <2>2. client' = [client EXCEPT ![c].op = "wait"] /\ UNCHANGED <<file, agent, host, stop, form>>
    BY <1>4 DEF Accepted
  <2>3. client' \in [Clients -> Operations]
    BY <1>0, <2>2 DEF Operations
  <2>4. task' \in [Slots -> Tasks]
    BY <1>0, <2>1
  <2> QED
    BY <1>0, <2>2, <2>3, <2>4 DEF TypeOK, AgentType, TaskType, ClientType
<1>5. ASSUME NEW t \in Slots, Served(t) PROVE AgentType' /\ TaskType' /\ ClientType'
  <2>1. PICK new \in Tasks : task' = [task EXCEPT ![t] = new]
    BY <1>5 DEF Served
  <2>2. task' \in [Slots -> Tasks] /\ AgentType' /\ UNCHANGED <<client, form>>
    BY <1>0, <1>5, <2>1 DEF Served
  <2> QED
    BY <1>0, <2>2 DEF TaskType, ClientType
<1>6. ASSUME NEW t \in Slots, Responded(t) PROVE AgentType' /\ TaskType' /\ ClientType'
  <2>1. task' \in [Slots -> Tasks]
    BY <1>0, <1>6, StartIsTyped DEF Responded
  <2>2. task[t].reply \in Replies /\ task[t].who \in Clients
    BY <1>0, <1>6 DEF Responded, TaskInv, AnswerTo
  <2>3. client' \in [Clients -> Operations]
    <3>1. CASE task[t].live
      <4>1. client' = [client EXCEPT ![task[t].who].got = task[t].reply]
        BY <1>6, <3>1 DEF Responded
      <4>2. \A r \in Replies, o \in Operations : [o EXCEPT !.got = r] \in Operations
        BY DEF Operations
      <4> QED
        BY <1>0, <2>2, <4>1, <4>2
    <3>2. CASE ~task[t].live
      BY <1>0, <1>6, <3>2 DEF Responded
    <3> QED
      BY <3>1, <3>2
  <2>4. stop' \in BOOLEAN
    BY <1>0, <1>6 DEF Responded, TypeOK, AgentType
  <2>5. UNCHANGED <<file, agent, host, form>>
    BY <1>6 DEF Responded
  <2> QED
    BY <1>0, <2>1, <2>3, <2>4, <2>5 DEF TypeOK, AgentType, TaskType, ClientType
<1>7. ASSUME Ran PROVE AgentType' /\ TaskType' /\ ClientType'
  BY <1>0, <1>7 DEF Ran, TaskType, ClientType
<1> QED
  BY <1>1, <1>2, <1>3, <1>4, <1>5, <1>6, <1>7 DEF SomeStep

\* Every step keeps one live task per client, and a server that outlives the answer to a
\* shutdown.
LEMMA NextAnswers ==
    ASSUME IndInv, SomeStep
    PROVE  AnswersMatch'
<1>0. /\ TypeOK /\ AnswersMatch /\ TaskInv /\ ClientInv /\ FormInv
      /\ task \in [Slots -> Tasks] /\ client \in [Clients -> Operations]
      /\ form \in [Viewers -> Forms]
      /\ \A c \in Clients : client[c] \in Operations
      /\ \A t \in Slots : task[t] \in Tasks
  BY Fields DEF IndInv
<1>1. ASSUME NEW c \in Clients, NEW req \in Requests, Sent(c, req) PROVE AnswersMatch'
  <2>1. \A d \in Clients : client'[d] = IF d = c THEN [op |-> "connect", req |-> req, got |-> None]
                                               ELSE client[d]
    BY <1>0, <1>1 DEF Sent
  <2>2. UNCHANGED <<task, stop, host>>
    BY <1>1 DEF Sent
  <2> QED
    BY <1>0, <2>1, <2>2 DEF AnswersMatch
<1>2. ASSUME NEW c \in Clients, Ended(c) PROVE AnswersMatch'
  <2>1. \A d \in Clients : client'[d] = IF d = c THEN Quiet ELSE client[d]
    BY <1>0, <1>2 DEF Ended
  <2>2. /\ \A t \in Slots : task'[t].live => task[t].live
        /\ \A t \in Slots : task'[t].who = task[t].who
        /\ UNCHANGED <<stop, host>>
    BY <1>2 DEF Ended
  <2> QED
    BY <1>0, <2>1, <2>2, StartIsTyped DEF AnswersMatch
<1>3. ASSUME NEW v \in Viewers, FormEdited(v) PROVE AnswersMatch'
  BY <1>0, <1>3 DEF FormEdited, AnswersMatch
<1>4. ASSUME NEW t \in Slots, NEW c \in Clients, Accepted(t, c) PROVE AnswersMatch'
  <2>1. PICK new \in Tasks : task' = [task EXCEPT ![t] = new] /\ new.who = c
    BY <1>4 DEF Accepted
  <2>2. \A u \in Slots : task'[u] = IF u = t THEN new ELSE task[u]
    BY <1>0, <2>1
  <2>3. \A d \in Clients : client'[d].got = client[d].got
    BY <1>0, <1>4 DEF Accepted, Operations
  <2>4. \A u \in Slots : task[u].live => task[u].who # c
    BY <1>0, <1>4 DEF Accepted, TaskInv
  <2>5. \A u, w \in Slots :
           task'[u].live /\ task'[w].live /\ task'[u].who = task'[w].who => u = w
    BY <1>0, <2>1, <2>2, <2>4 DEF AnswersMatch
  <2>6. UNCHANGED <<stop, host>>
    BY <1>4 DEF Accepted
  <2> QED
    BY <1>0, <2>3, <2>5, <2>6 DEF AnswersMatch
<1>5. ASSUME NEW t \in Slots, Served(t) PROVE AnswersMatch'
  <2>1. PICK new \in Tasks :
           /\ task' = [task EXCEPT ![t] = new]
           /\ new.live => task[t].live /\ new.who = task[t].who
    BY <1>5 DEF Served
  <2>2. \A u \in Slots : task'[u] = IF u = t THEN new ELSE task[u]
    BY <1>0, <2>1
  <2>3. \A u \in Slots : task'[u].live => task[u].live /\ task'[u].who = task[u].who
    BY <2>1, <2>2
  <2>4. UNCHANGED <<client, stop>> /\ (host # "up" => host' # "up")
    BY <1>5 DEF Served
  <2> QED
    BY <1>0, <2>3, <2>4 DEF AnswersMatch
<1>6. ASSUME NEW t \in Slots, Responded(t) PROVE AnswersMatch'
  <2>1. \A u \in Slots : task'[u] = IF u = t THEN Free ELSE task[u]
    BY <1>0, <1>6 DEF Responded
  <2>2. \A u \in Slots : task'[u].live => task[u].live /\ task'[u].who = task[u].who
    BY <2>1, StartIsTyped
  <2>3. /\ RequestOf(task[t].who, task[t].req) /\ AnswerTo(task[t].req, task[t].reply)
        /\ task[t].who \in Clients /\ UNCHANGED host
    BY <1>0, <1>6 DEF Responded, TaskInv
  <2>4. task[t].reply.code = "accepted" => host # "up" /\ task[t].who = Cli
    BY <2>3 DEF RequestOf, AnswerTo
  <2>5. stop' => host' # "up"
    BY <1>0, <1>6, <2>3, <2>4 DEF Responded, AnswersMatch
  <2>6. \A d \in Clients : client'[d].got # client[d].got =>
                             d = task[t].who /\ client'[d].got = task[t].reply
    BY <1>0, <1>6, <2>3 DEF Responded, Operations
  <2>7. \A d \in Clients : client'[d].got # None /\ client'[d].got.code = "accepted"
                              => d = Cli /\ host # "up"
    BY <1>0, <2>4, <2>6 DEF AnswersMatch
  <2> QED
    BY <1>0, <2>2, <2>3, <2>5, <2>7 DEF AnswersMatch
<1>7. ASSUME Ran PROVE AnswersMatch'
  BY <1>0, <1>7 DEF Ran, AnswersMatch
<1> QED
  BY <1>1, <1>2, <1>3, <1>4, <1>5, <1>6, <1>7 DEF SomeStep

\* Every step keeps the tasks and their clients in agreement.
LEMMA NextTask ==
    ASSUME IndInv, SomeStep
    PROVE  TaskInv'
<1>0. /\ TypeOK /\ AnswersMatch /\ TaskInv /\ ClientInv /\ FormInv
      /\ task \in [Slots -> Tasks] /\ client \in [Clients -> Operations]
      /\ form \in [Viewers -> Forms]
      /\ \A c \in Clients : client[c] \in Operations
      /\ \A t \in Slots : task[t] \in Tasks
  BY Fields DEF IndInv
<1>1. ASSUME NEW c \in Clients, NEW req \in Requests, Sent(c, req) PROVE TaskInv'
  <2>1. \A d \in Clients : d # c => client'[d] = client[d]
    BY <1>0, <1>1 DEF Sent
  <2>2. UNCHANGED <<task, host>> /\ client[c].op = "idle"
    BY <1>1 DEF Sent
  <2>3. \A t \in Slots : task[t].live => task[t].who \in Clients /\ task[t].who # c
    BY <1>0, <2>2 DEF TaskInv
  <2> QED
    BY <1>0, <2>1, <2>2, <2>3 DEF TaskInv, AnswerTo
<1>2. ASSUME NEW c \in Clients, Ended(c) PROVE TaskInv'
  <2>1. \A d \in Clients : d # c => client'[d] = client[d]
    BY <1>0, <1>2 DEF Ended
  <2>2. \A t \in Slots :
            /\ task'[t].pc = task[t].pc /\ task'[t].who = task[t].who
            /\ task'[t].req = task[t].req /\ task'[t].reply = task[t].reply
            /\ task'[t].live => task[t].live /\ task[t].who # c
    BY <1>2 DEF Ended
  <2>3. \A t \in Slots : task[t].live => task[t].who \in Clients
    BY <1>0 DEF TaskInv
  <2>4. UNCHANGED host
    BY <1>2 DEF Ended
  <2>5. ASSUME NEW t \in Slots, task'[t].live
        PROVE  LET d == client'[task'[t].who]
               IN  d.op = "wait" /\ d.got = None /\ d.req = task'[t].req
    <3>1. client'[task'[t].who] = client[task[t].who]
      BY <2>1, <2>2, <2>3, <2>5
    <3> QED
      BY <1>0, <2>2, <2>5, <3>1 DEF TaskInv
  <2> QED
    BY <1>0, <2>2, <2>4, <2>5 DEF TaskInv, AnswerTo
<1>3. ASSUME NEW v \in Viewers, FormEdited(v) PROVE TaskInv'
  BY <1>0, <1>3 DEF FormEdited, TaskInv, AnswerTo
<1>4. ASSUME NEW t \in Slots, NEW c \in Clients, Accepted(t, c) PROVE TaskInv'
  <2>1. PICK new \in Tasks :
            /\ task' = [task EXCEPT ![t] = new]
            /\ new.pc \in {"read", "mute"} /\ new.who = c /\ new.live /\ new.req = client[c].req
    BY <1>4 DEF Accepted
  <2>2. \A u \in Slots : task'[u] = IF u = t THEN new ELSE task[u]
    BY <1>0, <2>1
  <2>3. /\ client'[c].op = "wait" /\ client'[c].got = client[c].got /\ client'[c].req = client[c].req
        /\ \A d \in Clients : d # c => client'[d] = client[d]
    BY <1>0, <1>4 DEF Accepted, Operations
  <2>4. /\ RequestOf(c, client[c].req) /\ client[c].got = None /\ client[c].op = "connect"
        /\ UNCHANGED host
    BY <1>0, <1>4 DEF Accepted, ClientInv
  <2>5. \A u \in Slots : task[u].live => task[u].who # c /\ task[u].who \in Clients
    BY <1>0, <2>4 DEF TaskInv
  <2>6. ASSUME NEW u \in Slots, task'[u].live
        PROVE  LET d == client'[task'[u].who]
               IN  d.op = "wait" /\ d.got = None /\ d.req = task'[u].req
    <3>1. CASE u = t
      BY <2>1, <2>2, <2>3, <2>4, <3>1
    <3>2. CASE u # t
      BY <1>0, <2>2, <2>3, <2>5, <2>6, <3>2 DEF TaskInv
    <3> QED
      BY <3>1, <3>2
  <2>7. ASSUME NEW u \in Slots
        PROVE  /\ task'[u].pc = "free" => ~task'[u].live
               /\ task'[u].pc # "free" =>
                     RequestOf(task'[u].who, task'[u].req) /\ task'[u].who \in Clients
               /\ task'[u].pc \in {"replace", "notify"} => task'[u].req.kind = "replace"
               /\ task'[u].pc = "reply" => AnswerTo(task'[u].req, task'[u].reply)
    <3>1. CASE u = t
      BY <2>1, <2>2, <2>4, <3>1
    <3>2. CASE u # t
      BY <1>0, <2>2, <3>2 DEF TaskInv
    <3> QED
      BY <3>1, <3>2
  <2> QED
    BY <2>4, <2>6, <2>7 DEF TaskInv, AnswerTo
<1>5. ASSUME NEW t \in Slots, Served(t) PROVE TaskInv'
  <2>1. PICK new \in Tasks :
            /\ task' = [task EXCEPT ![t] = new]
            /\ new.pc = "free" => ~new.live
            /\ new.pc # "free" =>
                  new.who = task[t].who /\ new.req = task[t].req /\ new.live = task[t].live
            /\ new.pc \in {"replace", "notify"} => new.req.kind = "replace"
            /\ new.pc = "reply" =>
                  /\ new.reply \in Replies
                  /\ new.reply.code = "snapshot" => new.reply.cfg \in Config
                  /\ new.reply.code = "saved" => new.req.kind = "replace"
                  /\ new.reply.code = "accepted" => new.req.kind = "shutdown" /\ host' # "up"
    BY <1>5 DEF Served
  <2>2. \A u \in Slots : task'[u] = IF u = t THEN new ELSE task[u]
    BY <1>0, <2>1
  <2>3. UNCHANGED client /\ (host # "up" => host' # "up") /\ task[t].pc # "free"
    BY <1>5 DEF Served
  <2>4. ASSUME NEW u \in Slots
        PROVE  /\ task'[u].pc = "free" => ~task'[u].live
               /\ task'[u].pc # "free" =>
                     RequestOf(task'[u].who, task'[u].req) /\ task'[u].who \in Clients
               /\ task'[u].pc \in {"replace", "notify"} => task'[u].req.kind = "replace"
               /\ task'[u].live => LET c == client[task'[u].who]
                                   IN  c.op = "wait" /\ c.got = None /\ c.req = task'[u].req
    <3>1. CASE u = t
      BY <1>0, <2>1, <2>2, <2>3, <3>1 DEF TaskInv
    <3>2. CASE u # t
      BY <1>0, <2>2, <3>2 DEF TaskInv
    <3> QED
      BY <3>1, <3>2
  <2>5. ASSUME NEW u \in Slots, task'[u].pc = "reply"
        PROVE  LET req == task'[u].req  reply == task'[u].reply
               IN  /\ reply \in Replies
                   /\ reply.code = "snapshot" => reply.cfg \in Config
                   /\ reply.code = "saved" => req.kind = "replace"
                   /\ reply.code = "accepted" => req.kind = "shutdown" /\ host' # "up"
    <3>1. CASE u = t
      BY <2>1, <2>2, <2>5, <3>1
    <3>2. CASE u # t
      <4>1. AnswerTo(task'[u].req, task'[u].reply)
        BY <1>0, <2>2, <2>5, <3>2 DEF TaskInv
      <4> QED
        BY <2>3, <4>1, AnswerStays
    <3> QED
      BY <3>1, <3>2
  <2> QED
    BY <2>3, <2>4, <2>5 DEF TaskInv, AnswerTo
<1>6. ASSUME NEW t \in Slots, Responded(t) PROVE TaskInv'
  <2>1. \A u \in Slots : task'[u] = IF u = t THEN Free ELSE task[u]
    BY <1>0, <1>6 DEF Responded
  <2>2. task[t].who \in Clients /\ UNCHANGED host
    BY <1>0, <1>6 DEF Responded, TaskInv
  <2>3. \A d \in Clients : client'[d] = client[d] \/ (task[t].live /\ d = task[t].who)
    BY <1>0, <1>6, <2>2 DEF Responded
  <2>4. ASSUME NEW u \in Slots
        PROVE  /\ task'[u].pc = "free" => ~task'[u].live
               /\ task'[u].pc # "free" =>
                     RequestOf(task'[u].who, task'[u].req) /\ task'[u].who \in Clients
               /\ task'[u].pc \in {"replace", "notify"} => task'[u].req.kind = "replace"
               /\ task'[u].pc = "reply" => AnswerTo(task'[u].req, task'[u].reply)
               /\ task'[u].live => LET c == client'[task'[u].who]
                                   IN  c.op = "wait" /\ c.got = None /\ c.req = task'[u].req
    <3>1. CASE u = t
      BY <2>1, <3>1, StartIsTyped
    <3>2. CASE u # t
      <4>1. task'[u] = task[u]
        BY <2>1, <3>2
      <4>2. task[u].live => task[u].who \in Clients /\ client'[task[u].who] = client[task[u].who]
        BY <1>0, <2>3, <3>2 DEF TaskInv, AnswersMatch
      <4> QED
        BY <1>0, <4>1, <4>2 DEF TaskInv
    <3> QED
      BY <3>1, <3>2
  <2> QED
    BY <2>2, <2>4 DEF TaskInv, AnswerTo
<1>7. ASSUME Ran PROVE TaskInv'
  <2>1. UNCHANGED <<task, client>> /\ (host # "up" => host' # "up")
    BY <1>7 DEF Ran
  <2> QED
    BY <1>0, <2>1 DEF TaskInv, AnswerTo
<1> QED
  BY <1>1, <1>2, <1>3, <1>4, <1>5, <1>6, <1>7 DEF SomeStep

\* Every step leaves clients with at most one reply, to their own request.
LEMMA NextClient ==
    ASSUME IndInv, SomeStep
    PROVE  ClientInv'
<1>0. /\ TypeOK /\ AnswersMatch /\ TaskInv /\ ClientInv /\ FormInv
      /\ task \in [Slots -> Tasks] /\ client \in [Clients -> Operations]
      /\ form \in [Viewers -> Forms]
      /\ \A c \in Clients : client[c] \in Operations
      /\ \A t \in Slots : task[t] \in Tasks
  BY Fields DEF IndInv
<1>1. ASSUME NEW c \in Clients, NEW req \in Requests, Sent(c, req) PROVE ClientInv'
  <2>1. \A d \in Clients : client'[d] = IF d = c THEN [op |-> "connect", req |-> req, got |-> None]
                                               ELSE client[d]
    BY <1>0, <1>1 DEF Sent
  <2>2. UNCHANGED host /\ RequestOf(c, req)
    BY <1>1 DEF Sent
  <2> QED
    BY <1>0, <2>1, <2>2 DEF ClientInv, AnswerTo
<1>2. ASSUME NEW c \in Clients, Ended(c) PROVE ClientInv'
  <2>1. \A d \in Clients : client'[d] = IF d = c THEN Quiet ELSE client[d]
    BY <1>0, <1>2 DEF Ended
  <2>2. UNCHANGED host
    BY <1>2 DEF Ended
  <2> QED
    BY <1>0, <2>1, <2>2, StartIsTyped DEF ClientInv, AnswerTo
<1>3. ASSUME NEW v \in Viewers, FormEdited(v) PROVE ClientInv'
  BY <1>0, <1>3 DEF FormEdited, ClientInv, AnswerTo
<1>4. ASSUME NEW t \in Slots, NEW c \in Clients, Accepted(t, c) PROVE ClientInv'
  <2>1. \A d \in Clients : /\ client'[d].got = client[d].got /\ client'[d].req = client[d].req
                           /\ client'[d].op = IF d = c THEN "wait" ELSE client[d].op
    BY <1>0, <1>4 DEF Accepted, Operations
  <2>2. UNCHANGED host /\ client[c].op = "connect"
    BY <1>4 DEF Accepted
  <2> QED
    BY <1>0, <2>1, <2>2 DEF ClientInv, AnswerTo
<1>5. ASSUME NEW t \in Slots, Served(t) PROVE ClientInv'
  <2>1. UNCHANGED client /\ (host # "up" => host' # "up")
    BY <1>5 DEF Served
  <2> QED
    BY <1>0, <2>1 DEF ClientInv, AnswerTo
<1>6. ASSUME NEW t \in Slots, Responded(t) PROVE ClientInv'
  <2>1. UNCHANGED host /\ AnswerTo(task[t].req, task[t].reply) /\ task[t].who \in Clients
    BY <1>0, <1>6 DEF Responded, TaskInv
  <2>2. CASE ~task[t].live
    BY <1>0, <1>6, <2>1, <2>2 DEF Responded, ClientInv, AnswerTo
  <2>3. CASE task[t].live
    <3>1. client[task[t].who].op = "wait" /\ client[task[t].who].req = task[t].req
      BY <1>0, <2>3 DEF TaskInv
    <3>2. client' = [client EXCEPT ![task[t].who].got = task[t].reply]
      BY <1>6, <2>3 DEF Responded
    <3>3. \A d \in Clients : /\ client'[d].op = client[d].op /\ client'[d].req = client[d].req
                             /\ client'[d].got = IF d = task[t].who THEN task[t].reply
                                                 ELSE client[d].got
      BY <1>0, <2>1, <3>2 DEF Operations
    <3>4. ASSUME NEW d \in Clients
          PROVE  /\ client'[d].op # "idle" => RequestOf(d, client'[d].req)
                 /\ client'[d].got # None =>
                       client'[d].op = "wait" /\ AnswerTo(client'[d].req, client'[d].got)
      <4>1. CASE d = task[t].who
        BY <1>0, <2>1, <3>1, <3>3, <4>1 DEF ClientInv
      <4>2. CASE d # task[t].who
        BY <1>0, <3>3, <4>2 DEF ClientInv
      <4> QED
        BY <4>1, <4>2
    <3> QED
      BY <2>1, <3>4 DEF ClientInv, AnswerTo
  <2> QED
    BY <2>2, <2>3
<1>7. ASSUME Ran PROVE ClientInv'
  <2>1. UNCHANGED client /\ (host # "up" => host' # "up")
    BY <1>7 DEF Ran
  <2> QED
    BY <1>0, <2>1 DEF ClientInv, AnswerTo
<1> QED
  BY <1>1, <1>2, <1>3, <1>4, <1>5, <1>6, <1>7 DEF SomeStep

\* No step changes a form while its save is on its way.
LEMMA NextForm ==
    ASSUME IndInv, SomeStep
    PROVE  FormInv'
<1>0. /\ TypeOK /\ AnswersMatch /\ TaskInv /\ ClientInv /\ FormInv
      /\ task \in [Slots -> Tasks] /\ client \in [Clients -> Operations]
      /\ form \in [Viewers -> Forms]
      /\ \A c \in Clients : client[c] \in Operations
      /\ \A t \in Slots : task[t] \in Tasks
  BY Fields DEF IndInv
<1>1. ASSUME NEW c \in Clients, NEW req \in Requests, Sent(c, req) PROVE FormInv'
  <2>1. \A d \in Clients : client'[d] = IF d = c THEN [op |-> "connect", req |-> req, got |-> None]
                                               ELSE client[d]
    BY <1>0, <1>1 DEF Sent
  <2>2. /\ \A v \in Viewers : form'[v].snap = form[v].snap /\ form'[v].values = form[v].values
        /\ req.kind = "replace" => req.base = form[c].snap /\ req.next = form[c].values
    BY <1>1 DEF Sent
  <2>3. Viewers \subseteq Clients
    BY DEF Clients
  <2> QED
    BY <1>0, <2>1, <2>2, <2>3 DEF FormInv
<1>2. ASSUME NEW c \in Clients, Ended(c) PROVE FormInv'
  <2>1. \A d \in Clients : client'[d] = IF d = c THEN Quiet ELSE client[d]
    BY <1>0, <1>2 DEF Ended
  <2>2. \A v \in Viewers : v # c => form'[v] = form[v]
    BY <1>2 DEF Ended
  <2>3. Viewers \subseteq Clients
    BY DEF Clients
  <2> QED
    BY <1>0, <2>1, <2>2, <2>3, StartIsTyped DEF FormInv
<1>3. ASSUME NEW v \in Viewers, FormEdited(v) PROVE FormInv'
  <2>1. /\ UNCHANGED client /\ client[v].op = "idle"
        /\ \A w \in Viewers : w # v => form'[w] = form[w]
    BY <1>3 DEF FormEdited
  <2> QED
    BY <1>0, <2>1 DEF FormInv
<1>4. ASSUME NEW t \in Slots, NEW c \in Clients, Accepted(t, c) PROVE FormInv'
  <2>1. \A d \in Clients : /\ client'[d].req = client[d].req
                           /\ client'[d].op # "idle" => client[d].op # "idle"
    BY <1>0, <1>4 DEF Accepted, Operations
  <2>2. UNCHANGED form /\ Viewers \subseteq Clients
    BY <1>4 DEF Accepted, Clients
  <2> QED
    BY <1>0, <2>1, <2>2 DEF FormInv
<1>5. ASSUME NEW t \in Slots, Served(t) PROVE FormInv'
  BY <1>0, <1>5 DEF Served, FormInv
<1>6. ASSUME NEW t \in Slots, Responded(t) PROVE FormInv'
  <2>1. task[t].who \in Clients
    BY <1>0, <1>6 DEF Responded, TaskInv
  <2>2. \A d \in Clients : client'[d].req = client[d].req /\ client'[d].op = client[d].op
    BY <1>0, <1>6, <2>1 DEF Responded, Operations
  <2>3. UNCHANGED form /\ Viewers \subseteq Clients
    BY <1>6 DEF Responded, Clients
  <2> QED
    BY <1>0, <2>2, <2>3 DEF FormInv
<1>7. ASSUME Ran PROVE FormInv'
  BY <1>0, <1>7 DEF Ran, FormInv
<1> QED
  BY <1>1, <1>2, <1>3, <1>4, <1>5, <1>6, <1>7 DEF SomeStep


\* No step exceeds a bound.
LEMMA NextBounds ==
    ASSUME BoundsType, [Next]_vars
    PROVE  BoundsType'
<1>1. ASSUME NEW v \in Viewers, Refresh(v) \/ KeepEdits(v) \/ Edit(v) \/ Save(v) PROVE BoundsType'
  <2>1. CASE Refresh(v) \/ KeepEdits(v) \/ Save(v)
    BY <2>1 DEF Refresh, KeepEdits, Save, Request, BoundsType
  <2>2. CASE Edit(v)
    <3>1. /\ edits' = edits + 1 /\ edits + faults < MaxEdits
          /\ UNCHANGED <<requests, faults>>
      BY <2>2 DEF Edit, Bounded
    <3>2. MaxEdits \in Nat
      BY ControlAssumption
    <3> QED
      BY <3>1, <3>2 DEF BoundsType
  <2> QED
    BY <1>1, <2>1, <2>2
<1>2. CASE ShutdownAgent
  <2>1. /\ edits' = edits + 1 /\ edits + faults < MaxEdits
        /\ requests' = requests + 1 /\ requests < MaxRequests /\ UNCHANGED faults
    BY <1>2 DEF ShutdownAgent, Request, Bounded
  <2>2. MaxEdits \in Nat /\ MaxRequests \in Nat
    BY ControlAssumption
  <2> QED
    BY <2>1, <2>2 DEF BoundsType
<1>3. ASSUME NEW c \in Clients,
             ConnectFails(c) \/ RequestTimesOut(c) \/ Disconnected(c) \/ ReadReply(c)
      PROVE  BoundsType'
  BY <1>3 DEF ConnectFails, RequestTimesOut, Disconnected, ReadReply, Fault, BoundsType
<1>4. ASSUME NEW t \in Slots, Serve(t) PROVE BoundsType'
  <2>1. UNCHANGED <<edits, requests>>
    BY <1>4 DEF Serve, ReadRequest, GiveUp, Dispatch, StoreReplace, Notify, Respond
  <2>2. faults' = faults \/ Fault
    BY <1>4 DEF Serve, ReadRequest, GiveUp, Dispatch, StoreReplace, Notify, Respond
  <2> QED
    BY <2>1, <2>2 DEF BoundsType, Fault
<1>5. ASSUME NEW t \in Slots, NEW c \in Clients, Accept(t, c) PROVE BoundsType'
  BY <1>5 DEF Accept, Fault, BoundsType
<1>6. CASE Capture \/ Quit \/ Tray
  BY <1>6 DEF Capture, Reload, StopSession, StartSession, Quit, Tray, WorkerStopped, Exit, Fault,
     BoundsType
<1>7. CASE UNCHANGED vars
  BY <1>7 DEF vars, BoundsType
<1> QED
  BY <1>1, <1>2, <1>3, <1>4, <1>5, <1>6, <1>7 DEF Next

\* Every initial state satisfies the inductive invariant.
LEMMA InitInd == Init => IndInv
<1> SUFFICES ASSUME Init PROVE IndInv
  OBVIOUS
<1>1. file \in Config /\ task = [t \in Slots |-> Free] /\ client = [c \in Clients |-> Quiet]
  BY StartIsTyped DEF Init
<1>2. PICK f \in {NotLoaded(file), Shows(file)} : form = [v \in Viewers |-> f]
  BY DEF Init
<1>3. f \in Forms
  BY <1>1, <1>2, ShownIsTyped
<1>4. TypeOK
  <2>1. AgentType
    BY <1>1 DEF Init, AgentType
  <2>2. BoundsType
    BY DEF Init, BoundsType
  <2>3. TaskType /\ ClientType
    BY <1>1, <1>2, <1>3, StartIsTyped DEF TaskType, ClientType
  <2> QED
    BY <2>1, <2>2, <2>3 DEF TypeOK
<1>5. /\ \A t \in Slots : task[t] = Free
      /\ \A c \in Clients : client[c] = Quiet
      /\ stop = FALSE
  BY <1>1 DEF Init
<1>6. AnswersMatch /\ TaskInv /\ ClientInv
  BY <1>5, StartIsTyped DEF AnswersMatch, TaskInv, ClientInv
<1>7. FormInv
  BY <1>5, StartIsTyped DEF FormInv, Clients
<1> QED
  BY <1>4, <1>6, <1>7 DEF IndInv

\* The inductive invariant holds in every reachable state.
THEOREM Invariance == Spec => []IndInv
<1>1. IndInv /\ [Next]_vars => IndInv'
  <2> SUFFICES ASSUME IndInv, [Next]_vars PROVE IndInv'
    OBVIOUS
  <2>1. SomeStep /\ BoundsType'
    BY EveryStep, NextBounds DEF IndInv, TypeOK
  <2> QED
    BY <2>1, NextTypes, NextAnswers, NextTask, NextClient, NextForm DEF IndInv, TypeOK
<1> QED
  BY InitInd, <1>1, PTL DEF Spec

\* An answer reaches the client that asked, and the pipe outlives the answer to a shutdown
\* (serve_connection, send_response_and_finish).
THEOREM AnswersReachTheirClient == Spec => []ControlInv
<1>1. IndInv => ControlInv
  BY DEF IndInv, ControlInv
<1> QED
  BY Invariance, <1>1, PTL

\* No save overwrites a configuration its Viewer has not shown, and one that is still waited
\* for writes what the form shows (ConfigStore::replace, SaveConfigurationAsync).
THEOREM NoEditIsOverwrittenUnseen == Spec => SavesAreInformed
<1> DEFINE Informed ==
             file' # file =>
               \E t \in Slots :
                  /\ task[t].pc = "replace" /\ task[t].req.base = file
                  /\ task[t].live => LET f == form[task[t].who]
                                     IN  f.snap = file /\ f.values = file'
<1>1. IndInv /\ [Next]_vars => [Informed]_vars
  <2> SUFFICES ASSUME IndInv, [Next]_vars, file' # file PROVE Informed
    OBVIOUS
  <2>1. SomeStep
    BY EveryStep DEF IndInv
  <2>2. PICK t \in Slots : Served(t)
    BY <2>1 DEF SomeStep, Sent, Ended, FormEdited, Accepted, Responded, Ran
  <2>3. task[t].pc = "replace" /\ task[t].req.base = file /\ file' = task[t].req.next
    BY <2>2 DEF Served
  <2>4. RequestOf(task[t].who, task[t].req) /\ task[t].req.kind = "replace"
    BY <2>3 DEF IndInv, TaskInv
  <2>5. task[t].who \in Viewers
    BY <2>4 DEF RequestOf
  <2>6. task[t].live => form[task[t].who].snap = file /\ form[task[t].who].values = file'
    BY <2>3, <2>4, <2>5 DEF IndInv, TaskInv, FormInv
  <2> QED
    BY <2>3, <2>6
<1> QED
  BY Invariance, <1>1, PTL DEF Spec, SavesAreInformed

-----------------------------------------------------------------------------
(* The preview pipe. *)

USE PreviewAssumption

\* The bounds are numbers.
LEMMA PreviewBounds ==
    /\ MaxSessions \in Nat /\ MaxFrames \in Nat /\ MaxTime \in Nat
    /\ MaxLeases \in Nat /\ MaxBreaks \in Nat
OBVIOUS

\* A new generation of the hub only clears what the tasks have seen.
LEMMA ChangedEffect ==
    ASSUME ServerType
    PROVE  /\ Changed \in [PreviewTasks -> Conns]
           /\ \A s \in PreviewTasks : /\ Changed[s].live = conn[s].live /\ Changed[s].open = conn[s].open
                               /\ Changed[s].seen = FALSE
BY DEF ServerType, Changed, Conns

\* A reader that closes its end leaves every task without a reader.
LEMMA DroppedEffect ==
    ASSUME ServerType
    PROVE  Dropped \in [PreviewTasks -> Conns] /\ \A s \in PreviewTasks : ~Dropped[s].live
BY DEF ServerType, Dropped, Conns

\* A reader's end that is not served is empty.
LEMMA DownIsEmpty ==
    ASSUME NEW st \in {"down", "start", "retry", "attached", "served", "cancelled"}
    PROVE  /\ Down \in Links /\ Down.inbox = <<>>
           /\ [Down EXCEPT !.st = st] \in Links /\ [Down EXCEPT !.st = st].st = st
           /\ [Down EXCEPT !.st = st].inbox = <<>> /\ [Down EXCEPT !.st = st].last = Nothing
           /\ [Down EXCEPT !.st = st].eof = FALSE
<1>1. <<>> \in Seq(Pictures)
  OBVIOUS
<1> QED
  BY <1>1 DEF Down, Links

\* What the end of a task does to the tasks and the reader.
LEMMA HangupEffect ==
    ASSUME ServerType, ReaderType, NEW s \in PreviewTasks, Hangup(s)
    PROVE  /\ conn' \in [PreviewTasks -> Conns] /\ link' \in Links
           /\ conn'[s].live = FALSE /\ \A t \in PreviewTasks : t # s => conn'[t] = conn[t]
           /\ link'.st = link.st /\ link'.inbox = link.inbox /\ link'.last = link.last
           /\ conn[s].live => link'.eof = TRUE
           /\ ~conn[s].live => link' = link
<1>1. Unconnected \in Conns /\ Unconnected.live = FALSE
  BY DEF Unconnected, Conns
<1>2. /\ conn' = [conn EXCEPT ![s] = Unconnected]
      /\ link' = IF conn[s].live THEN [link EXCEPT !.eof = TRUE] ELSE link
  BY DEF Hangup
<1>3. /\ conn' \in [PreviewTasks -> Conns]
      /\ conn'[s].live = FALSE /\ \A t \in PreviewTasks : t # s => conn'[t] = conn[t]
  BY <1>1, <1>2 DEF ServerType
<1>4. CASE conn[s].live
  BY <1>2, <1>3, <1>4 DEF ReaderType, Links
<1>5. CASE ~conn[s].live
  BY <1>2, <1>3, <1>5 DEF ReaderType, Links
<1> QED
  BY <1>4, <1>5

\* A frame that is read becomes the picture shown, as old as it was before if it
\* was shown already.
LEMMA RecordEffect ==
    ASSUME PreviewTypeOK, NEW f \in Pictures
    PROVE  /\ Record(f) \in Views
           /\ Record(f).received = IF view.frame = f THEN view.received ELSE now
<1>1. Wall > f.at => Wall - f.at \in Nat
  BY DEF PreviewTypeOK, CameraType, Wall, Pictures
<1>2. now \in Nat /\ view \in Views
  BY DEF PreviewTypeOK, CameraType, ReaderType
<1>3. CASE view.frame = f
  BY <1>2, <1>3 DEF Record, Views
<1>4. CASE view.frame # f
  <2> DEFINE initial == IF Wall > f.at THEN Wall - f.at ELSE 0
  <2>1. initial \in Nat
    BY <1>1
  <2>2. Record(f) = [phase |-> "live", frame |-> f, initial |-> initial, received |-> now]
    BY <1>4 DEF Record
  <2> HIDE DEF initial
  <2> QED
    BY <1>2, <1>4, <2>1, <2>2 DEF Views
<1> QED
  BY <1>3, <1>4

\* What one poll of a task does: it hangs up, remembers that there is nothing to
\* send, or puts the hub's frame into an empty pipe.
LEMMA ReaderServed ==
    ASSUME PreviewTypeOK, NEW s \in PreviewTasks, ServeReader(s)
    PROVE  /\ conn' \in [PreviewTasks -> Conns] /\ link' \in Links /\ Len(link'.inbox) <= 1
           /\ \A t \in PreviewTasks : t # s => conn'[t] = conn[t]
           /\ \/ Hangup(s)
              \/ /\ hub.frame = Nothing /\ link' = link
                 /\ conn'[s].open = conn[s].open /\ conn'[s].live = conn[s].live
              \/ /\ hub.frame # Nothing /\ hub.frame \in Pictures
                 /\ conn[s].live /\ ~conn[s].seen /\ link.inbox = <<>>
                 /\ conn'[s].open = conn[s].open /\ conn'[s].live = conn[s].live
                 /\ conn'[s].seen = TRUE
                 /\ link' = [link EXCEPT !.inbox = <<hub.frame>>]
                 /\ link'.inbox = <<hub.frame>> /\ link'.st = link.st /\ link'.eof = link.eof
                 /\ link'.last = link.last
<1>0. ServerType /\ ReaderType /\ hub.frame \in Pictures \cup {Nothing}
  BY DEF PreviewTypeOK, CameraType
<1>1. CASE Hangup(s)
  BY <1>0, <1>1, HangupEffect DEF ReaderType
<1>2. CASE /\ hub.frame = Nothing /\ ~conn[s].sent
           /\ conn' = [conn EXCEPT ![s].seen = TRUE] /\ UNCHANGED link
  BY <1>0, <1>2 DEF ServerType, ReaderType, Conns
<1>3. CASE /\ hub.frame # Nothing /\ conn[s].live /\ ~conn[s].seen /\ link.inbox = <<>>
           /\ conn' = [conn EXCEPT ![s].seen = TRUE, ![s].sent = TRUE]
           /\ link' = [link EXCEPT !.inbox = <<hub.frame>>]
  <2>1. <<hub.frame>> \in Seq(Pictures) /\ Len(<<hub.frame>>) = 1
    BY <1>0, <1>3
  <2>2. /\ link' \in Links /\ link'.inbox = <<hub.frame>> /\ link'.st = link.st
        /\ link'.eof = link.eof /\ link'.last = link.last
    BY <1>0, <1>3, <2>1 DEF ReaderType, Links
  <2>3. /\ conn' \in [PreviewTasks -> Conns] /\ \A t \in PreviewTasks : t # s => conn'[t] = conn[t]
        /\ conn'[s].seen = TRUE
        /\ conn'[s].open = conn[s].open /\ conn'[s].live = conn[s].live
    BY <1>0, <1>3 DEF ServerType, Conns
  <2>4. Len(link'.inbox) <= 1 /\ hub.frame \in Pictures
    BY <1>0, <1>3, <2>1, <2>2
  <2> QED
    BY <1>3, <2>2, <2>3, <2>4, Zenon
<1>4. \/ Hangup(s)
      \/ /\ hub.frame = Nothing /\ ~conn[s].sent
         /\ conn' = [conn EXCEPT ![s].seen = TRUE] /\ UNCHANGED link
      \/ /\ hub.frame # Nothing /\ conn[s].live /\ ~conn[s].seen /\ link.inbox = <<>>
         /\ conn' = [conn EXCEPT ![s].seen = TRUE, ![s].sent = TRUE]
         /\ link' = [link EXCEPT !.inbox = <<hub.frame>>]
  BY Zenon DEF ServeReader
<1> QED
  BY <1>1, <1>2, <1>3, <1>4, Zenon

\* What a new task does: it serves the reader that waited for one, if there is one.
LEMMA ReaderAccepted ==
    ASSUME PreviewTypeOK, NEW s \in PreviewTasks, AcceptReader(s)
    PROVE  /\ conn' \in [PreviewTasks -> Conns] /\ link' \in Links
           /\ conn'[s].open /\ (conn'[s].live <=> link.st = "attached")
           /\ \A t \in PreviewTasks : t # s => conn'[t] = conn[t]
           /\ link'.inbox = link.inbox /\ link'.last = link.last /\ link'.eof = link.eof
           /\ link.st = "attached" => link'.st = "served"
           /\ link.st # "attached" => link' = link
<1>0. ServerType /\ ReaderType
  BY DEF PreviewTypeOK
<1>1. CASE link.st = "attached"
  BY <1>0, <1>1 DEF AcceptReader, ServerType, ReaderType, Conns, Links, Unconnected
<1>2. CASE link.st # "attached"
  BY <1>0, <1>2 DEF AcceptReader, ServerType, ReaderType, Conns, Links, Unconnected
<1> QED
  BY <1>1, <1>2

\* A frame that is read is taken from the pipe, or rejected with the connection.
LEMMA ReadFrameEffect ==
    ASSUME PreviewTypeOK, ReadFrame
    PROVE  /\ link.st = "served" /\ link.inbox[1] \in Pictures /\ 1 \in DOMAIN link.inbox
           /\ \/ /\ Advances(link.inbox[1]) /\ link' \in Links
                 /\ link'.st = link.st /\ link'.eof = link.eof
                 /\ link'.inbox = <<>> /\ link'.last = link.inbox[1]
                 /\ view' = Record(link.inbox[1]) /\ UNCHANGED <<conn, obs>>
                 /\ first' = IF view.frame = link.inbox[1] THEN first ELSE now
              \/ Reconnecting /\ UNCHANGED first
<1>0. link \in Links
  BY DEF PreviewTypeOK, ReaderType
<1>1. link.st = "served" /\ link.inbox # <<>> /\ link.inbox \in Seq(Pictures)
  BY <1>0 DEF ReadFrame, Links
<1>2. link.inbox[1] \in Pictures /\ 1 \in DOMAIN link.inbox
  BY <1>1
<1>3. CASE /\ Advances(link.inbox[1])
           /\ link' = [link EXCEPT !.inbox = <<>>, !.last = link.inbox[1]]
  <2>1. /\ view' = Record(link.inbox[1]) /\ UNCHANGED <<conn, obs>>
        /\ first' = IF view.frame = link.inbox[1] THEN first ELSE now
    BY <1>3 DEF ReadFrame
  <2>2. <<>> \in Seq(Pictures)
    OBVIOUS
  <2>3. /\ link' \in Links /\ link'.st = link.st /\ link'.eof = link.eof
        /\ link'.inbox = <<>> /\ link'.last = link.inbox[1]
    BY <1>0, <1>2, <1>3, <2>2 DEF Links
  <2> QED
    BY <1>1, <1>2, <1>3, <2>1, <2>3
<1>4. CASE Reconnecting /\ UNCHANGED first
  BY <1>1, <1>2, <1>4
<1> QED
  BY <1>3, <1>4 DEF ReadFrame

\* Every step keeps the types of the agent and the clocks.
LEMMA NextCameraType ==
    ASSUME PreviewTypeOK, SessionInv, [PreviewNext]_previewVars
    PROVE  CameraType'
<1>0. CameraType
  BY DEF PreviewTypeOK
<1>1. ASSUME BeginSession PROVE CameraType'
  BY <1>1, <1>0 DEF BeginSession, CameraType, camera, reader
<1>2. ASSUME TryPublish PROVE CameraType'
  BY <1>2, <1>0 DEF TryPublish, CameraType, camera, reader, Wall, Jobs
<1>3. ASSUME StopCamera PROVE CameraType'
  BY <1>3, <1>0 DEF StopCamera, CameraType, camera, reader
<1>4. ASSUME EndSession PROVE CameraType'
  BY <1>4, <1>0 DEF EndSession, CameraType, camera, reader, Cleared
<1>5. ASSUME EncoderTakes PROVE CameraType'
  BY <1>5, <1>0 DEF EncoderTakes, CameraType, camera, reader
<1>6. ASSUME EncoderPublishes PROVE CameraType'
  <2>1. Picture(enc.job) \in Pictures
    BY <1>6, <1>0 DEF EncoderPublishes, SessionInv, Picture, Pictures, Jobs, CameraType
  <2>2. hub' \in [cur : 0 .. MaxSessions, frame : Pictures \cup {Nothing}]
    BY <1>6, <1>0, <2>1 DEF EncoderPublishes, CameraType
  <2>3. /\ enc' \in [st : {"wait", "encode", "exited"}, job : Jobs \cup {Nothing}] /\ seq' \in Nat
        /\ UNCHANGED <<now, skew, breaks, cam, slot>>
    BY <1>6, <1>0 DEF EncoderPublishes, CameraType
  <2> QED
    BY <1>0, <2>2, <2>3 DEF CameraType
<1>7. ASSUME EncoderFails PROVE CameraType'
  BY <1>7, <1>0 DEF EncoderFails, Break, CameraType, camera, reader
<1>8. ASSUME EncoderExits PROVE CameraType'
  BY <1>8, <1>0 DEF EncoderExits, CameraType, camera, reader
<1>9. ASSUME NEW s \in PreviewTasks, AcceptReader(s) PROVE CameraType'
  BY <1>9, <1>0 DEF AcceptReader, CameraType, camera, reader
<1>10. ASSUME NEW s \in PreviewTasks, ServeReader(s) PROVE CameraType'
  BY <1>10, <1>0 DEF ServeReader, Hangup, CameraType, camera, reader
<1>11. ASSUME NEW s \in PreviewTasks, WriteTimesOut(s) PROVE CameraType'
  BY <1>11, <1>0 DEF WriteTimesOut, Break, Hangup, CameraType, camera, reader
<1>12. ASSUME Connecting PROVE CameraType'
  BY <1>12, <1>0 DEF Connecting, CameraType, camera, reader
<1>13. ASSUME Connect PROVE CameraType'
  BY <1>13, <1>0 DEF Connect, CameraType, camera, reader
<1>14. ASSUME ReadFrame PROVE CameraType'
  BY <1>14, <1>0 DEF ReadFrame, Reconnecting, CameraType, camera, reader
<1>15. ASSUME LoseStream PROVE CameraType'
  BY <1>15, <1>0 DEF LoseStream, Break, Reconnecting, CameraType, camera, reader
<1>16. ASSUME Stopped PROVE CameraType'
  BY <1>16, <1>0 DEF Stopped, CameraType, camera, reader
<1>17. ASSUME AcquireLease PROVE CameraType'
  BY <1>17, <1>0 DEF AcquireLease, CameraType, camera, reader
<1>18. ASSUME ReleaseLease PROVE CameraType'
  BY <1>18, <1>0 DEF ReleaseLease, CameraType, camera, reader
<1>19. ASSUME PollStatus PROVE CameraType'
  BY <1>19, <1>0 DEF PollStatus, CameraType, camera, reader
<1>20. ASSUME Tick PROVE CameraType'
  BY <1>20, <1>0 DEF Tick, CameraType, camera, reader
<1>21. ASSUME ClockCorrected PROVE CameraType'
  BY <1>21, <1>0 DEF ClockCorrected, Break, CameraType, camera, reader
<1>22. CASE UNCHANGED previewVars
  BY <1>22, <1>0 DEF CameraType, previewVars, camera, reader
<1> QED
  BY <1>1, <1>2, <1>3, <1>4, <1>5, <1>6, <1>7, <1>8, <1>9, <1>10, <1>11, <1>12, <1>13,
     <1>14, <1>15, <1>16, <1>17, <1>18, <1>19, <1>20, <1>21, <1>22
     DEF PreviewNext, Encoder, Server, Client

\* Every step keeps the types of the pipe server.
LEMMA NextServerType ==
    ASSUME PreviewTypeOK, [PreviewNext]_previewVars
    PROVE  ServerType'
<1>0. ServerType /\ ReaderType /\ conn \in [PreviewTasks -> Conns]
  BY DEF PreviewTypeOK, ServerType
<1>1. ASSUME BeginSession PROVE ServerType'
  <2>1. conn' = conn \/ conn' = Changed
    BY <1>1 DEF BeginSession
  <2> QED
    BY <1>1, <1>0, <2>1, ChangedEffect DEF BeginSession, ServerType
<1>2. ASSUME TryPublish PROVE ServerType'
  BY <1>2, <1>0 DEF TryPublish, ServerType, camera, reader
<1>3. ASSUME StopCamera PROVE ServerType'
  BY <1>3, <1>0 DEF StopCamera, ServerType, camera, reader
<1>4. ASSUME EndSession PROVE ServerType'
  <2>1. conn' = conn \/ conn' = Changed
    BY <1>4 DEF EndSession
  <2> QED
    BY <1>4, <1>0, <2>1, ChangedEffect DEF EndSession, ServerType
<1>5. ASSUME EncoderTakes PROVE ServerType'
  BY <1>5, <1>0 DEF EncoderTakes, ServerType, camera, reader
<1>6. ASSUME EncoderPublishes PROVE ServerType'
  <2>1. conn' = conn \/ conn' = Changed
    BY <1>6 DEF EncoderPublishes
  <2> QED
    BY <1>6, <1>0, <2>1, ChangedEffect DEF EncoderPublishes, ServerType
<1>7. ASSUME EncoderFails PROVE ServerType'
  BY <1>7, <1>0 DEF EncoderFails, Break, ServerType, camera, reader
<1>8. ASSUME EncoderExits PROVE ServerType'
  BY <1>8, <1>0 DEF EncoderExits, ServerType, camera, reader
<1>9. ASSUME NEW s \in PreviewTasks, AcceptReader(s) PROVE ServerType'
  <2>1. listener' = FALSE
    BY <1>9 DEF AcceptReader
  <2> QED
    BY <1>9, <1>0, <2>1, ReaderAccepted DEF ServerType
<1>10. ASSUME NEW s \in PreviewTasks, ServeReader(s) PROVE ServerType'
  <2>1. UNCHANGED listener
    BY <1>10 DEF ServeReader
  <2> QED
    BY <1>10, <1>0, <2>1, ReaderServed DEF ServerType
<1>11. ASSUME NEW s \in PreviewTasks, WriteTimesOut(s) PROVE ServerType'
  <2>1. UNCHANGED listener
    BY <1>11 DEF WriteTimesOut
  <2> QED
    BY <1>11, <1>0, <2>1, HangupEffect DEF WriteTimesOut, ServerType
<1>12. ASSUME Connecting PROVE ServerType'
  BY <1>12, <1>0 DEF Connecting, ServerType, camera, reader
<1>13. ASSUME Connect PROVE ServerType'
  BY <1>13, <1>0 DEF Connect, ServerType, camera, reader
<1>14. ASSUME ReadFrame PROVE ServerType'
  <2>1. UNCHANGED listener
    BY <1>14 DEF ReadFrame
  <2> QED
    BY <1>14, <1>0, <2>1, ReadFrameEffect, DroppedEffect DEF ServerType, Reconnecting
<1>15. ASSUME LoseStream PROVE ServerType'
  <2> QED
    BY <1>15, <1>0, DroppedEffect DEF LoseStream, ServerType, Reconnecting
<1>16. ASSUME Stopped PROVE ServerType'
  BY <1>16, <1>0 DEF Stopped, ServerType, camera, reader
<1>17. ASSUME AcquireLease PROVE ServerType'
  BY <1>17, <1>0 DEF AcquireLease, ServerType, camera, reader
<1>18. ASSUME ReleaseLease PROVE ServerType'
  <2>1. listener' = listener /\ (conn' = conn \/ conn' = Dropped)
    BY <1>18 DEF ReleaseLease
  <2> QED
    BY <1>0, <2>1, DroppedEffect DEF ServerType
<1>19. ASSUME PollStatus PROVE ServerType'
  BY <1>19, <1>0 DEF PollStatus, ServerType, camera, reader
<1>20. ASSUME Tick PROVE ServerType'
  BY <1>20, <1>0 DEF Tick, ServerType, camera, reader
<1>21. ASSUME ClockCorrected PROVE ServerType'
  BY <1>21, <1>0 DEF ClockCorrected, Break, ServerType, camera, reader
<1>22. CASE UNCHANGED previewVars
  BY <1>22, <1>0 DEF ServerType, previewVars, camera, reader
<1> QED
  BY <1>1, <1>2, <1>3, <1>4, <1>5, <1>6, <1>7, <1>8, <1>9, <1>10, <1>11, <1>12, <1>13,
     <1>14, <1>15, <1>16, <1>17, <1>18, <1>19, <1>20, <1>21, <1>22
     DEF PreviewNext, Encoder, Server, Client

\* Every step keeps the types of the reader.
LEMMA NextReaderType ==
    ASSUME PreviewTypeOK, LeaseInv, [PreviewNext]_previewVars
    PROVE  ReaderType'
<1>0. ReaderType /\ ServerType
  BY DEF PreviewTypeOK
<1>1. ASSUME BeginSession PROVE ReaderType'
  BY <1>1, <1>0 DEF BeginSession, ReaderType, camera, reader
<1>2. ASSUME TryPublish PROVE ReaderType'
  BY <1>2, <1>0 DEF TryPublish, ReaderType, camera, reader
<1>3. ASSUME StopCamera PROVE ReaderType'
  BY <1>3, <1>0 DEF StopCamera, ReaderType, camera, reader
<1>4. ASSUME EndSession PROVE ReaderType'
  BY <1>4, <1>0 DEF EndSession, ReaderType, camera, reader
<1>5. ASSUME EncoderTakes PROVE ReaderType'
  BY <1>5, <1>0 DEF EncoderTakes, ReaderType, camera, reader
<1>6. ASSUME EncoderPublishes PROVE ReaderType'
  BY <1>6, <1>0 DEF EncoderPublishes, ReaderType, camera, reader
<1>7. ASSUME EncoderFails PROVE ReaderType'
  BY <1>7, <1>0 DEF EncoderFails, Break, ReaderType, camera, reader
<1>8. ASSUME EncoderExits PROVE ReaderType'
  BY <1>8, <1>0 DEF EncoderExits, ReaderType, camera, reader
<1>9. ASSUME NEW s \in PreviewTasks, AcceptReader(s) PROVE ReaderType'
  <2>1. UNCHANGED <<view, first, obs, lease>>
    BY <1>9 DEF AcceptReader
  <2> QED
    BY <1>9, <1>0, <2>1, ReaderAccepted DEF ReaderType
<1>10. ASSUME NEW s \in PreviewTasks, ServeReader(s) PROVE ReaderType'
  <2>1. UNCHANGED <<view, first, obs, lease>>
    BY <1>10 DEF ServeReader
  <2> QED
    BY <1>10, <1>0, <2>1, ReaderServed DEF ReaderType
<1>11. ASSUME NEW s \in PreviewTasks, WriteTimesOut(s) PROVE ReaderType'
  <2>1. Hangup(s) /\ UNCHANGED <<view, first, obs, lease>>
    BY <1>11 DEF WriteTimesOut
  <2> QED
    BY <1>0, <2>1, HangupEffect DEF ReaderType
<1>12. ASSUME Connecting PROVE ReaderType'
  <2>1. link' \in Links /\ link'.inbox = <<>> /\ UNCHANGED <<first, obs, lease>>
    BY <1>12, DownIsEmpty DEF Connecting
  <2>2. view' \in Views
    BY <1>12, <1>0 DEF Connecting, ReaderType, Views
  <2> QED
    BY <1>0, <2>1, <2>2 DEF ReaderType
<1>13. ASSUME Connect PROVE ReaderType'
  <2>1. link' \in Links /\ link'.inbox = <<>> /\ obs' = Nothing /\ UNCHANGED <<first, lease>>
    BY <1>13, DownIsEmpty DEF Connect
  <2>2. view' \in Views
    BY <1>13, <1>0 DEF Connect, ReaderType, Views
  <2> QED
    BY <1>0, <2>1, <2>2 DEF ReaderType
<1>14. ASSUME ReadFrame PROVE ReaderType'
  <2>1. UNCHANGED lease /\ now \in Nat
    BY <1>14 DEF ReadFrame, PreviewTypeOK, CameraType
  <2>2. CASE Reconnecting /\ UNCHANGED first
    <3>1. link' \in Links /\ link'.inbox = <<>> /\ obs' = Nothing
      BY <2>2, DownIsEmpty DEF Reconnecting
    <3>2. view' \in Views
      BY <1>0, <2>2 DEF Reconnecting, ReaderType, Views
    <3> QED
      BY <1>0, <2>1, <2>2, <3>1, <3>2 DEF ReaderType
  <2>3. CASE ~(Reconnecting /\ UNCHANGED first)
    <3>1. /\ link' \in Links /\ link'.inbox = <<>> /\ UNCHANGED obs
          /\ view' = Record(link.inbox[1]) /\ link.inbox[1] \in Pictures
          /\ first' = IF view.frame = link.inbox[1] THEN first ELSE now
      BY <1>14, <2>3, ReadFrameEffect
    <3>2. view' \in Views
      BY <3>1, RecordEffect
    <3> QED
      BY <1>0, <2>1, <3>1, <3>2 DEF ReaderType
  <2> QED
    BY <1>14, <2>2, <2>3, ReadFrameEffect
<1>15. ASSUME LoseStream PROVE ReaderType'
  <2>1. link' \in Links /\ link'.inbox = <<>> /\ obs' = Nothing /\ UNCHANGED <<first, lease>>
    BY <1>15, DownIsEmpty DEF LoseStream, Reconnecting
  <2>2. view' \in Views
    BY <1>15, <1>0 DEF LoseStream, Reconnecting, ReaderType, Views
  <2> QED
    BY <1>0, <2>1, <2>2 DEF ReaderType
<1>16. ASSUME Stopped PROVE ReaderType'
  <2>1. link' \in Links /\ link'.inbox = <<>> /\ obs' = Nothing /\ UNCHANGED <<first, lease, view>>
    BY <1>16, DownIsEmpty DEF Stopped
  <2> QED
    BY <1>0, <2>1 DEF ReaderType
<1>17. ASSUME AcquireLease PROVE ReaderType'
  <2>1. link' \in Links /\ (link' = link \/ link'.inbox = <<>>)
    BY <1>17, <1>0, DownIsEmpty DEF AcquireLease, ReaderType
  <2>2. lease' \in [held : 0 .. MaxLeases, taken : 0 .. MaxLeases]
    BY <1>17, <1>0, PreviewBounds DEF AcquireLease, ReaderType, LeaseInv
  <2>3. obs' \in {obs, Nothing} /\ UNCHANGED <<first, view>>
    BY <1>17 DEF AcquireLease
  <2> QED
    BY <1>0, <2>1, <2>2, <2>3 DEF ReaderType
<1>18. ASSUME ReleaseLease PROVE ReaderType'
  <2>1. link' \in Links /\ (link' = link \/ link'.inbox = <<>>)
    BY <1>18, <1>0, DownIsEmpty DEF ReleaseLease, ReaderType
  <2>2. lease' \in [held : 0 .. MaxLeases, taken : 0 .. MaxLeases]
    BY <1>18, <1>0, PreviewBounds DEF ReleaseLease, ReaderType
  <2>3. UNCHANGED <<first, view, obs>>
    BY <1>18 DEF ReleaseLease
  <2> QED
    BY <1>0, <2>1, <2>2, <2>3 DEF ReaderType
<1>19. ASSUME PollStatus PROVE ReaderType'
  <2>1. cam.gen \in 0 .. MaxSessions /\ now \in Nat
    BY DEF PreviewTypeOK, CameraType
  <2>2. obs' \in [sess : 0 .. MaxSessions, active : BOOLEAN, at : Nat] \cup {Nothing}
    <3>1. (cam.st # "off") \in BOOLEAN
      OBVIOUS
    <3>2. [sess |-> cam.gen, active |-> cam.st # "off", at |-> now]
            \in [sess : 0 .. MaxSessions, active : BOOLEAN, at : Nat]
      BY <2>1, <3>1
    <3>3. obs' \in {Nothing, [sess |-> cam.gen, active |-> cam.st # "off", at |-> now]}
      BY <1>19 DEF PollStatus
    <3> QED
      BY <3>2, <3>3
  <2> QED
    BY <1>19, <1>0, <2>2 DEF PollStatus, ReaderType
<1>20. ASSUME Tick PROVE ReaderType'
  BY <1>20, <1>0 DEF Tick, ReaderType, camera, reader
<1>21. ASSUME ClockCorrected PROVE ReaderType'
  BY <1>21, <1>0 DEF ClockCorrected, Break, ReaderType, camera, reader
<1>22. CASE UNCHANGED previewVars
  BY <1>22, <1>0 DEF ReaderType, previewVars, camera, reader
<1> QED
  BY <1>1, <1>2, <1>3, <1>4, <1>5, <1>6, <1>7, <1>8, <1>9, <1>10, <1>11, <1>12, <1>13,
     <1>14, <1>15, <1>16, <1>17, <1>18, <1>19, <1>20, <1>21, <1>22
     DEF PreviewNext, Encoder, Server, Client

\* No step leaves a picture of an ended session in the hub.
LEMMA NextSession ==
    ASSUME PreviewTypeOK, SessionInv, [PreviewNext]_previewVars
    PROVE  SessionInv'
<1>0. /\ cam \in [st : {"off", "on", "stopping"}, gen : 0 .. MaxSessions]
      /\ slot \in [pending : Jobs \cup {Nothing}, closed : BOOLEAN]
      /\ enc \in [st : {"wait", "encode", "exited"}, job : Jobs \cup {Nothing}]
      /\ hub \in [cur : 0 .. MaxSessions, frame : Pictures \cup {Nothing}]
      /\ seq \in Nat /\ now \in Nat /\ skew \in Nat /\ MaxSessions \in Nat
  BY PreviewBounds DEF PreviewTypeOK, CameraType
<1>1. ASSUME BeginSession PROVE SessionInv'
  BY <1>1, <1>0 DEF BeginSession, SessionInv, HubIsCurrent, camera, reader
<1>2. ASSUME TryPublish PROVE SessionInv'
  BY <1>2, <1>0 DEF TryPublish, SessionInv, HubIsCurrent, camera, reader, Wall, Jobs
<1>3. ASSUME StopCamera PROVE SessionInv'
  BY <1>3, <1>0 DEF StopCamera, SessionInv, HubIsCurrent, camera, reader
<1>4. ASSUME EndSession PROVE SessionInv'
  <2>1. cam.st = "stopping" /\ enc.st = "exited" /\ cam' = [cam EXCEPT !.st = "off"]
        /\ hub' = Cleared /\ UNCHANGED <<slot, enc, seq>>
    BY <1>4, <1>0 DEF EndSession, SessionInv
  <2>2. slot.closed
    BY <2>1 DEF SessionInv
  <2> QED
    BY <1>0, <2>1, <2>2 DEF SessionInv, HubIsCurrent, Cleared
<1>5. ASSUME EncoderTakes PROVE SessionInv'
  BY <1>5, <1>0 DEF EncoderTakes, SessionInv, HubIsCurrent, camera, reader
<1>6. ASSUME EncoderPublishes PROVE SessionInv'
  BY <1>6, <1>0
     DEF EncoderPublishes, SessionInv, HubIsCurrent, camera, reader, Picture, Pictures, Jobs
<1>7. ASSUME EncoderFails PROVE SessionInv'
  BY <1>7, <1>0 DEF EncoderFails, Break, SessionInv, HubIsCurrent, camera, reader
<1>8. ASSUME EncoderExits PROVE SessionInv'
  BY <1>8, <1>0 DEF EncoderExits, SessionInv, HubIsCurrent, camera, reader
<1>9. ASSUME NEW s \in PreviewTasks, AcceptReader(s) PROVE SessionInv'
  BY <1>9, <1>0 DEF AcceptReader, SessionInv, HubIsCurrent, camera, reader
<1>10. ASSUME NEW s \in PreviewTasks, ServeReader(s) PROVE SessionInv'
  BY <1>10, <1>0 DEF ServeReader, Hangup, SessionInv, HubIsCurrent, camera, reader
<1>11. ASSUME NEW s \in PreviewTasks, WriteTimesOut(s) PROVE SessionInv'
  BY <1>11, <1>0 DEF WriteTimesOut, Break, Hangup, SessionInv, HubIsCurrent, camera, reader
<1>12. ASSUME Connecting PROVE SessionInv'
  BY <1>12, <1>0 DEF Connecting, SessionInv, HubIsCurrent, camera, reader
<1>13. ASSUME Connect PROVE SessionInv'
  BY <1>13, <1>0 DEF Connect, SessionInv, HubIsCurrent, camera, reader
<1>14. ASSUME ReadFrame PROVE SessionInv'
  BY <1>14, <1>0 DEF ReadFrame, Reconnecting, SessionInv, HubIsCurrent, camera, reader
<1>15. ASSUME LoseStream PROVE SessionInv'
  BY <1>15, <1>0
     DEF LoseStream, Break, Reconnecting, SessionInv, HubIsCurrent, camera, reader
<1>16. ASSUME Stopped PROVE SessionInv'
  BY <1>16, <1>0 DEF Stopped, SessionInv, HubIsCurrent, camera, reader
<1>17. ASSUME AcquireLease PROVE SessionInv'
  BY <1>17, <1>0 DEF AcquireLease, SessionInv, HubIsCurrent, camera, reader
<1>18. ASSUME ReleaseLease PROVE SessionInv'
  BY <1>18, <1>0 DEF ReleaseLease, SessionInv, HubIsCurrent, camera, reader
<1>19. ASSUME PollStatus PROVE SessionInv'
  BY <1>19, <1>0 DEF PollStatus, SessionInv, HubIsCurrent, camera, reader
<1>20. ASSUME Tick PROVE SessionInv'
  BY <1>20, <1>0 DEF Tick, SessionInv, HubIsCurrent, camera, reader
<1>21. ASSUME ClockCorrected PROVE SessionInv'
  BY <1>21, <1>0 DEF ClockCorrected, Break, SessionInv, HubIsCurrent, camera, reader
<1>22. CASE UNCHANGED previewVars
  BY <1>22, <1>0 DEF SessionInv, HubIsCurrent, previewVars, camera, reader
<1> QED
  BY <1>1, <1>2, <1>3, <1>4, <1>5, <1>6, <1>7, <1>8, <1>9, <1>10, <1>11, <1>12, <1>13,
     <1>14, <1>15, <1>16, <1>17, <1>18, <1>19, <1>20, <1>21, <1>22
     DEF PreviewNext, Encoder, Server, Client

\* No step gives the reader a second task or leaves it without one.
LEMMA NextLink ==
    ASSUME PreviewTypeOK, LinkInv, LeaseInv, [PreviewNext]_previewVars
    PROVE  LinkInv'
<1>0. ServerType /\ ReaderType /\ conn \in [PreviewTasks -> Conns] /\ link \in Links
  BY DEF PreviewTypeOK, ServerType, ReaderType
<1>1. ASSUME BeginSession PROVE LinkInv'
  <2>1. UNCHANGED link /\ (conn' = conn \/ conn' = Changed)
    BY <1>1 DEF BeginSession, reader
  <2>2. \A s \in PreviewTasks : conn'[s].live = conn[s].live /\ conn'[s].open = conn[s].open
    BY <1>0, <2>1, ChangedEffect
  <2> QED
    BY <2>1, <2>2 DEF LinkInv, OneTaskPerReader
<1>2. ASSUME TryPublish PROVE LinkInv'
  BY <1>2, <1>0 DEF TryPublish, LinkInv, OneTaskPerReader, camera, reader
<1>3. ASSUME StopCamera PROVE LinkInv'
  BY <1>3, <1>0 DEF StopCamera, LinkInv, OneTaskPerReader, camera, reader
<1>4. ASSUME EndSession PROVE LinkInv'
  <2>1. UNCHANGED link /\ (conn' = conn \/ conn' = Changed)
    BY <1>4 DEF EndSession, reader
  <2>2. \A s \in PreviewTasks : conn'[s].live = conn[s].live /\ conn'[s].open = conn[s].open
    BY <1>0, <2>1, ChangedEffect
  <2> QED
    BY <2>1, <2>2 DEF LinkInv, OneTaskPerReader
<1>5. ASSUME EncoderTakes PROVE LinkInv'
  BY <1>5, <1>0 DEF EncoderTakes, LinkInv, OneTaskPerReader, camera, reader
<1>6. ASSUME EncoderPublishes PROVE LinkInv'
  <2>1. UNCHANGED link /\ (conn' = conn \/ conn' = Changed)
    BY <1>6 DEF EncoderPublishes, reader
  <2>2. \A s \in PreviewTasks : conn'[s].live = conn[s].live /\ conn'[s].open = conn[s].open
    BY <1>0, <2>1, ChangedEffect
  <2> QED
    BY <2>1, <2>2 DEF LinkInv, OneTaskPerReader
<1>7. ASSUME EncoderFails PROVE LinkInv'
  BY <1>7, <1>0 DEF EncoderFails, Break, LinkInv, OneTaskPerReader, camera, reader
<1>8. ASSUME EncoderExits PROVE LinkInv'
  BY <1>8, <1>0 DEF EncoderExits, LinkInv, OneTaskPerReader, camera, reader
<1>9. ASSUME NEW s \in PreviewTasks, AcceptReader(s) PROVE LinkInv'
  <2>1. CASE link.st = "attached"
    <3>1. /\ \A t \in PreviewTasks : ~conn[t].live
          /\ link.inbox = <<>> /\ link.last = Nothing /\ ~link.eof
      BY <2>1 DEF LinkInv
    <3> QED
      BY <1>9, <2>1, <3>1, ReaderAccepted DEF LinkInv, OneTaskPerReader
  <2>2. CASE link.st # "attached"
    <3>1. UNCHANGED link /\ ~conn'[s].live /\ \A t \in PreviewTasks : t # s => conn'[t] = conn[t]
      BY <1>9, <2>2, ReaderAccepted
    <3>2. ~conn[s].open
      BY <1>9 DEF AcceptReader
    <3> QED
      BY <3>1, <3>2 DEF LinkInv, OneTaskPerReader
  <2> QED
    BY <2>1, <2>2
<1>10. ASSUME NEW s \in PreviewTasks, ServeReader(s) PROVE LinkInv'
  <2>1. CASE Hangup(s)
    BY <1>0, <2>1, HangupEffect DEF LinkInv, OneTaskPerReader
  <2>2. CASE ~Hangup(s)
    <3>1. /\ link'.st = link.st /\ link'.eof = link.eof /\ link'.last = link.last
          /\ link.st # "served" => link'.inbox = link.inbox
          /\ \A t \in PreviewTasks : conn'[t].live = conn[t].live /\ conn'[t].open = conn[t].open
      BY <1>10, <2>2, ReaderServed DEF LinkInv
    <3> QED
      BY <3>1 DEF LinkInv, OneTaskPerReader
  <2> QED
    BY <2>1, <2>2
<1>11. ASSUME NEW s \in PreviewTasks, WriteTimesOut(s) PROVE LinkInv'
  <2>1. Hangup(s)
    BY <1>11 DEF WriteTimesOut
  <2> QED
    BY <1>0, <2>1, HangupEffect DEF LinkInv, OneTaskPerReader
<1>12. ASSUME Connecting PROVE LinkInv'
  <2>1. link.st # "served" /\ UNCHANGED conn
    BY <1>12 DEF Connecting
  <2>2. link'.st # "served" /\ link'.inbox = <<>> /\ link'.last = Nothing /\ link'.eof = FALSE
    BY <1>12, DownIsEmpty DEF Connecting, Down
  <2> QED
    BY <2>1, <2>2 DEF LinkInv, OneTaskPerReader
<1>13. ASSUME Connect PROVE LinkInv'
  <2>1. link.st # "served" /\ UNCHANGED conn
    BY <1>13 DEF Connect
  <2>2. link'.st # "served" /\ link'.inbox = <<>> /\ link'.last = Nothing /\ link'.eof = FALSE
    BY <1>13, DownIsEmpty DEF Connect, Down
  <2> QED
    BY <2>1, <2>2 DEF LinkInv, OneTaskPerReader
<1>14. ASSUME ReadFrame PROVE LinkInv'
  <2>1. CASE Reconnecting
    <3>1. \A s \in PreviewTasks : ~conn'[s].live
      BY <1>0, <2>1, DroppedEffect DEF Reconnecting
    <3>2. link'.st # "served" /\ link'.inbox = <<>> /\ link'.last = Nothing /\ link'.eof = FALSE
      BY <2>1, DownIsEmpty DEF Reconnecting
    <3> QED
      BY <3>1, <3>2 DEF LinkInv, OneTaskPerReader
  <2>2. CASE ~Reconnecting
    BY <1>14, <2>2, ReadFrameEffect DEF LinkInv, OneTaskPerReader
  <2> QED
    BY <2>1, <2>2
<1>15. ASSUME LoseStream PROVE LinkInv'
  <2>1. \A s \in PreviewTasks : ~conn'[s].live
    BY <1>15, <1>0, DroppedEffect DEF LoseStream, Reconnecting
  <2>2. link'.st # "served" /\ link'.inbox = <<>> /\ link'.last = Nothing /\ link'.eof = FALSE
    BY <1>15, DownIsEmpty DEF LoseStream, Reconnecting
  <2> QED
    BY <2>1, <2>2 DEF LinkInv, OneTaskPerReader
<1>16. ASSUME Stopped PROVE LinkInv'
  <2>1. link.st # "served" /\ UNCHANGED conn
    BY <1>16 DEF Stopped
  <2>2. link'.st # "served" /\ link'.inbox = <<>> /\ link'.last = Nothing /\ link'.eof = FALSE
    BY <1>16, DownIsEmpty DEF Stopped, Down
  <2> QED
    BY <2>1, <2>2 DEF LinkInv, OneTaskPerReader
<1>17. ASSUME AcquireLease PROVE LinkInv'
  <2>1. CASE UNCHANGED link
    BY <1>17, <2>1 DEF AcquireLease, LinkInv, OneTaskPerReader
  <2>2. CASE lease.held = 0 /\ link' = [Down EXCEPT !.st = "start"]
    <3>1. link.st # "served"
      BY <2>2 DEF LeaseInv, RunningWhileLeased
    <3>2. UNCHANGED conn
      BY <1>17 DEF AcquireLease
    <3>3. link'.st = "start" /\ link'.inbox = <<>> /\ link'.last = Nothing /\ link'.eof = FALSE
      BY <2>2, DownIsEmpty
    <3> QED
      BY <3>1, <3>2, <3>3 DEF LinkInv, OneTaskPerReader
  <2> QED
    BY <1>17, <2>1, <2>2 DEF AcquireLease
<1>18. ASSUME ReleaseLease PROVE LinkInv'
  <2>1. CASE UNCHANGED <<link, conn>>
    BY <2>1 DEF LinkInv, OneTaskPerReader
  <2>2. CASE link' = [Down EXCEPT !.st = "cancelled"] /\ conn' = Dropped
    <3>1. \A s \in PreviewTasks : ~conn'[s].live
      BY <1>0, <2>2, DroppedEffect
    <3>2. link'.st = "cancelled" /\ link'.inbox = <<>> /\ link'.last = Nothing /\ link'.eof = FALSE
      BY <2>2, DownIsEmpty
    <3> QED
      BY <3>1, <3>2 DEF LinkInv, OneTaskPerReader
  <2> QED
    BY <1>18, <2>1, <2>2 DEF ReleaseLease
<1>19. ASSUME PollStatus PROVE LinkInv'
  BY <1>19, <1>0 DEF PollStatus, LinkInv, OneTaskPerReader, camera, reader
<1>20. ASSUME Tick PROVE LinkInv'
  BY <1>20, <1>0 DEF Tick, LinkInv, OneTaskPerReader, camera, reader
<1>21. ASSUME ClockCorrected PROVE LinkInv'
  BY <1>21, <1>0 DEF ClockCorrected, Break, LinkInv, OneTaskPerReader, camera, reader
<1>22. CASE UNCHANGED previewVars
  BY <1>22, <1>0 DEF LinkInv, OneTaskPerReader, previewVars, camera, reader
<1> QED
  BY <1>1, <1>2, <1>3, <1>4, <1>5, <1>6, <1>7, <1>8, <1>9, <1>10, <1>11, <1>12, <1>13,
     <1>14, <1>15, <1>16, <1>17, <1>18, <1>19, <1>20, <1>21, <1>22
     DEF PreviewNext, Encoder, Server, Client

\* No step sends the reader a frame it must reject.
LEMMA NextStream ==
    ASSUME PreviewTypeOK, SessionInv, LinkInv, LeaseInv, StreamInv, [PreviewNext]_previewVars
    PROVE  StreamInv'
<1>0. /\ cam \in [st : {"off", "on", "stopping"}, gen : 0 .. MaxSessions]
      /\ hub \in [cur : 0 .. MaxSessions, frame : Pictures \cup {Nothing}]
      /\ seq \in Nat /\ MaxSessions \in Nat
      /\ ServerType /\ ReaderType /\ conn \in [PreviewTasks -> Conns] /\ link \in Links
  BY PreviewBounds DEF PreviewTypeOK, CameraType, ServerType, ReaderType
<1>1. ASSUME BeginSession PROVE StreamInv'
  <2>1. UNCHANGED <<link, seq>> /\ hub'.frame = Nothing /\ cam'.gen = cam.gen + 1
    BY <1>1 DEF BeginSession, reader
  <2> QED
    BY <1>0, <2>1 DEF StreamInv, StreamAdvances, Advances, Older, Pictures
<1>2. ASSUME TryPublish PROVE StreamInv'
  BY <1>2, <1>0 DEF TryPublish, StreamInv, StreamAdvances, Advances, Older, camera, reader
<1>3. ASSUME StopCamera PROVE StreamInv'
  BY <1>3, <1>0 DEF StopCamera, StreamInv, StreamAdvances, Advances, Older, camera, reader
<1>4. ASSUME EndSession PROVE StreamInv'
  <2>1. UNCHANGED <<link, seq>> /\ hub'.frame = Nothing /\ cam'.gen = cam.gen
    BY <1>4, <1>0 DEF EndSession, reader, Cleared, SessionInv
  <2> QED
    BY <2>1 DEF StreamInv, StreamAdvances, Advances, Older
<1>5. ASSUME EncoderTakes PROVE StreamInv'
  BY <1>5, <1>0 DEF EncoderTakes, StreamInv, StreamAdvances, Advances, Older, camera, reader
<1>6. ASSUME EncoderPublishes PROVE StreamInv'
  <2>1. UNCHANGED <<link, cam>> /\ seq' = seq + 1
    BY <1>6 DEF EncoderPublishes, reader
  <2>2. cam.st # "off" /\ enc.job.sess = cam.gen
    BY <1>6 DEF EncoderPublishes, SessionInv
  <2>3. hub'.frame = Picture(enc.job)
    BY <1>6, <1>0, <2>2 DEF EncoderPublishes, SessionInv
  <2>4. hub'.frame.seq = seq + 1 /\ hub'.frame.sess = cam.gen
    BY <2>2, <2>3 DEF Picture
  <2> QED
    BY <1>0, <2>1, <2>4 DEF StreamInv, StreamAdvances, Advances, Older, Pictures
<1>7. ASSUME EncoderFails PROVE StreamInv'
  BY <1>7, <1>0
     DEF EncoderFails, Break, StreamInv, StreamAdvances, Advances, Older, camera, reader
<1>8. ASSUME EncoderExits PROVE StreamInv'
  BY <1>8, <1>0 DEF EncoderExits, StreamInv, StreamAdvances, Advances, Older, camera, reader
<1>9. ASSUME NEW s \in PreviewTasks, AcceptReader(s) PROVE StreamInv'
  <2>1. UNCHANGED <<seq, cam, hub>>
    BY <1>9 DEF AcceptReader, camera
  <2>2. CASE link.st = "attached"
    <3>1. link'.inbox = <<>> /\ link'.last = Nothing
      BY <1>9, <2>2, ReaderAccepted DEF LinkInv
    <3> QED
      BY <3>1 DEF StreamInv, StreamAdvances, Advances, Older
  <2>3. CASE link.st # "attached"
    <3>1. UNCHANGED link /\ ~conn'[s].live /\ \A t \in PreviewTasks : t # s => conn'[t] = conn[t]
      BY <1>9, <2>3, ReaderAccepted
    <3> QED
      BY <2>1, <3>1 DEF StreamInv, StreamAdvances, Advances, Older
  <2> QED
    BY <2>2, <2>3
<1>10. ASSUME NEW s \in PreviewTasks, ServeReader(s) PROVE StreamInv'
  <2>1. UNCHANGED <<seq, cam, hub>>
    BY <1>10 DEF ServeReader, camera
  <2>2. CASE Hangup(s)
    BY <1>0, <2>1, <2>2, HangupEffect DEF StreamInv, StreamAdvances, Advances, Older
  <2>3. CASE hub.frame = Nothing /\ link' = link
    BY <2>1, <2>3 DEF StreamInv, StreamAdvances, Advances, Older
  <2>4. CASE hub.frame # Nothing /\ ~Hangup(s)
    <3>1. /\ hub.frame \in Pictures /\ conn[s].live /\ ~conn[s].seen
          /\ conn'[s].seen = TRUE /\ \A t \in PreviewTasks : t # s => conn'[t] = conn[t]
          /\ link'.inbox = <<hub.frame>> /\ link'.last = link.last
      BY <1>10, <2>4, ReaderServed
    <3>2. Older(link.last, hub.frame.seq, hub.frame.sess)
      BY <2>4, <3>1 DEF StreamInv
    <3>3. DOMAIN link'.inbox = {1} /\ link'.inbox[1] = hub.frame
      BY <3>1
    <3>4. \A t \in PreviewTasks : ~(conn'[t].live /\ ~conn'[t].seen)
      BY <3>1 DEF LinkInv, OneTaskPerReader
    <3>5. Older(hub.frame, seq + 1, cam.gen)
      BY <1>0, <2>4, <3>1 DEF SessionInv, HubIsCurrent, Older, Pictures
    <3>6. StreamAdvances'
      BY <1>0, <3>1, <3>2, <3>3 DEF StreamAdvances, Advances, Older, Pictures
    <3>7. Older(link.last, seq + 1, cam.gen)
      BY DEF StreamInv
    <3> QED
      BY <2>1, <3>1, <3>3, <3>4, <3>5, <3>6, <3>7 DEF StreamInv, Older
  <2> QED
    BY <1>10, <2>2, <2>3, <2>4, ReaderServed
<1>11. ASSUME NEW s \in PreviewTasks, WriteTimesOut(s) PROVE StreamInv'
  <2>1. Hangup(s) /\ UNCHANGED <<seq, cam, hub>>
    BY <1>11 DEF WriteTimesOut, camera
  <2> QED
    BY <1>0, <2>1, HangupEffect DEF StreamInv, StreamAdvances, Advances, Older
<1>12. ASSUME Connecting PROVE StreamInv'
  <2>1. link'.inbox = <<>> /\ link'.last = Nothing
    BY <1>12, DownIsEmpty DEF Connecting, Down, Reconnecting
  <2> QED
    BY <2>1 DEF StreamInv, StreamAdvances, Advances, Older
<1>13. ASSUME Connect PROVE StreamInv'
  <2>1. link'.inbox = <<>> /\ link'.last = Nothing
    BY <1>13, DownIsEmpty DEF Connect, Down, Reconnecting
  <2> QED
    BY <2>1 DEF StreamInv, StreamAdvances, Advances, Older
<1>14. ASSUME ReadFrame PROVE StreamInv'
  <2>1. UNCHANGED <<seq, cam, hub>>
    BY <1>14 DEF ReadFrame, camera
  <2>2. CASE Reconnecting
    <3>1. link'.inbox = <<>> /\ link'.last = Nothing
      BY <2>2, DownIsEmpty DEF Reconnecting
    <3>2. \A s \in PreviewTasks : ~conn'[s].live
      BY <1>0, <2>2, DroppedEffect DEF Reconnecting
    <3> QED
      BY <3>1, <3>2 DEF StreamInv, StreamAdvances, Advances, Older
  <2>3. CASE ~Reconnecting
    <3>1. /\ link'.inbox = <<>> /\ link'.last = link.inbox[1] /\ UNCHANGED conn
          /\ 1 \in DOMAIN link.inbox
      BY <1>14, <2>3, ReadFrameEffect
    <3> QED
      BY <2>1, <3>1 DEF StreamInv, StreamAdvances, Advances, Older
  <2> QED
    BY <2>2, <2>3
<1>15. ASSUME LoseStream PROVE StreamInv'
  <2>1. link'.inbox = <<>> /\ link'.last = Nothing
    BY <1>15, DownIsEmpty DEF LoseStream, Down, Reconnecting
  <2> QED
    BY <2>1 DEF StreamInv, StreamAdvances, Advances, Older
<1>16. ASSUME Stopped PROVE StreamInv'
  <2>1. link'.inbox = <<>> /\ link'.last = Nothing
    BY <1>16, DownIsEmpty DEF Stopped, Down, Reconnecting
  <2> QED
    BY <2>1 DEF StreamInv, StreamAdvances, Advances, Older
<1>17. ASSUME AcquireLease PROVE StreamInv'
  <2>1. UNCHANGED <<seq, cam, hub, conn>>
    BY <1>17 DEF AcquireLease, camera
  <2>2. CASE UNCHANGED link
    BY <2>1, <2>2 DEF StreamInv, StreamAdvances, Advances, Older
  <2>3. CASE link' = [Down EXCEPT !.st = "start"]
    <3>1. link'.inbox = <<>> /\ link'.last = Nothing
      BY <2>3, DownIsEmpty
    <3> QED
      BY <3>1 DEF StreamInv, StreamAdvances, Advances, Older
  <2> QED
    BY <1>17, <2>2, <2>3 DEF AcquireLease
<1>18. ASSUME ReleaseLease PROVE StreamInv'
  <2>1. UNCHANGED <<seq, cam, hub>>
    BY <1>18 DEF ReleaseLease, camera
  <2>2. CASE UNCHANGED <<link, conn>>
    BY <2>1, <2>2 DEF StreamInv, StreamAdvances, Advances, Older
  <2>3. CASE link' = [Down EXCEPT !.st = "cancelled"]
    <3>1. link'.inbox = <<>> /\ link'.last = Nothing
      BY <2>3, DownIsEmpty
    <3> QED
      BY <3>1 DEF StreamInv, StreamAdvances, Advances, Older
  <2> QED
    BY <1>18, <2>2, <2>3 DEF ReleaseLease
<1>19. ASSUME PollStatus PROVE StreamInv'
  BY <1>19, <1>0 DEF PollStatus, StreamInv, StreamAdvances, Advances, Older, camera, reader
<1>20. ASSUME Tick PROVE StreamInv'
  BY <1>20, <1>0 DEF Tick, StreamInv, StreamAdvances, Advances, Older, camera, reader
<1>21. ASSUME ClockCorrected PROVE StreamInv'
  BY <1>21, <1>0
     DEF ClockCorrected, Break, StreamInv, StreamAdvances, Advances, Older, camera, reader
<1>22. CASE UNCHANGED previewVars
  BY <1>22, <1>0 DEF StreamInv, StreamAdvances, Advances, Older, previewVars, camera, reader
<1> QED
  BY <1>1, <1>2, <1>3, <1>4, <1>5, <1>6, <1>7, <1>8, <1>9, <1>10, <1>11, <1>12, <1>13,
     <1>14, <1>15, <1>16, <1>17, <1>18, <1>19, <1>20, <1>21, <1>22
     DEF PreviewNext, Encoder, Server, Client

\* No step makes the picture shown younger.
LEMMA NextClock ==
    ASSUME PreviewTypeOK, ClockInv, [PreviewNext]_previewVars
    PROVE  ClockInv'
<1>0. now \in Nat /\ first \in Nat /\ view \in Views
  BY PreviewBounds DEF PreviewTypeOK, CameraType, ReaderType
<1>1. ASSUME BeginSession PROVE ClockInv'
  BY <1>1, <1>0 DEF BeginSession, ClockInv, camera, reader
<1>2. ASSUME TryPublish PROVE ClockInv'
  BY <1>2, <1>0 DEF TryPublish, ClockInv, camera, reader
<1>3. ASSUME StopCamera PROVE ClockInv'
  BY <1>3, <1>0 DEF StopCamera, ClockInv, camera, reader
<1>4. ASSUME EndSession PROVE ClockInv'
  BY <1>4, <1>0 DEF EndSession, ClockInv, camera, reader
<1>5. ASSUME EncoderTakes PROVE ClockInv'
  BY <1>5, <1>0 DEF EncoderTakes, ClockInv, camera, reader
<1>6. ASSUME EncoderPublishes PROVE ClockInv'
  BY <1>6, <1>0 DEF EncoderPublishes, ClockInv, camera, reader
<1>7. ASSUME EncoderFails PROVE ClockInv'
  BY <1>7, <1>0 DEF EncoderFails, Break, ClockInv, camera, reader
<1>8. ASSUME EncoderExits PROVE ClockInv'
  BY <1>8, <1>0 DEF EncoderExits, ClockInv, camera, reader
<1>9. ASSUME NEW s \in PreviewTasks, AcceptReader(s) PROVE ClockInv'
  BY <1>9, <1>0 DEF AcceptReader, ClockInv, camera, reader
<1>10. ASSUME NEW s \in PreviewTasks, ServeReader(s) PROVE ClockInv'
  BY <1>10, <1>0 DEF ServeReader, Hangup, ClockInv, camera, reader
<1>11. ASSUME NEW s \in PreviewTasks, WriteTimesOut(s) PROVE ClockInv'
  BY <1>11, <1>0 DEF WriteTimesOut, Break, Hangup, ClockInv, camera, reader
<1>12. ASSUME Connecting PROVE ClockInv'
  <2> QED
    BY <1>12, <1>0 DEF Connecting, Reconnecting, ClockInv, Views
<1>13. ASSUME Connect PROVE ClockInv'
  <2> QED
    BY <1>13, <1>0 DEF Connect, Reconnecting, ClockInv, Views
<1>14. ASSUME ReadFrame PROVE ClockInv'
  <2>1. UNCHANGED now
    BY <1>14 DEF ReadFrame
  <2>2. CASE Reconnecting /\ UNCHANGED first
    BY <1>0, <2>1, <2>2 DEF Reconnecting, ClockInv, Views
  <2>3. CASE ~(Reconnecting /\ UNCHANGED first)
    <3>1. /\ view' = Record(link.inbox[1]) /\ link.inbox[1] \in Pictures
          /\ first' = IF view.frame = link.inbox[1] THEN first ELSE now
      BY <1>14, <2>3, ReadFrameEffect
    <3> QED
      BY <1>0, <2>1, <3>1, RecordEffect DEF ClockInv
  <2> QED
    BY <1>14, <2>2, <2>3, ReadFrameEffect
<1>15. ASSUME LoseStream PROVE ClockInv'
  <2> QED
    BY <1>15, <1>0 DEF LoseStream, Reconnecting, ClockInv, Views
<1>16. ASSUME Stopped PROVE ClockInv'
  BY <1>16, <1>0 DEF Stopped, ClockInv, camera, reader
<1>17. ASSUME AcquireLease PROVE ClockInv'
  BY <1>17, <1>0 DEF AcquireLease, ClockInv, camera, reader
<1>18. ASSUME ReleaseLease PROVE ClockInv'
  BY <1>18, <1>0 DEF ReleaseLease, ClockInv, camera, reader
<1>19. ASSUME PollStatus PROVE ClockInv'
  BY <1>19, <1>0 DEF PollStatus, ClockInv, camera, reader
<1>20. ASSUME Tick PROVE ClockInv'
  BY <1>20, <1>0 DEF Tick, ClockInv, camera, reader
<1>21. ASSUME ClockCorrected PROVE ClockInv'
  BY <1>21, <1>0 DEF ClockCorrected, Break, ClockInv, camera, reader
<1>22. CASE UNCHANGED previewVars
  BY <1>22, <1>0 DEF ClockInv, previewVars, camera, reader
<1> QED
  BY <1>1, <1>2, <1>3, <1>4, <1>5, <1>6, <1>7, <1>8, <1>9, <1>10, <1>11, <1>12, <1>13,
     <1>14, <1>15, <1>16, <1>17, <1>18, <1>19, <1>20, <1>21, <1>22
     DEF PreviewNext, Encoder, Server, Client

\* No step runs the reader without a lease or stops it under one.
LEMMA NextLease ==
    ASSUME PreviewTypeOK, LeaseInv, [PreviewNext]_previewVars
    PROVE  LeaseInv'
<1>0. /\ link \in Links /\ lease \in [held : 0 .. MaxLeases, taken : 0 .. MaxLeases]
      /\ MaxLeases \in Nat
  BY PreviewBounds DEF PreviewTypeOK, ReaderType
<1>1. ASSUME BeginSession PROVE LeaseInv'
  BY <1>1, <1>0 DEF BeginSession, LeaseInv, RunningWhileLeased, camera, reader, Changed
<1>2. ASSUME TryPublish PROVE LeaseInv'
  BY <1>2, <1>0 DEF TryPublish, LeaseInv, RunningWhileLeased, camera, reader
<1>3. ASSUME StopCamera PROVE LeaseInv'
  BY <1>3, <1>0 DEF StopCamera, LeaseInv, RunningWhileLeased, camera, reader
<1>4. ASSUME EndSession PROVE LeaseInv'
  BY <1>4, <1>0 DEF EndSession, LeaseInv, RunningWhileLeased, camera, reader
<1>5. ASSUME EncoderTakes PROVE LeaseInv'
  BY <1>5, <1>0 DEF EncoderTakes, LeaseInv, RunningWhileLeased, camera, reader
<1>6. ASSUME EncoderPublishes PROVE LeaseInv'
  BY <1>6, <1>0 DEF EncoderPublishes, LeaseInv, RunningWhileLeased, camera, reader
<1>7. ASSUME EncoderFails PROVE LeaseInv'
  BY <1>7, <1>0 DEF EncoderFails, Break, LeaseInv, RunningWhileLeased, camera, reader
<1>8. ASSUME EncoderExits PROVE LeaseInv'
  BY <1>8, <1>0 DEF EncoderExits, LeaseInv, RunningWhileLeased, camera, reader
<1>9. ASSUME NEW s \in PreviewTasks, AcceptReader(s) PROVE LeaseInv'
  <2>1. (link'.st = link.st \/ (link.st = "attached" /\ link'.st = "served")) /\ UNCHANGED lease
    BY <1>9, ReaderAccepted DEF AcceptReader
  <2> QED
    BY <2>1 DEF LeaseInv, RunningWhileLeased
<1>10. ASSUME NEW s \in PreviewTasks, ServeReader(s) PROVE LeaseInv'
  <2>1. link'.st = link.st /\ UNCHANGED lease
    BY <1>10, ReaderServed, HangupEffect DEF ServeReader, PreviewTypeOK
  <2> QED
    BY <2>1 DEF LeaseInv, RunningWhileLeased
<1>11. ASSUME NEW s \in PreviewTasks, WriteTimesOut(s) PROVE LeaseInv'
  <2>1. link'.st = link.st /\ UNCHANGED lease
    BY <1>11, HangupEffect DEF WriteTimesOut, PreviewTypeOK
  <2> QED
    BY <2>1 DEF LeaseInv, RunningWhileLeased
<1>12. ASSUME Connecting PROVE LeaseInv'
  <2>1. link'.st = "retry" /\ link.st \in {"start", "retry", "served"} /\ UNCHANGED lease
    BY <1>12, DownIsEmpty DEF Connecting, Reconnecting
  <2> QED
    BY <2>1 DEF LeaseInv, RunningWhileLeased
<1>13. ASSUME Connect PROVE LeaseInv'
  <2>1. link'.st = "attached" /\ link.st \in {"start", "retry", "served"} /\ UNCHANGED lease
    BY <1>13, DownIsEmpty DEF Connect, Reconnecting
  <2> QED
    BY <2>1 DEF LeaseInv, RunningWhileLeased
<1>14. ASSUME ReadFrame PROVE LeaseInv'
  <2>1. link'.st \in {"retry", "served"} /\ link.st = "served" /\ UNCHANGED lease
    BY <1>14, ReadFrameEffect, DownIsEmpty DEF ReadFrame, Reconnecting
  <2> QED
    BY <2>1 DEF LeaseInv, RunningWhileLeased
<1>15. ASSUME LoseStream PROVE LeaseInv'
  <2>1. link'.st = "retry" /\ link.st \in {"start", "retry", "served"} /\ UNCHANGED lease
    BY <1>15, DownIsEmpty DEF LoseStream, Reconnecting
  <2> QED
    BY <2>1 DEF LeaseInv, RunningWhileLeased
<1>16. ASSUME Stopped PROVE LeaseInv'
  BY <1>16, <1>0 DEF Stopped, LeaseInv, RunningWhileLeased, camera, reader, Down
<1>17. ASSUME AcquireLease PROVE LeaseInv'
  <2>1. CASE lease.held = 0
    <3>1. lease'.held = 1 /\ lease'.taken = lease.taken + 1
      BY <1>17, <1>0, <2>1 DEF AcquireLease
    <3>2. link'.st = "start"
      BY <1>17, <2>1, DownIsEmpty DEF AcquireLease
    <3> QED
      BY <1>0, <2>1, <3>1, <3>2 DEF LeaseInv, RunningWhileLeased
  <2>2. CASE lease.held # 0
    <3>1. UNCHANGED link /\ lease'.held = lease.held + 1 /\ lease'.taken = lease.taken + 1
      BY <1>17, <1>0, <2>2 DEF AcquireLease
    <3> QED
      BY <1>0, <2>2, <3>1 DEF LeaseInv, RunningWhileLeased
  <2> QED
    BY <2>1, <2>2
<1>18. ASSUME ReleaseLease PROVE LeaseInv'
  <2>1. lease'.held = lease.held - 1 /\ lease'.taken = lease.taken /\ lease.held > 0
    BY <1>18, <1>0 DEF ReleaseLease
  <2>2. CASE lease.held = 1
    <3>1. link'.st = "cancelled"
      BY <1>18, <2>2, DownIsEmpty DEF ReleaseLease
    <3> QED
      BY <1>0, <2>1, <2>2, <3>1 DEF LeaseInv, RunningWhileLeased
  <2>3. CASE lease.held # 1
    <3>1. UNCHANGED link
      BY <1>18, <2>3 DEF ReleaseLease
    <3> QED
      BY <1>0, <2>1, <2>3, <3>1 DEF LeaseInv, RunningWhileLeased
  <2> QED
    BY <2>2, <2>3
<1>19. ASSUME PollStatus PROVE LeaseInv'
  BY <1>19, <1>0 DEF PollStatus, LeaseInv, RunningWhileLeased, camera, reader
<1>20. ASSUME Tick PROVE LeaseInv'
  BY <1>20, <1>0 DEF Tick, LeaseInv, RunningWhileLeased, camera, reader
<1>21. ASSUME ClockCorrected PROVE LeaseInv'
  BY <1>21, <1>0 DEF ClockCorrected, Break, LeaseInv, RunningWhileLeased, camera, reader
<1>22. CASE UNCHANGED previewVars
  BY <1>22, <1>0 DEF LeaseInv, RunningWhileLeased, previewVars, camera, reader
<1> QED
  BY <1>1, <1>2, <1>3, <1>4, <1>5, <1>6, <1>7, <1>8, <1>9, <1>10, <1>11, <1>12, <1>13,
     <1>14, <1>15, <1>16, <1>17, <1>18, <1>19, <1>20, <1>21, <1>22
     DEF PreviewNext, Encoder, Server, Client


\* The invariant holds initially.
LEMMA PreviewInitInd == ASSUME PreviewInit PROVE PreviewIndInv
<1>1. CameraType
  <2>1. cam \in [st : {"off", "on", "stopping"}, gen : 0 .. MaxSessions]
    BY PreviewBounds DEF PreviewInit
  <2>2. slot \in [pending : Jobs \cup {Nothing}, closed : BOOLEAN]
    BY DEF PreviewInit
  <2>3. /\ enc \in [st : {"wait", "encode", "exited"}, job : Jobs \cup {Nothing}]
        /\ hub \in [cur : 0 .. MaxSessions, frame : Pictures \cup {Nothing}]
    BY PreviewBounds DEF PreviewInit
  <2>4. now = 0 /\ skew = 1 /\ breaks = 0 /\ seq = 0
    BY DEF PreviewInit
  <2> QED
    BY <2>1, <2>2, <2>3, <2>4, PreviewBounds DEF CameraType
<1>2. ServerType
  <2>1. listener \in BOOLEAN
    BY DEF PreviewInit
  <2>2. Unconnected \in Conns
    BY DEF Unconnected, Conns
  <2> QED
    BY <2>1, <2>2 DEF PreviewInit, ServerType
<1>3. ReaderType
  <2>1. link \in Links /\ link.inbox = <<>>
    BY DownIsEmpty DEF PreviewInit
  <2>2. view \in Views /\ first \in Nat /\ obs = Nothing
    BY DEF PreviewInit, Views
  <2>3. lease \in [held : 0 .. MaxLeases, taken : 0 .. MaxLeases]
    BY PreviewBounds DEF PreviewInit
  <2> QED
    BY <2>1, <2>2, <2>3 DEF ReaderType
<1>4. SessionInv
  BY DEF PreviewInit, SessionInv, HubIsCurrent
<1>5. LinkInv /\ StreamInv
  <2>1. link.st = "down" /\ link.inbox = <<>> /\ link.last = Nothing /\ link.eof = FALSE
    BY DEF PreviewInit, Down
  <2>2. \A s \in PreviewTasks : conn[s].live = FALSE
    BY DEF PreviewInit, Unconnected
  <2> QED
    BY <2>1, <2>2 DEF LinkInv, OneTaskPerReader, StreamInv, StreamAdvances, Older
<1>6. ClockInv
  BY DEF PreviewInit, ClockInv
<1>7. LeaseInv
  BY DEF PreviewInit, LeaseInv, RunningWhileLeased, Down
<1> QED
  BY <1>1, <1>2, <1>3, <1>4, <1>5, <1>6, <1>7 DEF PreviewIndInv, PreviewTypeOK

\* Every step keeps the invariant.
LEMMA PreviewNextInd == ASSUME PreviewIndInv, [PreviewNext]_previewVars PROVE PreviewIndInv'
<1>1. PreviewTypeOK /\ SessionInv /\ LinkInv /\ StreamInv /\ ClockInv /\ LeaseInv
  BY DEF PreviewIndInv
<1>2. PreviewTypeOK'
  BY <1>1, NextCameraType, NextServerType, NextReaderType DEF PreviewTypeOK
<1>3. SessionInv' /\ LinkInv' /\ StreamInv' /\ ClockInv' /\ LeaseInv'
  BY <1>1, NextSession, NextLink, NextStream, NextClock, NextLease
<1> QED
  BY <1>2, <1>3 DEF PreviewIndInv

\* The inductive invariant holds in every behaviour.
THEOREM PreviewInvariance == PreviewSpec => []PreviewIndInv
<1>1. PreviewInit => PreviewIndInv
  BY PreviewInitInd
<1>2. PreviewIndInv /\ [PreviewNext]_previewVars => PreviewIndInv'
  BY PreviewNextInd
<1> QED
  BY <1>1, <1>2, PTL DEF PreviewSpec

\* The hub holds no picture of an ended session, the reader runs exactly while leased,
\* has one task, and is never sent a frame it must reject: for any number of tasks,
\* sessions, pictures, reconnections and leases.
THEOREM PreviewIsSound == PreviewSpec => []PreviewInv
<1>1. PreviewIndInv => PreviewInv
  BY DEF PreviewIndInv, PreviewInv, SessionInv, LinkInv, StreamInv, LeaseInv
<1> QED
  BY <1>1, PreviewInvariance, PTL

\* Whatever is repeated and however the wall clock is corrected, a picture shown as
\* live first arrived less than the deadline ago.
THEOREM LivePicturesAreRecent == PreviewSpec => []LiveIsRecent
<1>1. PreviewIndInv => LiveIsRecent
  <2> SUFFICES ASSUME PreviewIndInv, IsLive PROVE now - first < Deadline
    BY DEF LiveIsRecent
  <2>1. now \in Nat /\ first \in Nat /\ view.initial \in Nat /\ Deadline \in Nat
    BY PreviewBounds DEF PreviewIndInv, PreviewTypeOK, CameraType, ReaderType, Views
  <2>2. view.received = first /\ first <= now
    BY DEF PreviewIndInv, ClockInv
  <2>3. view.initial + (now - view.received) < Deadline
    BY DEF IsLive, Age
  <2> QED
    BY <2>1, <2>2, <2>3
<1> QED
  BY <1>1, PreviewInvariance, PTL

=============================================================================
