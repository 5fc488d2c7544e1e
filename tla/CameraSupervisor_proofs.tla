-------------------- MODULE CameraSupervisor_proofs --------------------
(***************************************************************************)
(* Proofs about the capture supervisor: its types, that one camera thread  *)
(* at most is alive, that a raised restart fence belongs to a restart,     *)
(* that the operator's pause reaches every camera, that captures go only   *)
(* to a camera that reported itself ready, that none is lost on its way,   *)
(* and that nothing is started once the host is stopping.                  *)
(***************************************************************************)
EXTENDS CameraSupervisor, FiniteSetTheorems, TLAPS

\* A thread that starts or has ended has a well-typed record.
LEMMA BlankType ==
    /\ \A t \in Threads : Blank(t) \in Cams
    /\ \A p \in BOOLEAN : [Blank("new") EXCEPT !.paused = p] \in Cams
    /\ \A r \in BOOLEAN : [Blank("finished") EXCEPT !.reached = r] \in Cams
BY DEF Blank, Cams, Threads

\* What the supervisor and the camera do to a thread's record keeps its type.
LEMMA CamType ==
    ASSUME NEW r \in Cams
    PROVE  /\ [r EXCEPT !.shutdown = TRUE] \in Cams
           /\ \A t \in Threads : [r EXCEPT !.thread = t] \in Cams
           /\ \A c \in Commands : Controlled(c, r) \in Cams
           /\ r.paused \in BOOLEAN /\ r.reached \in BOOLEAN /\ r.thread \in Threads
<1>1. /\ r.thread \in Threads /\ r.paused \in BOOLEAN /\ r.shutdown \in BOOLEAN
      /\ r.reload \in BOOLEAN /\ r.reached \in BOOLEAN
  BY DEF Cams
<1>2. [r EXCEPT !.shutdown = TRUE] \in Cams
  BY DEF Cams
<1>3. ASSUME NEW t \in Threads PROVE [r EXCEPT !.thread = t] \in Cams
  BY DEF Cams
<1>4. ASSUME NEW c \in Commands PROVE Controlled(c, r) \in Cams
  <2>1. /\ (IF c \in SetPaused THEN c = "pause" ELSE r.paused) \in BOOLEAN
        /\ (r.shutdown \/ Restarts(c)) \in BOOLEAN
        /\ (r.reload \/ c = "reload") \in BOOLEAN
    BY <1>1 DEF Restarts
  <2> QED
    BY <1>1, <2>1 DEF Controlled, Cams
<1> QED
  BY <1>1, <1>2, <1>3, <1>4

\* What the supervisor does to its intent and to its session keeps their types.
LEMMA IntentType ==
    ASSUME TypeOK
    PROVE  /\ \A b \in BOOLEAN : [intent EXCEPT !.faulted = b] \in Intents
           /\ [intent EXCEPT !.pending = @ - Batch] \in Intents
           /\ \A c \in Commands : \A ready \in BOOLEAN : Accept(c, ready) \in Intents
           /\ intent.paused \in BOOLEAN /\ Batch \in Nat
<1>1. /\ intent.faulted \in BOOLEAN /\ intent.paused \in BOOLEAN /\ intent.pending \in Nat
      /\ intent = [faulted |-> intent.faulted, paused |-> intent.paused,
                   pending |-> intent.pending]
  BY DEF TypeOK, Intents
<1>2. ASSUME NEW b \in BOOLEAN PROVE [intent EXCEPT !.faulted = b] \in Intents
  BY DEF TypeOK, Intents
<1>3. Batch \in Nat /\ intent.pending - Batch \in Nat
  BY <1>1, SupervisorAssumption DEF Batch
<1>4. [intent EXCEPT !.pending = @ - Batch] \in Intents
  BY <1>3 DEF TypeOK, Intents
<1>5. ASSUME NEW c \in Commands, NEW ready \in BOOLEAN PROVE Accept(c, ready) \in Intents
  <2>1. /\ (IF c \in {"restart", "reload"} THEN FALSE ELSE intent.faulted) \in BOOLEAN
        /\ (IF c \in SetPaused THEN c = "pause" ELSE intent.paused) \in BOOLEAN
    BY <1>1, Zenon
  <2>2. (IF c = "capture" /\ ~ready THEN intent.pending + 1 ELSE intent.pending) \in Nat
    BY <1>1
  <2> QED
    BY <2>1, <2>2 DEF Accept, Intents
<1> QED
  BY <1>1, <1>2, <1>3, <1>4, <1>5

\* The session records the supervisor makes are well typed.
LEMMA SessionType ==
    ASSUME TypeOK
    PROVE  /\ NoSession \in Sessions
           /\ \A i \in Ids : [NoSession EXCEPT !.id = i] \in Sessions
           /\ \A b \in BOOLEAN : [session EXCEPT !.ready = b] \in Sessions
           /\ [session EXCEPT !.stop = TRUE, !.ready = FALSE] \in Sessions
           /\ session.id \in Ids \cup {0} /\ session.stop \in BOOLEAN
           /\ session.ready \in BOOLEAN
           /\ HasSession => session.id \in Ids
BY DEF TypeOK, Sessions, NoSession, HasSession

\* Raising the shutdown flag of the session's control keeps the threads' type.
LEMMA ShutdownType ==
    ASSUME TypeOK,
           cam' = IF HasSession THEN [cam EXCEPT ![session.id].shutdown = TRUE] ELSE cam
    PROVE  cam' \in [Ids -> Cams]
<1>1. CASE ~HasSession
  BY <1>1 DEF TypeOK
<1>2. CASE HasSession
  <2>1. session.id \in Ids /\ cam \in [Ids -> Cams] /\ cam[session.id] \in Cams
    BY <1>2, SessionType DEF TypeOK
  <2> QED
    BY <1>2, <2>1, CamType
<1> QED
  BY <1>1, <1>2

\* The initial state is well typed.
LEMMA InitType == Init => TypeOK
<1> SUFFICES ASSUME Init PROVE TypeOK
  OBVIOUS
<1>1. intent \in Intents /\ session \in Sessions
  BY DEF Init, Intents, Sessions, NoSession
<1>2. cam \in [Ids -> Cams]
  BY BlankType DEF Init, Threads
<1>3. Flags
  BY DEF Init, Flags
<1> QED
  BY <1>1, <1>2, <1>3, SupervisorAssumption DEF Init, TypeOK, Commands, States


\* Every step keeps the Boolean variables Boolean.
LEMMA NextFlags == TypeOK /\ [Next]_vars => Flags'
<1> SUFFICES ASSUME TypeOK, [Next]_vars PROVE Flags'
  OBVIOUS
<1>1. ASSUME NEW c \in Commands, BeginSend(c) PROVE Flags'
  BY <1>1, Zenon
     DEF BeginSend, SetPaused, TypeOK, Flags, signalVars, channelVars,
         superVars, hostVars
<1>2. CASE EndSend
  BY <1>2, Zenon
     DEF EndSend, TypeOK, Flags, signalVars, channelVars, superVars, hostVars
<1>3. CASE DropClients
  BY <1>3, Zenon
     DEF DropClients, TypeOK, Flags, signalVars, channelVars, superVars, hostVars
<1>4. CASE TopStops
  BY <1>4, Zenon
     DEF TopStops, BeginShutdown, TypeOK, Flags, signalVars, channelVars,
         superVars, hostVars
<1>5. ASSUME NEW state \in Snapshots, Observe(state) PROVE Flags'
  BY <1>5, Zenon
     DEF Observe, Batch, TypeOK, Flags, signalVars, channelVars, superVars,
         hostVars
<1>6. CASE ObserveStopping
  BY <1>6, Zenon
     DEF ObserveStopping, TypeOK, Flags, signalVars, channelVars, superVars,
         hostVars
<1>7. CASE CheckLive
  BY <1>7, Zenon
     DEF CheckLive, TypeOK, Flags, signalVars, channelVars, superVars, hostVars
<1>8. CASE JoinRestarting
  BY <1>8, Zenon
     DEF JoinRestarting, TypeOK, Flags, signalVars, channelVars, superVars,
         hostVars
<1>9. CASE JoinUnexpected
  BY <1>9, Zenon
     DEF JoinUnexpected, TypeOK, Flags, signalVars, channelVars, superVars,
         hostVars
<1>10. ASSUME NEW state \in Snapshots, Dequeue(state) PROVE Flags'
  BY <1>10, Zenon
     DEF Dequeue, BeginShutdown, Handle, Accept, Controlled, Restarts,
         SetPaused, TypeOK, Flags, signalVars, channelVars, superVars, hostVars
<1>11. CASE RecvEmpty
  BY <1>11, Zenon
     DEF RecvEmpty, TypeOK, Flags, signalVars, channelVars, superVars, hostVars
<1>12. CASE RecvDisconnected
  BY <1>12, Zenon
     DEF RecvDisconnected, BeginShutdown, TypeOK, Flags, signalVars,
         channelVars, superVars, hostVars
<1>13. CASE StartAborted
  BY <1>13, Zenon
     DEF StartAborted, TypeOK, Flags, signalVars, channelVars, superVars,
         hostVars
<1>14. ASSUME NEW id \in Ids, Start(id) PROVE Flags'
  BY <1>14, Zenon
     DEF Start, FirstControl, TypeOK, Flags, signalVars, channelVars, superVars,
         hostVars
<1>15. CASE Joined
  BY <1>15, Zenon
     DEF Joined, TypeOK, Flags, signalVars, channelVars, superVars, hostVars
<1>16. CASE Stop
  BY <1>16, Zenon
     DEF Stop, TypeOK, Flags, signalVars, channelVars, superVars, hostVars
<1>17. CASE StartFails
  BY <1>17, Zenon
     DEF StartFails, TypeOK, Flags, signalVars, channelVars, superVars, hostVars
<1>18. CASE Panic
  BY <1>18, Zenon
     DEF Panic, TypeOK, Flags, signalVars, channelVars, superVars, hostVars
<1>19. CASE Elapse
  BY <1>19, Zenon
     DEF Elapse, TypeOK, Flags, signalVars, channelVars, superVars, hostVars
<1>20. ASSUME NEW i \in Ids, CameraStep(i) PROVE Flags'
  BY <1>20, Zenon
     DEF CameraStep, BeginAttempt, Frame, Leave, Fail, CameraPanics, Hang,
         Return, Ended, TypeOK, Flags, signalVars, channelVars, superVars,
         hostVars
<1>21. CASE Arm
  BY <1>21, Zenon
     DEF Arm, TypeOK, Flags, signalVars, channelVars, superVars, hostVars
<1>22. CASE Terminate
  BY <1>22, Zenon
     DEF Terminate, ProcessEnds, TypeOK, Flags, signalVars, channelVars,
         superVars, hostVars
<1>23. CASE ExitHost
  BY <1>23, Zenon
     DEF ExitHost, ProcessEnds, TypeOK, Flags, signalVars, channelVars,
         superVars, hostVars
<1>24. CASE UNCHANGED vars
  BY <1>24
     DEF vars, TypeOK, Flags
<1> QED
  BY <1>1, <1>2, <1>3, <1>4, <1>5, <1>6, <1>7, <1>8, <1>9, <1>10, <1>11,
     <1>12, <1>13, <1>14, <1>15, <1>16, <1>17, <1>18, <1>19, <1>20, <1>21,
     <1>22, <1>23, <1>24
     DEF Next, SupervisorStep

\* Every step keeps the types.
LEMMA NextType == TypeOK /\ [Next]_vars => TypeOK'
<1> SUFFICES ASSUME TypeOK, [Next]_vars PROVE TypeOK'
  OBVIOUS
<1> USE SupervisorAssumption
<1>0. Flags'
  BY NextFlags
<1>1. ASSUME NEW c \in Commands, BeginSend(c) PROVE TypeOK'
  BY <1>1, <1>0
     DEF BeginSend, TypeOK, Commands, States, signalVars, channelVars,
         superVars, hostVars, bounds, history
<1>2. CASE EndSend
  <2>1. queue' \in Seq(Commands) /\ accepted' \in Nat
    <3>1. sending \in Commands
      BY <1>2 DEF EndSend, TypeOK
    <3>2. CASE receiver
      BY <1>2, <3>1, <3>2 DEF EndSend, TypeOK
    <3>3. CASE ~receiver
      BY <1>2, <3>3 DEF EndSend, TypeOK
    <3> QED
      BY <3>2, <3>3
  <2> QED
    BY <1>2, <1>0, <2>1
       DEF EndSend, TypeOK, signalVars, channelVars, superVars, hostVars, bounds,
           history
<1>3. CASE DropClients
  BY <1>3, <1>0
     DEF DropClients, TypeOK, Commands, States, signalVars, channelVars,
         superVars, hostVars, bounds, history
<1>4. CASE TopStops
  BY <1>4, <1>0, ShutdownType
     DEF TopStops, BeginShutdown, TypeOK, Commands, States, signalVars,
         channelVars, superVars, hostVars, bounds, history
<1>5. ASSUME NEW state \in Snapshots, Observe(state) PROVE TypeOK'
  <2> DEFINE ready == HasSession /\ state \in Ready
  <2>1. /\ session' = IF HasSession THEN [session EXCEPT !.ready = ready] ELSE session
        /\ intent' = IF ready THEN [intent EXCEPT !.pending = @ - Batch] ELSE intent
        /\ delivered' = delivered + (IF ready THEN Batch ELSE 0)
    BY <1>5 DEF Observe
  <2>2. ready \in BOOLEAN
    OBVIOUS
  <2> HIDE DEF ready
  <2>3. session' \in Sessions
    BY <2>1, <2>2, SessionType DEF TypeOK
  <2>4. intent' \in Intents
    BY <2>1, IntentType DEF TypeOK
  <2>5. delivered' \in Nat
    BY <2>1, IntentType DEF TypeOK
  <2> QED
    BY <1>5, <1>0, <2>3, <2>4, <2>5
       DEF Observe, TypeOK, Commands, States, signalVars, channelVars, superVars,
           hostVars, bounds, history
<1>6. CASE ObserveStopping
  BY <1>6, <1>0
     DEF ObserveStopping, TypeOK, Commands, States, signalVars, channelVars,
         superVars, hostVars, bounds, history
<1>7. CASE CheckLive
  BY <1>7, <1>0
     DEF CheckLive, TypeOK, Commands, States, signalVars, channelVars,
         superVars, hostVars, bounds, history
<1>8. CASE JoinRestarting
  BY <1>8, <1>0, SessionType
     DEF JoinRestarting, TypeOK, Commands, States, signalVars, channelVars,
         superVars, hostVars, bounds, history
<1>9. CASE JoinUnexpected
  BY <1>9, <1>0, SessionType, IntentType
     DEF JoinUnexpected, TypeOK, Commands, States, signalVars, channelVars,
         superVars, hostVars, bounds, history
<1>10. ASSUME NEW state \in Snapshots, Dequeue(state) PROVE TypeOK'
  <2>1. Head(queue) \in Commands /\ queue' \in Seq(Commands)
    BY <1>10 DEF Dequeue, TypeOK
  <2>2. CASE Head(queue) = "shutdown"
    BY <1>10, <1>0, <2>1, <2>2, ShutdownType
       DEF Dequeue, BeginShutdown, Handle, TypeOK, States, signalVars,
           channelVars, superVars, hostVars, bounds, history
  <2>3. CASE Head(queue) # "shutdown"
    <3> DEFINE c == Head(queue)
    <3>1. Handle(c, state)
      BY <1>10, <2>3 DEF Dequeue
    <3>2. SessionReady(state) \in BOOLEAN
      BY DEF SessionReady
    <3>3. intent' \in Intents
      BY <2>1, <3>1, <3>2, IntentType DEF Handle
    <3>4. cam' \in [Ids -> Cams]
      <4>1. cam' = IF HasSession THEN [cam EXCEPT ![session.id] = Controlled(c, @)] ELSE cam
        BY <3>1 DEF Handle
      <4>2. HasSession => session.id \in Ids /\ cam[session.id] \in Cams
        BY SessionType DEF TypeOK
      <4> QED
        BY <2>1, <4>1, <4>2, CamType DEF TypeOK
    <3>5. session' \in Sessions
      BY <3>1, SessionType DEF Handle, TypeOK
    <3>6. delivered' \in Nat
      BY <3>1 DEF Handle, TypeOK
    <3>7. monitor' \in States /\ pc' = "top"
      BY <3>1 DEF Handle, TypeOK, States
    <3> QED
      BY <1>10, <1>0, <2>1, <3>3, <3>4, <3>5, <3>6, <3>7
         DEF Dequeue, TypeOK, signalVars, channelVars, superVars, hostVars, bounds,
             history
  <2> QED
    BY <2>2, <2>3
<1>11. CASE RecvEmpty
  BY <1>11, <1>0
     DEF RecvEmpty, TypeOK, Commands, States, signalVars, channelVars,
         superVars, hostVars, bounds, history
<1>12. CASE RecvDisconnected
  BY <1>12, <1>0, ShutdownType
     DEF RecvDisconnected, BeginShutdown, TypeOK, Commands, States, signalVars,
         channelVars, superVars, hostVars, bounds, history
<1>13. CASE StartAborted
  BY <1>13, <1>0
     DEF StartAborted, TypeOK, Commands, States, signalVars, channelVars,
         superVars, hostVars, bounds, history
<1>14. ASSUME NEW id \in Ids, Start(id) PROVE TypeOK'
  <2>1. cam' \in [Ids -> Cams]
    BY <1>14, IntentType, BlankType DEF Start, FirstControl, TypeOK
  <2> QED
    BY <1>14, <1>0, <2>1, SessionType, IntentType
       DEF Start, TypeOK, Commands, States, signalVars, channelVars, superVars,
           hostVars, bounds, history
<1>15. CASE Joined
  BY <1>15, <1>0, SessionType
     DEF Joined, TypeOK, Commands, States, signalVars, channelVars, superVars,
         hostVars, bounds, history
<1>16. CASE Stop
  BY <1>16, <1>0
     DEF Stop, TypeOK, Commands, States, signalVars, channelVars, superVars,
         hostVars, bounds, history
<1>17. CASE StartFails
  <2>1. intent' \in Intents
    BY <1>17, IntentType DEF StartFails
  <2> QED
    BY <1>17, <1>0, <2>1
       DEF StartFails, TypeOK, Commands, States, signalVars, channelVars,
           superVars, hostVars, bounds, history
<1>18. CASE Panic
  BY <1>18, <1>0, ShutdownType
     DEF Panic, TypeOK, Commands, States, signalVars, channelVars, superVars,
         hostVars, bounds, history
<1>19. CASE Elapse
  BY <1>19, <1>0
     DEF Elapse, TypeOK, Commands, States, signalVars, channelVars, superVars,
         hostVars, bounds, history
<1>20. ASSUME NEW i \in Ids, CameraStep(i) PROVE TypeOK'
  <2>1. cam[i] \in Cams /\ cam[i].paused \in BOOLEAN /\ cam[i].reached \in BOOLEAN
    BY CamType DEF TypeOK
  <2>2. cam' \in [Ids -> Cams]
    <3>1. CASE BeginAttempt(i) \/ Leave(i) \/ Fail(i) \/ Hang(i)
      BY <2>1, <3>1, CamType
         DEF BeginAttempt, Leave, Fail, Hang, Threads, TypeOK
    <3>2. CASE CameraPanics(i) \/ Return(i)
      BY <2>1, <3>2, BlankType
         DEF CameraPanics, Return, Ended, TypeOK
    <3>3. CASE Frame(i)
      <4>1. [thread |-> "running", paused |-> cam[i].paused, shutdown |-> cam[i].shutdown,
             reached |-> TRUE, reload |-> cam[i].reload /\ cam[i].thread = "starting"] \in Cams
        BY <2>1 DEF Cams, Threads
      <4> QED
        BY <3>3, <4>1 DEF Frame, TypeOK
    <3> QED
      BY <1>20, <3>1, <3>2, <3>3 DEF CameraStep
  <2> QED
    BY <1>20, <1>0, <2>2
       DEF CameraStep, BeginAttempt, Frame, Leave, Fail, CameraPanics, Hang,
           Return, TypeOK, Commands, States, signalVars, channelVars, superVars,
           hostVars, bounds, history
<1>21. CASE Arm
  BY <1>21, <1>0
     DEF Arm, TypeOK, Commands, States, signalVars, channelVars, superVars,
         hostVars, bounds, history
<1>22. CASE Terminate
  BY <1>22, <1>0, BlankType, SessionType
     DEF Terminate, ProcessEnds, Threads, TypeOK, Commands, States, signalVars,
         channelVars, superVars, hostVars, bounds, history
<1>23. CASE ExitHost
  BY <1>23, <1>0, BlankType, SessionType
     DEF ExitHost, ProcessEnds, Threads, TypeOK, Commands, States, signalVars,
         channelVars, superVars, hostVars, bounds, history
<1>24. CASE UNCHANGED vars
  BY <1>24, <1>0
     DEF vars, TypeOK
<1> QED
  BY <1>1, <1>2, <1>3, <1>4, <1>5, <1>6, <1>7, <1>8, <1>9, <1>10, <1>11,
     <1>12, <1>13, <1>14, <1>15, <1>16, <1>17, <1>18, <1>19, <1>20, <1>21,
     <1>22, <1>23, <1>24
     DEF Next, SupervisorStep

\* Every step keeps an absent session empty, and starts only over an absent one.
LEMMA NextSession == TypeOK /\ SessionInv /\ [Next]_vars => SessionInv'
<1> SUFFICES ASSUME TypeOK, SessionInv, [Next]_vars PROVE SessionInv'
  OBVIOUS
<1>1. ASSUME NEW c \in Commands, BeginSend(c) PROVE SessionInv'
  BY <1>1
     DEF BeginSend, TypeOK, Sessions, SessionInv, HasSession, NoSession,
         signalVars, channelVars, superVars, hostVars, bounds, history
<1>2. CASE EndSend
  BY <1>2
     DEF EndSend, TypeOK, Sessions, SessionInv, HasSession, NoSession,
         signalVars, channelVars, superVars, hostVars, bounds, history
<1>3. CASE DropClients
  BY <1>3
     DEF DropClients, TypeOK, Sessions, SessionInv, HasSession, NoSession,
         signalVars, channelVars, superVars, hostVars, bounds, history
<1>4. CASE TopStops
  BY <1>4
     DEF TopStops, BeginShutdown, TypeOK, Sessions, SessionInv, HasSession,
         NoSession, signalVars, channelVars, superVars, hostVars, bounds, history
<1>5. ASSUME NEW state \in Snapshots, Observe(state) PROVE SessionInv'
  BY <1>5
     DEF Observe, TypeOK, Sessions, SessionInv, HasSession, NoSession,
         signalVars, channelVars, superVars, hostVars, bounds, history
<1>6. CASE ObserveStopping
  BY <1>6
     DEF ObserveStopping, TypeOK, Sessions, SessionInv, HasSession, NoSession,
         signalVars, channelVars, superVars, hostVars, bounds, history
<1>7. CASE CheckLive
  BY <1>7
     DEF CheckLive, TypeOK, Sessions, SessionInv, HasSession, NoSession,
         signalVars, channelVars, superVars, hostVars, bounds, history
<1>8. CASE JoinRestarting
  BY <1>8
     DEF JoinRestarting, TypeOK, Sessions, SessionInv, HasSession, NoSession,
         signalVars, channelVars, superVars, hostVars, bounds, history
<1>9. CASE JoinUnexpected
  BY <1>9
     DEF JoinUnexpected, TypeOK, Sessions, SessionInv, HasSession, NoSession,
         signalVars, channelVars, superVars, hostVars, bounds, history
<1>10. ASSUME NEW state \in Snapshots, Dequeue(state) PROVE SessionInv'
  BY <1>10
     DEF Dequeue, BeginShutdown, Handle, TypeOK, Sessions, SessionInv,
         HasSession, NoSession, signalVars, channelVars, superVars, hostVars,
         bounds, history
<1>11. CASE RecvEmpty
  BY <1>11
     DEF RecvEmpty, TypeOK, Sessions, SessionInv, HasSession, NoSession,
         signalVars, channelVars, superVars, hostVars, bounds, history
<1>12. CASE RecvDisconnected
  BY <1>12
     DEF RecvDisconnected, BeginShutdown, TypeOK, Sessions, SessionInv,
         HasSession, NoSession, signalVars, channelVars, superVars, hostVars,
         bounds, history
<1>13. CASE StartAborted
  BY <1>13
     DEF StartAborted, TypeOK, Sessions, SessionInv, HasSession, NoSession,
         signalVars, channelVars, superVars, hostVars, bounds, history
<1>14. ASSUME NEW id \in Ids, Start(id) PROVE SessionInv'
  BY <1>14
     DEF Start, FirstControl, Blank, TypeOK, Sessions, SessionInv, HasSession,
         NoSession, signalVars, channelVars, superVars, hostVars, bounds, history
<1>15. CASE Joined
  BY <1>15
     DEF Joined, TypeOK, Sessions, SessionInv, HasSession, NoSession,
         signalVars, channelVars, superVars, hostVars, bounds, history
<1>16. CASE Stop
  BY <1>16
     DEF Stop, TypeOK, Sessions, SessionInv, HasSession, NoSession, signalVars,
         channelVars, superVars, hostVars, bounds, history
<1>17. CASE StartFails
  BY <1>17
     DEF StartFails, TypeOK, Sessions, SessionInv, HasSession, NoSession,
         signalVars, channelVars, superVars, hostVars, bounds, history
<1>18. CASE Panic
  BY <1>18
     DEF Panic, TypeOK, Sessions, SessionInv, HasSession, NoSession, signalVars,
         channelVars, superVars, hostVars, bounds, history
<1>19. CASE Elapse
  BY <1>19
     DEF Elapse, TypeOK, Sessions, SessionInv, HasSession, NoSession,
         signalVars, channelVars, superVars, hostVars, bounds, history
<1>20. ASSUME NEW i \in Ids, CameraStep(i) PROVE SessionInv'
  BY <1>20
     DEF CameraStep, BeginAttempt, Frame, Leave, Fail, CameraPanics, Hang,
         Return, Ended, TypeOK, Sessions, SessionInv, HasSession, NoSession,
         signalVars, channelVars, superVars, hostVars, bounds, history
<1>21. CASE Arm
  BY <1>21
     DEF Arm, TypeOK, Sessions, SessionInv, HasSession, NoSession, signalVars,
         channelVars, superVars, hostVars, bounds, history
<1>22. CASE Terminate
  BY <1>22
     DEF Terminate, ProcessEnds, Blank, TypeOK, Sessions, SessionInv,
         HasSession, NoSession, signalVars, channelVars, superVars, hostVars,
         bounds, history
<1>23. CASE ExitHost
  BY <1>23
     DEF ExitHost, ProcessEnds, Blank, TypeOK, Sessions, SessionInv, HasSession,
         NoSession, signalVars, channelVars, superVars, hostVars, bounds, history
<1>24. CASE UNCHANGED vars
  BY <1>24
     DEF vars, TypeOK, Sessions, SessionInv, HasSession, NoSession
<1> QED
  BY <1>1, <1>2, <1>3, <1>4, <1>5, <1>6, <1>7, <1>8, <1>9, <1>10, <1>11,
     <1>12, <1>13, <1>14, <1>15, <1>16, <1>17, <1>18, <1>19, <1>20, <1>21,
     <1>22, <1>23, <1>24
     DEF Next, SupervisorStep

\* No step leaves a camera thread alive beside the session's.
LEMMA NextOwner == TypeOK /\ SessionInv /\ OneOwner /\ [Next]_vars => OneOwner'
<1> SUFFICES ASSUME TypeOK, SessionInv, OneOwner, [Next]_vars PROVE OneOwner'
  OBVIOUS
<1>1. ASSUME NEW c \in Commands, BeginSend(c) PROVE OneOwner'
  BY <1>1
     DEF BeginSend, TypeOK, Sessions, Cams, SessionInv, OneOwner, Alive,
         IsFinished, HasSession, NoSession, signalVars, channelVars, superVars,
         hostVars, bounds, history
<1>2. CASE EndSend
  BY <1>2
     DEF EndSend, TypeOK, Sessions, Cams, SessionInv, OneOwner, Alive,
         IsFinished, HasSession, NoSession, signalVars, channelVars, superVars,
         hostVars, bounds, history
<1>3. CASE DropClients
  BY <1>3
     DEF DropClients, TypeOK, Sessions, Cams, SessionInv, OneOwner, Alive,
         IsFinished, HasSession, NoSession, signalVars, channelVars, superVars,
         hostVars, bounds, history
<1>4. CASE TopStops
  BY <1>4
     DEF TopStops, BeginShutdown, TypeOK, Sessions, Cams, SessionInv, OneOwner,
         Alive, IsFinished, HasSession, NoSession, signalVars, channelVars,
         superVars, hostVars, bounds, history
<1>5. ASSUME NEW state \in Snapshots, Observe(state) PROVE OneOwner'
  BY <1>5
     DEF Observe, TypeOK, Sessions, Cams, SessionInv, OneOwner, Alive,
         IsFinished, HasSession, NoSession, signalVars, channelVars, superVars,
         hostVars, bounds, history
<1>6. CASE ObserveStopping
  BY <1>6
     DEF ObserveStopping, TypeOK, Sessions, Cams, SessionInv, OneOwner, Alive,
         IsFinished, HasSession, NoSession, signalVars, channelVars, superVars,
         hostVars, bounds, history
<1>7. CASE CheckLive
  BY <1>7
     DEF CheckLive, TypeOK, Sessions, Cams, SessionInv, OneOwner, Alive,
         IsFinished, HasSession, NoSession, signalVars, channelVars, superVars,
         hostVars, bounds, history
<1>8. CASE JoinRestarting
  BY <1>8
     DEF JoinRestarting, TypeOK, Sessions, Cams, SessionInv, OneOwner, Alive,
         IsFinished, HasSession, NoSession, signalVars, channelVars, superVars,
         hostVars, bounds, history
<1>9. CASE JoinUnexpected
  BY <1>9
     DEF JoinUnexpected, TypeOK, Sessions, Cams, SessionInv, OneOwner, Alive,
         IsFinished, HasSession, NoSession, signalVars, channelVars, superVars,
         hostVars, bounds, history
<1>10. ASSUME NEW state \in Snapshots, Dequeue(state) PROVE OneOwner'
  BY <1>10
     DEF Dequeue, BeginShutdown, Handle, TypeOK, Sessions, Cams, SessionInv,
         OneOwner, Alive, IsFinished, HasSession, NoSession, signalVars,
         channelVars, superVars, hostVars, bounds, history
<1>11. CASE RecvEmpty
  BY <1>11
     DEF RecvEmpty, TypeOK, Sessions, Cams, SessionInv, OneOwner, Alive,
         IsFinished, HasSession, NoSession, signalVars, channelVars, superVars,
         hostVars, bounds, history
<1>12. CASE RecvDisconnected
  BY <1>12
     DEF RecvDisconnected, BeginShutdown, TypeOK, Sessions, Cams, SessionInv,
         OneOwner, Alive, IsFinished, HasSession, NoSession, signalVars,
         channelVars, superVars, hostVars, bounds, history
<1>13. CASE StartAborted
  BY <1>13
     DEF StartAborted, TypeOK, Sessions, Cams, SessionInv, OneOwner, Alive,
         IsFinished, HasSession, NoSession, signalVars, channelVars, superVars,
         hostVars, bounds, history
<1>14. ASSUME NEW id \in Ids, Start(id) PROVE OneOwner'
  <2>1. session.id = 0
    BY <1>14 DEF Start, SessionInv, HasSession
  <2>2. \A j \in Ids : ~Alive(j)
    BY <2>1, SupervisorAssumption DEF OneOwner
  <2>3. session'.id = id
    BY <1>14 DEF Start, NoSession
  <2>4. \A j \in Ids : j # id => cam'[j] = cam[j]
    BY <1>14 DEF Start, TypeOK
  <2> QED
    BY <2>2, <2>3, <2>4 DEF OneOwner, Alive
<1>15. CASE Joined
  BY <1>15
     DEF Joined, TypeOK, Sessions, Cams, SessionInv, OneOwner, Alive,
         IsFinished, HasSession, NoSession, signalVars, channelVars, superVars,
         hostVars, bounds, history
<1>16. CASE Stop
  BY <1>16
     DEF Stop, TypeOK, Sessions, Cams, SessionInv, OneOwner, Alive, IsFinished,
         HasSession, NoSession, signalVars, channelVars, superVars, hostVars,
         bounds, history
<1>17. CASE StartFails
  BY <1>17
     DEF StartFails, TypeOK, Sessions, Cams, SessionInv, OneOwner, Alive,
         IsFinished, HasSession, NoSession, signalVars, channelVars, superVars,
         hostVars, bounds, history
<1>18. CASE Panic
  BY <1>18
     DEF Panic, TypeOK, Sessions, Cams, SessionInv, OneOwner, Alive, IsFinished,
         HasSession, NoSession, signalVars, channelVars, superVars, hostVars,
         bounds, history
<1>19. CASE Elapse
  BY <1>19
     DEF Elapse, TypeOK, Sessions, Cams, SessionInv, OneOwner, Alive,
         IsFinished, HasSession, NoSession, signalVars, channelVars, superVars,
         hostVars, bounds, history
<1>20. ASSUME NEW i \in Ids, CameraStep(i) PROVE OneOwner'
  BY <1>20
     DEF CameraStep, BeginAttempt, Frame, Leave, Fail, CameraPanics, Hang,
         Return, Ended, TypeOK, Sessions, Cams, SessionInv, OneOwner, Alive,
         IsFinished, HasSession, NoSession, signalVars, channelVars, superVars,
         hostVars, bounds, history
<1>21. CASE Arm
  BY <1>21
     DEF Arm, TypeOK, Sessions, Cams, SessionInv, OneOwner, Alive, IsFinished,
         HasSession, NoSession, signalVars, channelVars, superVars, hostVars,
         bounds, history
<1>22. CASE Terminate
  BY <1>22
     DEF Terminate, ProcessEnds, Blank, TypeOK, Sessions, Cams, SessionInv,
         OneOwner, Alive, IsFinished, HasSession, NoSession, signalVars,
         channelVars, superVars, hostVars, bounds, history
<1>23. CASE ExitHost
  BY <1>23
     DEF ExitHost, ProcessEnds, Blank, TypeOK, Sessions, Cams, SessionInv,
         OneOwner, Alive, IsFinished, HasSession, NoSession, signalVars,
         channelVars, superVars, hostVars, bounds, history
<1>24. CASE UNCHANGED vars
  BY <1>24
     DEF vars, TypeOK, Sessions, Cams, SessionInv, OneOwner, Alive, IsFinished,
         HasSession, NoSession
<1> QED
  BY <1>1, <1>2, <1>3, <1>4, <1>5, <1>6, <1>7, <1>8, <1>9, <1>10, <1>11,
     <1>12, <1>13, <1>14, <1>15, <1>16, <1>17, <1>18, <1>19, <1>20, <1>21,
     <1>22, <1>23, <1>24
     DEF Next, SupervisorStep

\* What sending and receiving do to the set of queued commands.
LEMMA QueuedCommands ==
    ASSUME TypeOK
    PROVE  /\ \A c \in Commands : ToSet(Append(queue, c)) = ToSet(queue) \cup {c}
           /\ queue # <<>> => ToSet(queue) = {Head(queue)} \cup ToSet(Tail(queue))
<1> queue \in Seq(Commands)
  BY DEF TypeOK
<1>1. ASSUME NEW c \in Commands PROVE ToSet(Append(queue, c)) = ToSet(queue) \cup {c}
  <2> DEFINE long == Append(queue, c)
  <2>1. /\ DOMAIN long = 1 .. Len(queue) + 1 /\ DOMAIN queue = 1 .. Len(queue)
        /\ Len(queue) \in Nat
        /\ \A k \in 1 .. Len(queue) : long[k] = queue[k]
        /\ long[Len(queue) + 1] = c
    OBVIOUS
  <2> HIDE DEF long
  <2> QED
    BY <2>1 DEF ToSet
<1>2. ASSUME queue # <<>> PROVE ToSet(queue) = {Head(queue)} \cup ToSet(Tail(queue))
  <2> DEFINE rest == Tail(queue)
  <2>1. /\ DOMAIN queue = 1 .. Len(queue) /\ DOMAIN rest = 1 .. Len(queue) - 1
        /\ Len(queue) \in Nat \ {0}
        /\ \A k \in 1 .. Len(queue) - 1 : rest[k] = queue[k + 1]
        /\ Head(queue) = queue[1]
    BY <1>2
  <2> HIDE DEF rest
  <2>2. ASSUME NEW x \in ToSet(queue) PROVE x \in {queue[1]} \cup ToSet(rest)
    <3>1. PICK k \in 1 .. Len(queue) : x = queue[k]
      BY <2>1, <2>2 DEF ToSet
    <3>2. CASE k = 1
      BY <3>1, <3>2
    <3>3. CASE k # 1
      <4>1. k - 1 \in 1 .. Len(queue) - 1 /\ rest[k - 1] = queue[(k - 1) + 1]
        BY <2>1, <3>3
      <4>2. rest[k - 1] = x /\ k - 1 \in DOMAIN rest
        BY <2>1, <3>1, <4>1
      <4> QED
        BY <4>2 DEF ToSet
    <3> QED
      BY <3>2, <3>3
  <2>3. ASSUME NEW x \in {queue[1]} \cup ToSet(rest) PROVE x \in ToSet(queue)
    <3>1. CASE x = queue[1]
      BY <2>1, <3>1 DEF ToSet
    <3>2. CASE x \in ToSet(rest)
      <4>1. PICK k \in 1 .. Len(queue) - 1 : x = rest[k]
        BY <2>1, <3>2 DEF ToSet
      <4>2. k + 1 \in 1 .. Len(queue) /\ x = queue[k + 1]
        BY <2>1, <4>1
      <4> QED
        BY <2>1, <4>2 DEF ToSet
    <3> QED
      BY <2>3, <3>1, <3>2
  <2> QED
    BY <2>1, <2>2, <2>3 DEF rest
<1> QED
  BY <1>1, <1>2

\* A raised restart fence keeps its restart.
LEMMA NextRestart == TypeOK /\ SessionInv /\ RestartHasOwner /\ [Next]_vars => RestartHasOwner'
<1> SUFFICES ASSUME TypeOK, SessionInv, RestartHasOwner, [Next]_vars PROVE RestartHasOwner'
  OBVIOUS
<1>1. ASSUME NEW c \in Commands, BeginSend(c) PROVE RestartHasOwner'
  BY <1>1
     DEF BeginSend, TypeOK, Sessions, SessionInv, RestartHasOwner, HasSession,
         NoSession, signalVars, channelVars, superVars, hostVars, bounds, history
<1>2. CASE EndSend
  BY <1>2, QueuedCommands
     DEF EndSend, TypeOK, RestartHasOwner, signalVars, channelVars, superVars,
         hostVars, bounds, history
<1>3. CASE DropClients
  BY <1>3
     DEF DropClients, TypeOK, Sessions, SessionInv, RestartHasOwner, HasSession,
         NoSession, signalVars, channelVars, superVars, hostVars, bounds, history
<1>4. CASE TopStops
  BY <1>4
     DEF TopStops, BeginShutdown, TypeOK, Sessions, SessionInv, RestartHasOwner,
         HasSession, NoSession, signalVars, channelVars, superVars, hostVars,
         bounds, history
<1>5. ASSUME NEW state \in Snapshots, Observe(state) PROVE RestartHasOwner'
  BY <1>5
     DEF Observe, TypeOK, Sessions, SessionInv, RestartHasOwner, HasSession,
         NoSession, signalVars, channelVars, superVars, hostVars, bounds, history
<1>6. CASE ObserveStopping
  BY <1>6
     DEF ObserveStopping, TypeOK, Sessions, SessionInv, RestartHasOwner,
         HasSession, NoSession, signalVars, channelVars, superVars, hostVars,
         bounds, history
<1>7. CASE CheckLive
  BY <1>7
     DEF CheckLive, TypeOK, Sessions, SessionInv, RestartHasOwner, HasSession,
         NoSession, signalVars, channelVars, superVars, hostVars, bounds, history
<1>8. CASE JoinRestarting
  BY <1>8
     DEF JoinRestarting, TypeOK, Sessions, SessionInv, RestartHasOwner,
         HasSession, NoSession, signalVars, channelVars, superVars, hostVars,
         bounds, history
<1>9. CASE JoinUnexpected
  BY <1>9
     DEF JoinUnexpected, TypeOK, Sessions, SessionInv, RestartHasOwner,
         HasSession, NoSession, signalVars, channelVars, superVars, hostVars,
         bounds, history
<1>10. ASSUME NEW state \in Snapshots, Dequeue(state) PROVE RestartHasOwner'
  <2>1. "restart" \in ToSet(queue) => Head(queue) = "restart" \/ "restart" \in ToSet(queue')
    BY <1>10, QueuedCommands DEF Dequeue
  <2>2. CASE Head(queue) = "shutdown"
    BY <1>10, <2>1, <2>2 DEF Dequeue, BeginShutdown, RestartHasOwner
  <2>3. CASE Head(queue) # "shutdown"
    <3>1. Handle(Head(queue), state) /\ UNCHANGED <<sending, receiver>>
      BY <1>10, <2>3 DEF Dequeue
    <3>2. CASE Restarts(Head(queue))
      BY <3>1, <3>2 DEF Handle, RestartHasOwner, HasSession, TypeOK, Sessions
    <3>3. CASE ~Restarts(Head(queue))
      BY <2>1, <3>1, <3>3 DEF Handle, Restarts, RestartHasOwner
    <3> QED
      BY <3>2, <3>3
  <2> QED
    BY <2>2, <2>3
<1>11. CASE RecvEmpty
  BY <1>11
     DEF RecvEmpty, TypeOK, Sessions, SessionInv, RestartHasOwner, HasSession,
         NoSession, signalVars, channelVars, superVars, hostVars, bounds, history
<1>12. CASE RecvDisconnected
  BY <1>12
     DEF RecvDisconnected, BeginShutdown, TypeOK, Sessions, SessionInv,
         RestartHasOwner, HasSession, NoSession, signalVars, channelVars,
         superVars, hostVars, bounds, history
<1>13. CASE StartAborted
  BY <1>13
     DEF StartAborted, TypeOK, Sessions, SessionInv, RestartHasOwner,
         HasSession, NoSession, signalVars, channelVars, superVars, hostVars,
         bounds, history
<1>14. ASSUME NEW id \in Ids, Start(id) PROVE RestartHasOwner'
  BY <1>14
     DEF Start, FirstControl, Blank, TypeOK, Sessions, SessionInv,
         RestartHasOwner, HasSession, NoSession, signalVars, channelVars,
         superVars, hostVars, bounds, history
<1>15. CASE Joined
  BY <1>15
     DEF Joined, TypeOK, Sessions, SessionInv, RestartHasOwner, HasSession,
         NoSession, signalVars, channelVars, superVars, hostVars, bounds, history
<1>16. CASE Stop
  BY <1>16
     DEF Stop, TypeOK, Sessions, SessionInv, RestartHasOwner, HasSession,
         NoSession, signalVars, channelVars, superVars, hostVars, bounds, history
<1>17. CASE StartFails
  BY <1>17
     DEF StartFails, TypeOK, Sessions, SessionInv, RestartHasOwner, HasSession,
         NoSession, signalVars, channelVars, superVars, hostVars, bounds, history
<1>18. CASE Panic
  BY <1>18
     DEF Panic, TypeOK, Sessions, SessionInv, RestartHasOwner, HasSession,
         NoSession, signalVars, channelVars, superVars, hostVars, bounds, history
<1>19. CASE Elapse
  BY <1>19
     DEF Elapse, TypeOK, Sessions, SessionInv, RestartHasOwner, HasSession,
         NoSession, signalVars, channelVars, superVars, hostVars, bounds, history
<1>20. ASSUME NEW i \in Ids, CameraStep(i) PROVE RestartHasOwner'
  BY <1>20
     DEF CameraStep, BeginAttempt, Frame, Leave, Fail, CameraPanics, Hang,
         Return, Ended, TypeOK, Sessions, SessionInv, RestartHasOwner,
         HasSession, NoSession, signalVars, channelVars, superVars, hostVars,
         bounds, history
<1>21. CASE Arm
  BY <1>21
     DEF Arm, TypeOK, Sessions, SessionInv, RestartHasOwner, HasSession,
         NoSession, signalVars, channelVars, superVars, hostVars, bounds, history
<1>22. CASE Terminate
  BY <1>22
     DEF Terminate, ProcessEnds, Blank, TypeOK, Sessions, SessionInv,
         RestartHasOwner, HasSession, NoSession, signalVars, channelVars,
         superVars, hostVars, bounds, history
<1>23. CASE ExitHost
  BY <1>23
     DEF ExitHost, ProcessEnds, Blank, TypeOK, Sessions, SessionInv,
         RestartHasOwner, HasSession, NoSession, signalVars, channelVars,
         superVars, hostVars, bounds, history
<1>24. CASE UNCHANGED vars
  BY <1>24
     DEF vars, TypeOK, Sessions, SessionInv, RestartHasOwner, HasSession,
         NoSession
<1> QED
  BY <1>1, <1>2, <1>3, <1>4, <1>5, <1>6, <1>7, <1>8, <1>9, <1>10, <1>11,
     <1>12, <1>13, <1>14, <1>15, <1>16, <1>17, <1>18, <1>19, <1>20, <1>21,
     <1>22, <1>23, <1>24
     DEF Next, SupervisorStep

\* The status and the readiness of a session stay its own thread's report.
LEMMA NextReady == TypeOK /\ SessionInv /\ OneOwner /\ ReadyInv /\ [Next]_vars => ReadyInv'
<1> SUFFICES ASSUME TypeOK, SessionInv, OneOwner, ReadyInv, [Next]_vars PROVE ReadyInv'
  OBVIOUS
<1>1. ASSUME NEW c \in Commands, BeginSend(c) PROVE ReadyInv'
  BY <1>1
     DEF BeginSend, TypeOK, Sessions, Cams, SessionInv, OneOwner, ReadyInv,
         Alive, HasSession, NoSession, Ready, signalVars, channelVars,
         superVars, hostVars, bounds, history
<1>2. CASE EndSend
  BY <1>2
     DEF EndSend, TypeOK, Sessions, Cams, SessionInv, OneOwner, ReadyInv, Alive,
         HasSession, NoSession, Ready, signalVars, channelVars, superVars,
         hostVars, bounds, history
<1>3. CASE DropClients
  BY <1>3
     DEF DropClients, TypeOK, Sessions, Cams, SessionInv, OneOwner, ReadyInv,
         Alive, HasSession, NoSession, Ready, signalVars, channelVars,
         superVars, hostVars, bounds, history
<1>4. CASE TopStops
  BY <1>4
     DEF TopStops, BeginShutdown, TypeOK, Sessions, Cams, SessionInv, OneOwner,
         ReadyInv, Alive, HasSession, NoSession, Ready, signalVars, channelVars,
         superVars, hostVars, bounds, history
<1>5. ASSUME NEW state \in Snapshots, Observe(state) PROVE ReadyInv'
  <2>1. state \in Ready => HasSession /\ cam[session.id].reached
    BY <1>5 DEF Observe, Snapshots, Ready, ReadyInv, SessionInv
  <2>2. UNCHANGED <<cam, monitor, receiver>> /\ session'.id = session.id
    BY <1>5 DEF Observe, channelVars, TypeOK, Sessions
  <2>3. session'.ready => HasSession /\ cam[session.id].reached
    BY <1>5, <2>1 DEF Observe, TypeOK, Sessions, ReadyInv
  <2> QED
    BY <2>2, <2>3 DEF ReadyInv, HasSession
<1>6. CASE ObserveStopping
  BY <1>6
     DEF ObserveStopping, TypeOK, Sessions, Cams, SessionInv, OneOwner,
         ReadyInv, Alive, HasSession, NoSession, Ready, signalVars, channelVars,
         superVars, hostVars, bounds, history
<1>7. CASE CheckLive
  BY <1>7
     DEF CheckLive, TypeOK, Sessions, Cams, SessionInv, OneOwner, ReadyInv,
         Alive, HasSession, NoSession, Ready, signalVars, channelVars,
         superVars, hostVars, bounds, history
<1>8. CASE JoinRestarting
  BY <1>8
     DEF JoinRestarting, TypeOK, Sessions, Cams, SessionInv, OneOwner, ReadyInv,
         Alive, HasSession, NoSession, Ready, signalVars, channelVars,
         superVars, hostVars, bounds, history
<1>9. CASE JoinUnexpected
  BY <1>9
     DEF JoinUnexpected, TypeOK, Sessions, Cams, SessionInv, OneOwner, ReadyInv,
         Alive, HasSession, NoSession, Ready, signalVars, channelVars,
         superVars, hostVars, bounds, history
<1>10. ASSUME NEW state \in Snapshots, Dequeue(state) PROVE ReadyInv'
  <2>1. HasSession => cam'[session.id].reached = cam[session.id].reached
    BY <1>10 DEF Dequeue, BeginShutdown, Handle, Controlled, HasSession, TypeOK, Sessions, Cams
  <2>2. session'.id = session.id /\ (session'.ready => session.ready)
    BY <1>10 DEF Dequeue, BeginShutdown, Handle, TypeOK, Sessions
  <2>3. UNCHANGED receiver /\ (monitor' \in Ready => monitor \in Ready)
    BY <1>10 DEF Dequeue, BeginShutdown, Handle, Ready
  <2> QED
    BY <2>1, <2>2, <2>3 DEF ReadyInv, HasSession
<1>11. CASE RecvEmpty
  BY <1>11
     DEF RecvEmpty, TypeOK, Sessions, Cams, SessionInv, OneOwner, ReadyInv,
         Alive, HasSession, NoSession, Ready, signalVars, channelVars,
         superVars, hostVars, bounds, history
<1>12. CASE RecvDisconnected
  BY <1>12
     DEF RecvDisconnected, BeginShutdown, TypeOK, Sessions, Cams, SessionInv,
         OneOwner, ReadyInv, Alive, HasSession, NoSession, Ready, signalVars,
         channelVars, superVars, hostVars, bounds, history
<1>13. CASE StartAborted
  BY <1>13
     DEF StartAborted, TypeOK, Sessions, Cams, SessionInv, OneOwner, ReadyInv,
         Alive, HasSession, NoSession, Ready, signalVars, channelVars,
         superVars, hostVars, bounds, history
<1>14. ASSUME NEW id \in Ids, Start(id) PROVE ReadyInv'
  BY <1>14
     DEF Start, FirstControl, Blank, TypeOK, Sessions, Cams, SessionInv,
         OneOwner, ReadyInv, Alive, HasSession, NoSession, Ready, signalVars,
         channelVars, superVars, hostVars, bounds, history
<1>15. CASE Joined
  BY <1>15
     DEF Joined, TypeOK, Sessions, Cams, SessionInv, OneOwner, ReadyInv, Alive,
         HasSession, NoSession, Ready, signalVars, channelVars, superVars,
         hostVars, bounds, history
<1>16. CASE Stop
  BY <1>16
     DEF Stop, TypeOK, Sessions, Cams, SessionInv, OneOwner, ReadyInv, Alive,
         HasSession, NoSession, Ready, signalVars, channelVars, superVars,
         hostVars, bounds, history
<1>17. CASE StartFails
  BY <1>17
     DEF StartFails, TypeOK, Sessions, Cams, SessionInv, OneOwner, ReadyInv,
         Alive, HasSession, NoSession, Ready, signalVars, channelVars,
         superVars, hostVars, bounds, history
<1>18. CASE Panic
  BY <1>18
     DEF Panic, TypeOK, Sessions, Cams, SessionInv, OneOwner, ReadyInv, Alive,
         HasSession, NoSession, Ready, signalVars, channelVars, superVars,
         hostVars, bounds, history
<1>19. CASE Elapse
  BY <1>19
     DEF Elapse, TypeOK, Sessions, Cams, SessionInv, OneOwner, ReadyInv, Alive,
         HasSession, NoSession, Ready, signalVars, channelVars, superVars,
         hostVars, bounds, history
<1>20. ASSUME NEW i \in Ids, CameraStep(i) PROVE ReadyInv'
  <2>1. UNCHANGED <<session, receiver>>
    BY <1>20 DEF CameraStep, superVars, channelVars
  <2>2. \A j \in Ids : cam[j].reached => cam'[j].reached
    BY <1>20 DEF CameraStep, BeginAttempt, Frame, Leave, Fail, CameraPanics, Hang, Return,
              Ended, Blank, TypeOK, Cams
  <2>3. session.id \in Ids \cup {0}
    BY SessionType
  <2>4. CASE Frame(i)
    <3>1. session.id = i /\ i # 0
      BY <2>4, SupervisorAssumption DEF Frame, OneOwner, Alive
    <3>2. cam'[i].reached
      BY <2>4 DEF Frame, TypeOK
    <3> QED
      BY <2>1, <3>1, <3>2 DEF ReadyInv, HasSession
  <2>5. CASE ~Frame(i)
    <3>1. monitor' \in Ready => monitor \in Ready
      BY <1>20, <2>5 DEF CameraStep, BeginAttempt, Leave, Fail, CameraPanics, Hang, Return, Ready
    <3> QED
      BY <2>1, <2>2, <2>3, <3>1 DEF ReadyInv, HasSession
  <2> QED
    BY <2>4, <2>5
<1>21. CASE Arm
  BY <1>21
     DEF Arm, TypeOK, Sessions, Cams, SessionInv, OneOwner, ReadyInv, Alive,
         HasSession, NoSession, Ready, signalVars, channelVars, superVars,
         hostVars, bounds, history
<1>22. CASE Terminate
  BY <1>22
     DEF Terminate, ProcessEnds, Blank, TypeOK, Sessions, Cams, SessionInv,
         OneOwner, ReadyInv, Alive, HasSession, NoSession, Ready, signalVars,
         channelVars, superVars, hostVars, bounds, history
<1>23. CASE ExitHost
  BY <1>23
     DEF ExitHost, ProcessEnds, Blank, TypeOK, Sessions, Cams, SessionInv,
         OneOwner, ReadyInv, Alive, HasSession, NoSession, Ready, signalVars,
         channelVars, superVars, hostVars, bounds, history
<1>24. CASE UNCHANGED vars
  BY <1>24
     DEF vars, TypeOK, Sessions, Cams, SessionInv, OneOwner, ReadyInv, Alive,
         HasSession, NoSession, Ready
<1> QED
  BY <1>1, <1>2, <1>3, <1>4, <1>5, <1>6, <1>7, <1>8, <1>9, <1>10, <1>11,
     <1>12, <1>13, <1>14, <1>15, <1>16, <1>17, <1>18, <1>19, <1>20, <1>21,
     <1>22, <1>23, <1>24
     DEF Next, SupervisorStep

\* Every step keeps a live camera's pause flag equal to the supervisor's intent.
LEMMA NextControl == TypeOK /\ SessionInv /\ OneOwner /\ ControlInv /\ [Next]_vars => ControlInv'
<1> SUFFICES ASSUME TypeOK, SessionInv, OneOwner, ControlInv, [Next]_vars PROVE ControlInv'
  OBVIOUS
<1>1. ASSUME NEW c \in Commands, BeginSend(c) PROVE ControlInv'
  BY <1>1
     DEF BeginSend, TypeOK, Sessions, Cams, Intents, SessionInv, ControlInv,
         Alive, IsFinished, HasSession, NoSession, signalVars, channelVars,
         superVars, hostVars, bounds, history
<1>2. CASE EndSend
  BY <1>2
     DEF EndSend, TypeOK, Sessions, Cams, Intents, SessionInv, ControlInv,
         Alive, IsFinished, HasSession, NoSession, signalVars, channelVars,
         superVars, hostVars, bounds, history
<1>3. CASE DropClients
  BY <1>3
     DEF DropClients, TypeOK, Sessions, Cams, Intents, SessionInv, ControlInv,
         Alive, IsFinished, HasSession, NoSession, signalVars, channelVars,
         superVars, hostVars, bounds, history
<1>4. CASE TopStops
  BY <1>4
     DEF TopStops, BeginShutdown, TypeOK, Sessions, Cams, Intents, SessionInv,
         ControlInv, Alive, IsFinished, HasSession, NoSession, signalVars,
         channelVars, superVars, hostVars, bounds, history
<1>5. ASSUME NEW state \in Snapshots, Observe(state) PROVE ControlInv'
  <2>1. session'.id = session.id /\ intent'.paused = intent.paused /\ UNCHANGED cam
    BY <1>5 DEF Observe, TypeOK, Sessions, Intents
  <2> QED
    BY <2>1 DEF ControlInv, HasSession, Alive
<1>6. CASE ObserveStopping
  BY <1>6
     DEF ObserveStopping, TypeOK, Sessions, Cams, Intents, SessionInv,
         ControlInv, Alive, IsFinished, HasSession, NoSession, signalVars,
         channelVars, superVars, hostVars, bounds, history
<1>7. CASE CheckLive
  BY <1>7
     DEF CheckLive, TypeOK, Sessions, Cams, Intents, SessionInv, ControlInv,
         Alive, IsFinished, HasSession, NoSession, signalVars, channelVars,
         superVars, hostVars, bounds, history
<1>8. CASE JoinRestarting
  BY <1>8
     DEF JoinRestarting, TypeOK, Sessions, Cams, Intents, SessionInv,
         ControlInv, Alive, IsFinished, HasSession, NoSession, signalVars,
         channelVars, superVars, hostVars, bounds, history
<1>9. CASE JoinUnexpected
  BY <1>9
     DEF JoinUnexpected, TypeOK, Sessions, Cams, Intents, SessionInv,
         ControlInv, Alive, IsFinished, HasSession, NoSession, signalVars,
         channelVars, superVars, hostVars, bounds, history
<1>10. ASSUME NEW state \in Snapshots, Dequeue(state) PROVE ControlInv'
  <2>1. Head(queue) \in Commands /\ (HasSession => session.id \in Ids)
    BY <1>10, SessionType DEF Dequeue, TypeOK
  <2>2. CASE Head(queue) = "shutdown"
    BY <1>10, <2>1, <2>2 DEF Dequeue, BeginShutdown, ControlInv, HasSession, Alive, TypeOK, Cams
  <2>3. CASE Head(queue) # "shutdown"
    <3>1. Handle(Head(queue), state)
      BY <1>10, <2>3 DEF Dequeue
    <3>2. session'.id = session.id
      BY <3>1 DEF Handle, TypeOK, Sessions
    <3>3. ASSUME HasSession PROVE /\ cam'[session.id].thread = cam[session.id].thread
                                  /\ cam'[session.id].paused =
                                       (IF Head(queue) \in SetPaused THEN Head(queue) = "pause"
                                        ELSE cam[session.id].paused)
      <4>1. cam'[session.id] = Controlled(Head(queue), cam[session.id])
        BY <2>1, <3>1, <3>3 DEF Handle, TypeOK
      <4> QED
        BY <4>1 DEF Controlled
    <3>4. intent'.paused = IF Head(queue) \in SetPaused THEN Head(queue) = "pause"
                           ELSE intent.paused
      BY <3>1 DEF Handle, Accept
    <3> QED
      BY <3>2, <3>3, <3>4 DEF ControlInv, HasSession, Alive
  <2> QED
    BY <2>2, <2>3
<1>11. CASE RecvEmpty
  BY <1>11
     DEF RecvEmpty, TypeOK, Sessions, Cams, Intents, SessionInv, ControlInv,
         Alive, IsFinished, HasSession, NoSession, signalVars, channelVars,
         superVars, hostVars, bounds, history
<1>12. CASE RecvDisconnected
  BY <1>12
     DEF RecvDisconnected, BeginShutdown, TypeOK, Sessions, Cams, Intents,
         SessionInv, ControlInv, Alive, IsFinished, HasSession, NoSession,
         signalVars, channelVars, superVars, hostVars, bounds, history
<1>13. CASE StartAborted
  BY <1>13
     DEF StartAborted, TypeOK, Sessions, Cams, Intents, SessionInv, ControlInv,
         Alive, IsFinished, HasSession, NoSession, signalVars, channelVars,
         superVars, hostVars, bounds, history
<1>14. ASSUME NEW id \in Ids, Start(id) PROVE ControlInv'
  <2>1. session'.id = id /\ intent'.paused = intent.paused /\ cam'[id].paused = intent.paused
    BY <1>14 DEF Start, NoSession, FirstControl, Blank, TypeOK, Intents
  <2> QED
    BY <2>1 DEF ControlInv
<1>15. CASE Joined
  BY <1>15
     DEF Joined, TypeOK, Sessions, Cams, Intents, SessionInv, ControlInv, Alive,
         IsFinished, HasSession, NoSession, signalVars, channelVars, superVars,
         hostVars, bounds, history
<1>16. CASE Stop
  BY <1>16
     DEF Stop, TypeOK, Sessions, Cams, Intents, SessionInv, ControlInv, Alive,
         IsFinished, HasSession, NoSession, signalVars, channelVars, superVars,
         hostVars, bounds, history
<1>17. CASE StartFails
  BY <1>17
     DEF StartFails, TypeOK, Sessions, Cams, Intents, SessionInv, ControlInv,
         Alive, IsFinished, HasSession, NoSession, signalVars, channelVars,
         superVars, hostVars, bounds, history
<1>18. CASE Panic
  BY <1>18
     DEF Panic, TypeOK, Sessions, Cams, Intents, SessionInv, ControlInv, Alive,
         IsFinished, HasSession, NoSession, signalVars, channelVars, superVars,
         hostVars, bounds, history
<1>19. CASE Elapse
  BY <1>19
     DEF Elapse, TypeOK, Sessions, Cams, Intents, SessionInv, ControlInv, Alive,
         IsFinished, HasSession, NoSession, signalVars, channelVars, superVars,
         hostVars, bounds, history
<1>20. ASSUME NEW i \in Ids, CameraStep(i) PROVE ControlInv'
  <2>1. UNCHANGED <<session, intent>> /\ cam \in [Ids -> Cams]
    BY <1>20 DEF CameraStep, superVars, TypeOK
  <2>2. /\ \A j \in Ids : j # i => cam'[j] = cam[j]
        /\ Alive(i)' => Alive(i) /\ cam'[i].paused = cam[i].paused
    BY <1>20, <2>1 DEF CameraStep, BeginAttempt, Frame, Leave, Fail, CameraPanics,
       Hang, Return, Ended, Blank, Alive, Cams
  <2>3. HasSession => session.id \in Ids
    BY SessionType
  <2> QED
    BY <2>1, <2>2, <2>3 DEF ControlInv, HasSession, Alive
<1>21. CASE Arm
  BY <1>21
     DEF Arm, TypeOK, Sessions, Cams, Intents, SessionInv, ControlInv, Alive,
         IsFinished, HasSession, NoSession, signalVars, channelVars, superVars,
         hostVars, bounds, history
<1>22. CASE Terminate
  BY <1>22
     DEF Terminate, ProcessEnds, Blank, TypeOK, Sessions, Cams, Intents,
         SessionInv, ControlInv, Alive, IsFinished, HasSession, NoSession,
         signalVars, channelVars, superVars, hostVars, bounds, history
<1>23. CASE ExitHost
  BY <1>23
     DEF ExitHost, ProcessEnds, Blank, TypeOK, Sessions, Cams, Intents,
         SessionInv, ControlInv, Alive, IsFinished, HasSession, NoSession,
         signalVars, channelVars, superVars, hostVars, bounds, history
<1>24. CASE UNCHANGED vars
  BY <1>24
     DEF vars, TypeOK, Sessions, Cams, Intents, SessionInv, ControlInv, Alive,
         IsFinished, HasSession, NoSession
<1> QED
  BY <1>1, <1>2, <1>3, <1>4, <1>5, <1>6, <1>7, <1>8, <1>9, <1>10, <1>11,
     <1>12, <1>13, <1>14, <1>15, <1>16, <1>17, <1>18, <1>19, <1>20, <1>21,
     <1>22, <1>23, <1>24
     DEF Next, SupervisorStep

\* A step that leaves the channel, the fence and the intent's pause alone keeps
\* what the pause invariants say, once the camera's control is known to follow.
LEMMA PauseCarried ==
    ASSUME PauseInv, PauseAgrees, ControlInv',
           UNCHANGED <<sending, queue, receiver, sharingPaused>>,
           intent'.paused = intent.paused
    PROVE  PauseInv' /\ PauseAgrees'
<1>1. PauseInv'
  BY DEF PauseInv
<1>2. PauseAgrees'
  BY DEF PauseAgrees, ControlInv, IsFinished, Alive, HasSession
<1> QED
  BY <1>1, <1>2

\* Every step keeps the operator's pause on its way to the camera.
LEMMA NextPause ==
    TypeOK /\ ControlInv' /\ PauseInv /\ PauseAgrees /\ [Next]_vars => (PauseInv /\ PauseAgrees)'
<1> SUFFICES ASSUME TypeOK, ControlInv', PauseInv, PauseAgrees, [Next]_vars
             PROVE  (PauseInv /\ PauseAgrees)'
  OBVIOUS
<1>1. ASSUME NEW c \in Commands, BeginSend(c) PROVE (PauseInv /\ PauseAgrees)'
  <2>1. UNCHANGED <<queue, receiver, intent, session, cam>>
    BY <1>1 DEF BeginSend, superVars
  <2>2. CASE c \in SetPaused
    <3>1. sending' = c /\ sharingPaused' = (c = "pause")
      BY <1>1, <2>2 DEF BeginSend, SetPaused
    <3> QED
      BY <2>2, <3>1 DEF PauseInv, PauseAgrees
  <2>3. CASE c \notin SetPaused
    <3>1. sending' \notin SetPaused /\ sending \notin SetPaused /\ UNCHANGED sharingPaused
      BY <1>1, <2>3 DEF BeginSend, SetPaused
    <3>2. PauseInv'
      BY <2>1, <3>1 DEF PauseInv
    <3>3. PauseAgrees'
      BY <2>1, <3>1 DEF PauseAgrees, ControlInv, IsFinished, Alive, HasSession
    <3> QED
      BY <3>2, <3>3
  <2> QED
    BY <2>2, <2>3
<1>2. CASE EndSend
  <2>1. CASE ~receiver
    BY <1>2, <2>1 DEF EndSend, PauseInv, PauseAgrees
  <2>2. CASE receiver
    <3>1. /\ UNCHANGED <<receiver, sharingPaused, intent, session, cam>>
          /\ sending' = "none" /\ queue' = Append(queue, sending) /\ sending \in Commands
      BY <1>2, <2>2 DEF EndSend, superVars, signalVars, TypeOK
    <3>2. /\ queue \in Seq(Commands) /\ Len(queue) \in Nat
          /\ DOMAIN queue = 1 .. Len(queue) /\ DOMAIN queue' = 1 .. Len(queue) + 1
          /\ queue'[Len(queue) + 1] = sending
          /\ \A k \in 1 .. Len(queue) : queue'[k] = queue[k]
      BY <3>1 DEF TypeOK
    <3>3. CASE sending \in SetPaused
      <4>1. sharingPaused = (sending = "pause")
        BY <2>2, <3>3 DEF PauseInv
      <4>2. ASSUME NEW k \in DOMAIN queue', queue'[k] \in SetPaused,
                   \A n \in DOMAIN queue' : n > k => queue'[n] \notin SetPaused
            PROVE  queue'[k] = sending
        <5>1. Len(queue) + 1 \in DOMAIN queue' /\ ~(Len(queue) + 1 > k)
          BY <3>2, <3>3, <4>2
        <5>2. k = Len(queue) + 1
          BY <3>2, <5>1
        <5> QED
          BY <3>2, <5>2
      <4>3. sending \in ToSet(queue')
        BY <3>1, QueuedCommands
      <4> QED
        BY <3>1, <3>3, <4>1, <4>2, <4>3 DEF PauseInv, PauseAgrees, SetPaused
    <3>4. CASE sending \notin SetPaused
      <4>1. ASSUME NEW k \in DOMAIN queue', queue'[k] \in SetPaused,
                   \A n \in DOMAIN queue' : n > k => queue'[n] \notin SetPaused
            PROVE  sharingPaused = (queue'[k] = "pause")
        <5>1. k \in DOMAIN queue /\ queue[k] = queue'[k]
          BY <3>2, <3>4, <4>1
        <5>2. \A n \in DOMAIN queue : n > k => queue[n] \notin SetPaused
          BY <3>2, <4>1
        <5> QED
          BY <2>2, <3>4, <4>1, <5>1, <5>2 DEF PauseInv
      <4>2. PauseInv'
        BY <3>1, <4>1 DEF PauseInv, SetPaused
      <4>3. ToSet(queue') \cap SetPaused = ToSet(queue) \cap SetPaused
        BY <3>1, <3>4, QueuedCommands
      <4>4. PauseAgrees'
        BY <2>2, <3>1, <3>4, <4>3 DEF PauseAgrees, IsFinished, Alive, HasSession
      <4> QED
        BY <4>2, <4>4
    <3> QED
      BY <3>3, <3>4
  <2> QED
    BY <2>1, <2>2
<1>3. CASE DropClients
  BY <1>3, PauseCarried
     DEF DropClients, signalVars, channelVars, superVars, TypeOK, Intents
<1>4. CASE TopStops
  BY <1>4, PauseCarried
     DEF TopStops, BeginShutdown, signalVars, channelVars, superVars, TypeOK,
         Intents
<1>5. ASSUME NEW state \in Snapshots, Observe(state) PROVE (PauseInv /\ PauseAgrees)'
  BY <1>5, PauseCarried
     DEF Observe, signalVars, channelVars, superVars, TypeOK, Intents
<1>6. CASE ObserveStopping
  BY <1>6, PauseCarried
     DEF ObserveStopping, signalVars, channelVars, superVars, TypeOK, Intents
<1>7. CASE CheckLive
  BY <1>7, PauseCarried
     DEF CheckLive, signalVars, channelVars, superVars, TypeOK, Intents
<1>8. CASE JoinRestarting
  BY <1>8, PauseCarried
     DEF JoinRestarting, signalVars, channelVars, superVars, TypeOK, Intents
<1>9. CASE JoinUnexpected
  BY <1>9, PauseCarried
     DEF JoinUnexpected, signalVars, channelVars, superVars, TypeOK, Intents
<1>10. ASSUME NEW state \in Snapshots, Dequeue(state) PROVE (PauseInv /\ PauseAgrees)'
  <2> DEFINE c == Head(queue)
  <2>1. /\ UNCHANGED <<sending, receiver, sharingPaused>> /\ queue' = Tail(queue)
        /\ queue # <<>> /\ queue \in Seq(Commands) /\ c \in Commands
    BY <1>10 DEF Dequeue, TypeOK
  <2>2. /\ Len(queue) \in Nat \ {0} /\ c = queue[1]
        /\ DOMAIN queue = 1 .. Len(queue) /\ DOMAIN queue' = 1 .. Len(queue) - 1
        /\ \A k \in 1 .. Len(queue) - 1 : queue'[k] = queue[k + 1]
    BY <2>1
  <2>3. intent'.paused = IF c \in SetPaused THEN c = "pause" ELSE intent.paused
    <3>1. CASE c = "shutdown"
      <4>1. UNCHANGED intent /\ c \notin SetPaused
        BY <1>10, <3>1 DEF Dequeue, BeginShutdown, SetPaused
      <4> QED
        BY <4>1
    <3>2. CASE c # "shutdown"
      <4>1. intent' = Accept(c, SessionReady(state))
        BY <1>10, <3>2 DEF Dequeue, Handle
      <4> QED
        BY <4>1 DEF Accept
    <3> QED
      BY <3>1, <3>2
  <2>4. ToSet(queue) = {c} \cup ToSet(queue')
    BY <2>1, QueuedCommands
  <2> HIDE DEF c
  <2>5. PauseInv'
    <3>1. ASSUME receiver, sending \notin SetPaused,
                 NEW k \in DOMAIN queue', queue'[k] \in SetPaused,
                 \A n \in DOMAIN queue' : n > k => queue'[n] \notin SetPaused
          PROVE  sharingPaused = (queue'[k] = "pause")
      <4>1. k + 1 \in DOMAIN queue /\ queue[k + 1] = queue'[k]
        BY <2>2, <3>1
      <4>2. ASSUME NEW n \in DOMAIN queue, n > k + 1 PROVE queue[n] \notin SetPaused
        <5>1. n - 1 \in DOMAIN queue' /\ n - 1 > k /\ queue'[n - 1] = queue[(n - 1) + 1]
          BY <2>2, <3>1, <4>2
        <5>2. queue[(n - 1) + 1] = queue[n]
          BY <2>2, <4>2
        <5> QED
          BY <3>1, <5>1, <5>2
      <4> QED
        BY <3>1, <4>1, <4>2 DEF PauseInv
    <3> QED
      BY <2>1, <3>1 DEF PauseInv
  <2>6. ASSUME receiver, sending \notin SetPaused, ToSet(queue') \cap SetPaused = {}
        PROVE  intent'.paused = sharingPaused
    <3>1. CASE c \in SetPaused
      <4>1. ASSUME NEW n \in DOMAIN queue, n > 1 PROVE queue[n] \notin SetPaused
        <5>1. n - 1 \in DOMAIN queue' /\ queue'[n - 1] = queue[(n - 1) + 1]
          BY <2>2, <4>1
        <5>2. queue[(n - 1) + 1] = queue[n]
          BY <2>2, <4>1
        <5> QED
          BY <2>6, <5>1, <5>2 DEF ToSet
      <4>2. 1 \in DOMAIN queue
        BY <2>2
      <4>3. sharingPaused = (c = "pause")
        BY <2>2, <2>6, <3>1, <4>1, <4>2 DEF PauseInv
      <4> QED
        BY <2>3, <3>1, <4>3
    <3>2. CASE c \notin SetPaused
      BY <2>3, <2>4, <2>6, <3>2 DEF PauseAgrees
    <3> QED
      BY <3>1, <3>2
  <2> QED
    BY <2>1, <2>5, <2>6 DEF PauseAgrees, ControlInv, IsFinished, Alive, HasSession
<1>11. CASE RecvEmpty
  BY <1>11, PauseCarried
     DEF RecvEmpty, signalVars, channelVars, superVars, TypeOK, Intents
<1>12. CASE RecvDisconnected
  BY <1>12, PauseCarried
     DEF RecvDisconnected, BeginShutdown, signalVars, channelVars, superVars,
         TypeOK, Intents
<1>13. CASE StartAborted
  BY <1>13, PauseCarried
     DEF StartAborted, signalVars, channelVars, superVars, TypeOK, Intents
<1>14. ASSUME NEW id \in Ids, Start(id) PROVE (PauseInv /\ PauseAgrees)'
  BY <1>14, PauseCarried
     DEF Start, signalVars, channelVars, superVars, TypeOK, Intents
<1>15. CASE Joined
  BY <1>15
     DEF Joined, PauseInv, PauseAgrees
<1>16. CASE Stop
  BY <1>16, PauseCarried
     DEF Stop, signalVars, channelVars, superVars, TypeOK, Intents
<1>17. CASE StartFails
  BY <1>17, PauseCarried
     DEF StartFails, signalVars, channelVars, superVars, TypeOK, Intents
<1>18. CASE Panic
  BY <1>18, PauseCarried
     DEF Panic, signalVars, channelVars, superVars, TypeOK, Intents
<1>19. CASE Elapse
  BY <1>19, PauseCarried
     DEF Elapse, signalVars, channelVars, superVars, TypeOK, Intents
<1>20. ASSUME NEW i \in Ids, CameraStep(i) PROVE (PauseInv /\ PauseAgrees)'
  BY <1>20, PauseCarried
     DEF CameraStep, BeginAttempt, Frame, Leave, Fail, CameraPanics, Hang,
         Return, signalVars, channelVars, superVars, TypeOK, Intents
<1>21. CASE Arm
  BY <1>21, PauseCarried
     DEF Arm, signalVars, channelVars, superVars, TypeOK, Intents
<1>22. CASE Terminate
  BY <1>22
     DEF Terminate, ProcessEnds, PauseInv, PauseAgrees
<1>23. CASE ExitHost
  BY <1>23
     DEF ExitHost, ProcessEnds, PauseInv, PauseAgrees
<1>24. CASE UNCHANGED vars
  BY <1>24, PauseCarried DEF vars
<1> QED
  BY <1>1, <1>2, <1>3, <1>4, <1>5, <1>6, <1>7, <1>8, <1>9, <1>10, <1>11,
     <1>12, <1>13, <1>14, <1>15, <1>16, <1>17, <1>18, <1>19, <1>20, <1>21,
     <1>22, <1>23, <1>24
     DEF Next, SupervisorStep

\* The initial state satisfies the invariant.
LEMMA InitInv == Init => SupervisorInv
<1> SUFFICES ASSUME Init PROVE SupervisorInv
  OBVIOUS
<1>1. queue = <<>> /\ ToSet(queue) = {} /\ DOMAIN queue = {}
  BY DEF Init, ToSet
<1>2. PauseInv /\ PauseAgrees /\ ControlInv
  BY <1>1 DEF Init, PauseInv, PauseAgrees, ControlInv, HasSession, NoSession, SetPaused
<1>3. SessionInv /\ OneOwner /\ RestartHasOwner /\ ReadyInv
  BY DEF Init, SessionInv, OneOwner, RestartHasOwner, ReadyInv, HasSession,
         NoSession, Alive, Blank, Ready
<1> QED
  BY <1>2, <1>3 DEF SupervisorInv

\* Every step keeps the invariant.
LEMMA NextInv == TypeOK /\ SupervisorInv /\ [Next]_vars => SupervisorInv'
<1> SUFFICES ASSUME TypeOK, SupervisorInv, [Next]_vars PROVE SupervisorInv'
  OBVIOUS
<1>1. /\ SessionInv /\ OneOwner /\ RestartHasOwner
      /\ ControlInv /\ PauseInv /\ PauseAgrees /\ ReadyInv
  BY DEF SupervisorInv
<1>2. SessionInv' /\ OneOwner'
  BY <1>1, NextSession, NextOwner
<1>3. RestartHasOwner' /\ ReadyInv'
  BY <1>1, NextRestart, NextReady
<1>4. ControlInv'
  BY <1>1, NextControl
<1>5. PauseInv' /\ PauseAgrees'
  BY <1>1, <1>4, NextPause
<1> QED
  BY <1>2, <1>3, <1>4, <1>5 DEF SupervisorInv

\* No variable of the supervisor, its clients, its camera threads or its
\* watchdog leaves its type; the count of waiting captures never underflows.
THEOREM SupervisorTypes == Spec => []TypeOK
BY InitType, NextType, PTL DEF Spec

\* The inductive invariant holds for any number of commands, faults and
\* camera threads, and for any size of the capture batch.
THEOREM SupervisorInvariance == Spec => [](TypeOK /\ SupervisorInv)
<1>1. Init => TypeOK /\ SupervisorInv
  BY InitType, InitInv
<1>2. TypeOK /\ SupervisorInv /\ [Next]_vars => (TypeOK /\ SupervisorInv)'
  BY NextType, NextInv
<1> QED
  BY <1>1, <1>2, PTL DEF Spec

\* Only the present session's camera thread is ever alive.
THEOREM OwnerIsUnique == Spec => []OneOwner
<1>1. TypeOK /\ SupervisorInv => OneOwner
  BY DEF SupervisorInv
<1> QED
  BY <1>1, SupervisorInvariance, PTL

\* A raised restart fence belongs to a restart that is sent, queued or carried out.
THEOREM RestartIsOwned == Spec => []RestartHasOwner
<1>1. TypeOK /\ SupervisorInv => RestartHasOwner
  BY DEF SupervisorInv
<1> QED
  BY <1>1, SupervisorInvariance, PTL

\* The operator's pause reaches the intent and the live camera's control.
THEOREM PauseReachesCamera == Spec => []PauseAgrees
<1>1. TypeOK /\ SupervisorInv => PauseAgrees
  BY DEF SupervisorInv
<1> QED
  BY <1>1, SupervisorInvariance, PTL

\* Once the host is stopping, no step brings a camera thread to life.
THEOREM NoLateStart == Spec => NoStartAfterStop
<1> DEFINE A == stopping => \A i \in Ids : Alive(i)' => Alive(i)
<1>1. ASSUME TypeOK, [Next]_vars PROVE [A]_vars
  <2> SUFFICES ASSUME stopping, NEW j \in Ids, Alive(j)' PROVE Alive(j)
    OBVIOUS
  <2>1. cam \in [Ids -> Cams] /\ (HasSession => session.id \in Ids)
    BY <1>1, SessionType DEF TypeOK
  <2>2. CASE cam' = cam
    BY <2>2 DEF Alive
  <2>3. CASE cam' = [cam EXCEPT ![session.id].shutdown = TRUE] /\ HasSession
    BY <2>1, <2>3 DEF Alive, Cams
  <2>4. ASSUME NEW state \in Snapshots, Dequeue(state) PROVE Alive(j)
    <3>1. BeginShutdown \/ Handle(Head(queue), state)
      BY <2>4 DEF Dequeue
    <3>2. CASE BeginShutdown
      BY <2>2, <2>3, <3>2 DEF BeginShutdown
    <3>3. CASE Handle(Head(queue), state)
      BY <2>1, <2>2, <3>3 DEF Handle, Controlled, Alive
    <3> QED
      BY <3>1, <3>2, <3>3
  <2>5. ASSUME NEW i \in Ids, CameraStep(i) PROVE Alive(j)
    BY <2>1, <2>5 DEF CameraStep, BeginAttempt, Frame, Leave, Fail, CameraPanics,
       Hang, Return, Ended, Blank, Alive, Cams
  <2>6. ASSUME NEW id \in Ids, Start(id) PROVE Alive(j)
    BY <2>6 DEF Start, StartRefused
  <2>7. CASE Terminate \/ ExitHost
    BY <2>7 DEF Terminate, ExitHost, ProcessEnds, Blank, Alive
  <2>8. CASE TopStops \/ RecvDisconnected \/ Panic
    BY <2>2, <2>3, <2>8 DEF TopStops, RecvDisconnected, BeginShutdown, Panic
  <2>9. ASSUME NEW c \in Commands, BeginSend(c) PROVE Alive(j)
    BY <2>2, <2>9 DEF BeginSend
  <2>10. ASSUME NEW state \in Snapshots, Observe(state) PROVE Alive(j)
    BY <2>2, <2>10 DEF Observe
  <2>11. CASE EndSend \/ DropClients \/ Elapse \/ Arm \/ StartFails \/ Joined \/ Stop
    BY <2>2, <2>11 DEF EndSend, DropClients, Elapse, Arm, StartFails, Joined, Stop
  <2>12. CASE ObserveStopping \/ CheckLive \/ JoinRestarting \/ JoinUnexpected
    BY <2>2, <2>12 DEF ObserveStopping, CheckLive, JoinRestarting, JoinUnexpected
  <2>13. CASE RecvEmpty \/ StartAborted
    BY <2>2, <2>13 DEF RecvEmpty, StartAborted
  <2>14. CASE UNCHANGED vars
    BY <2>2, <2>14 DEF vars
  <2> QED
    BY <1>1, <2>4, <2>5, <2>6, <2>7, <2>8, <2>9, <2>10, <2>11, <2>12, <2>13, <2>14
       DEF Next, SupervisorStep
<1> QED
  BY <1>1, SupervisorTypes, PTL DEF Spec, NoStartAfterStop

\* A capture is handed over only to a session whose own thread reported ready.
THEOREM CapturesGoToReady == Spec => CapturesReachCamera
<1> DEFINE A == delivered' # delivered =>
                  HasSession /\ ~session.stop /\ cam[session.id].reached
<1>1. ASSUME TypeOK, SupervisorInv, [Next]_vars PROVE [A]_vars
  <2> SUFFICES ASSUME delivered' # delivered
               PROVE  HasSession /\ ~session.stop /\ cam[session.id].reached
    OBVIOUS
  <2>1. ASSUME NEW state \in Snapshots, Observe(state)
        PROVE  HasSession /\ ~session.stop /\ cam[session.id].reached
    <3>1. HasSession /\ state \in Ready /\ ~session.stop /\ pc = "top"
      BY <1>1, <2>1, IntentType DEF Observe, TypeOK
    <3>2. monitor \in Ready
      BY <2>1, <3>1 DEF Snapshots, Ready
    <3>3. receiver
      BY <1>1, <3>1 DEF SupervisorInv, SessionInv
    <3> QED
      BY <1>1, <3>1, <3>2, <3>3 DEF SupervisorInv, ReadyInv
  <2>2. ASSUME NEW state \in Snapshots, Dequeue(state)
        PROVE  HasSession /\ ~session.stop /\ cam[session.id].reached
    <3>1. Handle(Head(queue), state)
      BY <2>2 DEF Dequeue
    <3>2. SessionReady(state)
      BY <1>1, <3>1 DEF Handle, TypeOK
    <3> QED
      BY <1>1, <3>2 DEF SessionReady, SupervisorInv, ReadyInv
  <2>3. \/ \E state \in Snapshots : Observe(state)
        \/ \E state \in Snapshots : Dequeue(state)
    <3>1. ASSUME NEW c \in Commands, BeginSend(c) PROVE FALSE
      BY <3>1 DEF BeginSend, history
    <3>2. ASSUME NEW i \in Ids, CameraStep(i) PROVE FALSE
      BY <3>2 DEF CameraStep, history
    <3>3. ASSUME NEW id \in Ids, Start(id) PROVE FALSE
      BY <3>3 DEF Start, history
    <3>4. ~(EndSend \/ DropClients \/ TopStops \/ ObserveStopping \/ CheckLive)
      BY DEF EndSend, DropClients, TopStops, ObserveStopping, CheckLive, history
    <3>5. ~(JoinRestarting \/ JoinUnexpected \/ RecvEmpty \/ RecvDisconnected \/ StartAborted)
      BY DEF JoinRestarting, JoinUnexpected, RecvEmpty, RecvDisconnected, StartAborted, history
    <3>6. ~(Joined \/ Stop \/ StartFails \/ Panic \/ Elapse)
      BY DEF Joined, Stop, StartFails, Panic, Elapse, history
    <3>7. ~(Arm \/ Terminate \/ ExitHost) /\ ~UNCHANGED vars
      BY DEF Arm, Terminate, ExitHost, ProcessEnds, history, vars
    <3> QED
      BY <1>1, <3>1, <3>2, <3>3, <3>4, <3>5, <3>6, <3>7 DEF Next, SupervisorStep
  <2> QED
    BY <2>1, <2>2, <2>3
<1> QED
  BY <1>1, SupervisorInvariance, PTL DEF Spec, CapturesReachCamera

\* A channel holds finitely many capture requests.
LEMMA CapturesAreFinite ==
    ASSUME NEW q \in Seq(Commands)
    PROVE  IsFiniteSet(Captures(q)) /\ Cardinality(Captures(q)) \in Nat
<1>1. DOMAIN q = 1 .. Len(q) /\ Len(q) \in Int /\ 1 \in Int
  OBVIOUS
<1>2. IsFiniteSet(1 .. Len(q))
  BY <1>1, FS_Interval
<1>3. Captures(q) \subseteq 1 .. Len(q)
  BY <1>1 DEF Captures
<1> QED
  BY <1>2, <1>3, FS_Subset, FS_CardinalityType

\* One more command is one more capture request if it is one.
LEMMA CaptureSent ==
    ASSUME NEW q \in Seq(Commands), NEW c \in Commands
    PROVE  Cardinality(Captures(Append(q, c))) =
              Cardinality(Captures(q)) + (IF c = "capture" THEN 1 ELSE 0)
<1> DEFINE long == Append(q, c)
           last == Len(q) + 1
<1>1. /\ DOMAIN long = 1 .. last /\ DOMAIN q = 1 .. Len(q) /\ Len(q) \in Nat
      /\ \A k \in 1 .. Len(q) : long[k] = q[k]
      /\ long[last] = c
  OBVIOUS
<1>2. last \notin Captures(q)
  BY <1>1 DEF Captures
<1> HIDE DEF long
<1>3. CASE c = "capture"
  <2>1. Captures(long) = Captures(q) \cup {last}
    BY <1>1, <1>3 DEF Captures
  <2> HIDE DEF last
  <2>2. Cardinality(Captures(q) \cup {last}) = Cardinality(Captures(q)) + 1
    BY <1>2, CapturesAreFinite, FS_AddElement
  <2>3. Cardinality(Captures(long)) = Cardinality(Captures(q)) + 1
    BY <2>1, <2>2
  <2> QED
    BY <1>3, <2>3 DEF long
<1>4. CASE c # "capture"
  <2>1. Captures(long) = Captures(q)
    BY <1>1, <1>4 DEF Captures
  <2> QED
    BY <1>4, <2>1, CapturesAreFinite DEF long
<1> QED
  BY <1>3, <1>4

\* One command less is one capture request less if it was one.
LEMMA CaptureTaken ==
    ASSUME NEW q \in Seq(Commands), q # <<>>
    PROVE  Cardinality(Captures(q)) =
              Cardinality(Captures(Tail(q))) + (IF Head(q) = "capture" THEN 1 ELSE 0)
<1> DEFINE rest == Tail(q)
           later == Captures(q) \ {1}
           next == [k \in Captures(rest) |-> k + 1]
<1>1. /\ DOMAIN q = 1 .. Len(q) /\ DOMAIN rest = 1 .. Len(q) - 1 /\ Len(q) \in Nat \ {0}
      /\ \A k \in 1 .. Len(q) - 1 : rest[k] = q[k + 1]
      /\ Head(q) = q[1] /\ rest \in Seq(Commands)
  OBVIOUS
<1> HIDE DEF rest
<1>2. IsFiniteSet(Captures(q)) /\ IsFiniteSet(later) /\ IsFiniteSet(Captures(rest))
  BY <1>1, CapturesAreFinite, FS_Subset
<1>3. Captures(rest) \subseteq Nat /\ later \subseteq Nat
  BY <1>1 DEF Captures
<1>4. \A k \in Captures(rest) : k + 1 \in later
  BY <1>1 DEF Captures
<1>5. \A k \in later : k - 1 \in Captures(rest) /\ (k - 1) + 1 = k
  <2> SUFFICES ASSUME NEW k \in later PROVE k - 1 \in Captures(rest) /\ (k - 1) + 1 = k
    OBVIOUS
  <2>1. k \in 2 .. Len(q) /\ q[k] = "capture"
    BY <1>1 DEF Captures
  <2>2. k - 1 \in 1 .. Len(q) - 1 /\ (k - 1) + 1 = k
    BY <1>1, <2>1
  <2>3. rest[k - 1] = q[k]
    BY <1>1, <2>2
  <2> QED
    BY <1>1, <2>1, <2>2, <2>3 DEF Captures
<1>6. next \in [Captures(rest) -> later]
  BY <1>4
<1>7. next \in Injection(Captures(rest), later)
  BY <1>3, <1>6 DEF Injection, IsInjective
<1>8. next \in Surjection(Captures(rest), later)
  BY <1>5, <1>6 DEF Surjection
<1>9. Cardinality(later) = Cardinality(Captures(rest))
  <2>1. ExistsBijection(Captures(rest), later)
    BY <1>7, <1>8 DEF ExistsBijection, Bijection
  <2> QED
    BY <1>2, <2>1, FS_Bijection
<1>10. CASE Head(q) = "capture"
  <2>1. 1 \in Captures(q) /\ Captures(q) = later \cup {1} /\ 1 \notin later
    BY <1>1, <1>10 DEF Captures
  <2>2. Cardinality(later \cup {1}) = Cardinality(later) + 1
    BY <1>2, <2>1, FS_AddElement
  <2> HIDE DEF later
  <2> QED
    BY <1>9, <1>10, <2>1, <2>2 DEF rest
<1>11. CASE Head(q) # "capture"
  <2>1. Captures(q) = later
    BY <1>1, <1>11 DEF Captures
  <2> HIDE DEF later
  <2>2. Cardinality(Captures(rest)) \in Nat
    BY <1>1, CapturesAreFinite
  <2> QED
    BY <1>9, <1>11, <2>1, <2>2 DEF rest
<1> QED
  BY <1>10, <1>11

\* Steps by which the supervisor takes and hands over no capture request.
LEMMA NoCaptureMoves ==
    ASSUME TypeOK, CapturesConserved,
           \/ ~receiver'
           \/ /\ UNCHANGED <<receiver, queue, accepted, delivered>>
              /\ intent'.pending = intent.pending
    PROVE  CapturesConserved'
BY DEF CapturesConserved

\* Every step conserves the capture requests.
LEMMA NextCaptures == TypeOK /\ CapturesConserved /\ [Next]_vars => CapturesConserved'
<1> SUFFICES ASSUME TypeOK, CapturesConserved, [Next]_vars PROVE CapturesConserved'
  OBVIOUS
<1>0. /\ queue \in Seq(Commands) /\ accepted \in Nat /\ delivered \in Nat
      /\ intent \in Intents /\ intent.pending \in Nat
      /\ Cardinality(Captures(queue)) \in Nat
  BY CapturesAreFinite DEF TypeOK, Intents
<1>1. CASE EndSend
  <2>1. CASE receiver
    <3>1. /\ sending \in Commands /\ queue' = Append(queue, sending)
          /\ accepted' = accepted + (IF sending = "capture" THEN 1 ELSE 0)
          /\ UNCHANGED <<intent, delivered, receiver>>
      BY <1>1, <2>1 DEF EndSend, TypeOK, superVars
    <3>2. Cardinality(Captures(queue')) =
             Cardinality(Captures(queue)) + (IF sending = "capture" THEN 1 ELSE 0)
      BY <1>0, <3>1, CaptureSent
    <3>3. PICK n \in Nat : n = IF sending = "capture" THEN 1 ELSE 0
      OBVIOUS
    <3>4. accepted = delivered + intent.pending + Cardinality(Captures(queue))
      BY <2>1 DEF CapturesConserved
    <3>5. accepted + n = delivered + intent.pending + (Cardinality(Captures(queue)) + n)
      BY <1>0, <3>4
    <3> QED
      BY <3>1, <3>2, <3>3, <3>5 DEF CapturesConserved
  <2>2. CASE ~receiver
    BY <1>1, <2>2 DEF EndSend, CapturesConserved
  <2> QED
    BY <2>1, <2>2
<1>2. ASSUME NEW state \in Snapshots, Observe(state) PROVE CapturesConserved'
  <2> DEFINE ready == HasSession /\ state \in Ready
  <2>1. /\ intent' = IF ready THEN [intent EXCEPT !.pending = @ - Batch] ELSE intent
        /\ delivered' = delivered + (IF ready THEN Batch ELSE 0)
        /\ UNCHANGED <<queue, receiver, accepted>>
    BY <1>2 DEF Observe, channelVars
  <2> HIDE DEF ready
  <2>2. Batch \in Nat
    BY <1>0, SupervisorAssumption DEF Batch
  <2>3. CASE ready
    <3>1. intent'.pending = intent.pending - Batch /\ delivered' = delivered + Batch
      BY <1>0, <2>1, <2>3 DEF Intents
    <3> QED
      BY <1>0, <2>1, <2>2, <3>1 DEF CapturesConserved
  <2>4. CASE ~ready
    BY <1>0, <2>1, <2>4 DEF CapturesConserved
  <2> QED
    BY <2>3, <2>4
<1>3. ASSUME NEW state \in Snapshots, Dequeue(state) PROVE CapturesConserved'
  <2>1. /\ queue # <<>> /\ queue' = Tail(queue) /\ UNCHANGED <<receiver, accepted>>
        /\ \/ Head(queue) = "shutdown" /\ BeginShutdown /\ UNCHANGED delivered
           \/ Handle(Head(queue), state)
    BY <1>3 DEF Dequeue
  <2>2. /\ Cardinality(Captures(queue)) =
             Cardinality(Captures(queue')) + (IF Head(queue) = "capture" THEN 1 ELSE 0)
        /\ Cardinality(Captures(queue')) \in Nat
    <3>1. queue' \in Seq(Commands)
      BY <1>0, <2>1
    <3> QED
      BY <1>0, <2>1, <3>1, CaptureTaken, CapturesAreFinite
  <2>3. CASE Head(queue) = "shutdown" /\ BeginShutdown /\ UNCHANGED delivered
    BY <1>0, <2>1, <2>2, <2>3 DEF BeginShutdown, CapturesConserved
  <2>4. CASE Handle(Head(queue), state)
    <3>1. PICK ready \in BOOLEAN :
             /\ intent' = Accept(Head(queue), ready)
             /\ delivered' = delivered + (IF Head(queue) = "capture" /\ ready THEN 1 ELSE 0)
      BY <2>4 DEF Handle, SessionReady
    <3>2. intent'.pending = IF Head(queue) = "capture" /\ ~ready
                            THEN intent.pending + 1 ELSE intent.pending
      BY <3>1 DEF Accept
    <3>3. CASE ~receiver
      BY <2>1, <3>3 DEF CapturesConserved
    <3>4. CASE receiver
      <4>1. accepted = delivered + intent.pending + Cardinality(Captures(queue))
        BY <3>4 DEF CapturesConserved
      <4>2. PICK left \in Nat : left = Cardinality(Captures(queue'))
        BY <2>2
      <4>3. accepted = delivered' + intent'.pending + left
        <5>1. CASE Head(queue) # "capture"
          BY <1>0, <2>2, <3>1, <3>2, <4>1, <4>2, <5>1
        <5>2. PICK waits \in Nat : waits = intent.pending
          BY <1>0
        <5>3. CASE Head(queue) = "capture" /\ ready
          <6>1. Cardinality(Captures(queue)) = left + 1 /\ delivered' = delivered + 1
                /\ intent'.pending = waits
            BY <2>2, <3>1, <3>2, <4>2, <5>2, <5>3
          <6> QED
            BY <1>0, <4>1, <5>2, <6>1
        <5>4. CASE Head(queue) = "capture" /\ ~ready
          <6>1. Cardinality(Captures(queue)) = left + 1 /\ delivered' = delivered
                /\ intent'.pending = waits + 1
            BY <1>0, <2>2, <3>1, <3>2, <4>2, <5>2, <5>4
          <6>2. delivered + waits + (left + 1) = delivered + (waits + 1) + left
            BY <1>0
          <6> QED
            BY <4>1, <5>2, <6>1, <6>2
        <5> QED
          BY <3>1, <5>1, <5>3, <5>4
      <4> QED
        BY <2>1, <4>2, <4>3 DEF CapturesConserved
    <3> QED
      BY <3>3, <3>4
  <2> QED
    BY <2>1, <2>3, <2>4
<1>4. CASE Joined \/ Terminate \/ ExitHost
  BY <1>4 DEF Joined, Terminate, ExitHost, ProcessEnds, CapturesConserved
<1>5. ASSUME NEW c \in Commands, BeginSend(c) PROVE CapturesConserved'
  BY <1>5, NoCaptureMoves DEF BeginSend, superVars, history
<1>6. ASSUME NEW i \in Ids, CameraStep(i) PROVE CapturesConserved'
  BY <1>6, NoCaptureMoves DEF CameraStep, channelVars, superVars, history
<1>7. ASSUME NEW id \in Ids, Start(id) PROVE CapturesConserved'
  <2>1. intent'.pending = intent.pending
    BY <1>0, <1>7 DEF Start, Intents
  <2> QED
    BY <1>7, <2>1, NoCaptureMoves DEF Start, channelVars, history
<1>8. CASE JoinUnexpected \/ StartFails
  <2>1. intent'.pending = intent.pending
    BY <1>0, <1>8 DEF JoinUnexpected, StartFails, Intents
  <2> QED
    BY <1>8, <2>1, NoCaptureMoves DEF JoinUnexpected, StartFails, channelVars, history
<1>9. CASE DropClients \/ TopStops \/ ObserveStopping \/ CheckLive \/ JoinRestarting
  BY <1>9, NoCaptureMoves DEF DropClients, TopStops, BeginShutdown, ObserveStopping, CheckLive,
     JoinRestarting, channelVars, superVars, history
<1>10. CASE RecvEmpty \/ RecvDisconnected \/ StartAborted \/ Stop \/ Panic \/ Elapse \/ Arm
  BY <1>10, NoCaptureMoves DEF RecvEmpty, RecvDisconnected, BeginShutdown, StartAborted, Stop,
     Panic, Elapse, Arm, channelVars, superVars, history
<1>11. CASE UNCHANGED vars
  BY <1>11, NoCaptureMoves DEF vars
<1> QED
  BY <1>1, <1>2, <1>3, <1>4, <1>5, <1>6, <1>7, <1>8, <1>9, <1>10, <1>11 DEF Next, SupervisorStep

\* No capture request the supervisor accepted is lost on its way to a camera: it is
\* queued, waiting or handed over, whatever faults, retries and restarts come between
\* (SupervisorIntent.pending_captures).
THEOREM NoCaptureIsLost == Spec => []CapturesConserved
<1>1. Init => CapturesConserved
  <2> SUFFICES ASSUME Init PROVE CapturesConserved
    OBVIOUS
  <2>1. Captures(queue) = {} /\ accepted = 0 /\ delivered = 0 /\ intent.pending = 0
    BY DEF Init, Captures
  <2> QED
    BY <2>1, FS_EmptySet DEF CapturesConserved
<1> QED
  BY <1>1, NextCaptures, SupervisorTypes, PTL DEF Spec
=======================================================================
