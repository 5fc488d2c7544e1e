------------------------ MODULE RecordingSession_proofs ------------------------
(* Machine-checked proofs about RecordingSession, for every value of its       *)
(* constants: any number of callers, any queue, any number of attempts.        *)
EXTENDS RecordingSession, TLAPS

USE RecordingAssumption


\* The bounds are numbers.
LEMMA BoundsNat == MaxAttempts \in Nat /\ MaxGrabs \in Nat /\ MaxCommands \in Nat /\ MaxFaults \in Nat
OBVIOUS

\* The bound on epochs is a number.
LEMMA MaxEpochsNat == MaxEpochs \in Nat
BY DEF MaxEpochs

\* What the use of one frame does to the channel and to the requests: it sends at
\* most one still, into a channel with room and a writer, and answers at most one
\* request, by a still or by a refusal.
LEMMA UseFrameEffect ==
    ASSUME TypeOK, NEW kind \in {"settled", "moving"}, NEW due \in BOOLEAN, UseFrame(kind, due)
    PROVE  /\ pc = "loop" /\ loop' \in [settled : BOOLEAN, seen : Nat, queued : Nat, stills : Nat]
           /\ lost' \in Nat
           /\ \/ UNCHANGED <<sent, queue>>
              \/ /\ sent' = sent \cup {Name} /\ queue' = Append(queue, Name)
                 /\ Len(queue) < QueueCap /\ writer.st # "failed"
           /\ \/ loop'.seen = loop.seen /\ loop'.stills = loop.stills /\ lost' = lost
              \/ /\ Requested /\ loop'.seen = loop.seen + 1
                 /\ loop'.stills + lost' = loop.stills + lost + 1
<1> DEFINE known == frame \/ kind = "settled"
           requested == known /\ Requested
           periodic == known /\ ~ctl.paused /\ due
           gone == writer.st = "failed"
           send == (requested \/ periodic) /\ ~gone /\ Len(queue) < QueueCap
<1>1. /\ pc = "loop"
      /\ sent' = IF send THEN sent \cup {Name} ELSE sent
      /\ queue' = IF send THEN Append(queue, Name) ELSE queue
      /\ loop' = [loop EXCEPT !.seen = IF known THEN Seen ELSE @,
                              !.queued = IF send THEN @ + 1 ELSE @,
                              !.stills = IF send /\ requested THEN @ + 1 ELSE @]
      /\ lost' = IF requested /\ ~send THEN lost + 1 ELSE lost
  BY DEF UseFrame
<1>2. loop \in [settled : BOOLEAN, seen : Nat, queued : Nat, stills : Nat] /\ lost \in Nat
  BY DEF TypeOK, ThreadType
<1>3. Seen \in Nat /\ (Requested => Seen = loop.seen + 1) /\ (~Requested => Seen = loop.seen)
  BY <1>2 DEF Seen
<1> HIDE DEF send, known, requested
<1>4. /\ loop' \in [settled : BOOLEAN, seen : Nat, queued : Nat, stills : Nat] /\ lost' \in Nat
      /\ loop'.seen = IF known THEN Seen ELSE loop.seen
      /\ loop'.stills = IF send /\ requested THEN loop.stills + 1 ELSE loop.stills
  <2> DEFINE seen == IF known THEN Seen ELSE loop.seen
             queued == IF send THEN loop.queued + 1 ELSE loop.queued
             stills == IF send /\ requested THEN loop.stills + 1 ELSE loop.stills
  <2>1. seen \in Nat /\ queued \in Nat /\ stills \in Nat /\ lost' \in Nat
    BY <1>1, <1>2, <1>3
  <2>2. loop' = [loop EXCEPT !.seen = seen, !.queued = queued, !.stills = stills]
    BY <1>1
  <2> HIDE DEF seen, queued, stills
  <2>3. /\ loop' \in [settled : BOOLEAN, seen : Nat, queued : Nat, stills : Nat]
        /\ loop'.seen = seen /\ loop'.stills = stills
    BY <1>2, <2>1, <2>2
  <2> QED
    BY <2>1, <2>3 DEF seen, stills
<1>5. \/ loop'.seen = loop.seen /\ loop'.stills = loop.stills /\ lost' = lost
      \/ /\ Requested /\ loop'.seen = loop.seen + 1
         /\ loop'.stills + lost' = loop.stills + lost + 1
  <2>1. CASE requested
    BY <1>1, <1>2, <1>3, <1>4, <2>1 DEF requested
  <2>2. CASE ~requested
    BY <1>1, <1>2, <1>3, <1>4, <2>2 DEF requested
  <2> QED
    BY <2>1, <2>2
<1>6. send => Len(queue) < QueueCap /\ writer.st # "failed"
  BY DEF send
<1> QED
  BY <1>1, <1>4, <1>5, <1>6

\* A still gets a well-formed name: frames are used inside an epoch only.
LEMMA NameIsTyped ==
    ASSUME TypeOK, PhaseInv, NEW kind \in {"settled", "moving"}, NEW due \in BOOLEAN,
           UseFrame(kind, due)
    PROVE  Name \in Names
<1>1. epoch \in 1 .. MaxEpochs
  BY MaxEpochsNat, UseFrameEffect DEF TypeOK, EpochType, PhaseInv, Between
<1>2. loop.queued \in Nat
  BY DEF TypeOK, ThreadType
<1> QED
  BY <1>1, <1>2 DEF Name, Names

\* Taking the head leaves every other still of the channel in it.
LEMMA TakenFromChannel ==
    ASSUME NEW S, NEW q \in Seq(S), q # <<>>, NEW n, NEW i \in 1 .. Len(q), q[i] = n
    PROVE  n = Head(q) \/ \E j \in 1 .. Len(Tail(q)) : Tail(q)[j] = n
<1>1. CASE i = 1
  BY <1>1
<1>2. CASE i > 1
  <2>1. i - 1 \in 1 .. Len(Tail(q)) /\ Tail(q)[i - 1] = q[i]
    BY <1>2
  <2> QED
    BY <2>1
<1> QED
  BY <1>1, <1>2

\* Every step keeps the types of the capture thread.
LEMMA NextThreadType ==
    ASSUME TypeOK, [Next]_vars
    PROVE  ThreadType'
<1>0. ThreadType /\ ctl.paused \in BOOLEAN
  BY DEF TypeOK, ControlType
<1>1. ASSUME NEW p \in BOOLEAN, Pause(p) PROVE ThreadType'
  BY <1>1, <1>0 DEF Pause, Command, ThreadType, control, admin, still, services
<1>2. ASSUME CaptureNow PROVE ThreadType'
  BY <1>2, <1>0 DEF CaptureNow, Command, ThreadType, control, admin, still, services
<1>3. ASSUME Shutdown PROVE ThreadType'
  BY <1>3, <1>0 DEF Shutdown, ThreadType, control, admin, still, services
<1>4. ASSUME ReloadConfiguration PROVE ThreadType'
  BY <1>4, <1>0 DEF ReloadConfiguration, ThreadType, control, admin, still, services
<1>5. ASSUME NEW k \in {"layout", "uploads", "interval"}, Save(k) PROVE ThreadType'
  BY <1>5, <1>0 DEF Save, Command, ThreadType, control, admin, still, services
<1>6. ASSUME NEW c \in Callers, Acquire(c) PROVE ThreadType'
  BY <1>6, <1>0 DEF Acquire, ThreadType, control, admin, still, services
<1>7. ASSUME NEW c \in Callers, Release(c) PROVE ThreadType'
  BY <1>7, <1>0 DEF Release, ThreadType, control, admin, still, services
<1>8. ASSUME UploaderDies PROVE ThreadType'
  BY <1>8, <1>0 DEF UploaderDies, Fault, ThreadType, control, admin, still, services
<1>9. ASSUME BeginAttempt PROVE ThreadType'
  BY <1>9, <1>0 DEF BeginAttempt, ThreadType, control, admin, still, services
<1>10. ASSUME OpenCamera PROVE ThreadType'
  BY <1>10, <1>0 DEF OpenCamera, Fault, ThreadType, control, admin, still, services
<1>11. ASSUME StartServices PROVE ThreadType'
  BY <1>11, <1>0 DEF StartServices, Fault, ThreadType, control, admin, still, services
<1>12. ASSUME StartWorkers PROVE ThreadType'
  BY <1>12, <1>0
     DEF StartWorkers, Fault, Registered, Paused, ThreadType, control, admin, still,
         services
<1>13. ASSUME StopCapture PROVE ThreadType'
  BY <1>13, <1>0 DEF StopCapture, ThreadType, control, admin, still, services
<1>14. ASSUME CaptureFails PROVE ThreadType'
  BY <1>14, <1>0 DEF CaptureFails, Fault, ThreadType, control, admin, still, services
<1>15. ASSUME NEW done \in BOOLEAN, SettleFrame(done) PROVE ThreadType'
  BY <1>15, <1>0
     DEF SettleFrame, FrameReceived, Paused, ThreadType, control, admin, still, services
<1>16. ASSUME TakeReload PROVE ThreadType'
  BY <1>16, <1>0 DEF TakeReload, ThreadType, control, admin, still, services
<1>17. ASSUME LoadReload PROVE ThreadType'
  BY <1>17, <1>0
     DEF LoadReload, RequiresCameraRestart, RequiresRecordingReload, ThreadType, control,
         admin, still, services
<1>18. ASSUME NEW kind \in {"settled", "moving"}, NEW due \in BOOLEAN, UseFrame(kind, due) PROVE ThreadType'
  <2>1. loop' \in [settled : BOOLEAN, seen : Nat, queued : Nat, stills : Nat] /\ lost' \in Nat
    BY <1>18, UseFrameEffect
  <2>2. /\ grabs' \in 0 .. MaxGrabs /\ mon' \in {mon, "paused", "capturing"} /\ frame' = FALSE
        /\ pc' \in {pc, "join"} /\ outcome' \in {outcome, "error"} /\ UNCHANGED <<attempt, faults>>
    BY <1>18, <1>0 DEF UseFrame, FrameReceived, Paused, ThreadType
  <2> QED
    BY <1>0, <2>1, <2>2 DEF ThreadType
<1>19. ASSUME JoinWriter PROVE ThreadType'
  BY <1>19, <1>0 DEF JoinWriter, ThreadType, control, admin, still, services
<1>20. ASSUME Revoke PROVE ThreadType'
  BY <1>20, <1>0 DEF Revoke, ThreadType, control, admin, still, services
<1>21. ASSUME Drain PROVE ThreadType'
  BY <1>21, <1>0 DEF Drain, ThreadType, control, admin, still, services
<1>22. ASSUME CloseServices PROVE ThreadType'
  BY <1>22, <1>0 DEF CloseServices, ThreadType, control, admin, still, services
<1>23. ASSUME NextEpoch PROVE ThreadType'
  BY <1>23, <1>0
     DEF NextEpoch, RequiresCameraRestart, ThreadType, control, admin, still, services
<1>24. ASSUME StopCamera PROVE ThreadType'
  BY <1>24, <1>0 DEF StopCamera, ThreadType, control, admin, still, services
<1>25. ASSUME EndAttempt PROVE ThreadType'
  BY <1>25, <1>0
     DEF EndAttempt, FreshControl, FreshLoop, ThreadType, control, admin, still, services
<1>26. ASSUME WriterSaves PROVE ThreadType'
  BY <1>26, <1>0 DEF WriterSaves, ThreadType, control, admin, still, services
<1>27. ASSUME WriterRecords PROVE ThreadType'
  BY <1>27, <1>0 DEF WriterRecords, ThreadType, control, admin, still, services
<1>28. ASSUME WriterFails PROVE ThreadType'
  BY <1>28, <1>0 DEF WriterFails, Fault, ThreadType, control, admin, still, services
<1>29. ASSUME WriterEnds PROVE ThreadType'
  BY <1>29, <1>0 DEF WriterEnds, ThreadType, control, admin, still, services
<1>30. CASE UNCHANGED vars
  BY <1>30, <1>0 DEF ThreadType, vars, control, admin, still, services
<1> QED
  BY <1>1, <1>2, <1>3, <1>4, <1>5, <1>6, <1>7, <1>8, <1>9, <1>10, <1>11, <1>12, <1>13,
     <1>14, <1>15, <1>16, <1>17, <1>18, <1>19, <1>20, <1>21, <1>22, <1>23, <1>24, <1>25,
     <1>26, <1>27, <1>28, <1>29, <1>30
     DEF Next, Clients, CaptureThread, WriterThread, CallerThread

\* Every step keeps the types of the control and the settings.
LEMMA NextControlType ==
    ASSUME TypeOK, EpochInv, [Next]_vars
    PROVE  ControlType'
<1>0. ControlType
  BY DEF TypeOK
<1>1. ASSUME NEW p \in BOOLEAN, Pause(p) PROVE ControlType'
  BY <1>1, <1>0 DEF Pause, Command, ControlType, control, admin, still, services
<1>2. ASSUME CaptureNow PROVE ControlType'
  <2>1. ctl.gen + 1 \in 0 .. MaxCommands /\ commands' \in 0 .. MaxCommands
    BY <1>2, <1>0 DEF CaptureNow, Command, ControlType, EpochInv
  <2> QED
    BY <1>2, <1>0, <2>1 DEF CaptureNow, ControlType
<1>3. ASSUME Shutdown PROVE ControlType'
  BY <1>3, <1>0 DEF Shutdown, ControlType, control, admin, still, services
<1>4. ASSUME ReloadConfiguration PROVE ControlType'
  BY <1>4, <1>0 DEF ReloadConfiguration, ControlType, control, admin, still, services
<1>5. ASSUME NEW k \in {"layout", "uploads", "interval"}, Save(k) PROVE ControlType'
  <2>1. file' \in Configs
    BY <1>5, <1>0 DEF Save, ControlType, Configs
  <2> QED
    BY <1>5, <1>0, <2>1 DEF Save, Command, ControlType
<1>6. ASSUME NEW c \in Callers, Acquire(c) PROVE ControlType'
  BY <1>6, <1>0 DEF Acquire, ControlType, control, admin, still, services
<1>7. ASSUME NEW c \in Callers, Release(c) PROVE ControlType'
  BY <1>7, <1>0 DEF Release, ControlType, control, admin, still, services
<1>8. ASSUME UploaderDies PROVE ControlType'
  BY <1>8, <1>0 DEF UploaderDies, Fault, ControlType, control, admin, still, services
<1>9. ASSUME BeginAttempt PROVE ControlType'
  BY <1>9, <1>0 DEF BeginAttempt, ControlType, control, admin, still, services
<1>10. ASSUME OpenCamera PROVE ControlType'
  BY <1>10, <1>0 DEF OpenCamera, Fault, ControlType, control, admin, still, services
<1>11. ASSUME StartServices PROVE ControlType'
  BY <1>11, <1>0 DEF StartServices, Fault, ControlType, control, admin, still, services
<1>12. ASSUME StartWorkers PROVE ControlType'
  BY <1>12, <1>0
     DEF StartWorkers, Fault, Registered, Paused, ControlType, control, admin, still,
         services
<1>13. ASSUME StopCapture PROVE ControlType'
  BY <1>13, <1>0 DEF StopCapture, ControlType, control, admin, still, services
<1>14. ASSUME CaptureFails PROVE ControlType'
  BY <1>14, <1>0 DEF CaptureFails, Fault, ControlType, control, admin, still, services
<1>15. ASSUME NEW done \in BOOLEAN, SettleFrame(done) PROVE ControlType'
  BY <1>15, <1>0
     DEF SettleFrame, FrameReceived, Paused, ControlType, control, admin, still, services
<1>16. ASSUME TakeReload PROVE ControlType'
  BY <1>16, <1>0 DEF TakeReload, ControlType, control, admin, still, services
<1>17. ASSUME LoadReload PROVE ControlType'
  BY <1>17, <1>0
     DEF LoadReload, RequiresCameraRestart, RequiresRecordingReload, ControlType, control,
         admin, still, services
<1>18. ASSUME NEW kind \in {"settled", "moving"}, NEW due \in BOOLEAN, UseFrame(kind, due) PROVE ControlType'
  BY <1>18, <1>0
     DEF UseFrame, FrameReceived, Paused, Requested, Name, Seen, ControlType, control,
         admin, still, services
<1>19. ASSUME JoinWriter PROVE ControlType'
  BY <1>19, <1>0 DEF JoinWriter, ControlType, control, admin, still, services
<1>20. ASSUME Revoke PROVE ControlType'
  BY <1>20, <1>0 DEF Revoke, ControlType, control, admin, still, services
<1>21. ASSUME Drain PROVE ControlType'
  BY <1>21, <1>0 DEF Drain, ControlType, control, admin, still, services
<1>22. ASSUME CloseServices PROVE ControlType'
  BY <1>22, <1>0 DEF CloseServices, ControlType, control, admin, still, services
<1>23. ASSUME NextEpoch PROVE ControlType'
  BY <1>23, <1>0
     DEF NextEpoch, RequiresCameraRestart, ControlType, control, admin, still, services
<1>24. ASSUME StopCamera PROVE ControlType'
  BY <1>24, <1>0 DEF StopCamera, ControlType, control, admin, still, services
<1>25. ASSUME EndAttempt PROVE ControlType'
  BY <1>25, <1>0
     DEF EndAttempt, FreshControl, FreshLoop, ControlType, control, admin, still, services
<1>26. ASSUME WriterSaves PROVE ControlType'
  BY <1>26, <1>0 DEF WriterSaves, ControlType, control, admin, still, services
<1>27. ASSUME WriterRecords PROVE ControlType'
  BY <1>27, <1>0 DEF WriterRecords, ControlType, control, admin, still, services
<1>28. ASSUME WriterFails PROVE ControlType'
  BY <1>28, <1>0 DEF WriterFails, Fault, ControlType, control, admin, still, services
<1>29. ASSUME WriterEnds PROVE ControlType'
  BY <1>29, <1>0 DEF WriterEnds, ControlType, control, admin, still, services
<1>30. CASE UNCHANGED vars
  BY <1>30, <1>0 DEF ControlType, vars, control, admin, still, services
<1> QED
  BY <1>1, <1>2, <1>3, <1>4, <1>5, <1>6, <1>7, <1>8, <1>9, <1>10, <1>11, <1>12, <1>13,
     <1>14, <1>15, <1>16, <1>17, <1>18, <1>19, <1>20, <1>21, <1>22, <1>23, <1>24, <1>25,
     <1>26, <1>27, <1>28, <1>29, <1>30
     DEF Next, Clients, CaptureThread, WriterThread, CallerThread

\* Every step keeps the epochs within their bound: each is owed to an attempt or a save.
LEMMA NextEpochType ==
    ASSUME TypeOK, PhaseInv, EpochInv, [Next]_vars
    PROVE  EpochType'
<1>0. EpochType
  BY DEF TypeOK
<1>1. ASSUME NEW p \in BOOLEAN, Pause(p) PROVE EpochType'
  BY <1>1, <1>0, MaxEpochsNat DEF Pause, Command, EpochType, control, admin, still, services
<1>2. ASSUME CaptureNow PROVE EpochType'
  BY <1>2, <1>0, MaxEpochsNat
     DEF CaptureNow, Command, EpochType, control, admin, still, services
<1>3. ASSUME Shutdown PROVE EpochType'
  BY <1>3, <1>0, MaxEpochsNat DEF Shutdown, EpochType, control, admin, still, services
<1>4. ASSUME ReloadConfiguration PROVE EpochType'
  BY <1>4, <1>0, MaxEpochsNat
     DEF ReloadConfiguration, EpochType, control, admin, still, services
<1>5. ASSUME NEW k \in {"layout", "uploads", "interval"}, Save(k) PROVE EpochType'
  BY <1>5, <1>0, MaxEpochsNat DEF Save, Command, EpochType, control, admin, still, services
<1>6. ASSUME NEW c \in Callers, Acquire(c) PROVE EpochType'
  BY <1>6, <1>0, MaxEpochsNat DEF Acquire, EpochType, control, admin, still, services
<1>7. ASSUME NEW c \in Callers, Release(c) PROVE EpochType'
  BY <1>7, <1>0, MaxEpochsNat DEF Release, EpochType, control, admin, still, services
<1>8. ASSUME UploaderDies PROVE EpochType'
  BY <1>8, <1>0, MaxEpochsNat
     DEF UploaderDies, Fault, EpochType, control, admin, still, services
<1>9. ASSUME BeginAttempt PROVE EpochType'
  BY <1>9, <1>0, MaxEpochsNat DEF BeginAttempt, EpochType, control, admin, still, services
<1>10. ASSUME OpenCamera PROVE EpochType'
  BY <1>10, <1>0, MaxEpochsNat
     DEF OpenCamera, Fault, EpochType, control, admin, still, services
<1>11. ASSUME StartServices PROVE EpochType'
  <2>1. epoch + 1 <= MaxEpochs
    <3>1. epoch + One(TRUE) <= attempt + commands
      BY <1>11, <1>0, MaxEpochsNat DEF StartServices, EpochInv, One, EpochType, TypeOK, ThreadType,
                                    ControlType
    <3>2. attempt \in 0 .. MaxAttempts /\ commands \in 0 .. MaxCommands
      BY DEF TypeOK, ThreadType, ControlType
    <3> QED
      BY <1>0, <3>1, <3>2, MaxEpochsNat DEF MaxEpochs, One, EpochType
  <2>2. store = 0 /\ conf.uploads \in BOOLEAN
    BY <1>11 DEF StartServices, PhaseInv, Between, TypeOK, ControlType, Configs
  <2>3. epoch' = epoch + 1 /\ epoch' \in 0 .. MaxEpochs /\ UNCHANGED <<dead, reg, calls>>
    BY <1>11, <1>0, <2>1, MaxEpochsNat DEF StartServices, EpochType, admin
  <2>4. store' \in {0, epoch'}
    BY <1>11, <2>2 DEF StartServices
  <2>5. lease' \in BOOLEAN
    BY <1>11, <1>0 DEF StartServices, EpochType
  <2> QED
    BY <1>0, <2>3, <2>4, <2>5 DEF EpochType
<1>12. ASSUME StartWorkers PROVE EpochType'
  BY <1>12, <1>0, MaxEpochsNat
     DEF StartWorkers, Fault, Registered, Paused, EpochType, control, admin, still, services
<1>13. ASSUME StopCapture PROVE EpochType'
  BY <1>13, <1>0, MaxEpochsNat DEF StopCapture, EpochType, control, admin, still, services
<1>14. ASSUME CaptureFails PROVE EpochType'
  BY <1>14, <1>0, MaxEpochsNat
     DEF CaptureFails, Fault, EpochType, control, admin, still, services
<1>15. ASSUME NEW done \in BOOLEAN, SettleFrame(done) PROVE EpochType'
  BY <1>15, <1>0, MaxEpochsNat
     DEF SettleFrame, FrameReceived, Paused, EpochType, control, admin, still, services
<1>16. ASSUME TakeReload PROVE EpochType'
  BY <1>16, <1>0, MaxEpochsNat DEF TakeReload, EpochType, control, admin, still, services
<1>17. ASSUME LoadReload PROVE EpochType'
  BY <1>17, <1>0, MaxEpochsNat
     DEF LoadReload, RequiresCameraRestart, RequiresRecordingReload, EpochType, control,
         admin, still, services
<1>18. ASSUME NEW kind \in {"settled", "moving"}, NEW due \in BOOLEAN, UseFrame(kind, due) PROVE EpochType'
  BY <1>18, <1>0, MaxEpochsNat
     DEF UseFrame, FrameReceived, Paused, Requested, Name, Seen, EpochType, control, admin,
         still, services
<1>19. ASSUME JoinWriter PROVE EpochType'
  BY <1>19, <1>0, MaxEpochsNat DEF JoinWriter, EpochType, control, admin, still, services
<1>20. ASSUME Revoke PROVE EpochType'
  BY <1>20, <1>0, MaxEpochsNat DEF Revoke, EpochType, control, admin, still, services
<1>21. ASSUME Drain PROVE EpochType'
  BY <1>21, <1>0, MaxEpochsNat DEF Drain, EpochType, control, admin, still, services
<1>22. ASSUME CloseServices PROVE EpochType'
  BY <1>22, <1>0, MaxEpochsNat DEF CloseServices, EpochType, control, admin, still, services
<1>23. ASSUME NextEpoch PROVE EpochType'
  BY <1>23, <1>0, MaxEpochsNat
     DEF NextEpoch, RequiresCameraRestart, EpochType, control, admin, still, services
<1>24. ASSUME StopCamera PROVE EpochType'
  BY <1>24, <1>0, MaxEpochsNat DEF StopCamera, EpochType, control, admin, still, services
<1>25. ASSUME EndAttempt PROVE EpochType'
  BY <1>25, <1>0, MaxEpochsNat
     DEF EndAttempt, FreshControl, FreshLoop, EpochType, control, admin, still, services
<1>26. ASSUME WriterSaves PROVE EpochType'
  BY <1>26, <1>0, MaxEpochsNat DEF WriterSaves, EpochType, control, admin, still, services
<1>27. ASSUME WriterRecords PROVE EpochType'
  BY <1>27, <1>0, MaxEpochsNat DEF WriterRecords, EpochType, control, admin, still, services
<1>28. ASSUME WriterFails PROVE EpochType'
  BY <1>28, <1>0, MaxEpochsNat
     DEF WriterFails, Fault, EpochType, control, admin, still, services
<1>29. ASSUME WriterEnds PROVE EpochType'
  BY <1>29, <1>0, MaxEpochsNat DEF WriterEnds, EpochType, control, admin, still, services
<1>30. CASE UNCHANGED vars
  BY <1>30, <1>0, MaxEpochsNat DEF EpochType, vars, control, admin, still, services
<1> QED
  BY <1>1, <1>2, <1>3, <1>4, <1>5, <1>6, <1>7, <1>8, <1>9, <1>10, <1>11, <1>12, <1>13,
     <1>14, <1>15, <1>16, <1>17, <1>18, <1>19, <1>20, <1>21, <1>22, <1>23, <1>24, <1>25,
     <1>26, <1>27, <1>28, <1>29, <1>30
     DEF Next, Clients, CaptureThread, WriterThread, CallerThread

\* Every step keeps the types of the writer, its channel and the stills.
LEMMA NextStillType ==
    ASSUME TypeOK, PhaseInv, WriterInv, [Next]_vars
    PROVE  StillType'
<1>0. StillType
  BY DEF TypeOK
<1>1. ASSUME NEW p \in BOOLEAN, Pause(p) PROVE StillType'
  BY <1>1, <1>0 DEF Pause, Command, StillType, control, admin, still, services
<1>2. ASSUME CaptureNow PROVE StillType'
  BY <1>2, <1>0 DEF CaptureNow, Command, StillType, control, admin, still, services
<1>3. ASSUME Shutdown PROVE StillType'
  BY <1>3, <1>0 DEF Shutdown, StillType, control, admin, still, services
<1>4. ASSUME ReloadConfiguration PROVE StillType'
  BY <1>4, <1>0 DEF ReloadConfiguration, StillType, control, admin, still, services
<1>5. ASSUME NEW k \in {"layout", "uploads", "interval"}, Save(k) PROVE StillType'
  BY <1>5, <1>0 DEF Save, Command, StillType, control, admin, still, services
<1>6. ASSUME NEW c \in Callers, Acquire(c) PROVE StillType'
  BY <1>6, <1>0 DEF Acquire, StillType, control, admin, still, services
<1>7. ASSUME NEW c \in Callers, Release(c) PROVE StillType'
  BY <1>7, <1>0 DEF Release, StillType, control, admin, still, services
<1>8. ASSUME UploaderDies PROVE StillType'
  BY <1>8, <1>0 DEF UploaderDies, Fault, StillType, control, admin, still, services
<1>9. ASSUME BeginAttempt PROVE StillType'
  BY <1>9, <1>0 DEF BeginAttempt, StillType, control, admin, still, services
<1>10. ASSUME OpenCamera PROVE StillType'
  BY <1>10, <1>0 DEF OpenCamera, Fault, StillType, control, admin, still, services
<1>11. ASSUME StartServices PROVE StillType'
  BY <1>11, <1>0 DEF StartServices, Fault, StillType, control, admin, still, services
<1>12. ASSUME StartWorkers PROVE StillType'
  <2>1. <<>> \in Seq(Names) /\ Len(<<>>) <= QueueCap
    OBVIOUS
  <2>2. writer' \in [st : {"none", "run", "done", "failed"}, job : Seq(Names)]
    <3>1. [st |-> "run", job |-> <<>>] \in [st : {"none", "run", "done", "failed"}, job : Seq(Names)]
      BY <2>1
    <3>2. writer' = writer \/ writer' = [st |-> "run", job |-> <<>>]
      BY <1>12 DEF StartWorkers
    <3> QED
      BY <1>0, <3>1, <3>2 DEF StillType
  <2>3. queue' \in Seq(Names) /\ Len(queue') <= QueueCap
    BY <1>12, <1>0, <2>1 DEF StartWorkers, StillType
  <2> QED
    BY <1>12, <1>0, <2>2, <2>3 DEF StartWorkers, StillType
<1>13. ASSUME StopCapture PROVE StillType'
  BY <1>13, <1>0 DEF StopCapture, StillType, control, admin, still, services
<1>14. ASSUME CaptureFails PROVE StillType'
  BY <1>14, <1>0 DEF CaptureFails, Fault, StillType, control, admin, still, services
<1>15. ASSUME NEW done \in BOOLEAN, SettleFrame(done) PROVE StillType'
  BY <1>15, <1>0
     DEF SettleFrame, FrameReceived, Paused, StillType, control, admin, still, services
<1>16. ASSUME TakeReload PROVE StillType'
  BY <1>16, <1>0 DEF TakeReload, StillType, control, admin, still, services
<1>17. ASSUME LoadReload PROVE StillType'
  BY <1>17, <1>0
     DEF LoadReload, RequiresCameraRestart, RequiresRecordingReload, StillType, control,
         admin, still, services
<1>18. ASSUME NEW kind \in {"settled", "moving"}, NEW due \in BOOLEAN, UseFrame(kind, due) PROVE StillType'
  <2>1. Name \in Names
    BY <1>18, NameIsTyped
  <2>2. UNCHANGED <<writer, saved, recorded, failed>>
    BY <1>18 DEF UseFrame
  <2>3. CASE UNCHANGED <<sent, queue>>
    BY <1>0, <2>2, <2>3 DEF StillType
  <2>4. CASE sent' = sent \cup {Name} /\ queue' = Append(queue, Name) /\ Len(queue) < QueueCap
    BY <1>0, <2>1, <2>2, <2>4 DEF StillType
  <2> QED
    BY <1>18, <2>3, <2>4, UseFrameEffect
<1>19. ASSUME JoinWriter PROVE StillType'
  BY <1>19, <1>0 DEF JoinWriter, StillType, control, admin, still, services
<1>20. ASSUME Revoke PROVE StillType'
  BY <1>20, <1>0 DEF Revoke, StillType, control, admin, still, services
<1>21. ASSUME Drain PROVE StillType'
  BY <1>21, <1>0 DEF Drain, StillType, control, admin, still, services
<1>22. ASSUME CloseServices PROVE StillType'
  BY <1>22, <1>0 DEF CloseServices, StillType, control, admin, still, services
<1>23. ASSUME NextEpoch PROVE StillType'
  BY <1>23, <1>0
     DEF NextEpoch, RequiresCameraRestart, StillType, control, admin, still, services
<1>24. ASSUME StopCamera PROVE StillType'
  BY <1>24, <1>0 DEF StopCamera, StillType, control, admin, still, services
<1>25. ASSUME EndAttempt PROVE StillType'
  BY <1>25, <1>0
     DEF EndAttempt, FreshControl, FreshLoop, StillType, control, admin, still, services
<1>26. ASSUME WriterSaves PROVE StillType'
  <2>1. Head(queue) \in sent /\ Head(queue) \in Names
    BY <1>26, <1>0 DEF WriterSaves, WriterInv, StillType
  <2>2. Tail(queue) \in Seq(Names) /\ Len(Tail(queue)) <= QueueCap
    BY <1>26, <1>0 DEF WriterSaves, StillType
  <2>3. <<Head(queue)>> \in Seq(Names)
    BY <2>1
  <2> QED
    BY <1>26, <1>0, <2>1, <2>2, <2>3 DEF WriterSaves, StillType
<1>27. ASSUME WriterRecords PROVE StillType'
  <2>1. writer.job[1] \in sent
    BY <1>27, <1>0 DEF WriterRecords, WriterInv, InHand, StillType
  <2>2. dead => epoch \in 1 .. MaxEpochs
    BY <1>27, MaxEpochsNat DEF WriterRecords, PhaseInv, Written, Running, Looping, Between, TypeOK,
                            EpochType
  <2>3. <<>> \in Seq(Names)
    OBVIOUS
  <2> QED
    BY <1>27, <1>0, <2>1, <2>2, <2>3 DEF WriterRecords, StillType
<1>28. ASSUME WriterFails PROVE StillType'
  <2>1. epoch \in 1 .. MaxEpochs
    BY <1>28, MaxEpochsNat DEF WriterFails, PhaseInv, Written, Running, Looping, Between, TypeOK,
                            EpochType
  <2>2. <<>> \in Seq(Names)
    OBVIOUS
  <2> QED
    BY <1>28, <1>0, <2>1, <2>2 DEF WriterFails, StillType
<1>29. ASSUME WriterEnds PROVE StillType'
  BY <1>29, <1>0 DEF WriterEnds, StillType, control, admin, still, services
<1>30. CASE UNCHANGED vars
  BY <1>30, <1>0 DEF StillType, vars, control, admin, still, services
<1> QED
  BY <1>1, <1>2, <1>3, <1>4, <1>5, <1>6, <1>7, <1>8, <1>9, <1>10, <1>11, <1>12, <1>13,
     <1>14, <1>15, <1>16, <1>17, <1>18, <1>19, <1>20, <1>21, <1>22, <1>23, <1>24, <1>25,
     <1>26, <1>27, <1>28, <1>29, <1>30
     DEF Next, Clients, CaptureThread, WriterThread, CallerThread

\* Every step keeps the phases of an epoch and what it holds in step.
LEMMA NextPhase ==
    ASSUME TypeOK, PhaseInv, [Next]_vars
    PROVE  PhaseInv'
<1>0. /\ epoch \in Nat /\ store \in {0, epoch} /\ dead \in BOOLEAN /\ lease \in BOOLEAN
      /\ writer \in [st : {"none", "run", "done", "failed"}, job : Seq(Names)]
      /\ calls \in [Callers -> 0 .. MaxEpochs]
  BY MaxEpochsNat DEF TypeOK, EpochType, StillType
<1>1. ASSUME NEW p \in BOOLEAN, Pause(p) PROVE PhaseInv'
  BY <1>1, <1>0
     DEF Pause, Command, PhaseInv, Between, Written, Unregistered, Running, Looping,
         Registered, control, admin, still, services
<1>2. ASSUME CaptureNow PROVE PhaseInv'
  BY <1>2, <1>0
     DEF CaptureNow, Command, PhaseInv, Between, Written, Unregistered, Running, Looping,
         Registered, control, admin, still, services
<1>3. ASSUME Shutdown PROVE PhaseInv'
  BY <1>3, <1>0
     DEF Shutdown, PhaseInv, Between, Written, Unregistered, Running, Looping, Registered,
         control, admin, still, services
<1>4. ASSUME ReloadConfiguration PROVE PhaseInv'
  BY <1>4, <1>0
     DEF ReloadConfiguration, PhaseInv, Between, Written, Unregistered, Running, Looping,
         Registered, control, admin, still, services
<1>5. ASSUME NEW k \in {"layout", "uploads", "interval"}, Save(k) PROVE PhaseInv'
  BY <1>5, <1>0
     DEF Save, Command, PhaseInv, Between, Written, Unregistered, Running, Looping,
         Registered, control, admin, still, services
<1>6. ASSUME NEW c \in Callers, Acquire(c) PROVE PhaseInv'
  BY <1>6, <1>0
     DEF Acquire, PhaseInv, Between, Written, Unregistered, Running, Looping, Registered,
         control, admin, still, services
<1>7. ASSUME NEW c \in Callers, Release(c) PROVE PhaseInv'
  BY <1>7, <1>0
     DEF Release, PhaseInv, Between, Written, Unregistered, Running, Looping, Registered,
         control, admin, still, services
<1>8. ASSUME UploaderDies PROVE PhaseInv'
  BY <1>8, <1>0
     DEF UploaderDies, Fault, PhaseInv, Between, Written, Unregistered, Running, Looping,
         Registered, control, admin, still, services
<1>9. ASSUME BeginAttempt PROVE PhaseInv'
  BY <1>9, <1>0
     DEF BeginAttempt, PhaseInv, Between, Written, Unregistered, Running, Looping,
         Registered, control, admin, still, services
<1>10. ASSUME OpenCamera PROVE PhaseInv'
  BY <1>10, <1>0
     DEF OpenCamera, Fault, PhaseInv, Between, Written, Unregistered, Running, Looping,
         Registered, control, admin, still, services
<1>11. ASSUME StartServices PROVE PhaseInv'
  <2>1. store = 0 /\ ~lease /\ ~dead /\ reg = Unregistered /\ writer.st = "none"
        /\ \A c \in Callers : calls[c] = 0
    BY <1>11, <1>0 DEF StartServices, PhaseInv, Between, Written, Running, Looping
  <2>2. CASE pc' = "camera" /\ UNCHANGED <<store, lease>>
    BY <1>11, <1>0, <2>1, <2>2 DEF StartServices, PhaseInv, Between, Written, Running, Looping,
                                Unregistered, admin, still
  <2>3. CASE pc' = "register" /\ store' = IF conf.uploads THEN epoch' ELSE 0
    <3>1. lease' \/ store' = epoch'
      BY <1>11, <2>3 DEF StartServices
    <3>2. epoch' > 0
      BY <1>11, <1>0 DEF StartServices
    <3> QED
      BY <1>11, <2>1, <2>3, <3>1, <3>2 DEF StartServices, PhaseInv, Between, Written, Running,
                                        Looping, Unregistered, admin, still
  <2> QED
    BY <1>11, <2>2, <2>3 DEF StartServices
<1>12. ASSUME StartWorkers PROVE PhaseInv'
  BY <1>12, <1>0
     DEF StartWorkers, Fault, Registered, Paused, PhaseInv, Between, Written, Unregistered,
         Running, Looping, control, admin, still, services
<1>13. ASSUME StopCapture PROVE PhaseInv'
  BY <1>13, <1>0
     DEF StopCapture, PhaseInv, Between, Written, Unregistered, Running, Looping,
         Registered, control, admin, still, services
<1>14. ASSUME CaptureFails PROVE PhaseInv'
  BY <1>14, <1>0
     DEF CaptureFails, Fault, PhaseInv, Between, Written, Unregistered, Running, Looping,
         Registered, control, admin, still, services
<1>15. ASSUME NEW done \in BOOLEAN, SettleFrame(done) PROVE PhaseInv'
  BY <1>15, <1>0
     DEF SettleFrame, FrameReceived, Paused, PhaseInv, Between, Written, Unregistered,
         Running, Looping, Registered, control, admin, still, services
<1>16. ASSUME TakeReload PROVE PhaseInv'
  BY <1>16, <1>0
     DEF TakeReload, PhaseInv, Between, Written, Unregistered, Running, Looping, Registered,
         control, admin, still, services
<1>17. ASSUME LoadReload PROVE PhaseInv'
  BY <1>17, <1>0
     DEF LoadReload, RequiresCameraRestart, RequiresRecordingReload, PhaseInv, Between,
         Written, Unregistered, Running, Looping, Registered, control, admin, still,
         services
<1>18. ASSUME NEW kind \in {"settled", "moving"}, NEW due \in BOOLEAN, UseFrame(kind, due) PROVE PhaseInv'
  BY <1>18, <1>0
     DEF UseFrame, FrameReceived, Paused, Requested, Name, Seen, PhaseInv, Between, Written,
         Unregistered, Running, Looping, Registered, control, admin, still, services
<1>19. ASSUME JoinWriter PROVE PhaseInv'
  BY <1>19, <1>0
     DEF JoinWriter, PhaseInv, Between, Written, Unregistered, Running, Looping, Registered,
         control, admin, still, services
<1>20. ASSUME Revoke PROVE PhaseInv'
  BY <1>20, <1>0
     DEF Revoke, PhaseInv, Between, Written, Unregistered, Running, Looping, Registered,
         control, admin, still, services
<1>21. ASSUME Drain PROVE PhaseInv'
  BY <1>21, <1>0
     DEF Drain, PhaseInv, Between, Written, Unregistered, Running, Looping, Registered,
         control, admin, still, services
<1>22. ASSUME CloseServices PROVE PhaseInv'
  BY <1>22, <1>0
     DEF CloseServices, PhaseInv, Between, Written, Unregistered, Running, Looping,
         Registered, control, admin, still, services
<1>23. ASSUME NextEpoch PROVE PhaseInv'
  BY <1>23, <1>0
     DEF NextEpoch, RequiresCameraRestart, PhaseInv, Between, Written, Unregistered,
         Running, Looping, Registered, control, admin, still, services
<1>24. ASSUME StopCamera PROVE PhaseInv'
  BY <1>24, <1>0
     DEF StopCamera, PhaseInv, Between, Written, Unregistered, Running, Looping, Registered,
         control, admin, still, services
<1>25. ASSUME EndAttempt PROVE PhaseInv'
  BY <1>25, <1>0
     DEF EndAttempt, FreshControl, FreshLoop, PhaseInv, Between, Written, Unregistered,
         Running, Looping, Registered, control, admin, still, services
<1>26. ASSUME WriterSaves PROVE PhaseInv'
  BY <1>26, <1>0
     DEF WriterSaves, PhaseInv, Between, Written, Unregistered, Running, Looping,
         Registered, control, admin, still, services
<1>27. ASSUME WriterRecords PROVE PhaseInv'
  BY <1>27, <1>0
     DEF WriterRecords, PhaseInv, Between, Written, Unregistered, Running, Looping,
         Registered, control, admin, still, services
<1>28. ASSUME WriterFails PROVE PhaseInv'
  BY <1>28, <1>0
     DEF WriterFails, Fault, PhaseInv, Between, Written, Unregistered, Running, Looping,
         Registered, control, admin, still, services
<1>29. ASSUME WriterEnds PROVE PhaseInv'
  BY <1>29, <1>0
     DEF WriterEnds, PhaseInv, Between, Written, Unregistered, Running, Looping, Registered,
         control, admin, still, services
<1>30. CASE UNCHANGED vars
  BY <1>30, <1>0
     DEF PhaseInv, Between, Written, Unregistered, Running, Looping, Registered, vars,
         control, admin, still, services
<1> QED
  BY <1>1, <1>2, <1>3, <1>4, <1>5, <1>6, <1>7, <1>8, <1>9, <1>10, <1>11, <1>12, <1>13,
     <1>14, <1>15, <1>16, <1>17, <1>18, <1>19, <1>20, <1>21, <1>22, <1>23, <1>24, <1>25,
     <1>26, <1>27, <1>28, <1>29, <1>30
     DEF Next, Clients, CaptureThread, WriterThread, CallerThread

\* No step loses a still between the channel, the writer and the ledger.
LEMMA NextWriter ==
    ASSUME TypeOK, PhaseInv, WriterInv, [Next]_vars
    PROVE  WriterInv'
<1>0. /\ epoch \in Nat /\ store \in {0, epoch} /\ dead \in BOOLEAN
      /\ writer \in [st : {"none", "run", "done", "failed"}, job : Seq(Names)]
      /\ queue \in Seq(Names) /\ saved \cup recorded \subseteq sent
  BY MaxEpochsNat DEF TypeOK, EpochType, StillType
<1>1. ASSUME NEW p \in BOOLEAN, Pause(p) PROVE WriterInv'
  BY <1>1, <1>0
     DEF Pause, Command, WriterInv, InChannel, InHand, Stored, PhaseInv, Between, Written,
         Unregistered, Running, Looping, Registered, control, admin, still, services
<1>2. ASSUME CaptureNow PROVE WriterInv'
  BY <1>2, <1>0
     DEF CaptureNow, Command, WriterInv, InChannel, InHand, Stored, PhaseInv, Between,
         Written, Unregistered, Running, Looping, Registered, control, admin, still,
         services
<1>3. ASSUME Shutdown PROVE WriterInv'
  BY <1>3, <1>0
     DEF Shutdown, WriterInv, InChannel, InHand, Stored, PhaseInv, Between, Written,
         Unregistered, Running, Looping, Registered, control, admin, still, services
<1>4. ASSUME ReloadConfiguration PROVE WriterInv'
  BY <1>4, <1>0
     DEF ReloadConfiguration, WriterInv, InChannel, InHand, Stored, PhaseInv, Between,
         Written, Unregistered, Running, Looping, Registered, control, admin, still,
         services
<1>5. ASSUME NEW k \in {"layout", "uploads", "interval"}, Save(k) PROVE WriterInv'
  BY <1>5, <1>0
     DEF Save, Command, WriterInv, InChannel, InHand, Stored, PhaseInv, Between, Written,
         Unregistered, Running, Looping, Registered, control, admin, still, services
<1>6. ASSUME NEW c \in Callers, Acquire(c) PROVE WriterInv'
  BY <1>6, <1>0
     DEF Acquire, WriterInv, InChannel, InHand, Stored, PhaseInv, Between, Written,
         Unregistered, Running, Looping, Registered, control, admin, still, services
<1>7. ASSUME NEW c \in Callers, Release(c) PROVE WriterInv'
  BY <1>7, <1>0
     DEF Release, WriterInv, InChannel, InHand, Stored, PhaseInv, Between, Written,
         Unregistered, Running, Looping, Registered, control, admin, still, services
<1>8. ASSUME UploaderDies PROVE WriterInv'
  BY <1>8, <1>0
     DEF UploaderDies, Fault, WriterInv, InChannel, InHand, Stored, PhaseInv, Between,
         Written, Unregistered, Running, Looping, Registered, control, admin, still,
         services
<1>9. ASSUME BeginAttempt PROVE WriterInv'
  BY <1>9, <1>0
     DEF BeginAttempt, WriterInv, InChannel, InHand, Stored, PhaseInv, Between, Written,
         Unregistered, Running, Looping, Registered, control, admin, still, services
<1>10. ASSUME OpenCamera PROVE WriterInv'
  BY <1>10, <1>0
     DEF OpenCamera, Fault, WriterInv, InChannel, InHand, Stored, PhaseInv, Between,
         Written, Unregistered, Running, Looping, Registered, control, admin, still,
         services
<1>11. ASSUME StartServices PROVE WriterInv'
  <2>1. writer.st = "none" /\ epoch' = epoch + 1 /\ UNCHANGED still
    BY <1>11 DEF StartServices, PhaseInv, Written, Running, Looping
  <2>2. \A n \in sent : n.epoch <= epoch
    BY DEF WriterInv
  <2>3. \A n \in sent : n.epoch \in Nat
    BY DEF TypeOK, StillType, Names
  <2>4. \A n \in sent : n.epoch <= epoch' /\ n.epoch # epoch'
    BY <1>0, <2>1, <2>2, <2>3
  <2> QED
    BY <1>0, <2>1, <2>4 DEF WriterInv, InChannel, InHand, Stored, still
<1>12. ASSUME StartWorkers PROVE WriterInv'
  <2>1. writer.st = "none" /\ queue = <<>>
    BY <1>12 DEF StartWorkers, WriterInv, PhaseInv, Written, Running, Looping
  <2>2. \A n \in sent : n.epoch \in failed \/ Stored(n)
    BY <2>1 DEF WriterInv
  <2>3. UNCHANGED <<epoch, store, sent, saved, recorded, failed>>
    BY <1>12 DEF StartWorkers, services
  <2>4. CASE UNCHANGED <<writer, queue>>
    <3>1. pc = "register" /\ pc' = "revoke"
      BY <1>12, <2>1, <2>4 DEF StartWorkers
    <3> QED
      BY <2>1, <2>3, <2>4, <3>1 DEF WriterInv, InChannel, InHand, Stored, Between
  <2>5. CASE writer' = [st |-> "run", job |-> <<>>] /\ queue' = <<>>
    <3>1. \A n \in sent : n.epoch = epoch => n.up = (store # 0)
      BY <1>12 DEF StartWorkers, WriterInv, Between
    <3>2. writer'.st = "run" /\ writer'.job = <<>>
      BY <2>5
    <3>3. \A n \in sent' : Stored(n)' \/ n.epoch \in failed'
      BY <2>2, <2>3 DEF Stored
    <3> QED
      BY <2>3, <2>5, <3>1, <3>2, <3>3 DEF WriterInv
  <2> QED
    BY <1>12, <2>4, <2>5 DEF StartWorkers
<1>13. ASSUME StopCapture PROVE WriterInv'
  BY <1>13, <1>0
     DEF StopCapture, WriterInv, InChannel, InHand, Stored, PhaseInv, Between, Written,
         Unregistered, Running, Looping, Registered, control, admin, still, services
<1>14. ASSUME CaptureFails PROVE WriterInv'
  BY <1>14, <1>0
     DEF CaptureFails, Fault, WriterInv, InChannel, InHand, Stored, PhaseInv, Between,
         Written, Unregistered, Running, Looping, Registered, control, admin, still,
         services
<1>15. ASSUME NEW done \in BOOLEAN, SettleFrame(done) PROVE WriterInv'
  BY <1>15, <1>0
     DEF SettleFrame, FrameReceived, Paused, WriterInv, InChannel, InHand, Stored, PhaseInv,
         Between, Written, Unregistered, Running, Looping, Registered, control, admin,
         still, services
<1>16. ASSUME TakeReload PROVE WriterInv'
  BY <1>16, <1>0
     DEF TakeReload, WriterInv, InChannel, InHand, Stored, PhaseInv, Between, Written,
         Unregistered, Running, Looping, Registered, control, admin, still, services
<1>17. ASSUME LoadReload PROVE WriterInv'
  BY <1>17, <1>0
     DEF LoadReload, RequiresCameraRestart, RequiresRecordingReload, WriterInv, InChannel,
         InHand, Stored, PhaseInv, Between, Written, Unregistered, Running, Looping,
         Registered, control, admin, still, services
<1>18. ASSUME NEW kind \in {"settled", "moving"}, NEW due \in BOOLEAN, UseFrame(kind, due) PROVE WriterInv'
  <2>1. /\ pc = "loop" /\ pc' \in {"loop", "join"}
        /\ UNCHANGED <<epoch, store, writer, saved, recorded, failed>>
    BY <1>18 DEF UseFrame, services
  <2>2. CASE UNCHANGED <<sent, queue>>
    BY <2>1, <2>2 DEF WriterInv, InChannel, InHand, Stored, Between
  <2>3. CASE /\ sent' = sent \cup {Name} /\ queue' = Append(queue, Name) /\ writer.st # "failed"
    <3>1. writer.st = "run"
      BY <1>0, <2>1, <2>3 DEF PhaseInv, Written, Running, Looping
    <3> PICK m : m = Name
      OBVIOUS
    <3>2. m.epoch = epoch /\ m.up = (store # 0)
      BY DEF Name
    <3>3. m \in Names
      BY <1>18, NameIsTyped
    <3>4. InChannel(m)' /\ \A n : InChannel(n) => InChannel(n)'
      <4>1. queue \in Seq(Names) /\ queue' = Append(queue, m)
        BY <1>0, <2>3
      <4>2. /\ Len(queue') = Len(queue) + 1 /\ Len(queue) \in Nat /\ queue'[Len(queue) + 1] = m
            /\ \A i \in 1 .. Len(queue) : queue'[i] = queue[i]
        BY <3>3, <4>1
      <4> QED
        BY <4>2 DEF InChannel
    <3>5. \A i \in 1 .. Len(queue') : queue'[i] \in sent'
      BY <1>0, <2>3, <3>3 DEF WriterInv
    <3>6. \A n \in sent' : /\ n.epoch <= epoch
                           /\ n.epoch = epoch => n.up = (store # 0)
      BY <1>0, <2>1, <2>3, <3>2 DEF WriterInv, Between
    <3>7. \A n \in sent : \/ n.epoch \in failed \/ Stored(n)
                          \/ n.epoch = epoch /\ writer.st = "run"
                                /\ (InChannel(n) \/ (InHand(n) /\ n \in saved))
      BY DEF WriterInv
    <3>8. \A n : (Stored(n)' <=> Stored(n)) /\ (InHand(n)' <=> InHand(n))
      BY <2>1 DEF Stored, InHand
    <3>9. \A n \in sent' : \/ n.epoch \in failed' \/ Stored(n)'
                           \/ n.epoch = epoch' /\ writer'.st = "run"
                                 /\ (InChannel(n)' \/ (InHand(n)' /\ n \in saved'))
      BY <2>1, <2>3, <3>1, <3>2, <3>4, <3>7, <3>8
    <3>10. writer'.job # <<>> => \E n \in saved' : InHand(n)'
      BY <2>1, <3>8 DEF WriterInv
    <3>11. UNCHANGED writer
      BY <2>1
    <3> QED
      BY <2>1, <3>1, <3>5, <3>6, <3>9, <3>10, <3>11 DEF WriterInv
  <2> QED
    BY <1>18, <2>2, <2>3, UseFrameEffect
<1>19. ASSUME JoinWriter PROVE WriterInv'
  BY <1>19, <1>0
     DEF JoinWriter, WriterInv, InChannel, InHand, Stored, PhaseInv, Between, Written,
         Unregistered, Running, Looping, Registered, control, admin, still, services
<1>20. ASSUME Revoke PROVE WriterInv'
  BY <1>20, <1>0
     DEF Revoke, WriterInv, InChannel, InHand, Stored, PhaseInv, Between, Written,
         Unregistered, Running, Looping, Registered, control, admin, still, services
<1>21. ASSUME Drain PROVE WriterInv'
  BY <1>21, <1>0
     DEF Drain, WriterInv, InChannel, InHand, Stored, PhaseInv, Between, Written,
         Unregistered, Running, Looping, Registered, control, admin, still, services
<1>22. ASSUME CloseServices PROVE WriterInv'
  BY <1>22, <1>0
     DEF CloseServices, WriterInv, InChannel, InHand, Stored, PhaseInv, Between, Written,
         Unregistered, Running, Looping, Registered, control, admin, still, services
<1>23. ASSUME NextEpoch PROVE WriterInv'
  BY <1>23, <1>0
     DEF NextEpoch, RequiresCameraRestart, WriterInv, InChannel, InHand, Stored, PhaseInv,
         Between, Written, Unregistered, Running, Looping, Registered, control, admin,
         still, services
<1>24. ASSUME StopCamera PROVE WriterInv'
  BY <1>24, <1>0
     DEF StopCamera, WriterInv, InChannel, InHand, Stored, PhaseInv, Between, Written,
         Unregistered, Running, Looping, Registered, control, admin, still, services
<1>25. ASSUME EndAttempt PROVE WriterInv'
  BY <1>25, <1>0
     DEF EndAttempt, FreshControl, FreshLoop, WriterInv, InChannel, InHand, Stored,
         PhaseInv, Between, Written, Unregistered, Running, Looping, Registered, control,
         admin, still, services
<1>26. ASSUME WriterSaves PROVE WriterInv'
  <2>1. /\ writer.st = "run" /\ writer.job = <<>> /\ queue # <<>>
        /\ writer'.st = "run" /\ writer'.job = <<Head(queue)>>
        /\ queue' = Tail(queue) /\ saved' = saved \cup {Head(queue)}
        /\ UNCHANGED <<pc, epoch, store, sent, recorded, failed>>
    BY <1>26, <1>0 DEF WriterSaves, services
  <2> PICK m : m = Head(queue)
    OBVIOUS
  <2>2. \A i \in 1 .. Len(queue') : queue'[i] = queue[i + 1] /\ i + 1 \in 1 .. Len(queue)
    BY <1>0, <2>1
  <2>3. \A i \in 1 .. Len(queue') : queue'[i] \in sent'
    BY <1>0, <2>1, <2>2 DEF WriterInv
  <2>4. \A n : InChannel(n) => n = m \/ InChannel(n)'
    BY <1>0, <2>1, TakenFromChannel DEF InChannel
  <2>5. InHand(m)' /\ m \in saved'
    BY <2>1 DEF InHand
  <2>6. \A n : ~InHand(n) /\ (Stored(n) => Stored(n)')
    BY <2>1 DEF InHand, Stored
  <2>7. \A n \in sent : \/ n.epoch \in failed \/ Stored(n)
                        \/ n.epoch = epoch /\ (InChannel(n) \/ InHand(n))
    BY DEF WriterInv
  <2>8. \A n \in sent' : \/ n.epoch \in failed' \/ Stored(n)'
                         \/ n.epoch = epoch' /\ writer'.st = "run"
                               /\ (InChannel(n)' \/ (InHand(n)' /\ n \in saved'))
    BY <2>1, <2>4, <2>5, <2>6, <2>7
  <2> QED
    BY <2>1, <2>3, <2>5, <2>8 DEF WriterInv, Between
<1>27. ASSUME WriterRecords PROVE WriterInv'
  BY <1>27, <1>0
     DEF WriterRecords, WriterInv, InChannel, InHand, Stored, PhaseInv, Between, Written,
         Unregistered, Running, Looping, Registered, control, admin, still, services
<1>28. ASSUME WriterFails PROVE WriterInv'
  BY <1>28, <1>0
     DEF WriterFails, Fault, WriterInv, InChannel, InHand, Stored, PhaseInv, Between,
         Written, Unregistered, Running, Looping, Registered, control, admin, still,
         services
<1>29. ASSUME WriterEnds PROVE WriterInv'
  BY <1>29, <1>0
     DEF WriterEnds, WriterInv, InChannel, InHand, Stored, PhaseInv, Between, Written,
         Unregistered, Running, Looping, Registered, control, admin, still, services
<1>30. CASE UNCHANGED vars
  BY <1>30, <1>0
     DEF WriterInv, InChannel, InHand, Stored, PhaseInv, Between, Written, Unregistered,
         Running, Looping, Registered, vars, control, admin, still, services
<1> QED
  BY <1>1, <1>2, <1>3, <1>4, <1>5, <1>6, <1>7, <1>8, <1>9, <1>10, <1>11, <1>12, <1>13,
     <1>14, <1>15, <1>16, <1>17, <1>18, <1>19, <1>20, <1>21, <1>22, <1>23, <1>24, <1>25,
     <1>26, <1>27, <1>28, <1>29, <1>30
     DEF Next, Clients, CaptureThread, WriterThread, CallerThread

\* Every step keeps the account of epochs against attempts and saves.
LEMMA NextEpochs ==
    ASSUME TypeOK, EpochInv, [Next]_vars
    PROVE  EpochInv'
<1>0. /\ epoch \in Nat /\ attempt \in Nat /\ commands \in Nat /\ quiet \in BOOLEAN
      /\ ctl \in [shutdown : BOOLEAN, paused : BOOLEAN, gen : 0 .. MaxCommands, reload : BOOLEAN]
  BY MaxEpochsNat DEF TypeOK, ThreadType, ControlType, EpochType
<1>1. ASSUME NEW p \in BOOLEAN, Pause(p) PROVE EpochInv'
  BY <1>1, <1>0 DEF Pause, Command, EpochInv, One, control, admin, still, services
<1>2. ASSUME CaptureNow PROVE EpochInv'
  BY <1>2, <1>0 DEF CaptureNow, Command, EpochInv, One, control, admin, still, services
<1>3. ASSUME Shutdown PROVE EpochInv'
  BY <1>3, <1>0 DEF Shutdown, EpochInv, One, control, admin, still, services
<1>4. ASSUME ReloadConfiguration PROVE EpochInv'
  BY <1>4, <1>0 DEF ReloadConfiguration, EpochInv, One, control, admin, still, services
<1>5. ASSUME NEW k \in {"layout", "uploads", "interval"}, Save(k) PROVE EpochInv'
  BY <1>5, <1>0 DEF Save, Command, EpochInv, One, control, admin, still, services
<1>6. ASSUME NEW c \in Callers, Acquire(c) PROVE EpochInv'
  BY <1>6, <1>0 DEF Acquire, EpochInv, One, control, admin, still, services
<1>7. ASSUME NEW c \in Callers, Release(c) PROVE EpochInv'
  BY <1>7, <1>0 DEF Release, EpochInv, One, control, admin, still, services
<1>8. ASSUME UploaderDies PROVE EpochInv'
  BY <1>8, <1>0 DEF UploaderDies, Fault, EpochInv, One, control, admin, still, services
<1>9. ASSUME BeginAttempt PROVE EpochInv'
  BY <1>9, <1>0 DEF BeginAttempt, EpochInv, One, control, admin, still, services
<1>10. ASSUME OpenCamera PROVE EpochInv'
  BY <1>10, <1>0 DEF OpenCamera, Fault, EpochInv, One, control, admin, still, services
<1>11. ASSUME StartServices PROVE EpochInv'
  BY <1>11, <1>0 DEF StartServices, Fault, EpochInv, One, control, admin, still, services
<1>12. ASSUME StartWorkers PROVE EpochInv'
  BY <1>12, <1>0
     DEF StartWorkers, Fault, Registered, Paused, EpochInv, One, control, admin, still,
         services
<1>13. ASSUME StopCapture PROVE EpochInv'
  BY <1>13, <1>0 DEF StopCapture, EpochInv, One, control, admin, still, services
<1>14. ASSUME CaptureFails PROVE EpochInv'
  BY <1>14, <1>0 DEF CaptureFails, Fault, EpochInv, One, control, admin, still, services
<1>15. ASSUME NEW done \in BOOLEAN, SettleFrame(done) PROVE EpochInv'
  BY <1>15, <1>0
     DEF SettleFrame, FrameReceived, Paused, EpochInv, One, control, admin, still, services
<1>16. ASSUME TakeReload PROVE EpochInv'
  BY <1>16, <1>0 DEF TakeReload, EpochInv, One, control, admin, still, services
<1>17. ASSUME LoadReload PROVE EpochInv'
  BY <1>17, <1>0
     DEF LoadReload, RequiresCameraRestart, RequiresRecordingReload, EpochInv, One, control,
         admin, still, services
<1>18. ASSUME NEW kind \in {"settled", "moving"}, NEW due \in BOOLEAN, UseFrame(kind, due) PROVE EpochInv'
  BY <1>18, <1>0
     DEF UseFrame, FrameReceived, Paused, Requested, Name, Seen, EpochInv, One, control,
         admin, still, services
<1>19. ASSUME JoinWriter PROVE EpochInv'
  BY <1>19, <1>0 DEF JoinWriter, EpochInv, One, control, admin, still, services
<1>20. ASSUME Revoke PROVE EpochInv'
  BY <1>20, <1>0 DEF Revoke, EpochInv, One, control, admin, still, services
<1>21. ASSUME Drain PROVE EpochInv'
  BY <1>21, <1>0 DEF Drain, EpochInv, One, control, admin, still, services
<1>22. ASSUME CloseServices PROVE EpochInv'
  BY <1>22, <1>0 DEF CloseServices, EpochInv, One, control, admin, still, services
<1>23. ASSUME NextEpoch PROVE EpochInv'
  BY <1>23, <1>0
     DEF NextEpoch, RequiresCameraRestart, EpochInv, One, control, admin, still, services
<1>24. ASSUME StopCamera PROVE EpochInv'
  BY <1>24, <1>0 DEF StopCamera, EpochInv, One, control, admin, still, services
<1>25. ASSUME EndAttempt PROVE EpochInv'
  BY <1>25, <1>0
     DEF EndAttempt, FreshControl, FreshLoop, EpochInv, One, control, admin, still, services
<1>26. ASSUME WriterSaves PROVE EpochInv'
  BY <1>26, <1>0 DEF WriterSaves, EpochInv, One, control, admin, still, services
<1>27. ASSUME WriterRecords PROVE EpochInv'
  BY <1>27, <1>0 DEF WriterRecords, EpochInv, One, control, admin, still, services
<1>28. ASSUME WriterFails PROVE EpochInv'
  BY <1>28, <1>0 DEF WriterFails, Fault, EpochInv, One, control, admin, still, services
<1>29. ASSUME WriterEnds PROVE EpochInv'
  BY <1>29, <1>0 DEF WriterEnds, EpochInv, One, control, admin, still, services
<1>30. CASE UNCHANGED vars
  BY <1>30, <1>0 DEF EpochInv, One, vars, control, admin, still, services
<1> QED
  BY <1>1, <1>2, <1>3, <1>4, <1>5, <1>6, <1>7, <1>8, <1>9, <1>10, <1>11, <1>12, <1>13,
     <1>14, <1>15, <1>16, <1>17, <1>18, <1>19, <1>20, <1>21, <1>22, <1>23, <1>24, <1>25,
     <1>26, <1>27, <1>28, <1>29, <1>30
     DEF Next, Clients, CaptureThread, WriterThread, CallerThread

\* No step leaves changed settings without an announced reload.
LEMMA NextReload ==
    ASSUME TypeOK, ReloadInv, [Next]_vars
    PROVE  ReloadInv'
<1>1. ASSUME NEW p \in BOOLEAN, Pause(p) PROVE ReloadInv'
  BY <1>1
     DEF Pause, Command, ReloadInv, TypeOK, ThreadType, ControlType, Looping, control,
         admin, still, services
<1>2. ASSUME CaptureNow PROVE ReloadInv'
  BY <1>2
     DEF CaptureNow, Command, ReloadInv, TypeOK, ThreadType, ControlType, Looping, control,
         admin, still, services
<1>3. ASSUME Shutdown PROVE ReloadInv'
  BY <1>3
     DEF Shutdown, ReloadInv, TypeOK, ThreadType, ControlType, Looping, control, admin,
         still, services
<1>4. ASSUME ReloadConfiguration PROVE ReloadInv'
  BY <1>4
     DEF ReloadConfiguration, ReloadInv, TypeOK, ThreadType, ControlType, Looping, control,
         admin, still, services
<1>5. ASSUME NEW k \in {"layout", "uploads", "interval"}, Save(k) PROVE ReloadInv'
  BY <1>5
     DEF Save, Command, ReloadInv, TypeOK, ThreadType, ControlType, Looping, control, admin,
         still, services
<1>6. ASSUME NEW c \in Callers, Acquire(c) PROVE ReloadInv'
  BY <1>6
     DEF Acquire, ReloadInv, TypeOK, ThreadType, ControlType, Looping, control, admin,
         still, services
<1>7. ASSUME NEW c \in Callers, Release(c) PROVE ReloadInv'
  BY <1>7
     DEF Release, ReloadInv, TypeOK, ThreadType, ControlType, Looping, control, admin,
         still, services
<1>8. ASSUME UploaderDies PROVE ReloadInv'
  BY <1>8
     DEF UploaderDies, Fault, ReloadInv, TypeOK, ThreadType, ControlType, Looping, control,
         admin, still, services
<1>9. ASSUME BeginAttempt PROVE ReloadInv'
  BY <1>9
     DEF BeginAttempt, ReloadInv, TypeOK, ThreadType, ControlType, Looping, control, admin,
         still, services
<1>10. ASSUME OpenCamera PROVE ReloadInv'
  BY <1>10
     DEF OpenCamera, Fault, ReloadInv, TypeOK, ThreadType, ControlType, Looping, control,
         admin, still, services
<1>11. ASSUME StartServices PROVE ReloadInv'
  BY <1>11
     DEF StartServices, Fault, ReloadInv, TypeOK, ThreadType, ControlType, Looping, control,
         admin, still, services
<1>12. ASSUME StartWorkers PROVE ReloadInv'
  BY <1>12
     DEF StartWorkers, Fault, Registered, Paused, ReloadInv, TypeOK, ThreadType,
         ControlType, Looping, control, admin, still, services
<1>13. ASSUME StopCapture PROVE ReloadInv'
  BY <1>13
     DEF StopCapture, ReloadInv, TypeOK, ThreadType, ControlType, Looping, control, admin,
         still, services
<1>14. ASSUME CaptureFails PROVE ReloadInv'
  BY <1>14
     DEF CaptureFails, Fault, ReloadInv, TypeOK, ThreadType, ControlType, Looping, control,
         admin, still, services
<1>15. ASSUME NEW done \in BOOLEAN, SettleFrame(done) PROVE ReloadInv'
  BY <1>15
     DEF SettleFrame, FrameReceived, Paused, ReloadInv, TypeOK, ThreadType, ControlType,
         Looping, control, admin, still, services
<1>16. ASSUME TakeReload PROVE ReloadInv'
  BY <1>16
     DEF TakeReload, ReloadInv, TypeOK, ThreadType, ControlType, Looping, control, admin,
         still, services
<1>17. ASSUME LoadReload PROVE ReloadInv'
  BY <1>17
     DEF LoadReload, RequiresCameraRestart, RequiresRecordingReload, ReloadInv, TypeOK,
         ThreadType, ControlType, Looping, control, admin, still, services
<1>18. ASSUME NEW kind \in {"settled", "moving"}, NEW due \in BOOLEAN, UseFrame(kind, due) PROVE ReloadInv'
  BY <1>18
     DEF UseFrame, FrameReceived, Paused, Requested, Name, Seen, ReloadInv, TypeOK,
         ThreadType, ControlType, Looping, control, admin, still, services
<1>19. ASSUME JoinWriter PROVE ReloadInv'
  BY <1>19
     DEF JoinWriter, ReloadInv, TypeOK, ThreadType, ControlType, Looping, control, admin,
         still, services
<1>20. ASSUME Revoke PROVE ReloadInv'
  BY <1>20
     DEF Revoke, ReloadInv, TypeOK, ThreadType, ControlType, Looping, control, admin, still,
         services
<1>21. ASSUME Drain PROVE ReloadInv'
  BY <1>21
     DEF Drain, ReloadInv, TypeOK, ThreadType, ControlType, Looping, control, admin, still,
         services
<1>22. ASSUME CloseServices PROVE ReloadInv'
  BY <1>22
     DEF CloseServices, ReloadInv, TypeOK, ThreadType, ControlType, Looping, control, admin,
         still, services
<1>23. ASSUME NextEpoch PROVE ReloadInv'
  BY <1>23
     DEF NextEpoch, RequiresCameraRestart, ReloadInv, TypeOK, ThreadType, ControlType,
         Looping, control, admin, still, services
<1>24. ASSUME StopCamera PROVE ReloadInv'
  BY <1>24
     DEF StopCamera, ReloadInv, TypeOK, ThreadType, ControlType, Looping, control, admin,
         still, services
<1>25. ASSUME EndAttempt PROVE ReloadInv'
  BY <1>25
     DEF EndAttempt, FreshControl, FreshLoop, ReloadInv, TypeOK, ThreadType, ControlType,
         Looping, control, admin, still, services
<1>26. ASSUME WriterSaves PROVE ReloadInv'
  BY <1>26
     DEF WriterSaves, ReloadInv, TypeOK, ThreadType, ControlType, Looping, control, admin,
         still, services
<1>27. ASSUME WriterRecords PROVE ReloadInv'
  BY <1>27
     DEF WriterRecords, ReloadInv, TypeOK, ThreadType, ControlType, Looping, control, admin,
         still, services
<1>28. ASSUME WriterFails PROVE ReloadInv'
  BY <1>28
     DEF WriterFails, Fault, ReloadInv, TypeOK, ThreadType, ControlType, Looping, control,
         admin, still, services
<1>29. ASSUME WriterEnds PROVE ReloadInv'
  BY <1>29
     DEF WriterEnds, ReloadInv, TypeOK, ThreadType, ControlType, Looping, control, admin,
         still, services
<1>30. CASE UNCHANGED vars
  BY <1>30
     DEF ReloadInv, TypeOK, ThreadType, ControlType, Looping, vars, control, admin, still,
         services
<1> QED
  BY <1>1, <1>2, <1>3, <1>4, <1>5, <1>6, <1>7, <1>8, <1>9, <1>10, <1>11, <1>12, <1>13,
     <1>14, <1>15, <1>16, <1>17, <1>18, <1>19, <1>20, <1>21, <1>22, <1>23, <1>24, <1>25,
     <1>26, <1>27, <1>28, <1>29, <1>30
     DEF Next, Clients, CaptureThread, WriterThread, CallerThread

\* No step answers a request twice or drops one.
LEMMA NextRequests ==
    ASSUME TypeOK, RequestsAnsweredOnce, [Next]_vars
    PROVE  RequestsAnsweredOnce'
<1>0. /\ loop \in [settled : BOOLEAN, seen : Nat, queued : Nat, stills : Nat] /\ lost \in Nat
      /\ ctl \in [shutdown : BOOLEAN, paused : BOOLEAN, gen : 0 .. MaxCommands, reload : BOOLEAN]
  BY DEF TypeOK, ThreadType, ControlType
<1>1. ASSUME NEW p \in BOOLEAN, Pause(p) PROVE RequestsAnsweredOnce'
  BY <1>1, <1>0 DEF Pause, Command, RequestsAnsweredOnce, control, admin, still, services
<1>2. ASSUME CaptureNow PROVE RequestsAnsweredOnce'
  BY <1>2, <1>0
     DEF CaptureNow, Command, RequestsAnsweredOnce, control, admin, still, services
<1>3. ASSUME Shutdown PROVE RequestsAnsweredOnce'
  BY <1>3, <1>0 DEF Shutdown, RequestsAnsweredOnce, control, admin, still, services
<1>4. ASSUME ReloadConfiguration PROVE RequestsAnsweredOnce'
  BY <1>4, <1>0
     DEF ReloadConfiguration, RequestsAnsweredOnce, control, admin, still, services
<1>5. ASSUME NEW k \in {"layout", "uploads", "interval"}, Save(k) PROVE RequestsAnsweredOnce'
  BY <1>5, <1>0 DEF Save, Command, RequestsAnsweredOnce, control, admin, still, services
<1>6. ASSUME NEW c \in Callers, Acquire(c) PROVE RequestsAnsweredOnce'
  BY <1>6, <1>0 DEF Acquire, RequestsAnsweredOnce, control, admin, still, services
<1>7. ASSUME NEW c \in Callers, Release(c) PROVE RequestsAnsweredOnce'
  BY <1>7, <1>0 DEF Release, RequestsAnsweredOnce, control, admin, still, services
<1>8. ASSUME UploaderDies PROVE RequestsAnsweredOnce'
  BY <1>8, <1>0
     DEF UploaderDies, Fault, RequestsAnsweredOnce, control, admin, still, services
<1>9. ASSUME BeginAttempt PROVE RequestsAnsweredOnce'
  BY <1>9, <1>0 DEF BeginAttempt, RequestsAnsweredOnce, control, admin, still, services
<1>10. ASSUME OpenCamera PROVE RequestsAnsweredOnce'
  BY <1>10, <1>0
     DEF OpenCamera, Fault, RequestsAnsweredOnce, control, admin, still, services
<1>11. ASSUME StartServices PROVE RequestsAnsweredOnce'
  BY <1>11, <1>0
     DEF StartServices, Fault, RequestsAnsweredOnce, control, admin, still, services
<1>12. ASSUME StartWorkers PROVE RequestsAnsweredOnce'
  BY <1>12, <1>0
     DEF StartWorkers, Fault, Registered, Paused, RequestsAnsweredOnce, control, admin,
         still, services
<1>13. ASSUME StopCapture PROVE RequestsAnsweredOnce'
  BY <1>13, <1>0 DEF StopCapture, RequestsAnsweredOnce, control, admin, still, services
<1>14. ASSUME CaptureFails PROVE RequestsAnsweredOnce'
  BY <1>14, <1>0
     DEF CaptureFails, Fault, RequestsAnsweredOnce, control, admin, still, services
<1>15. ASSUME NEW done \in BOOLEAN, SettleFrame(done) PROVE RequestsAnsweredOnce'
  BY <1>15, <1>0
     DEF SettleFrame, FrameReceived, Paused, RequestsAnsweredOnce, control, admin, still,
         services
<1>16. ASSUME TakeReload PROVE RequestsAnsweredOnce'
  BY <1>16, <1>0 DEF TakeReload, RequestsAnsweredOnce, control, admin, still, services
<1>17. ASSUME LoadReload PROVE RequestsAnsweredOnce'
  BY <1>17, <1>0
     DEF LoadReload, RequiresCameraRestart, RequiresRecordingReload, RequestsAnsweredOnce,
         control, admin, still, services
<1>18. ASSUME NEW kind \in {"settled", "moving"}, NEW due \in BOOLEAN, UseFrame(kind, due) PROVE RequestsAnsweredOnce'
  <2>1. UNCHANGED ctl
    BY <1>18 DEF UseFrame, control
  <2>2. loop' \in [settled : BOOLEAN, seen : Nat, queued : Nat, stills : Nat] /\ lost' \in Nat
    BY <1>18, UseFrameEffect
  <2>3. CASE loop'.seen = loop.seen /\ loop'.stills = loop.stills /\ lost' = lost
    BY <2>1, <2>3 DEF RequestsAnsweredOnce
  <2>4. CASE /\ Requested /\ loop'.seen = loop.seen + 1
             /\ loop'.stills + lost' = loop.stills + lost + 1
    BY <1>0, <2>1, <2>2, <2>4 DEF RequestsAnsweredOnce, Requested
  <2> QED
    BY <1>18, <2>3, <2>4, UseFrameEffect
<1>19. ASSUME JoinWriter PROVE RequestsAnsweredOnce'
  BY <1>19, <1>0 DEF JoinWriter, RequestsAnsweredOnce, control, admin, still, services
<1>20. ASSUME Revoke PROVE RequestsAnsweredOnce'
  BY <1>20, <1>0 DEF Revoke, RequestsAnsweredOnce, control, admin, still, services
<1>21. ASSUME Drain PROVE RequestsAnsweredOnce'
  BY <1>21, <1>0 DEF Drain, RequestsAnsweredOnce, control, admin, still, services
<1>22. ASSUME CloseServices PROVE RequestsAnsweredOnce'
  BY <1>22, <1>0 DEF CloseServices, RequestsAnsweredOnce, control, admin, still, services
<1>23. ASSUME NextEpoch PROVE RequestsAnsweredOnce'
  BY <1>23, <1>0
     DEF NextEpoch, RequiresCameraRestart, RequestsAnsweredOnce, control, admin, still,
         services
<1>24. ASSUME StopCamera PROVE RequestsAnsweredOnce'
  BY <1>24, <1>0 DEF StopCamera, RequestsAnsweredOnce, control, admin, still, services
<1>25. ASSUME EndAttempt PROVE RequestsAnsweredOnce'
  BY <1>25, <1>0
     DEF EndAttempt, FreshControl, FreshLoop, RequestsAnsweredOnce, control, admin, still,
         services
<1>26. ASSUME WriterSaves PROVE RequestsAnsweredOnce'
  BY <1>26, <1>0 DEF WriterSaves, RequestsAnsweredOnce, control, admin, still, services
<1>27. ASSUME WriterRecords PROVE RequestsAnsweredOnce'
  BY <1>27, <1>0 DEF WriterRecords, RequestsAnsweredOnce, control, admin, still, services
<1>28. ASSUME WriterFails PROVE RequestsAnsweredOnce'
  BY <1>28, <1>0
     DEF WriterFails, Fault, RequestsAnsweredOnce, control, admin, still, services
<1>29. ASSUME WriterEnds PROVE RequestsAnsweredOnce'
  BY <1>29, <1>0 DEF WriterEnds, RequestsAnsweredOnce, control, admin, still, services
<1>30. CASE UNCHANGED vars
  BY <1>30, <1>0 DEF RequestsAnsweredOnce, vars, control, admin, still, services
<1> QED
  BY <1>1, <1>2, <1>3, <1>4, <1>5, <1>6, <1>7, <1>8, <1>9, <1>10, <1>11, <1>12, <1>13,
     <1>14, <1>15, <1>16, <1>17, <1>18, <1>19, <1>20, <1>21, <1>22, <1>23, <1>24, <1>25,
     <1>26, <1>27, <1>28, <1>29, <1>30
     DEF Next, Clients, CaptureThread, WriterThread, CallerThread

\* No step closes a store that a call works on, and an attempt that ends is shown as ended.
LEMMA NextCalls ==
    ASSUME TypeOK, PhaseInv, EndedIsNotCapturing, StoreOutlivesCalls, [Next]_vars
    PROVE  EndedIsNotCapturing' /\ StoreOutlivesCalls'
<1>1. ASSUME NEW p \in BOOLEAN, Pause(p) PROVE EndedIsNotCapturing' /\ StoreOutlivesCalls'
  BY <1>1
     DEF Pause, Command, EndedIsNotCapturing, StoreOutlivesCalls, PhaseInv, TypeOK,
         ThreadType, EpochType, Between, Written, Unregistered, Running, Looping,
         Registered, control, admin, still, services
<1>2. ASSUME CaptureNow PROVE EndedIsNotCapturing' /\ StoreOutlivesCalls'
  BY <1>2
     DEF CaptureNow, Command, EndedIsNotCapturing, StoreOutlivesCalls, PhaseInv, TypeOK,
         ThreadType, EpochType, Between, Written, Unregistered, Running, Looping,
         Registered, control, admin, still, services
<1>3. ASSUME Shutdown PROVE EndedIsNotCapturing' /\ StoreOutlivesCalls'
  BY <1>3
     DEF Shutdown, EndedIsNotCapturing, StoreOutlivesCalls, PhaseInv, TypeOK, ThreadType,
         EpochType, Between, Written, Unregistered, Running, Looping, Registered, control,
         admin, still, services
<1>4. ASSUME ReloadConfiguration PROVE EndedIsNotCapturing' /\ StoreOutlivesCalls'
  BY <1>4
     DEF ReloadConfiguration, EndedIsNotCapturing, StoreOutlivesCalls, PhaseInv, TypeOK,
         ThreadType, EpochType, Between, Written, Unregistered, Running, Looping,
         Registered, control, admin, still, services
<1>5. ASSUME NEW k \in {"layout", "uploads", "interval"}, Save(k) PROVE EndedIsNotCapturing' /\ StoreOutlivesCalls'
  BY <1>5
     DEF Save, Command, EndedIsNotCapturing, StoreOutlivesCalls, PhaseInv, TypeOK,
         ThreadType, EpochType, Between, Written, Unregistered, Running, Looping,
         Registered, control, admin, still, services
<1>6. ASSUME NEW c \in Callers, Acquire(c) PROVE EndedIsNotCapturing' /\ StoreOutlivesCalls'
  BY <1>6
     DEF Acquire, EndedIsNotCapturing, StoreOutlivesCalls, PhaseInv, TypeOK, ThreadType,
         EpochType, Between, Written, Unregistered, Running, Looping, Registered, control,
         admin, still, services
<1>7. ASSUME NEW c \in Callers, Release(c) PROVE EndedIsNotCapturing' /\ StoreOutlivesCalls'
  BY <1>7
     DEF Release, EndedIsNotCapturing, StoreOutlivesCalls, PhaseInv, TypeOK, ThreadType,
         EpochType, Between, Written, Unregistered, Running, Looping, Registered, control,
         admin, still, services
<1>8. ASSUME UploaderDies PROVE EndedIsNotCapturing' /\ StoreOutlivesCalls'
  BY <1>8
     DEF UploaderDies, Fault, EndedIsNotCapturing, StoreOutlivesCalls, PhaseInv, TypeOK,
         ThreadType, EpochType, Between, Written, Unregistered, Running, Looping,
         Registered, control, admin, still, services
<1>9. ASSUME BeginAttempt PROVE EndedIsNotCapturing' /\ StoreOutlivesCalls'
  BY <1>9
     DEF BeginAttempt, EndedIsNotCapturing, StoreOutlivesCalls, PhaseInv, TypeOK,
         ThreadType, EpochType, Between, Written, Unregistered, Running, Looping,
         Registered, control, admin, still, services
<1>10. ASSUME OpenCamera PROVE EndedIsNotCapturing' /\ StoreOutlivesCalls'
  BY <1>10
     DEF OpenCamera, Fault, EndedIsNotCapturing, StoreOutlivesCalls, PhaseInv, TypeOK,
         ThreadType, EpochType, Between, Written, Unregistered, Running, Looping,
         Registered, control, admin, still, services
<1>11. ASSUME StartServices PROVE EndedIsNotCapturing' /\ StoreOutlivesCalls'
  BY <1>11
     DEF StartServices, Fault, EndedIsNotCapturing, StoreOutlivesCalls, PhaseInv, TypeOK,
         ThreadType, EpochType, Between, Written, Unregistered, Running, Looping,
         Registered, control, admin, still, services
<1>12. ASSUME StartWorkers PROVE EndedIsNotCapturing' /\ StoreOutlivesCalls'
  BY <1>12
     DEF StartWorkers, Fault, Registered, Paused, EndedIsNotCapturing, StoreOutlivesCalls,
         PhaseInv, TypeOK, ThreadType, EpochType, Between, Written, Unregistered, Running,
         Looping, control, admin, still, services
<1>13. ASSUME StopCapture PROVE EndedIsNotCapturing' /\ StoreOutlivesCalls'
  BY <1>13
     DEF StopCapture, EndedIsNotCapturing, StoreOutlivesCalls, PhaseInv, TypeOK, ThreadType,
         EpochType, Between, Written, Unregistered, Running, Looping, Registered, control,
         admin, still, services
<1>14. ASSUME CaptureFails PROVE EndedIsNotCapturing' /\ StoreOutlivesCalls'
  BY <1>14
     DEF CaptureFails, Fault, EndedIsNotCapturing, StoreOutlivesCalls, PhaseInv, TypeOK,
         ThreadType, EpochType, Between, Written, Unregistered, Running, Looping,
         Registered, control, admin, still, services
<1>15. ASSUME NEW done \in BOOLEAN, SettleFrame(done) PROVE EndedIsNotCapturing' /\ StoreOutlivesCalls'
  BY <1>15
     DEF SettleFrame, FrameReceived, Paused, EndedIsNotCapturing, StoreOutlivesCalls,
         PhaseInv, TypeOK, ThreadType, EpochType, Between, Written, Unregistered, Running,
         Looping, Registered, control, admin, still, services
<1>16. ASSUME TakeReload PROVE EndedIsNotCapturing' /\ StoreOutlivesCalls'
  BY <1>16
     DEF TakeReload, EndedIsNotCapturing, StoreOutlivesCalls, PhaseInv, TypeOK, ThreadType,
         EpochType, Between, Written, Unregistered, Running, Looping, Registered, control,
         admin, still, services
<1>17. ASSUME LoadReload PROVE EndedIsNotCapturing' /\ StoreOutlivesCalls'
  BY <1>17
     DEF LoadReload, RequiresCameraRestart, RequiresRecordingReload, EndedIsNotCapturing,
         StoreOutlivesCalls, PhaseInv, TypeOK, ThreadType, EpochType, Between, Written,
         Unregistered, Running, Looping, Registered, control, admin, still, services
<1>18. ASSUME NEW kind \in {"settled", "moving"}, NEW due \in BOOLEAN, UseFrame(kind, due) PROVE EndedIsNotCapturing' /\ StoreOutlivesCalls'
  BY <1>18
     DEF UseFrame, FrameReceived, Paused, Requested, Name, Seen, EndedIsNotCapturing,
         StoreOutlivesCalls, PhaseInv, TypeOK, ThreadType, EpochType, Between, Written,
         Unregistered, Running, Looping, Registered, control, admin, still, services
<1>19. ASSUME JoinWriter PROVE EndedIsNotCapturing' /\ StoreOutlivesCalls'
  BY <1>19
     DEF JoinWriter, EndedIsNotCapturing, StoreOutlivesCalls, PhaseInv, TypeOK, ThreadType,
         EpochType, Between, Written, Unregistered, Running, Looping, Registered, control,
         admin, still, services
<1>20. ASSUME Revoke PROVE EndedIsNotCapturing' /\ StoreOutlivesCalls'
  BY <1>20
     DEF Revoke, EndedIsNotCapturing, StoreOutlivesCalls, PhaseInv, TypeOK, ThreadType,
         EpochType, Between, Written, Unregistered, Running, Looping, Registered, control,
         admin, still, services
<1>21. ASSUME Drain PROVE EndedIsNotCapturing' /\ StoreOutlivesCalls'
  BY <1>21
     DEF Drain, EndedIsNotCapturing, StoreOutlivesCalls, PhaseInv, TypeOK, ThreadType,
         EpochType, Between, Written, Unregistered, Running, Looping, Registered, control,
         admin, still, services
<1>22. ASSUME CloseServices PROVE EndedIsNotCapturing' /\ StoreOutlivesCalls'
  BY <1>22
     DEF CloseServices, EndedIsNotCapturing, StoreOutlivesCalls, PhaseInv, TypeOK,
         ThreadType, EpochType, Between, Written, Unregistered, Running, Looping,
         Registered, control, admin, still, services
<1>23. ASSUME NextEpoch PROVE EndedIsNotCapturing' /\ StoreOutlivesCalls'
  BY <1>23
     DEF NextEpoch, RequiresCameraRestart, EndedIsNotCapturing, StoreOutlivesCalls,
         PhaseInv, TypeOK, ThreadType, EpochType, Between, Written, Unregistered, Running,
         Looping, Registered, control, admin, still, services
<1>24. ASSUME StopCamera PROVE EndedIsNotCapturing' /\ StoreOutlivesCalls'
  BY <1>24
     DEF StopCamera, EndedIsNotCapturing, StoreOutlivesCalls, PhaseInv, TypeOK, ThreadType,
         EpochType, Between, Written, Unregistered, Running, Looping, Registered, control,
         admin, still, services
<1>25. ASSUME EndAttempt PROVE EndedIsNotCapturing' /\ StoreOutlivesCalls'
  BY <1>25
     DEF EndAttempt, FreshControl, FreshLoop, EndedIsNotCapturing, StoreOutlivesCalls,
         PhaseInv, TypeOK, ThreadType, EpochType, Between, Written, Unregistered, Running,
         Looping, Registered, control, admin, still, services
<1>26. ASSUME WriterSaves PROVE EndedIsNotCapturing' /\ StoreOutlivesCalls'
  BY <1>26
     DEF WriterSaves, EndedIsNotCapturing, StoreOutlivesCalls, PhaseInv, TypeOK, ThreadType,
         EpochType, Between, Written, Unregistered, Running, Looping, Registered, control,
         admin, still, services
<1>27. ASSUME WriterRecords PROVE EndedIsNotCapturing' /\ StoreOutlivesCalls'
  BY <1>27
     DEF WriterRecords, EndedIsNotCapturing, StoreOutlivesCalls, PhaseInv, TypeOK,
         ThreadType, EpochType, Between, Written, Unregistered, Running, Looping,
         Registered, control, admin, still, services
<1>28. ASSUME WriterFails PROVE EndedIsNotCapturing' /\ StoreOutlivesCalls'
  BY <1>28
     DEF WriterFails, Fault, EndedIsNotCapturing, StoreOutlivesCalls, PhaseInv, TypeOK,
         ThreadType, EpochType, Between, Written, Unregistered, Running, Looping,
         Registered, control, admin, still, services
<1>29. ASSUME WriterEnds PROVE EndedIsNotCapturing' /\ StoreOutlivesCalls'
  BY <1>29
     DEF WriterEnds, EndedIsNotCapturing, StoreOutlivesCalls, PhaseInv, TypeOK, ThreadType,
         EpochType, Between, Written, Unregistered, Running, Looping, Registered, control,
         admin, still, services
<1>30. CASE UNCHANGED vars
  BY <1>30
     DEF EndedIsNotCapturing, StoreOutlivesCalls, PhaseInv, TypeOK, ThreadType, EpochType,
         Between, Written, Unregistered, Running, Looping, Registered, vars, control, admin,
         still, services
<1> QED
  BY <1>1, <1>2, <1>3, <1>4, <1>5, <1>6, <1>7, <1>8, <1>9, <1>10, <1>11, <1>12, <1>13,
     <1>14, <1>15, <1>16, <1>17, <1>18, <1>19, <1>20, <1>21, <1>22, <1>23, <1>24, <1>25,
     <1>26, <1>27, <1>28, <1>29, <1>30
     DEF Next, Clients, CaptureThread, WriterThread, CallerThread


\* The invariant holds initially.
LEMMA InitInd == ASSUME Init PROVE IndInv
<1>1. ThreadType
  <2>1. /\ pc = "idle" /\ outcome = "ok" /\ mon = "starting" /\ attempt = 0 /\ lost = 0
        /\ grabs = 0 /\ faults = 0 /\ loop = FreshLoop
    BY DEF Init
  <2>2. frame \in BOOLEAN
    BY DEF Init
  <2>3. FreshLoop \in [settled : BOOLEAN, seen : Nat, queued : Nat, stills : Nat]
    BY DEF FreshLoop
  <2> QED
    BY <2>1, <2>2, <2>3, BoundsNat DEF ThreadType
<1>2. ControlType
  <2>1. file \in Configs /\ conf \in Configs
    BY DEF Init, Configs
  <2>2. commands = 0
    BY DEF Init
  <2>3. quiet \in BOOLEAN
    BY DEF Init
  <2>4. ctl \in [shutdown : BOOLEAN, paused : BOOLEAN, gen : 0 .. MaxCommands, reload : BOOLEAN]
    <3>1. ctl = [shutdown |-> FALSE, paused |-> FALSE, gen |-> 0, reload |-> FALSE]
      BY DEF Init, FreshControl
    <3>2. 0 \in 0 .. MaxCommands
      BY BoundsNat
    <3> QED
      BY <3>1, <3>2
  <2> QED
    BY <2>1, <2>2, <2>3, <2>4, BoundsNat DEF ControlType
<1>3. EpochType
  <2>1. calls \in [Callers -> 0 .. MaxEpochs]
    BY MaxEpochsNat DEF Init
  <2>2. dead \in BOOLEAN /\ lease \in BOOLEAN
    BY DEF Init
  <2>3. epoch = 0 /\ store = 0 /\ reg = [epoch |-> 0, accepting |-> FALSE]
    BY DEF Init
  <2>4. reg \in [epoch : 0 .. MaxEpochs, accepting : BOOLEAN]
    BY <2>3, MaxEpochsNat
  <2> QED
    BY <2>1, <2>2, <2>3, <2>4, MaxEpochsNat DEF EpochType
<1>4. StillType
  BY DEF Init, StillType
<1>5. PhaseInv
  BY DEF Init, PhaseInv, Between, Written, Running, Looping, Unregistered
<1>6. WriterInv
  BY DEF Init, WriterInv
<1>7. EpochInv
  BY DEF Init, EpochInv, One, FreshControl
<1>8. ReloadInv /\ RequestsAnsweredOnce
  BY DEF Init, ReloadInv, Looping, RequestsAnsweredOnce, FreshLoop, FreshControl
<1>9. EndedIsNotCapturing /\ StoreOutlivesCalls
  BY DEF Init, EndedIsNotCapturing, StoreOutlivesCalls
<1> QED
  BY <1>1, <1>2, <1>3, <1>4, <1>5, <1>6, <1>7, <1>8, <1>9 DEF IndInv, TypeOK

\* Every step keeps the invariant.
LEMMA NextInd == ASSUME IndInv, [Next]_vars PROVE IndInv'
<1>1. /\ TypeOK /\ PhaseInv /\ WriterInv /\ EpochInv /\ ReloadInv
      /\ RequestsAnsweredOnce /\ EndedIsNotCapturing /\ StoreOutlivesCalls
  BY DEF IndInv
<1>2. TypeOK'
  BY <1>1, NextThreadType, NextControlType, NextEpochType, NextStillType DEF TypeOK
<1>3. PhaseInv' /\ WriterInv' /\ EpochInv' /\ ReloadInv' /\ RequestsAnsweredOnce'
  BY <1>1, NextPhase, NextWriter, NextEpochs, NextReload, NextRequests
<1>4. EndedIsNotCapturing' /\ StoreOutlivesCalls'
  BY <1>1, NextCalls
<1> QED
  BY <1>2, <1>3, <1>4 DEF IndInv

\* The inductive invariant holds in every behaviour.
THEOREM Invariance == Spec => []IndInv
<1>1. Init => IndInv
  BY InitInd
<1>2. IndInv /\ [Next]_vars => IndInv'
  BY NextInd
<1> QED
  BY <1>1, <1>2, PTL DEF Spec

\* Requests are answered once, a still is only published under the ledger, an ended
\* attempt is not shown as capturing and no reload is lost, for any number of callers,
\* attempts, frames and faults.
THEOREM RecordingIsSound == Spec => []RecordingInv
<1>1. IndInv => RecordingInv
  <2> SUFFICES ASSUME IndInv PROVE RecordingInv
    OBVIOUS
  <2>1. TypeOK /\ RequestsAnsweredOnce /\ EndedIsNotCapturing
    BY DEF IndInv
  <2>2. PublicationIsFenced
    BY DEF IndInv, PhaseInv, PublicationIsFenced, Between, Written, Running, Looping
  <2>3. NoLostReload
    BY DEF IndInv, ReloadInv, NoLostReload
  <2> QED
    BY <2>1, <2>2, <2>3 DEF RecordingInv
<1> QED
  BY <1>1, Invariance, PTL

\* A call of the upload administration never works on a closed store.
THEOREM CallsHaveStore == Spec => []StoreOutlivesCalls
<1>1. IndInv => StoreOutlivesCalls
  BY DEF IndInv
<1> QED
  BY <1>1, Invariance, PTL

\* Every still an epoch queued is a file, and a ledger row when it uploads, once its
\* writer has stopped without failing.
THEOREM NothingQueuedIsLost == Spec => []QueuedIsSaved
<1>1. IndInv => QueuedIsSaved
  <2> SUFFICES ASSUME IndInv, NEW n \in sent, n.epoch \notin failed,
                      n.epoch # epoch \/ pc \notin Running \cup {"join"}
               PROVE  Stored(n)
    BY DEF QueuedIsSaved, Stored
  <2>1. writer.st = "run" => pc \in Running \cup {"join"}
    BY DEF IndInv, PhaseInv, Written
  <2> QED
    BY <2>1 DEF IndInv, WriterInv
<1> QED
  BY <1>1, Invariance, PTL

=============================================================================
