------------------------- MODULE UploadOutbox_proofs -------------------------
(* Machine-checked proofs about UploadOutbox, for every value of its constants. *)
EXTENDS UploadOutbox, FiniteSetTheorems, TLAPS

USE OutboxAssumption

(***************************************************************************)
(* Types.                                                                   *)
(***************************************************************************)

\* An UPDATE of a row yields a row with the same identity, one revision later.
LEMMA MovedRow ==
    ASSUME NEW row \in Row, NEW state \in UploadState
    PROVE  /\ Moved(row, state) \in Row
           /\ Moved(row, state).state = state
           /\ Moved(row, state).rev = row.rev + 1
           /\ Moved(row, state).attempt = row.attempt
           /\ Moved(row, state).sha = row.sha
           /\ Moved(row, state).binding = row.binding
<1>1. [row EXCEPT !.state = state, !.next = 0] \in Row
  BY DEF Row
<1>2. row.rev + 1 \in Nat
  BY DEF Row
<1>3. \A r \in Row, n \in Nat : [r EXCEPT !.rev = n] \in Row
  BY DEF Row
<1>4. Moved(row, state) = [[row EXCEPT !.state = state, !.next = 0] EXCEPT !.rev = row.rev + 1]
  BY DEF Moved, Row
<1>5. Moved(row, state) \in Row
  BY <1>1, <1>2, <1>3, <1>4
<1> QED
  BY <1>5 DEF Moved, Row

\* The other row operators map rows to rows and keep the identity.
LEMMA RowOperators ==
    ASSUME NEW row \in Row, NEW deadline \in Nat
    PROVE  /\ Claimed(row) \in Row /\ Claimed(row).state = "in_progress"
           /\ Claimed(row).attempt = row.attempt + 1
           /\ Claimed(row).sha = row.sha /\ Claimed(row).binding = row.binding
           /\ Retrying(row, deadline) \in Row /\ Retrying(row, deadline).state = "retrying"
           /\ Retrying(row, deadline).attempt = row.attempt
           /\ Retrying(row, deadline).sha = row.sha
           /\ Retrying(row, deadline).binding = row.binding
           /\ Requeued(row) \in Row /\ Requeued(row).state = "pending"
           /\ Requeued(row).attempt = row.attempt
           /\ Requeued(row).sha = row.sha /\ Requeued(row).binding = row.binding
           /\ Recovered(row) \in Row
<1>1. /\ Moved(row, "in_progress") \in Row /\ Moved(row, "retrying") \in Row
      /\ Moved(row, "pending") \in Row
  BY MovedRow DEF UploadState, LiveStates
<1>2. /\ Claimed(row) \in Row /\ Claimed(row).state = "in_progress"
      /\ Claimed(row).attempt = row.attempt + 1
      /\ Claimed(row).sha = row.sha /\ Claimed(row).binding = row.binding
  <2>1. Claimed(row) \in Row
    BY <1>1 DEF Row, Claimed
  <2> QED
    BY <2>1 DEF Moved, Row, Claimed
<1>3. /\ Retrying(row, deadline) \in Row /\ Retrying(row, deadline).state = "retrying"
      /\ Retrying(row, deadline).attempt = row.attempt
      /\ Retrying(row, deadline).sha = row.sha
      /\ Retrying(row, deadline).binding = row.binding
  BY <1>1 DEF Retrying, Moved, Row
<1>4. /\ Requeued(row) \in Row /\ Requeued(row).state = "pending"
      /\ Requeued(row).attempt = row.attempt
      /\ Requeued(row).sha = row.sha /\ Requeued(row).binding = row.binding
  <2>1. Requeued(row) \in Row
    BY <1>1 DEF Row, Requeued
  <2> QED
    BY <2>1 DEF Moved, Row, Requeued
<1>5. Recovered(row) \in Row
  BY <1>1 DEF Recovered
<1> QED
  BY <1>2, <1>3, <1>4, <1>5

\* Whatever the outcome of a request, it turns a row into a row with the same
\* identity.
LEMMA OutcomeRow ==
    ASSUME TypeOK, NEW row \in Row, NEW delay \in RetryDelays,
           NEW outcome \in {"none", "success", "retry", "permanent"}
    PROVE  Outcome(row, outcome, delay) \in Row
<1>1. now + delay \in Nat
  BY DEF TypeOK
<1> QED
  BY <1>1, RowOperators, MovedRow DEF Outcome, UploadState

\* An inserted row is a row, when the file to record is there and a ledger is open.
LEMMA NewRowType ==
    ASSUME TypeOK, NEW sha \in Contents \cup {None}
    PROVE  NewRow(sha) \in Row
BY DEF TypeOK, NewRow, Row, UploadState, LiveStates

\* The initial state is well typed.
LEMMA InitType == Init => TypeOK
<1>1. NoRow \in Row
  BY DEF NoRow, Row
<1>2. NoClaim \in Claim
  BY DEF NoClaim, Claim
<1>3. Protected \in Binding
  BY DEF Protected, Binding
<1> SUFFICES ASSUME Init PROVE TypeOK
  OBVIOUS
<1>4. job \in [Artifacts -> Row] /\ classified \in [Artifacts -> Binding] /\ claim \in Claim
  BY <1>1, <1>2, <1>3 DEF Init
<1>5. /\ files \in [Artifacts -> Contents \cup {None}]
      /\ receipt \in [Artifacts -> Contents \cup {None}]
      /\ owner \in [Artifacts -> Auths \cup {None}]
  BY DEF Init
<1> QED
  BY <1>4, <1>5 DEF Init, TypeOK

\* The endpoint's record is well typed because of what a claim is known to hold,
\* so the type invariant is inductive only together with IndInv.
LEMMA NextType == TypeOK /\ IndInv /\ [Next]_vars => TypeOK'
<1> SUFFICES ASSUME TypeOK, IndInv, [Next]_vars PROVE TypeOK'
  OBVIOUS
<1> USE DEF disk, ledger, threads, ghosts
<1>1. CASE \E f \in Auths : Open(f)
  BY <1>1 DEF Open, TypeOK
<1>2. CASE RecoverInterruptedJobs
  <2>1. \A a \in Artifacts : Recovered(job[a]) \in Row
    BY RowOperators DEF TypeOK
  <2> QED
    BY <1>2, <2>1 DEF RecoverInterruptedJobs, TypeOK
<1>3. CASE ReconcileScan
  BY <1>3 DEF ReconcileScan, TypeOK
<1>4. ASSUME NEW a \in Artifacts, ReconcileRecord(a) PROVE TypeOK'
  <2>1. NewRow(files[a]) \in Row
    BY NewRowType DEF TypeOK
  <2> QED
    BY <1>4, <2>1 DEF ReconcileRecord, Insert, TypeOK
<1>5. CASE Serve
  BY <1>5 DEF Serve, TypeOK
<1>6. CASE WorkerExit
  BY <1>6 DEF WorkerExit, TypeOK
<1>7. ASSUME NEW a \in Artifacts, ClaimDue(a) PROVE TypeOK'
  <2>1. Claimed(job[a]) \in Row /\ job[a].attempt + 1 \in Nat
        /\ job[a].sha \in Contents \cup {None}
    BY RowOperators DEF TypeOK, Row
  <2>2. [artifact |-> a, attempt |-> job[a].attempt + 1, sha |-> job[a].sha,
         outcome |-> "none"] \in Claim
    BY <2>1 DEF Claim
  <2>3. job' \in [Artifacts -> Row] /\ claim' \in Claim
    BY <1>7, <2>1, <2>2 DEF ClaimDue, TypeOK
  <2> QED
    BY <1>7, <2>3 DEF ClaimDue, TypeOK
<1>8. CASE ReleaseClaim
  <2>1. job' \in [Artifacts -> Row]
    <3>1. CASE claim.artifact \in Artifacts
      <4>1. Moved(job[claim.artifact], "pending") \in Row
        BY <3>1, MovedRow DEF TypeOK, UploadState, LiveStates
      <4> QED
        BY <1>8, <4>1 DEF ReleaseClaim, TypeOK
    <3>2. CASE claim.artifact \notin Artifacts
      BY <1>8, <3>2 DEF ReleaseClaim, TypeOK
    <3> QED
      BY <3>1, <3>2
  <2> QED
    BY <1>8, <2>1 DEF ReleaseClaim, TypeOK, NoClaim, Claim
<1>9. CASE Upload
  <2>1. \A o \in {"success", "retry", "permanent"} : [claim EXCEPT !.outcome = o] \in Claim
    BY DEF TypeOK, Claim
  <2>2. claim' \in Claim
    BY <1>9, <2>1 DEF Upload, Exchanges
  <2>3. claim.artifact \in Artifacts /\ claim.sha \in Contents /\ auth \in Auths
    <3>1. worker = "claimed"
      BY <1>9 DEF Upload
    <3>2. claim.artifact \in Artifacts /\ Recorded(claim.artifact)
      BY <3>1 DEF IndInv, ClaimIsExclusive, StillClaimed, Recorded
    <3>3. claim.sha \in Contents
      BY <3>1, <3>2 DEF IndInv, ClaimInv, RowInv
    <3> QED
      BY <3>1, <3>2, <3>3 DEF IndInv, PhaseInv, TypeOK
  <2>4. SnapshotVerified => <<claim.artifact, files[claim.artifact], auth>>
                              \in Artifacts \X Contents \X Auths
    BY <2>3 DEF SnapshotVerified
  <2>5. received' \subseteq Artifacts \X Contents \X Auths
    BY <1>9, <2>4 DEF Upload, TypeOK
  <2> QED
    BY <1>9, <2>2, <2>5 DEF Upload, TypeOK
<1>10. ASSUME NEW d \in RetryDelays, PersistOutcome(d) PROVE TypeOK'
  <2>1. job' \in [Artifacts -> Row]
    <3>1. CASE claim.artifact \in Artifacts
      <4>1. Outcome(job[claim.artifact], claim.outcome, d) \in Row
        BY <3>1, OutcomeRow DEF TypeOK, Claim
      <4> QED
        BY <1>10, <4>1 DEF PersistOutcome, TypeOK
    <3>2. CASE claim.artifact \notin Artifacts
      BY <1>10, <3>2 DEF PersistOutcome, TypeOK
    <3> QED
      BY <3>1, <3>2
  <2> QED
    BY <1>10, <2>1 DEF PersistOutcome, TypeOK, NoClaim, Claim
<1>11. CASE StartDisabled
  BY <1>11 DEF StartDisabled, Disturb, TypeOK
<1>12. ASSUME NEW a \in Artifacts, NEW bytes \in Contents, Publish(a, bytes) PROVE TypeOK'
  BY <1>12 DEF Publish, TypeOK
<1>13. ASSUME NEW a \in Artifacts, ReofferMovie(a) PROVE TypeOK'
  BY <1>13 DEF ReofferMovie, TypeOK
<1>14. ASSUME NEW a \in Artifacts, TryEnqueue(a) PROVE TypeOK'
  <2>1. NewRow(files[a]) \in Row
    BY NewRowType DEF TypeOK
  <2>2. job' \in [Artifacts -> Row] /\ nextId' \in Nat
    BY <1>14, <2>1 DEF TryEnqueue, Insert, TypeOK
  <2>3. done' \subseteq Movies /\ stop' \in BOOLEAN /\ inflight' \subseteq Artifacts
    BY <1>14 DEF TryEnqueue, TypeOK
  <2> QED
    BY <1>14, <2>2, <2>3 DEF TryEnqueue, TypeOK
<1>15. ASSUME NEW a \in Artifacts, TryEnqueueFails(a) PROVE TypeOK'
  BY <1>15 DEF TryEnqueueFails, Disturb, TypeOK
<1>16. ASSUME NEW a \in Artifacts, FinishLocal(a) PROVE TypeOK'
  BY <1>16 DEF FinishLocal, TypeOK
<1>17. ASSUME NEW a \in Artifacts, ConfirmRequeue(a) PROVE TypeOK'
  BY <1>17 DEF ConfirmRequeue, TypeOK, Row
<1>18. ASSUME NEW a \in Artifacts, NEW r \in confirmed, Requeue(a, r[2]) PROVE TypeOK'
  <2>1. Requeued(job[a]) \in Row
    BY RowOperators DEF TypeOK
  <2> QED
    BY <1>18, <2>1 DEF Requeue, TypeOK
<1>19. ASSUME NEW a \in Artifacts, Reclaim(a) PROVE TypeOK'
  <2>1. Protected \in Binding
    BY DEF Protected, Binding
  <2>2. classified' \in [Artifacts -> Binding]
    BY <1>19, <2>1 DEF Reclaim, TypeOK
  <2>3. files' \in [Artifacts -> Contents \cup {None}]
    BY <1>19 DEF Reclaim, TypeOK
  <2>4. Recorded(a) \in BOOLEAN
    BY DEF Recorded
  <2>5. DeleteExact(a, classified[a]) => files[a] \in Contents
    BY DEF DeleteExact, TypeOK
  <2>6. reclaimed' \subseteq Artifacts \X Contents \X BOOLEAN
    BY <1>19, <2>4, <2>5 DEF Reclaim, TypeOK
  <2> QED
    BY <1>19, <2>2, <2>3, <2>6 DEF Reclaim, TypeOK
<1>20. ASSUME NEW a \in Artifacts, ReclaimLocal(a) PROVE TypeOK'
  BY <1>20 DEF ReclaimLocal, LocalOnly, Recorded, TypeOK
<1>21. ASSUME NEW a \in Artifacts, NEW bytes \in Contents \cup {None}, EditFile(a, bytes)
       PROVE TypeOK'
  BY <1>21 DEF EditFile, Disturb, TypeOK
<1>22. CASE ClassifyInventory
  <2>1. \A a \in Artifacts : RetentionBinding(a) \in Binding
    BY DEF RetentionBinding, Binding, Protected, TypeOK, Row
  <2> QED
    BY <1>22, <2>1 DEF ClassifyInventory, TypeOK, Protected, Binding
<1>23. CASE WorkerFails
  BY <1>23 DEF WorkerFails, Disturb, TypeOK, NoClaim, Claim
<1>24. CASE StopServices
  BY <1>24 DEF StopServices, Disturb, TypeOK, Protected, Binding
<1>25. CASE Closed
  BY <1>25 DEF Closed, TypeOK
<1>26. CASE StopDisabled
  BY <1>26 DEF StopDisabled, TypeOK
<1>27. CASE Crash
  <2>1. Protected \in Binding /\ NoClaim \in Claim
    BY DEF Protected, Binding, NoClaim, Claim
  <2>2. classified' \in [Artifacts -> Binding] /\ claim' \in Claim
    BY <1>27, <2>1 DEF Crash
  <2>3. disturbances' \in Nat
    BY <1>27 DEF Crash, Disturb, TypeOK
  <2>4. /\ phase' = "down" /\ inflight' = {} /\ scan' = {} /\ stop' = FALSE /\ worker' = "off"
        /\ UNCHANGED <<files, receipt, done, activated, auth, pre, job, nextId, now, confirmed,
                       received, reclaimed, owner>>
    BY <1>27 DEF Crash
  <2> QED
    BY <2>2, <2>3, <2>4 DEF TypeOK
<1>28. CASE Tick
  BY <1>28 DEF Tick, TypeOK
<1>29. CASE ClockBack
  BY <1>29 DEF ClockBack, Disturb, TypeOK
<1>30. CASE UNCHANGED vars
  BY <1>30 DEF vars, TypeOK
<1> QED
  BY <1>1, <1>2, <1>3, <1>4, <1>5, <1>6, <1>7, <1>8, <1>9, <1>10, <1>11, <1>12, <1>13, <1>14,
     <1>15, <1>16, <1>17, <1>18, <1>19, <1>20, <1>21, <1>22, <1>23, <1>24, <1>25, <1>26, <1>27,
     <1>28, <1>29, <1>30
  DEF Next, StartStep, WorkerStep

(***************************************************************************)
(* The inductive invariant.                                                 *)
(***************************************************************************)

\* Before the first start there is no row, no claim and nothing received.
LEMMA InitInd == Init => IndInv
<1> SUFFICES ASSUME Init PROVE IndInv
  OBVIOUS
<1>1. \A a \in Artifacts : ~Recorded(a) /\ ~Live(a)
  BY DEF Init, NoRow, Recorded, Live, LiveStates
<1>2. PhaseInv
  BY <1>1 DEF Init, PhaseInv, NoRow
<1>3. RowInv /\ OwnerInv
  BY <1>1 DEF Init, RowInv, OwnerInv
<1>4. ClaimInv /\ ClaimIsExclusive
  BY DEF Init, ClaimInv, ClaimIsExclusive
<1>5. LiveRowsAreCurrent /\ OneBodyPerKey /\ CompletedWasReceived /\ AcknowledgedBeforeReclaim
  BY <1>1 DEF Init, LiveRowsAreCurrent, OneBodyPerKey, CompletedWasReceived,
              AcknowledgedBeforeReclaim, NoRow
<1> QED
  BY <1>2, <1>3, <1>4, <1>5 DEF IndInv

\* Steps that leave the disk, the ledger and the endpoint alone preserve every
\* part that does not speak of the epoch's threads.
LEMMA LedgerFrame ==
    ASSUME IndInv,
           UNCHANGED <<files, receipt, activated, auth, pre, job, received, reclaimed, owner>>
    PROVE  /\ RowInv' /\ OwnerInv' /\ LiveRowsAreCurrent' /\ OneBodyPerKey'
           /\ CompletedWasReceived' /\ AcknowledgedBeforeReclaim'
<1>1. RowInv' /\ OwnerInv'
  BY DEF IndInv, RowInv, OwnerInv, Recorded, CrashGap
<1>2. LiveRowsAreCurrent' /\ OneBodyPerKey'
  BY DEF IndInv, LiveRowsAreCurrent, OneBodyPerKey, Live, Recorded
<1>3. CompletedWasReceived' /\ AcknowledgedBeforeReclaim'
  BY DEF IndInv, CompletedWasReceived, AcknowledgedBeforeReclaim
<1> QED
  BY <1>1, <1>2, <1>3

\* Steps that leave the epoch's threads alone as well preserve all of it.
LEMMA ThreadFrame ==
    ASSUME IndInv,
           UNCHANGED <<files, receipt, activated, auth, pre, job, received, reclaimed, owner>>,
           UNCHANGED <<phase, scan, worker, claim>>
    PROVE  IndInv'
<1>1. PhaseInv' /\ ClaimInv' /\ ClaimIsExclusive'
  BY DEF IndInv, PhaseInv, ClaimInv, ClaimIsExclusive, StillClaimed, Recorded
<1> QED
  BY <1>1, LedgerFrame DEF IndInv

\* Recording a file of the open ledger that has no row yet, whoever does it.
LEMMA InsertInd ==
    ASSUME TypeOK, IndInv, NEW a \in Artifacts, ~Recorded(a), files[a] # None, activated, Insert(a),
           UNCHANGED <<files, receipt, activated, auth, pre, received, reclaimed, owner>>
    PROVE  /\ RowInv' /\ OwnerInv' /\ LiveRowsAreCurrent' /\ OneBodyPerKey'
           /\ CompletedWasReceived' /\ AcknowledgedBeforeReclaim'
           /\ Recorded(a)' /\ job'[a].state = "pending"
           /\ \A b \in Artifacts \ {a} : job'[b] = job[b]
<1>1. /\ job'[a].state = "pending" /\ job'[a].sha = files[a] /\ job'[a].binding = auth
      /\ \A b \in Artifacts \ {a} : job'[b] = job[b]
  BY DEF Insert, NewRow, TypeOK
<1>2. files[a] \in Contents /\ auth \in Auths
  BY DEF TypeOK, IndInv, PhaseInv
<1>3. RowInv'
  BY <1>1, <1>2 DEF IndInv, RowInv, Recorded
<1>4. OwnerInv'
  BY <1>1 DEF IndInv, OwnerInv, Recorded, CrashGap
<1>5. LiveRowsAreCurrent'
  BY <1>1 DEF IndInv, LiveRowsAreCurrent, Live
<1>6. OneBodyPerKey'
  <2>1. \A r \in received : r[1] \in Artifacts /\ r[1] # a
    BY DEF TypeOK, IndInv, OneBodyPerKey
  <2> QED
    BY <1>1, <2>1 DEF IndInv, OneBodyPerKey, Recorded
<1>7. CompletedWasReceived' /\ AcknowledgedBeforeReclaim'
  BY <1>1 DEF IndInv, CompletedWasReceived, AcknowledgedBeforeReclaim
<1> QED
  BY <1>1, <1>3, <1>4, <1>5, <1>6, <1>7 DEF Recorded

\* One UPDATE of one row that keeps its identity; a row becomes live only for the
\* account in force, and completed only for bytes the endpoint has.
LEMMA MoveInd ==
    ASSUME TypeOK, IndInv, NEW a \in Artifacts, Recorded(a), NEW row \in Row,
           row.sha = job[a].sha, row.binding = job[a].binding,
           row.state # "none", row.state \in LiveStates => row.binding = auth,
           row.state = "completed" => <<a, row.sha, row.binding>> \in received,
           job' = [job EXCEPT ![a] = row],
           UNCHANGED <<files, receipt, activated, auth, pre, received, reclaimed, owner>>
    PROVE  /\ RowInv' /\ OwnerInv' /\ LiveRowsAreCurrent' /\ OneBodyPerKey'
           /\ CompletedWasReceived' /\ AcknowledgedBeforeReclaim'
           /\ job'[a] = row
           /\ \A b \in Artifacts \ {a} : job'[b] = job[b]
           /\ \A b \in Artifacts : Recorded(b)' = Recorded(b)
<1>1. job'[a] = row /\ \A b \in Artifacts \ {a} : job'[b] = job[b]
  BY DEF TypeOK
<1>2. \A b \in Artifacts : /\ Recorded(b)' <=> Recorded(b)
                           /\ job'[b].sha = job[b].sha /\ job'[b].binding = job[b].binding
  BY <1>1 DEF Recorded
<1>3. RowInv' /\ OwnerInv'
  BY <1>2 DEF IndInv, RowInv, OwnerInv, CrashGap
<1>4. LiveRowsAreCurrent'
  BY <1>1 DEF IndInv, LiveRowsAreCurrent, Live
<1>5. OneBodyPerKey'
  <2>1. \A r \in received : r[1] \in Artifacts
    BY DEF TypeOK
  <2> QED
    BY <1>2, <2>1 DEF IndInv, OneBodyPerKey
<1>6. CompletedWasReceived' /\ AcknowledgedBeforeReclaim'
  BY <1>1 DEF IndInv, CompletedWasReceived, AcknowledgedBeforeReclaim
<1>7. \A b \in Artifacts : Recorded(b)' = Recorded(b)
  BY <1>2 DEF Recorded
<1> QED
  BY <1>1, <1>3, <1>4, <1>5, <1>6, <1>7

\* Every ledger operation, thread step, crash and operator edit preserves the
\* inductive invariant: one step per action, by the lemmas above.
LEMMA NextInd == TypeOK /\ IndInv /\ [Next]_vars => IndInv'
<1> SUFFICES ASSUME TypeOK, IndInv, [Next]_vars PROVE IndInv'
  OBVIOUS
<1> USE DEF disk, ledger, threads, ghosts
<1>1. ASSUME NEW f \in Auths, Open(f) PROVE IndInv'
  <2>1. /\ phase = "down" /\ phase' = "opened" /\ activated' = TRUE /\ auth' = f
        /\ activated /\ f # auth => ~RotationRefused
        /\ pre' = IF activated THEN pre ELSE {a \in Artifacts : files[a] # None}
        /\ UNCHANGED <<files, receipt, job, scan, worker, claim, received, reclaimed, owner>>
    BY <1>1 DEF Open
  <2>2. worker = "off" /\ scan = {}
    BY <2>1 DEF IndInv, PhaseInv
  <2>3. PhaseInv' /\ ClaimInv' /\ ClaimIsExclusive'
    BY <2>1, <2>2 DEF PhaseInv, ClaimInv, ClaimIsExclusive
  <2>4. RowInv'
    BY <2>1 DEF IndInv, RowInv, Recorded
  <2>5. OwnerInv'
    BY <2>1 DEF IndInv, PhaseInv, OwnerInv, RotationRefused, CrashGap, Recorded
  <2>6. LiveRowsAreCurrent'
    BY <2>1 DEF IndInv, PhaseInv, RowInv, LiveRowsAreCurrent, RotationRefused, Live, LiveStates,
                Recorded
  <2>7. OneBodyPerKey' /\ CompletedWasReceived'
    BY <2>1 DEF IndInv, OneBodyPerKey, CompletedWasReceived, Recorded
  <2>8. AcknowledgedBeforeReclaim'
    BY <2>1 DEF IndInv, PhaseInv, AcknowledgedBeforeReclaim
  <2> QED
    BY <2>3, <2>4, <2>5, <2>6, <2>7, <2>8 DEF IndInv
<1>2. CASE RecoverInterruptedJobs
  <2>1. /\ phase = "opened" /\ phase' = "recovered"
        /\ UNCHANGED <<files, receipt, activated, auth, pre, scan, worker, claim, received,
                       reclaimed, owner>>
    BY <1>2 DEF RecoverInterruptedJobs
  <2>2. \A a \in Artifacts : /\ job'[a].sha = job[a].sha /\ job'[a].binding = job[a].binding
                             /\ Recorded(a)' <=> Recorded(a)
                             /\ Live(a)' <=> Live(a)
                             /\ job'[a].state # "in_progress"
                             /\ job'[a].state = "completed" <=> job[a].state = "completed"
    <3> SUFFICES ASSUME NEW a \in Artifacts
                 PROVE  /\ job'[a].sha = job[a].sha /\ job'[a].binding = job[a].binding
                        /\ Recorded(a)' <=> Recorded(a)
                        /\ Live(a)' <=> Live(a)
                        /\ job'[a].state # "in_progress"
                        /\ job'[a].state = "completed" <=> job[a].state = "completed"
      OBVIOUS
    <3>1. job[a] \in Row /\ job'[a] = Recovered(job[a])
      BY <1>2 DEF RecoverInterruptedJobs, TypeOK
    <3>2. CASE job[a].state = "in_progress"
      BY <3>1, <3>2, MovedRow DEF Recovered, Recorded, Live, LiveStates, UploadState
    <3>3. CASE job[a].state # "in_progress"
      BY <3>1, <3>3 DEF Recovered, Recorded, Live
    <3> QED
      BY <3>2, <3>3
  <2>3. worker = "off" /\ scan = {}
    BY <2>1 DEF IndInv, PhaseInv
  <2>4. PhaseInv' /\ ClaimInv' /\ ClaimIsExclusive'
    BY <2>1, <2>2, <2>3 DEF IndInv, PhaseInv, ClaimInv, ClaimIsExclusive
  <2>5. RowInv' /\ OwnerInv'
    BY <2>1, <2>2 DEF IndInv, RowInv, OwnerInv, CrashGap
  <2>6. LiveRowsAreCurrent'
    BY <2>1, <2>2 DEF IndInv, LiveRowsAreCurrent
  <2>7. OneBodyPerKey'
    <3>1. \A r \in received : r[1] \in Artifacts
      BY DEF TypeOK
    <3> QED
      BY <2>1, <2>2, <3>1 DEF IndInv, OneBodyPerKey
  <2>8. CompletedWasReceived' /\ AcknowledgedBeforeReclaim'
    BY <2>1, <2>2 DEF IndInv, CompletedWasReceived, AcknowledgedBeforeReclaim
  <2> QED
    BY <2>4, <2>5, <2>6, <2>7, <2>8 DEF IndInv
<1>3. CASE ReconcileScan
  <2>1. PhaseInv' /\ ClaimInv' /\ ClaimIsExclusive'
    BY <1>3 DEF ReconcileScan, IndInv, PhaseInv, ClaimInv, ClaimIsExclusive, CrashGap, Recorded
  <2> QED
    BY <1>3, <2>1, LedgerFrame DEF ReconcileScan, IndInv
<1>4. ASSUME NEW a \in Artifacts, ReconcileRecord(a) PROVE IndInv'
  <2>1. worker = "off" /\ activated /\ ~Recorded(a)
    BY <1>4 DEF ReconcileRecord, IndInv, PhaseInv
  <2>2. ClaimInv' /\ ClaimIsExclusive'
    BY <1>4, <2>1 DEF ReconcileRecord, ClaimInv, ClaimIsExclusive
  <2>3. CASE files[a] = None
    <3>1. PhaseInv'
      BY <1>4, <2>1, <2>3 DEF ReconcileRecord, IndInv, PhaseInv
    <3> QED
      BY <1>4, <2>2, <2>3, <3>1, LedgerFrame DEF ReconcileRecord, IndInv
  <2>4. CASE files[a] # None
    <3>1. /\ Insert(a) /\ scan' = scan \ {a} /\ phase' = "reconciling"
          /\ UNCHANGED <<files, receipt, activated, auth, pre, worker, received, reclaimed, owner>>
      BY <1>4, <2>4 DEF ReconcileRecord
    <3>2. /\ RowInv' /\ OwnerInv' /\ LiveRowsAreCurrent' /\ OneBodyPerKey'
          /\ CompletedWasReceived' /\ AcknowledgedBeforeReclaim'
          /\ job'[a].state = "pending" /\ \A b \in Artifacts \ {a} : job'[b] = job[b]
      BY <2>1, <2>4, <3>1, InsertInd
    <3>3. PhaseInv'
      BY <1>4, <2>1, <3>1, <3>2 DEF ReconcileRecord, IndInv, PhaseInv, Recorded, TypeOK
    <3> QED
      BY <2>2, <3>2, <3>3 DEF IndInv
  <2> QED
    BY <2>3, <2>4
<1>5. CASE Serve
  <2>1. PhaseInv' /\ ClaimInv' /\ ClaimIsExclusive'
    BY <1>5 DEF Serve, IndInv, PhaseInv, ClaimInv, ClaimIsExclusive
  <2> QED
    BY <1>5, <2>1, LedgerFrame DEF Serve, IndInv
<1>6. CASE WorkerExit
  <2>1. PhaseInv' /\ ClaimInv' /\ ClaimIsExclusive'
    BY <1>6 DEF WorkerExit, IndInv, PhaseInv, ClaimInv, ClaimIsExclusive, Recorded
  <2> QED
    BY <1>6, <2>1, LedgerFrame DEF WorkerExit, IndInv
<1>7. ASSUME NEW a \in Artifacts, ClaimDue(a) PROVE IndInv'
  <2>1. Live(a) /\ job[a].binding = auth /\ worker = "poll" /\ job[a] \in Row
    BY <1>7 DEF ClaimDue, IsNextDue, IndInv, LiveRowsAreCurrent, Live, LiveStates, TypeOK
  <2>2. /\ job' = [job EXCEPT ![a] = Claimed(job[a])] /\ worker' = "claimed"
        /\ claim' = [artifact |-> a, attempt |-> job[a].attempt + 1, sha |-> job[a].sha,
                     outcome |-> "none"]
        /\ UNCHANGED <<files, receipt, activated, auth, pre, phase, scan, received, reclaimed,
                       owner>>
    BY <1>7, <2>1 DEF ClaimDue
  <2>3. /\ Claimed(job[a]) \in Row /\ Claimed(job[a]).state = "in_progress"
        /\ Claimed(job[a]).attempt = job[a].attempt + 1
        /\ Claimed(job[a]).sha = job[a].sha /\ Claimed(job[a]).binding = job[a].binding
    BY <2>1, RowOperators
  <2>4. /\ RowInv' /\ OwnerInv' /\ LiveRowsAreCurrent' /\ OneBodyPerKey'
        /\ CompletedWasReceived' /\ AcknowledgedBeforeReclaim'
        /\ job'[a] = Claimed(job[a]) /\ \A b \in Artifacts \ {a} : job'[b] = job[b]
        /\ \A b \in Artifacts : Recorded(b)' = Recorded(b)
    BY <2>1, <2>2, <2>3, MoveInd DEF Live, LiveStates, Recorded
  <2>5. ClaimInv' /\ ClaimIsExclusive'
    BY <2>1, <2>2, <2>3, <2>4 DEF IndInv, ClaimInv, ClaimIsExclusive, StillClaimed
  <2>6. PhaseInv'
    BY <2>1, <2>2, <2>4 DEF IndInv, PhaseInv
  <2> QED
    BY <2>4, <2>5, <2>6 DEF IndInv
<1>8. CASE ReleaseClaim
  <2>1. /\ worker = "claimed" /\ worker' = "off" /\ claim.artifact \in Artifacts
        /\ StillClaimed(job[claim.artifact], claim)
        /\ phase \in {"running", "closing"} /\ scan = {}
    BY <1>8 DEF ReleaseClaim, IndInv, ClaimIsExclusive, PhaseInv
  <2>2. /\ job' = [job EXCEPT ![claim.artifact] = Moved(job[claim.artifact], "pending")]
        /\ UNCHANGED <<files, receipt, activated, auth, pre, phase, scan, received, reclaimed,
                       owner>>
    BY <1>8, <2>1 DEF ReleaseClaim
  <2>3. job[claim.artifact] \in Row /\ Live(claim.artifact) /\ Recorded(claim.artifact)
        /\ job[claim.artifact].binding = auth
    BY <2>1 DEF TypeOK, StillClaimed, Live, LiveStates, Recorded, IndInv, LiveRowsAreCurrent
  <2>4. /\ RowInv' /\ OwnerInv' /\ LiveRowsAreCurrent' /\ OneBodyPerKey'
        /\ CompletedWasReceived' /\ AcknowledgedBeforeReclaim'
        /\ \A b \in Artifacts : Recorded(b)' = Recorded(b)
    <3> DEFINE new == Moved(job[claim.artifact], "pending")
    <3>1. /\ new \in Row /\ new.state = "pending" /\ new.sha = job[claim.artifact].sha
          /\ new.binding = job[claim.artifact].binding
      BY <2>3, MovedRow DEF UploadState, LiveStates
    <3>2. job' = [job EXCEPT ![claim.artifact] = new]
      BY <2>2
    <3> HIDE DEF new
    <3> QED
      BY <2>1, <2>2, <2>3, <3>1, <3>2, MoveInd
  <2>5. PhaseInv' /\ ClaimInv' /\ ClaimIsExclusive'
    BY <2>1, <2>2 DEF IndInv, PhaseInv, ClaimInv, ClaimIsExclusive
  <2> QED
    BY <2>4, <2>5 DEF IndInv
<1>9. CASE Upload
  <2>1. /\ worker = "claimed" /\ worker' = "answered" /\ claim.artifact \in Artifacts
        /\ claim'.artifact = claim.artifact /\ claim'.sha = claim.sha
        /\ claim'.attempt = claim.attempt
        /\ UNCHANGED <<files, receipt, activated, auth, pre, job, phase, scan, reclaimed, owner>>
    BY <1>9 DEF Upload, IndInv, ClaimIsExclusive, TypeOK, Claim
  <2>2. /\ Recorded(claim.artifact) /\ job[claim.artifact].sha = claim.sha
        /\ job[claim.artifact].binding = auth
    BY <2>1 DEF IndInv, ClaimIsExclusive, ClaimInv, StillClaimed, Recorded, LiveRowsAreCurrent,
                Live, LiveStates
  <2>3. /\ received \subseteq received'
        /\ received' \subseteq received \cup {<<claim.artifact, claim.sha, auth>>}
        /\ claim'.outcome = "success" => <<claim.artifact, claim.sha, auth>> \in received'
    BY <1>9 DEF Upload, SnapshotVerified, Exchanges, TypeOK, Claim
  <2>4. RowInv' /\ OwnerInv' /\ LiveRowsAreCurrent'
    BY <2>1 DEF IndInv, RowInv, OwnerInv, LiveRowsAreCurrent, Recorded, CrashGap, Live
  <2>5. OneBodyPerKey'
    BY <2>1, <2>2, <2>3 DEF IndInv, OneBodyPerKey, Recorded
  <2>6. CompletedWasReceived'
    BY <2>1, <2>3 DEF IndInv, CompletedWasReceived
  <2>7. AcknowledgedBeforeReclaim'
    BY <2>1, <2>3 DEF IndInv, AcknowledgedBeforeReclaim
  <2>8. ClaimInv'
    BY <2>1, <2>2, <2>3 DEF ClaimInv
  <2>9. PhaseInv' /\ ClaimIsExclusive'
    BY <2>1 DEF IndInv, PhaseInv, ClaimIsExclusive, StillClaimed, Recorded
  <2> QED
    BY <2>4, <2>5, <2>6, <2>7, <2>8, <2>9 DEF IndInv
<1>10. ASSUME NEW d \in RetryDelays, PersistOutcome(d) PROVE IndInv'
  <2> DEFINE row == job[claim.artifact]
             new == Outcome(row, claim.outcome, d)
  <2>1. /\ worker = "answered" /\ worker' \in {"off", "poll"} /\ claim.artifact \in Artifacts
        /\ StillClaimed(row, claim) /\ phase \in {"running", "closing"} /\ scan = {}
    BY <1>10 DEF PersistOutcome, IndInv, ClaimIsExclusive, PhaseInv
  <2>2. /\ job' = [job EXCEPT ![claim.artifact] = new]
        /\ UNCHANGED <<files, receipt, activated, auth, pre, phase, scan, received, reclaimed,
                       owner>>
    BY <1>10, <2>1 DEF PersistOutcome
  <2>3. /\ row \in Row /\ Recorded(claim.artifact) /\ row.binding = auth /\ row.sha = claim.sha
        /\ claim.outcome = "success" => <<claim.artifact, row.sha, auth>> \in received
    BY <2>1 DEF TypeOK, StillClaimed, Live, LiveStates, Recorded, IndInv, LiveRowsAreCurrent,
                ClaimInv
  <2>4. /\ new \in Row /\ new.sha = row.sha /\ new.binding = row.binding
        /\ new.state \in {"completed", "permanently_failed", "retrying"}
        /\ new.state = "completed" => claim.outcome = "success"
    <3>1. now + d \in Nat
      BY DEF TypeOK
    <3>2. CASE claim.outcome = "success"
      BY <2>3, <3>2, MovedRow DEF Outcome, UploadState
    <3>3. CASE claim.outcome = "permanent"
      BY <2>3, <3>3, MovedRow DEF Outcome, UploadState
    <3>4. CASE claim.outcome \notin {"success", "permanent"}
      <4>1. new = Retrying(row, now + d)
        BY <3>4 DEF Outcome
      <4> QED
        BY <2>3, <3>1, <4>1, RowOperators
    <3> QED
      BY <3>2, <3>3, <3>4
  <2>5. /\ RowInv' /\ OwnerInv' /\ LiveRowsAreCurrent' /\ OneBodyPerKey'
        /\ CompletedWasReceived' /\ AcknowledgedBeforeReclaim'
        /\ job'[claim.artifact] = new
        /\ \A b \in Artifacts \ {claim.artifact} : job'[b] = job[b]
    <3> HIDE DEF new
    <3> QED
      BY <2>1, <2>2, <2>3, <2>4, MoveInd
  <2>6. \A b \in Artifacts : job'[b].state # "in_progress"
    BY <2>1, <2>4, <2>5 DEF IndInv, ClaimIsExclusive
  <2>7. PhaseInv' /\ ClaimInv' /\ ClaimIsExclusive'
    BY <2>1, <2>2, <2>6 DEF IndInv, PhaseInv, ClaimInv, ClaimIsExclusive
  <2> QED
    BY <2>5, <2>7 DEF IndInv
<1>11. CASE StartDisabled
  <2>1. PhaseInv' /\ ClaimInv' /\ ClaimIsExclusive'
    BY <1>11 DEF StartDisabled, IndInv, PhaseInv, ClaimInv, ClaimIsExclusive
  <2> QED
    BY <1>11, <2>1, LedgerFrame DEF StartDisabled, IndInv
<1>12. ASSUME NEW a \in Artifacts, NEW bytes \in Contents, Publish(a, bytes) PROVE IndInv'
  <2>1. /\ files[a] = None /\ files' = [files EXCEPT ![a] = bytes]
        /\ receipt' = [receipt EXCEPT ![a] = bytes]
        /\ owner' = IF receipt[a] = None THEN [owner EXCEPT ![a] = auth] ELSE owner
        /\ UNCHANGED <<activated, auth, pre, job, phase, scan, worker, claim, received, reclaimed>>
    BY <1>12 DEF Publish
  <2>2. RowInv'
    BY <2>1 DEF IndInv, RowInv, Recorded, TypeOK
  <2>3. OwnerInv'
    <3>1. CASE receipt[a] = None
      <4>1. ~Recorded(a) /\ a \notin pre
        BY <3>1 DEF IndInv, RowInv
      <4> QED
        BY <2>1, <3>1, <4>1 DEF IndInv, OwnerInv, Recorded, CrashGap, TypeOK
    <3>2. CASE receipt[a] # None
      BY <2>1, <3>2 DEF IndInv, OwnerInv, Recorded, CrashGap, TypeOK
    <3> QED
      BY <3>1, <3>2
  <2>4. PhaseInv' /\ ClaimInv' /\ ClaimIsExclusive'
    BY <2>1 DEF IndInv, PhaseInv, ClaimInv, ClaimIsExclusive, StillClaimed, Recorded
  <2>5. LiveRowsAreCurrent' /\ OneBodyPerKey'
    BY <2>1 DEF IndInv, LiveRowsAreCurrent, OneBodyPerKey, Live, Recorded
  <2>6. CompletedWasReceived' /\ AcknowledgedBeforeReclaim'
    BY <2>1 DEF IndInv, CompletedWasReceived, AcknowledgedBeforeReclaim
  <2> QED
    BY <2>2, <2>3, <2>4, <2>5, <2>6 DEF IndInv
<1>13. ASSUME NEW a \in Artifacts, ReofferMovie(a) PROVE IndInv'
  BY <1>13, ThreadFrame DEF ReofferMovie
<1>14. ASSUME NEW a \in Artifacts, TryEnqueue(a) PROVE IndInv'
  <2>1. /\ activated /\ scan = {} /\ phase = "running"
        /\ UNCHANGED <<files, receipt, activated, auth, pre, phase, scan, worker, claim, received,
                       reclaimed, owner>>
    BY <1>14 DEF TryEnqueue, IndInv, PhaseInv
  <2>2. CASE RecordRefused(a) \/ Recorded(a)
    BY <1>14, <2>1, <2>2, ThreadFrame DEF TryEnqueue
  <2>3. CASE ~RecordRefused(a) /\ ~Recorded(a)
    <3>1. files[a] # None /\ Insert(a)
      BY <1>14, <2>3 DEF TryEnqueue, RecordRefused
    <3>2. /\ RowInv' /\ OwnerInv' /\ LiveRowsAreCurrent' /\ OneBodyPerKey'
          /\ CompletedWasReceived' /\ AcknowledgedBeforeReclaim'
          /\ job'[a].state = "pending" /\ \A b \in Artifacts \ {a} : job'[b] = job[b]
      BY <2>1, <2>3, <3>1, InsertInd
    <3>3. PhaseInv'
      BY <2>1, <3>2 DEF IndInv, PhaseInv
    <3>4. worker \in {"claimed", "answered"} => claim.artifact # a
      BY <2>3 DEF IndInv, ClaimIsExclusive, StillClaimed, Recorded
    <3>5. ClaimInv' /\ ClaimIsExclusive'
      BY <2>1, <3>2, <3>4 DEF IndInv, ClaimInv, ClaimIsExclusive, StillClaimed
    <3> QED
      BY <3>2, <3>3, <3>5 DEF IndInv
  <2> QED
    BY <2>2, <2>3
<1>15. ASSUME NEW a \in Artifacts, TryEnqueueFails(a) PROVE IndInv'
  BY <1>15, ThreadFrame DEF TryEnqueueFails
<1>16. ASSUME NEW a \in Artifacts, FinishLocal(a) PROVE IndInv'
  BY <1>16, ThreadFrame DEF FinishLocal
<1>17. ASSUME NEW a \in Artifacts, ConfirmRequeue(a) PROVE IndInv'
  BY <1>17, ThreadFrame DEF ConfirmRequeue
<1>18. ASSUME NEW a \in Artifacts, NEW r \in confirmed, Requeue(a, r[2]) PROVE IndInv'
  <2>1. /\ job[a].state = "permanently_failed" /\ job[a].binding = auth /\ phase = "running"
        /\ job' = [job EXCEPT ![a] = Requeued(job[a])] /\ job[a] \in Row /\ Recorded(a)
        /\ UNCHANGED <<files, receipt, activated, auth, pre, phase, scan, worker, claim, received,
                       reclaimed, owner>>
    BY <1>18 DEF Requeue, RequeueAccepted, TypeOK, Recorded
  <2>2. /\ Requeued(job[a]) \in Row /\ Requeued(job[a]).state = "pending"
        /\ Requeued(job[a]).sha = job[a].sha /\ Requeued(job[a]).binding = job[a].binding
    BY <2>1, RowOperators
  <2>3. /\ RowInv' /\ OwnerInv' /\ LiveRowsAreCurrent' /\ OneBodyPerKey'
        /\ CompletedWasReceived' /\ AcknowledgedBeforeReclaim'
        /\ job'[a] = Requeued(job[a]) /\ \A b \in Artifacts \ {a} : job'[b] = job[b]
        /\ \A b \in Artifacts : Recorded(b)' = Recorded(b)
    BY <2>1, <2>2, MoveInd
  <2>4. PhaseInv'
    BY <2>1, <2>3 DEF IndInv, PhaseInv
  <2>5. worker \in {"claimed", "answered"} => claim.artifact # a
    BY <2>1 DEF IndInv, ClaimIsExclusive, StillClaimed
  <2>6. ClaimInv' /\ ClaimIsExclusive'
    BY <2>1, <2>2, <2>3, <2>5 DEF IndInv, ClaimInv, ClaimIsExclusive, StillClaimed
  <2> QED
    BY <2>3, <2>4, <2>6 DEF IndInv
<1>19. ASSUME NEW a \in Artifacts, Reclaim(a) PROVE IndInv'
  <2>1. /\ UNCHANGED <<receipt, activated, auth, pre, job, phase, scan, worker, claim, received,
                       owner>>
        /\ \/ UNCHANGED <<files, reclaimed>>
           \/ /\ StillAuthorized(a, classified[a]) /\ DeleteExact(a, classified[a])
              /\ files' = [files EXCEPT ![a] = None]
              /\ reclaimed' = reclaimed \cup {<<a, files[a], Recorded(a)>>}
    BY <1>19 DEF Reclaim
  <2>2. CASE UNCHANGED <<files, reclaimed>>
    BY <2>1, <2>2, ThreadFrame
  <2>3. CASE /\ StillAuthorized(a, classified[a]) /\ DeleteExact(a, classified[a])
             /\ files' = [files EXCEPT ![a] = None]
             /\ reclaimed' = reclaimed \cup {<<a, files[a], Recorded(a)>>}
    <3>1. IF Recorded(a) THEN \E f \in Auths : <<a, files[a], f>> \in received ELSE a \in pre
      BY <2>3 DEF StillAuthorized, DeleteExact, Recorded, IndInv, CompletedWasReceived, RowInv
    <3>2. AcknowledgedBeforeReclaim'
      BY <2>1, <2>3, <3>1 DEF IndInv, AcknowledgedBeforeReclaim
    <3>3. RowInv'
      BY <2>1, <2>3 DEF IndInv, RowInv, Recorded, TypeOK
    <3>4. OwnerInv'
      BY <2>1, <2>3, <3>1 DEF IndInv, OwnerInv, Recorded, CrashGap, TypeOK
    <3>5. PhaseInv' /\ ClaimInv' /\ ClaimIsExclusive'
      BY <2>1 DEF IndInv, PhaseInv, ClaimInv, ClaimIsExclusive, StillClaimed, Recorded
    <3>6. LiveRowsAreCurrent' /\ OneBodyPerKey' /\ CompletedWasReceived'
      BY <2>1 DEF IndInv, LiveRowsAreCurrent, OneBodyPerKey, CompletedWasReceived, Live, Recorded
    <3> QED
      BY <3>2, <3>3, <3>4, <3>5, <3>6 DEF IndInv
  <2> QED
    BY <2>1, <2>2, <2>3
<1>20. ASSUME NEW a \in Artifacts, ReclaimLocal(a) PROVE IndInv'
  <2>1. /\ ~activated /\ files' = [files EXCEPT ![a] = None]
        /\ UNCHANGED <<receipt, activated, auth, pre, job, phase, scan, worker, claim, received,
                       reclaimed, owner>>
    BY <1>20 DEF ReclaimLocal, LocalOnly
  <2>2. RowInv'
    BY <2>1 DEF IndInv, RowInv, Recorded, TypeOK
  <2>3. OwnerInv'
    BY <2>1 DEF IndInv, PhaseInv, OwnerInv, Recorded, CrashGap, TypeOK
  <2>4. PhaseInv' /\ ClaimInv' /\ ClaimIsExclusive'
    BY <2>1 DEF IndInv, PhaseInv, ClaimInv, ClaimIsExclusive, StillClaimed, Recorded
  <2>5. LiveRowsAreCurrent' /\ OneBodyPerKey'
    BY <2>1 DEF IndInv, LiveRowsAreCurrent, OneBodyPerKey, Live, Recorded
  <2>6. CompletedWasReceived' /\ AcknowledgedBeforeReclaim'
    BY <2>1 DEF IndInv, CompletedWasReceived, AcknowledgedBeforeReclaim
  <2> QED
    BY <2>2, <2>3, <2>4, <2>5, <2>6 DEF IndInv
<1>21. ASSUME NEW a \in Artifacts, NEW bytes \in Contents \cup {None}, EditFile(a, bytes)
       PROVE IndInv'
  <2>1. /\ receipt[a] # None /\ files' = [files EXCEPT ![a] = bytes]
        /\ owner' = [owner EXCEPT ![a] = None]
        /\ UNCHANGED <<receipt, activated, auth, pre, job, phase, scan, worker, claim, received,
                       reclaimed>>
    BY <1>21 DEF EditFile
  <2>2. RowInv'
    BY <2>1 DEF IndInv, RowInv, Recorded, TypeOK
  <2>3. OwnerInv'
    BY <2>1 DEF IndInv, OwnerInv, Recorded, CrashGap, TypeOK
  <2>4. PhaseInv' /\ ClaimInv' /\ ClaimIsExclusive'
    BY <2>1 DEF IndInv, PhaseInv, ClaimInv, ClaimIsExclusive, StillClaimed, Recorded
  <2>5. LiveRowsAreCurrent' /\ OneBodyPerKey'
    BY <2>1 DEF IndInv, LiveRowsAreCurrent, OneBodyPerKey, Live, Recorded
  <2>6. CompletedWasReceived' /\ AcknowledgedBeforeReclaim'
    BY <2>1 DEF IndInv, CompletedWasReceived, AcknowledgedBeforeReclaim
  <2> QED
    BY <2>2, <2>3, <2>4, <2>5, <2>6 DEF IndInv
<1>22. CASE ClassifyInventory
  BY <1>22, ThreadFrame DEF ClassifyInventory
<1>23. CASE WorkerFails
  <2>1. PhaseInv' /\ ClaimInv' /\ ClaimIsExclusive'
    BY <1>23 DEF WorkerFails, IndInv, PhaseInv, ClaimInv, ClaimIsExclusive, Recorded
  <2> QED
    BY <1>23, <2>1, LedgerFrame DEF WorkerFails, IndInv
<1>24. CASE StopServices
  <2>1. PhaseInv' /\ ClaimInv' /\ ClaimIsExclusive'
    BY <1>24 DEF StopServices, IndInv, PhaseInv, ClaimInv, ClaimIsExclusive, StillClaimed, Recorded
  <2> QED
    BY <1>24, <2>1, LedgerFrame DEF StopServices, IndInv
<1>25. CASE Closed
  <2>1. PhaseInv' /\ ClaimInv' /\ ClaimIsExclusive'
    BY <1>25 DEF Closed, IndInv, PhaseInv, ClaimInv, ClaimIsExclusive, Recorded
  <2> QED
    BY <1>25, <2>1, LedgerFrame DEF Closed, IndInv
<1>26. CASE StopDisabled
  <2>1. PhaseInv' /\ ClaimInv' /\ ClaimIsExclusive'
    BY <1>26 DEF StopDisabled, IndInv, PhaseInv, ClaimInv, ClaimIsExclusive, Recorded
  <2> QED
    BY <1>26, <2>1, LedgerFrame DEF StopDisabled, IndInv
<1>27. CASE Crash
  <2>1. PhaseInv' /\ ClaimInv' /\ ClaimIsExclusive'
    BY <1>27 DEF Crash, IndInv, PhaseInv, ClaimInv, ClaimIsExclusive
  <2> QED
    BY <1>27, <2>1, LedgerFrame DEF Crash, IndInv
<1>28. CASE Tick
  BY <1>28, ThreadFrame DEF Tick
<1>29. CASE ClockBack
  BY <1>29, ThreadFrame DEF ClockBack
<1>30. CASE UNCHANGED vars
  BY <1>30, ThreadFrame DEF vars
<1> QED
  BY <1>1, <1>2, <1>3, <1>4, <1>5, <1>6, <1>7, <1>8, <1>9, <1>10, <1>11, <1>12, <1>13, <1>14,
     <1>15, <1>16, <1>17, <1>18, <1>19, <1>20, <1>21, <1>22, <1>23, <1>24, <1>25, <1>26, <1>27,
     <1>28, <1>29, <1>30
  DEF Next, StartStep, WorkerStep

(***************************************************************************)
(* The theorems.                                                            *)
(***************************************************************************)

\* The strengthening and the types hold together in every reachable state.
THEOREM Invariance == Spec => [](TypeOK /\ IndInv)
<1>1. Init => TypeOK /\ IndInv
  BY InitType, InitInd
<1>2. (TypeOK /\ IndInv) /\ [Next]_vars => (TypeOK /\ IndInv)'
  BY NextType, NextInd
<1> QED
  BY <1>1, <1>2, PTL DEF Spec

\* Every reachable state is well typed: rows, claims and classifications keep
\* their shape through every ledger operation, crash and restart.
THEOREM TypeCorrect == Spec => []TypeOK
BY Invariance, PTL

\* Retention deletes a captured file only when the endpoint has those bytes, or
\* when the file predates the ledger and was never enqueued.
THEOREM ReclaimIsSafe == Spec => []AcknowledgedBeforeReclaim
<1>1. IndInv => AcknowledgedBeforeReclaim
  BY DEF IndInv
<1> QED
  BY <1>1, Invariance, PTL

\* A completed row's bytes were accepted by the endpoint for the row's account.
THEOREM CompletionIsHonest == Spec => []CompletedWasReceived
<1>1. IndInv => CompletedWasReceived
  BY DEF IndInv
<1> QED
  BY <1>1, Invariance, PTL

\* All the endpoint ever accepts under one idempotency key is one body, for one
\* account.
THEOREM Idempotency == Spec => []OneBodyPerKey
<1>1. IndInv => OneBodyPerKey
  BY DEF IndInv
<1> QED
  BY <1>1, Invariance, PTL

\* Token rotation never leaves a live row bound to another account.
THEOREM RotationIsSafe == Spec => []LiveRowsAreCurrent
<1>1. IndInv => LiveRowsAreCurrent
  BY DEF IndInv
<1> QED
  BY <1>1, Invariance, PTL

\* The uploader's claim fences every other outcome and survives until it is
\* settled, released or recovered.
THEOREM Fencing == Spec => []ClaimIsExclusive
<1>1. IndInv => ClaimIsExclusive
  BY DEF IndInv
<1> QED
  BY <1>1, Invariance, PTL

\* A capture reaches no account but the one in force when it was published.
THEOREM DeliveryIsToOwner == Spec => []DeliveredToOwner
<1>1. TypeOK /\ IndInv => DeliveredToOwner
  <2> SUFFICES ASSUME TypeOK, IndInv, NEW r \in received, owner[r[1]] # None
               PROVE  r[3] = owner[r[1]]
    BY DEF DeliveredToOwner
  <2>1. r[1] \in Artifacts
    BY DEF TypeOK
  <2> QED
    BY <2>1 DEF IndInv, OneBodyPerKey, OwnerInv
<1> QED
  BY <1>1, Invariance, PTL

\* One UPDATE of one row, as RowStep allows it.
LEMMA OneRowStep ==
    ASSUME TypeOK, NEW a \in Artifacts, NEW row \in Row,
           job' = [job EXCEPT ![a] = row],
           Recorded(a) => /\ row.attempt >= job[a].attempt /\ job[a].state # "completed"
                          /\ row.sha = job[a].sha /\ row.binding = job[a].binding
    PROVE  RowStep
<1> SUFFICES ASSUME NEW b \in Artifacts, Recorded(b)
             PROVE  /\ job'[b].attempt >= job[b].attempt
                    /\ job'[b].sha = job[b].sha /\ job'[b].binding = job[b].binding
                    /\ job[b].state = "completed" => job'[b] = job[b]
  BY DEF RowStep
<1>1. job[b] \in Row
  BY DEF TypeOK
<1>2. CASE b = a
  BY <1>2 DEF TypeOK
<1>3. CASE b # a
  <2>1. job'[b] = job[b]
    BY <1>3 DEF TypeOK
  <2> QED
    BY <1>1, <2>1 DEF Row
<1> QED
  BY <1>2, <1>3

\* A step that leaves the rows alone is allowed by RowStep.
LEMMA SameRowsStep == ASSUME TypeOK, UNCHANGED job PROVE RowStep
<1>1. \A b \in Artifacts : job[b].attempt \in Nat
  BY DEF TypeOK, Row
<1> QED
  BY <1>1 DEF RowStep

\* Every step of the outbox is allowed by RowStep.
LEMMA NextRowStep == TypeOK /\ IndInv /\ [Next]_vars => RowStep
<1> SUFFICES ASSUME TypeOK, IndInv, [Next]_vars PROVE RowStep
  OBVIOUS
<1> USE DEF disk, ledger, threads, ghosts
<1>1. CASE RecoverInterruptedJobs
  <2> SUFFICES ASSUME NEW a \in Artifacts, Recorded(a)
               PROVE  /\ job'[a].attempt >= job[a].attempt
                      /\ job'[a].sha = job[a].sha /\ job'[a].binding = job[a].binding
                      /\ job[a].state = "completed" => job'[a] = job[a]
    BY DEF RowStep
  <2>1. job[a] \in Row /\ job[a].attempt \in Nat /\ job'[a] = Recovered(job[a])
    BY <1>1 DEF RecoverInterruptedJobs, TypeOK, Row
  <2>2. CASE job[a].state = "in_progress"
    BY <2>1, <2>2, MovedRow DEF Recovered, UploadState, LiveStates
  <2>3. CASE job[a].state # "in_progress"
    BY <2>1, <2>3 DEF Recovered
  <2> QED
    BY <2>2, <2>3
<1>2. ASSUME NEW a \in Artifacts, ReconcileRecord(a) \/ TryEnqueue(a) PROVE RowStep
  <2>1. UNCHANGED job \/ (~Recorded(a) /\ job' = [job EXCEPT ![a] = NewRow(files[a])])
    BY <1>2 DEF ReconcileRecord, TryEnqueue, Insert, IndInv, PhaseInv
  <2>2. NewRow(files[a]) \in Row
    BY NewRowType DEF TypeOK
  <2> QED
    BY <2>1, <2>2, SameRowsStep, OneRowStep
<1>3. ASSUME NEW a \in Artifacts, ClaimDue(a) PROVE RowStep
  <2>1. /\ job[a] \in Row /\ job[a].attempt \in Nat /\ job[a].state # "completed"
        /\ UNCHANGED job \/ job' = [job EXCEPT ![a] = Claimed(job[a])]
    BY <1>3 DEF ClaimDue, IsNextDue, TypeOK, Row
  <2>2. /\ Claimed(job[a]) \in Row /\ Claimed(job[a]).attempt >= job[a].attempt
        /\ Claimed(job[a]).sha = job[a].sha /\ Claimed(job[a]).binding = job[a].binding
    BY <2>1, RowOperators
  <2> QED
    BY <2>1, <2>2, SameRowsStep, OneRowStep
<1>4. CASE ReleaseClaim
  <2> DEFINE new == Moved(job[claim.artifact], "pending")
  <2>1. /\ claim.artifact \in Artifacts /\ job[claim.artifact] \in Row
        /\ job[claim.artifact].attempt \in Nat /\ job[claim.artifact].state # "completed"
        /\ job' = [job EXCEPT ![claim.artifact] = new]
    <3>1. claim.artifact \in Artifacts /\ StillClaimed(job[claim.artifact], claim)
      BY <1>4 DEF ReleaseClaim, IndInv, ClaimIsExclusive
    <3>2. job' = [job EXCEPT ![claim.artifact] = new]
      BY <1>4, <3>1 DEF ReleaseClaim
    <3> QED
      BY <3>1, <3>2 DEF StillClaimed, TypeOK, Row
  <2>2. /\ new \in Row /\ new.attempt >= job[claim.artifact].attempt
        /\ new.sha = job[claim.artifact].sha /\ new.binding = job[claim.artifact].binding
    BY <2>1, MovedRow DEF UploadState, LiveStates
  <2> HIDE DEF new
  <2> QED
    BY <2>1, <2>2, OneRowStep
<1>5. ASSUME NEW d \in RetryDelays, PersistOutcome(d) PROVE RowStep
  <2> DEFINE row == job[claim.artifact]
             new == Outcome(row, claim.outcome, d)
  <2>1. /\ claim.artifact \in Artifacts /\ row \in Row /\ row.attempt \in Nat
        /\ row.state # "completed" /\ job' = [job EXCEPT ![claim.artifact] = new]
    <3>1. claim.artifact \in Artifacts /\ StillClaimed(row, claim)
      BY <1>5 DEF PersistOutcome, IndInv, ClaimIsExclusive
    <3>2. job' = [job EXCEPT ![claim.artifact] = new]
      BY <1>5, <3>1 DEF PersistOutcome
    <3> QED
      BY <3>1, <3>2 DEF StillClaimed, TypeOK, Row
  <2>2. new \in Row /\ new.attempt >= row.attempt /\ new.sha = row.sha /\ new.binding = row.binding
    <3>1. CASE claim.outcome \in {"success", "permanent"}
      BY <2>1, <3>1, MovedRow DEF Outcome, UploadState
    <3>2. CASE claim.outcome \notin {"success", "permanent"}
      <4>1. new = Retrying(row, now + d) /\ now + d \in Nat
        BY <3>2 DEF Outcome, TypeOK
      <4> QED
        BY <2>1, <4>1, RowOperators
    <3> QED
      BY <3>1, <3>2
  <2> HIDE DEF new
  <2> QED
    BY <2>1, <2>2, OneRowStep
<1>6. ASSUME NEW a \in Artifacts, NEW r \in confirmed, Requeue(a, r[2]) PROVE RowStep
  <2>1. /\ job[a] \in Row /\ job[a].attempt \in Nat /\ job[a].state # "completed"
        /\ job' = [job EXCEPT ![a] = Requeued(job[a])]
    BY <1>6 DEF Requeue, RequeueAccepted, TypeOK, Row
  <2>2. /\ Requeued(job[a]) \in Row /\ Requeued(job[a]).attempt >= job[a].attempt
        /\ Requeued(job[a]).sha = job[a].sha /\ Requeued(job[a]).binding = job[a].binding
    BY <2>1, RowOperators
  <2> QED
    BY <2>1, <2>2, OneRowStep
<1>7. CASE UNCHANGED job
  BY <1>7, SameRowsStep
<1>8. \/ UNCHANGED job
      \/ RecoverInterruptedJobs \/ ReleaseClaim
      \/ \E a \in Artifacts : ReconcileRecord(a) \/ TryEnqueue(a) \/ ClaimDue(a)
      \/ \E d \in RetryDelays : PersistOutcome(d)
      \/ \E a \in Artifacts : \E r \in confirmed : Requeue(a, r[2])
  BY DEF vars, Next, StartStep, WorkerStep, Open, ReconcileScan, Serve, StartDisabled, WorkerExit,
         Upload, Publish, ReofferMovie, TryEnqueueFails, FinishLocal, ConfirmRequeue, Reclaim,
         ReclaimLocal, EditFile, ClassifyInventory, WorkerFails, StopServices, Closed,
         StopDisabled, Crash, Tick, ClockBack
<1> QED
  BY <1>1, <1>2, <1>3, <1>4, <1>5, <1>6, <1>7, <1>8

\* No step takes an attempt number back, changes a row's identity or touches a
\* completed row.
THEOREM RowsAreMonotone == Spec => RowHistory
BY NextRowStep, Invariance, PTL DEF Spec, RowHistory

(***************************************************************************)
(* Requeues and their confirmations.                                        *)
(***************************************************************************)

\* Only a requeue counts as one, and every UPDATE moves the revision on.
LEMMA RequeuesCounted ==
    ASSUME NEW row \in Row, NEW state \in UploadState, NEW deadline \in Nat
    PROVE  /\ Moved(row, state).rev = row.rev + 1 /\ Moved(row, state).requeues = row.requeues
           /\ Claimed(row).rev = row.rev + 1 /\ Claimed(row).requeues = row.requeues
           /\ Retrying(row, deadline).rev = row.rev + 1
           /\ Retrying(row, deadline).requeues = row.requeues
           /\ Requeued(row).rev = row.rev + 1 /\ Requeued(row).requeues = row.requeues + 1
<1>1. \A s \in UploadState : /\ Moved(row, s) \in Row /\ Moved(row, s).rev = row.rev + 1
                             /\ Moved(row, s).requeues = row.requeues
  <2> SUFFICES ASSUME NEW s \in UploadState
               PROVE  /\ Moved(row, s) \in Row /\ Moved(row, s).rev = row.rev + 1
                      /\ Moved(row, s).requeues = row.requeues
    OBVIOUS
  <2>1. Moved(row, s) \in Row
    BY MovedRow
  <2> QED
    BY <2>1 DEF Moved, Row
<1>2. /\ Moved(row, "in_progress") \in Row /\ Moved(row, "retrying") \in Row
      /\ Moved(row, "pending") \in Row
  BY <1>1 DEF UploadState, LiveStates
<1>3. Claimed(row).rev = row.rev + 1 /\ Claimed(row).requeues = row.requeues
  BY <1>1, <1>2 DEF Claimed, Row, UploadState, LiveStates
<1>4. /\ Retrying(row, deadline).rev = row.rev + 1
      /\ Retrying(row, deadline).requeues = row.requeues
  BY <1>1, <1>2 DEF Retrying, Row, UploadState, LiveStates
<1>5. Requeued(row).rev = row.rev + 1 /\ Requeued(row).requeues = row.requeues + 1
  BY <1>1, <1>2 DEF Requeued, Row, UploadState, LiveStates
<1> QED
  BY <1>1, <1>3, <1>4, <1>5

\* What a row may become without a requeue: it moves on, or it is new.
SameRequeues(old, new) == \/ new.rev >= old.rev /\ new.requeues = old.requeues
                          \/ new.requeues = 0

\* The confirmations of an artifact that are spent stay spent.
LEMMA SpentStaysSpent ==
    ASSUME TypeOK, TypeOK', ConfirmInv, NEW a \in Artifacts, job'[a].rev >= job[a].rev,
           confirmed \subseteq confirmed', IsFiniteSet(confirmed')
    PROVE  /\ Spent(a) \subseteq Spent(a)'
           /\ IsFiniteSet(Spent(a)) /\ IsFiniteSet(Spent(a)')
           /\ Cardinality(Spent(a)) <= Cardinality(Spent(a)')
           /\ Cardinality(Spent(a)) \in Nat /\ Cardinality(Spent(a)') \in Nat
<1>1. job[a].rev \in Nat /\ job'[a].rev \in Nat
  BY DEF TypeOK, Row
<1>2. \A r \in confirmed : r[2] \in Nat
  BY DEF TypeOK
<1>3. Spent(a) \subseteq Spent(a)'
  BY <1>1, <1>2 DEF Spent
<1>4. IsFiniteSet(Spent(a)) /\ IsFiniteSet(Spent(a)')
  BY FS_Subset DEF Spent, ConfirmInv
<1> QED
  BY <1>3, <1>4, FS_Subset, FS_CardinalityType

\* A step without a requeue.
LEMMA WithoutRequeue ==
    ASSUME TypeOK, TypeOK', ConfirmInv, confirmed \subseteq confirmed', IsFiniteSet(confirmed'),
           \A a \in Artifacts : SameRequeues(job[a], job'[a])
    PROVE  ConfirmInv'
<1> SUFFICES ASSUME NEW a \in Artifacts PROVE job'[a].requeues <= Cardinality(Spent(a)')
  BY DEF ConfirmInv
<1>1. job[a].requeues <= Cardinality(Spent(a)) /\ job[a].requeues \in Nat
  BY DEF ConfirmInv, TypeOK, Row
<1>2. CASE job'[a].rev >= job[a].rev /\ job'[a].requeues = job[a].requeues
  BY <1>1, <1>2, SpentStaysSpent
<1>3. CASE job'[a].requeues = 0
  <2>1. IsFiniteSet(Spent(a)')
    BY FS_Subset DEF Spent
  <2> QED
    BY <1>3, <2>1, FS_CardinalityType
<1> QED
  BY <1>2, <1>3 DEF SameRequeues

\* Such a step of one row.
LEMMA OneRowWithoutRequeue ==
    ASSUME TypeOK, TypeOK', ConfirmInv, UNCHANGED confirmed, NEW a \in Artifacts, NEW row,
           job' = [job EXCEPT ![a] = row], SameRequeues(job[a], row)
    PROVE  ConfirmInv'
<1>1. \A b \in Artifacts : SameRequeues(job[b], job'[b])
  <2> SUFFICES ASSUME NEW b \in Artifacts PROVE SameRequeues(job[b], job'[b])
    OBVIOUS
  <2>1. job[b].rev \in Nat
    BY DEF TypeOK, Row
  <2>2. CASE b = a
    BY <2>2 DEF TypeOK
  <2>3. CASE b # a
    BY <2>1, <2>3 DEF TypeOK, SameRequeues
  <2> QED
    BY <2>2, <2>3
<1>2. confirmed \subseteq confirmed' /\ IsFiniteSet(confirmed')
  BY DEF ConfirmInv
<1> QED
  BY <1>1, <1>2, WithoutRequeue

\* A step that leaves the rows alone.
LEMMA SameRowsCounted ==
    ASSUME TypeOK, TypeOK', ConfirmInv, UNCHANGED job, confirmed \subseteq confirmed',
           IsFiniteSet(confirmed')
    PROVE  ConfirmInv'
<1>1. \A a \in Artifacts : job[a].rev \in Nat
  BY DEF TypeOK, Row
<1>2. \A a \in Artifacts : SameRequeues(job[a], job'[a])
  BY <1>1 DEF SameRequeues
<1> QED
  BY <1>2, WithoutRequeue

\* A requeue spends the confirmation that asked for it.
LEMMA RequeueSpends ==
    ASSUME TypeOK, TypeOK', ConfirmInv, NEW a \in Artifacts, NEW r \in confirmed, r[1] = a,
           Requeue(a, r[2])
    PROVE  ConfirmInv'
<1>1. /\ job[a].rev = r[2] /\ job' = [job EXCEPT ![a] = Requeued(job[a])] /\ confirmed' = confirmed
  BY DEF Requeue, RequeueAccepted
<1>2. job[a] \in Row /\ job[a].rev \in Nat /\ job[a].requeues \in Nat
  BY DEF TypeOK, Row
<1>3. job'[a].rev = job[a].rev + 1 /\ job'[a].requeues = job[a].requeues + 1
  <2>1. job'[a] = Requeued(job[a])
    BY <1>1 DEF TypeOK
  <2>2. "pending" \in UploadState /\ 0 \in Nat
    BY DEF UploadState, LiveStates
  <2> QED
    BY <1>2, <2>1, <2>2, RequeuesCounted
<1>4. IsFiniteSet(confirmed')
  BY <1>1 DEF ConfirmInv
<1>5. /\ Spent(a) \subseteq Spent(a)' /\ IsFiniteSet(Spent(a)) /\ IsFiniteSet(Spent(a)')
      /\ Cardinality(Spent(a)) \in Nat /\ Cardinality(Spent(a)') \in Nat
  BY <1>1, <1>2, <1>3, <1>4, SpentStaysSpent
<1>6. r \notin Spent(a) /\ r \in Spent(a)'
  BY <1>1, <1>2, <1>3 DEF Spent
<1>7. Cardinality(Spent(a)) + 1 <= Cardinality(Spent(a)')
  <2>1. Spent(a) \cup {r} \subseteq Spent(a)'
    BY <1>5, <1>6
  <2>2. Cardinality(Spent(a) \cup {r}) = Cardinality(Spent(a)) + 1
    BY <1>5, <1>6, FS_AddElement
  <2>3. Cardinality(Spent(a) \cup {r}) <= Cardinality(Spent(a)')
    BY <1>5, <2>1, FS_Subset
  <2> QED
    BY <2>2, <2>3
<1>8. \A b \in Artifacts : job'[b].requeues <= Cardinality(Spent(b)')
  <2> SUFFICES ASSUME NEW b \in Artifacts PROVE job'[b].requeues <= Cardinality(Spent(b)')
    OBVIOUS
  <2>1. job[b].requeues <= Cardinality(Spent(b)) /\ job[b].requeues \in Nat
    BY DEF ConfirmInv, TypeOK, Row
  <2>2. CASE b = a
    BY <1>2, <1>3, <1>5, <1>7, <2>1, <2>2
  <2>3. CASE b # a
    <3>1. job'[b] = job[b]
      BY <1>1, <2>3 DEF TypeOK
    <3>2. Spent(b)' = Spent(b)
      BY <1>1, <3>1 DEF Spent
    <3> QED
      BY <2>1, <3>1, <3>2
  <2> QED
    BY <2>2, <2>3
<1> QED
  BY <1>4, <1>8 DEF ConfirmInv

\* Every step of the outbox keeps the count.
LEMMA NextConfirm == TypeOK /\ TypeOK' /\ IndInv /\ ConfirmInv /\ [Next]_vars => ConfirmInv'
<1> SUFFICES ASSUME TypeOK, TypeOK', IndInv, ConfirmInv, [Next]_vars PROVE ConfirmInv'
  OBVIOUS
<1> USE DEF disk, ledger, threads, ghosts
<1>0. "pending" \in UploadState /\ "completed" \in UploadState /\ 0 \in Nat
      /\ "permanently_failed" \in UploadState
  BY DEF UploadState, LiveStates
<1>1. CASE RecoverInterruptedJobs
  <2>1. /\ \A a \in Artifacts : job'[a] = Recovered(job[a])
        /\ confirmed \subseteq confirmed' /\ IsFiniteSet(confirmed')
    BY <1>1 DEF RecoverInterruptedJobs, ConfirmInv
  <2>2. \A a \in Artifacts : SameRequeues(job[a], job'[a])
    <3> SUFFICES ASSUME NEW a \in Artifacts PROVE SameRequeues(job[a], job'[a])
      OBVIOUS
    <3>1. job[a] \in Row /\ job[a].rev \in Nat
      BY DEF TypeOK, Row
    <3>2. /\ Moved(job[a], "pending").rev = job[a].rev + 1
          /\ Moved(job[a], "pending").requeues = job[a].requeues
      BY <1>0, <3>1, RequeuesCounted
    <3> QED
      BY <2>1, <3>1, <3>2 DEF Recovered, SameRequeues
  <2> QED
    BY <2>1, <2>2, WithoutRequeue
<1>2. ASSUME NEW a \in Artifacts, ReconcileRecord(a) \/ TryEnqueue(a) PROVE ConfirmInv'
  <2>1. UNCHANGED job \/ job' = [job EXCEPT ![a] = NewRow(files[a])]
    BY <1>2 DEF ReconcileRecord, TryEnqueue, Insert
  <2>2. UNCHANGED confirmed
    BY <1>2 DEF ReconcileRecord, TryEnqueue
  <2>3. SameRequeues(job[a], NewRow(files[a]))
    BY DEF NewRow, SameRequeues
  <2>4. confirmed \subseteq confirmed' /\ IsFiniteSet(confirmed')
    BY <2>2 DEF ConfirmInv
  <2> QED
    BY <2>1, <2>2, <2>3, <2>4, SameRowsCounted, OneRowWithoutRequeue
<1>3. ASSUME NEW a \in Artifacts, ClaimDue(a) PROVE ConfirmInv'
  <2>1. /\ job[a] \in Row /\ job[a].rev \in Nat /\ UNCHANGED confirmed
        /\ UNCHANGED job \/ job' = [job EXCEPT ![a] = Claimed(job[a])]
    BY <1>3 DEF ClaimDue, TypeOK, Row
  <2>2. SameRequeues(job[a], Claimed(job[a]))
    BY <1>0, <2>1, RequeuesCounted DEF SameRequeues
  <2>3. confirmed \subseteq confirmed' /\ IsFiniteSet(confirmed')
    BY <2>1 DEF ConfirmInv
  <2> QED
    BY <2>1, <2>2, <2>3, SameRowsCounted, OneRowWithoutRequeue
<1>4. CASE ReleaseClaim
  <2>1. claim.artifact \in Artifacts /\ job[claim.artifact] \in Row
        /\ job[claim.artifact].rev \in Nat
        /\ job' = [job EXCEPT ![claim.artifact] = Moved(job[claim.artifact], "pending")]
    BY <1>4 DEF ReleaseClaim, IndInv, ClaimIsExclusive, TypeOK, Row
  <2>2. UNCHANGED confirmed
    BY <1>4 DEF ReleaseClaim
  <2>3. SameRequeues(job[claim.artifact], Moved(job[claim.artifact], "pending"))
    BY <1>0, <2>1, RequeuesCounted DEF SameRequeues
  <2> QED
    BY <2>1, <2>2, <2>3, OneRowWithoutRequeue
<1>5. ASSUME NEW d \in RetryDelays, PersistOutcome(d) PROVE ConfirmInv'
  <2> DEFINE row == job[claim.artifact]
             new == Outcome(row, claim.outcome, d)
  <2>1. claim.artifact \in Artifacts /\ StillClaimed(row, claim)
    BY <1>5 DEF PersistOutcome, IndInv, ClaimIsExclusive
  <2>2. job' = [job EXCEPT ![claim.artifact] = new] /\ UNCHANGED confirmed
    BY <1>5, <2>1 DEF PersistOutcome
  <2>3. row \in Row /\ row.rev \in Nat /\ now + d \in Nat
    BY <2>1 DEF TypeOK, Row
  <2>4. new.rev = row.rev + 1 /\ new.requeues = row.requeues
    <3>1. CASE claim.outcome \in {"success", "permanent"}
      BY <1>0, <2>3, <3>1, RequeuesCounted DEF Outcome
    <3>2. CASE claim.outcome \notin {"success", "permanent"}
      <4>1. new = Retrying(row, now + d)
        BY <3>2 DEF Outcome
      <4> QED
        BY <1>0, <2>3, <4>1, RequeuesCounted
    <3> QED
      BY <3>1, <3>2
  <2>5. SameRequeues(row, new)
    BY <2>3, <2>4 DEF SameRequeues
  <2> HIDE DEF new
  <2> QED
    BY <2>1, <2>2, <2>5, OneRowWithoutRequeue
<1>6. ASSUME NEW a \in Artifacts, NEW r \in confirmed, r[1] = a, Requeue(a, r[2])
      PROVE  ConfirmInv'
  BY <1>6, RequeueSpends
<1>7. ASSUME NEW a \in Artifacts, ConfirmRequeue(a) PROVE ConfirmInv'
  <2>1. confirmed' = confirmed \cup {<<a, job[a].rev>>} /\ UNCHANGED job
    BY <1>7 DEF ConfirmRequeue
  <2>2. IsFiniteSet(confirmed')
    BY <2>1, FS_AddElement DEF ConfirmInv
  <2> QED
    BY <2>1, <2>2, SameRowsCounted
<1>8. CASE UNCHANGED <<job, confirmed>>
  <2>1. confirmed \subseteq confirmed' /\ IsFiniteSet(confirmed')
    BY <1>8 DEF ConfirmInv
  <2> QED
    BY <1>8, <2>1, SameRowsCounted
<1>9. \/ UNCHANGED <<job, confirmed>>
      \/ RecoverInterruptedJobs \/ ReleaseClaim
      \/ \E a \in Artifacts : ReconcileRecord(a) \/ TryEnqueue(a) \/ ClaimDue(a)
      \/ \E d \in RetryDelays : PersistOutcome(d)
      \/ \E a \in Artifacts : \E r \in confirmed : r[1] = a /\ Requeue(a, r[2])
      \/ \E a \in Artifacts : ConfirmRequeue(a)
  BY DEF vars, Next, StartStep, WorkerStep, Open, ReconcileScan, Serve, StartDisabled, WorkerExit,
         Upload, Publish, ReofferMovie, TryEnqueueFails, FinishLocal, Reclaim,
         ReclaimLocal, EditFile, ClassifyInventory, WorkerFails, StopServices, Closed,
         StopDisabled, Crash, Tick, ClockBack
<1> QED
  BY <1>1, <1>2, <1>3, <1>4, <1>5, <1>6, <1>7, <1>8, <1>9

\* One confirmation requeues a row at most once, however often and late the
\* request arrives (UploadAdmin::requeue, requeue_permanently_failed).
THEOREM RequeuesAreConfirmed == Spec => []RequeuedOncePerConfirmation
<1>1. Init => ConfirmInv
  <2> SUFFICES ASSUME Init PROVE ConfirmInv
    OBVIOUS
  <2>1. IsFiniteSet(confirmed) /\ \A a \in Artifacts : job[a].requeues = 0 /\ Spent(a) = {}
    BY FS_EmptySet DEF Init, NoRow, Spent
  <2> QED
    BY <2>1, FS_EmptySet DEF ConfirmInv
<1>2. ConfirmInv /\ TypeOK => RequeuedOncePerConfirmation
  <2> SUFFICES ASSUME ConfirmInv, TypeOK, NEW a \in Artifacts
               PROVE  job[a].requeues <= Cardinality({r \in confirmed : r[1] = a})
    BY DEF RequeuedOncePerConfirmation
  <2> DEFINE asked == {r \in confirmed : r[1] = a}
  <2>1. Spent(a) \subseteq asked /\ IsFiniteSet(asked)
    BY FS_Subset DEF Spent, ConfirmInv
  <2>2. IsFiniteSet(Spent(a)) /\ Cardinality(Spent(a)) <= Cardinality(asked)
    BY <2>1, FS_Subset
  <2>3. /\ Cardinality(Spent(a)) \in Nat /\ Cardinality(asked) \in Nat
        /\ job[a].requeues <= Cardinality(Spent(a)) /\ job[a].requeues \in Nat
    BY <2>1, <2>2, FS_CardinalityType DEF ConfirmInv, TypeOK, Row
  <2> HIDE DEF asked
  <2>4. job[a].requeues <= Cardinality(asked)
    BY <2>2, <2>3
  <2> QED
    BY <2>4 DEF asked
<1> QED
  BY <1>1, <1>2, NextConfirm, Invariance, PTL DEF Spec
=============================================================================
