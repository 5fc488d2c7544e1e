------------------------------ MODULE Retention ------------------------------
(***************************************************************************)
(* Capture retention (retention.rs): the plan of a sweep, the sweep itself, *)
(* the retention thread with its one-slot wake channel, its stop protocol   *)
(* and its suspension flag, and the threads that publish files meanwhile    *)
(* (lib.rs, video.rs).  Whether a file may go is the authority's decision,  *)
(* modelled in UploadOutbox; here a file is guarded until acknowledged.     *)
(***************************************************************************)
EXTENDS Naturals, FiniteSets, Sequences, FiniteSetsExt, Folds

CONSTANTS
    None,        \* no limit, no answer
    Policies,    \* configurations, each with the bounds it is explored within
    QueueCap,    \* writer_queue_capacity
    Capacity     \* the volume's size

\* max_age, max_bytes, min_free and keep_latest are the configuration; sizes are
\* those of published files; files, private (bytes of private video storage), time
\* and faults (failures, manual snapshots, operator deletions) are bounds.
Limit == Nat \cup {None}
ASSUME RetentionAssumption ==
    /\ None \notin Nat /\ QueueCap \in Nat /\ Capacity \in Nat
    /\ \A p \in Policies :
          /\ p.max_age \in Limit /\ p.max_bytes \in Limit /\ p.min_free \in Limit
          /\ p.keep_latest \in BOOLEAN /\ p.sizes \subseteq Nat
          /\ {p.files, p.private, p.faults} \subseteq Nat /\ p.time \in Nat \ {0}

VARIABLES
    policy,     \* the configuration of the epoch
    disk,       \* files of the capture directory: [path, at, size]
    published,  \* files ever published
    guarded,    \* paths the authority protects
    private,    \* bytes of the video spool
    queue,      \* capture times of the still jobs waiting for the writer
    pending,    \* publishers between a file they published and waking retention: [thr, path]
    failed,     \* publishers whose thread has ended
    phase,      \* the recording epoch: starting, running, draining, joined
    slot,       \* the wake channel holds a token
    stop,       \* the shared stop flag
    suspended,  \* the capture_suspended flag
    pc,         \* the retention thread's position
    round,      \* which sweep: initial, loop, final
    stopSeen,   \* stopping_before_sweep
    sweep,      \* the running sweep: its clock, free bytes, managed bytes, deletions left
    plan,       \* the plan being carried out, with what it was made from
    seen,       \* paths of the last inventory
    since,      \* bytes added since the last inventory
    fresh,      \* bytes added since the inventory of the last published sweep
    removed,    \* files an operator removed
    orphans,    \* files whose publisher failed before it woke retention
    broken,     \* a sweep failed before its inventory, or the thread panicked
    now,        \* the wall clock
    faults      \* environment budget spent

files == <<disk, published, guarded, private>>
producers == <<queue, pending, failed, phase>>
thread == <<pc, round, stopSeen, sweep, plan, seen>>
history == <<removed, orphans, broken>>
vars == <<policy, files, producers, slot, stop, suspended, thread, since, fresh, history, now, faults>>

-----------------------------------------------------------------------------
(* The plan. *)

MaxAge == policy.max_age
MaxBytes == policy.max_bytes
MinFree == policy.min_free
KeepLatest == policy.keep_latest
MaxFiles == policy.files

SatSub(a, b) == IF a >= b THEN a - b ELSE 0
Bytes(S) == MapThenSumSet(LAMBDA c : c.size, S)
HasByteQuota == MaxBytes # None \/ MinFree # None

\* Candidates are sorted by capture time, then by path.
Older(a, b) == a.at < b.at \/ (a.at = b.at /\ a.path < b.path)
Oldest(S) == CHOOSE c \in S : \A d \in S : d = c \/ Older(c, d)
Newest(S) == CHOOSE c \in S : \A d \in S : d = c \/ Older(d, c)

QuotasSatisfied(managed, free) ==
    /\ MaxBytes = None \/ managed <= MaxBytes
    /\ MinFree = None \/ (free # None /\ free >= MinFree)

\* A failed free-space probe must not cause a blind sweep.
KnownQuotasSatisfied(managed, free) ==
    /\ MaxBytes = None \/ managed <= MaxBytes
    /\ MinFree = None \/ free = None \/ free >= MinFree

\* Seeded fault: the newest file is not set apart.
NothingKept(inventory) == {}

\* What keep_latest protects.
Kept(inventory) ==
    {c \in inventory : KeepLatest /\ \A d \in inventory : d = c \/ Older(d, c)}

Reclaimable(inventory, protected) == inventory \ (protected \cup Kept(inventory))

Aged(reclaimable, time) ==
    {c \in reclaimable : MaxAge # None /\ c.at <= SatSub(time, MaxAge)}

\* The quotas that are known hold when S is gone.
Enough(inventory, free, spool, S) ==
    KnownQuotasSatisfied(SatSub(spool + Bytes(inventory), Bytes(S)),
                         IF free = None THEN None ELSE free + Bytes(S))

\* Seeded fault: quota victims are taken newest first.
PlanNewestFirst(inventory, protected, time, free, spool) ==
    LET reclaimable == Reclaimable(inventory, protected)
        aged == Aged(reclaimable, time)
        Select(c, S) == IF Enough(inventory, free, spool, S) THEN S ELSE S \cup {c}
    IN  MapThenFoldSet(Select, aged, LAMBDA c : c, Oldest, reclaimable \ aged)

\* plan_with_private_bytes: everything old enough, then one file after the other,
\* the newest last, until the quotas that are known hold.
Plan(inventory, protected, time, free, spool) ==
    LET reclaimable == Reclaimable(inventory, protected)
        aged == Aged(reclaimable, time)
        Select(c, S) == IF Enough(inventory, free, spool, S) THEN S ELSE S \cup {c}
    IN  MapThenFoldSet(Select, aged, LAMBDA c : c, Newest, reclaimable \ aged)

-----------------------------------------------------------------------------
Free == SatSub(Capacity, Bytes(disk) + private)
Suspended == suspended \/ stop
NoSweep == [now |-> 0, free |-> None, managed |-> 0, todo |-> {}]
NoPlan == [inventory |-> {}, protected |-> {}, now |-> 0, free |-> None, private |-> 0,
           deletions |-> {}]

\* RetentionWorker::start makes its first sweep before anything can be captured.
Init ==
    /\ policy \in Policies
    /\ disk = {} /\ published = {} /\ guarded = {} /\ private = 0
    /\ queue = <<>> /\ pending = {} /\ failed = {} /\ phase = "starting"
    /\ slot = FALSE /\ stop = FALSE /\ suspended = TRUE
    /\ pc = "probe" /\ round = "initial" /\ stopSeen = FALSE
    /\ sweep = NoSweep /\ plan = NoPlan /\ seen = {}
    /\ since = 0 /\ fresh = 0 /\ removed = {} /\ orphans = {} /\ broken = FALSE
    /\ now = 1 /\ faults = 0

Disturb == faults < policy.faults /\ faults' = faults + 1

\* Seeded fault: a sweep under way counts as the sweep a wake asks for.
TryWakeWhenIdle == slot' = (slot \/ (pc = "wait" /\ ~stop))

\* try_wake: a full slot already stands for a sweep to come.
TryWake == slot' = (slot \/ ~stop)

Added(bytes) == since' = since + bytes /\ fresh' = fresh + bytes

-----------------------------------------------------------------------------
(* The threads that fill the directory. *)

\* capture_loop queues a still that is due, or that the operator asked for: a
\* request is honoured while capture is suspended.  A full queue drops it.
Capture ==
    /\ phase = "running" /\ ~stop /\ "still" \notin failed
    /\ Len(queue) < QueueCap
    /\ Cardinality(published) + Len(queue) < MaxFiles
    /\ IF Suspended THEN Disturb ELSE UNCHANGED faults
    /\ queue' = Append(queue, now)
    /\ UNCHANGED <<files, pending, failed, phase, slot, stop, suspended, thread, since, fresh,
                   history, now>>

Publishers == {"still", "video"}

Publish(thr, at, size, guard) ==
    LET file == [path |-> Cardinality(published) + 1, at |-> at, size |-> size]
    IN  /\ \A p \in pending : p.thr # thr
        /\ size <= Free
        /\ disk' = disk \cup {file}
        /\ published' = published \cup {file}
        /\ guarded' = IF guard THEN guarded \cup {file.path} ELSE guarded
        /\ pending' = pending \cup {[thr |-> thr, path |-> file.path]}

\* writer_loop saves a job; waking retention is a later step.
WriteStill(size, guard) ==
    /\ queue # <<>>
    /\ Publish("still", Head(queue), size, guard)
    /\ Added(size)
    /\ queue' = Tail(queue)
    /\ UNCHANGED <<private, failed, phase, slot, stop, suspended, thread, history, now, faults>>

\* check_video_space(additional)
VideoAdmitted(additional) ==
    /\ ~stop
    /\ HasByteQuota => QuotasSatisfied(Bytes(disk) + private + additional,
                                       SatSub(Free, additional))

\* The video thread spools a sample if there is room, and asks for a sweep if not.
Spool ==
    /\ phase = "running" /\ ~Suspended /\ "video" \notin failed
    /\ private < policy.private /\ Free > 0
    /\ IF VideoAdmitted(1)
       THEN private' = private + 1 /\ Added(1) /\ UNCHANGED slot
       ELSE TryWake /\ UNCHANGED <<private, since, fresh>>
    /\ UNCHANGED <<disk, published, guarded, producers, stop, suspended, thread, history, now,
                   faults>>

\* finish_segment encodes the spool, or discards it under storage pressure.
FinishSegment(size, guard) ==
    /\ phase \in {"running", "draining"} /\ "video" \notin failed
    /\ private > 0
    /\ IF VideoAdmitted(0)
       THEN /\ Cardinality(published) + Len(queue) < MaxFiles
            /\ Publish("video", now, size, guard)
            /\ Added(size)
            /\ UNCHANGED slot
       ELSE /\ TryWake
            /\ UNCHANGED <<disk, published, guarded, pending, since, fresh>>
    /\ private' = 0
    /\ UNCHANGED <<queue, failed, phase, stop, suspended, thread, history, now, faults>>

\* A publisher's thread ends, and with it what only it would have worked on: the
\* writer's queue, or the video segment in its temporary directory.
Ends(thr) ==
    /\ failed' = failed \cup {thr}
    /\ queue' = IF thr = "still" THEN <<>> ELSE queue
    /\ private' = IF thr = "video" THEN 0 ELSE private

\* The publisher wakes retention; a stopped worker ends the publisher.
Wake(p) ==
    /\ p \in pending
    /\ pending' = pending \ {p}
    /\ TryWake
    /\ IF stop THEN Ends(p.thr) ELSE UNCHANGED <<failed, queue, private>>
    /\ UNCHANGED <<disk, published, guarded, phase, stop, suspended, thread, since, fresh, history,
                   now, faults>>

\* The publisher returns an error.  It saves the file, offers it to the upload ledger and
\* wakes retention, in this order: when the ledger refuses, the wake is left out.
PublisherFails(thr) ==
    /\ phase \in {"running", "draining"} /\ thr \notin failed
    /\ Disturb
    /\ Ends(thr)
    /\ pending' = {p \in pending : p.thr # thr}
    /\ orphans' = orphans \cup {p.path : p \in pending \ pending'}
    /\ UNCHANGED <<disk, published, guarded, phase, slot, stop, suspended, thread, since, fresh,
                   removed, broken, now>>

\* The ledger row of a file completes.
Acknowledge(path) ==
    /\ path \in guarded
    /\ guarded' = guarded \ {path}
    /\ UNCHANGED <<disk, published, private, producers, slot, stop, suspended, thread, since,
                   fresh, history, now, faults>>

\* capture_loop ends, also on finding a worker stopped, the writer gone or the video
\* thread finished.
StopCapture ==
    /\ phase = "running"
    /\ phase' = "draining"
    /\ UNCHANGED <<files, queue, pending, failed, slot, stop, suspended, thread, since, fresh,
                   history, now, faults>>

\* RetentionWorker::stop_and_join, once the writer and the video thread are joined.
StopAndJoin ==
    /\ phase = "draining" /\ queue = <<>> /\ pending = {} /\ private = 0
    /\ phase' = "joined"
    /\ suspended' = TRUE /\ stop' = TRUE /\ slot' = TRUE
    /\ UNCHANGED <<files, queue, pending, failed, thread, since, fresh, history, now, faults>>

-----------------------------------------------------------------------------
(* The retention thread. *)

\* The wake that ends the wait; the tokens behind it are drained.
Receive ==
    /\ pc = "wait" /\ slot
    /\ slot' = FALSE
    /\ pc' = "woken"
    /\ UNCHANGED <<files, producers, stop, suspended, round, stopSeen, sweep, plan, seen, since,
                   fresh, history, now, faults>>

\* The sweep interval passes.
Timeout ==
    /\ pc = "wait"
    /\ pc' = "woken"
    /\ UNCHANGED <<files, producers, slot, stop, suspended, round, stopSeen, sweep, plan, seen,
                   since, fresh, history, now, faults>>

ReadStop ==
    /\ pc = "woken"
    /\ stopSeen' = stop
    /\ round' = "loop"
    /\ pc' = "probe"
    /\ UNCHANGED <<files, producers, slot, stop, suspended, sweep, plan, seen, since, fresh,
                   history, now, faults>>

\* available_bytes: the bytes, or a failed probe.
Probed(free) == \/ free = Free /\ UNCHANGED faults
                \/ free = None /\ Disturb

\* sweep_retention reads the clock and the free space ...
Probe ==
    /\ pc = "probe"
    /\ \E free \in {Free, None} : /\ Probed(free)
                                  /\ sweep' = [NoSweep EXCEPT !.now = now, !.free = free]
    /\ pc' = "inventory"
    /\ UNCHANGED <<files, producers, slot, stop, suspended, round, stopSeen, plan, seen, since,
                   fresh, history, now>>

\* ... then the directory, the classifications and the private storage, and plans.
Inventory ==
    /\ pc = "inventory"
    /\ LET protected == {c \in disk : c.path \in guarded}
           deletions == Plan(disk, protected, sweep.now, sweep.free, private)
       IN  /\ plan' = [inventory |-> disk, protected |-> protected, now |-> sweep.now,
                       free |-> sweep.free, private |-> private, deletions |-> deletions]
           /\ sweep' = [sweep EXCEPT !.managed = private + Bytes(disk),
                                     !.todo = deletions]
    /\ seen' = {c.path : c \in disk}
    /\ since' = 0
    /\ pc' = "delete"
    /\ UNCHANGED <<files, producers, slot, stop, suspended, round, stopSeen, fresh, history, now,
                   faults>>

\* Seeded fault: a retained file is credited.
ManagedAfterCredited(outcome, managed, c) == SatSub(managed, c.size)

\* What a deletion attempt leaves of the managed bytes.
ManagedAfter(outcome, managed, c) ==
    IF outcome = "retained" THEN managed ELSE SatSub(managed, c.size)

\* delete_if_still_authorized on the next candidate, oldest first: it is absent, or deleted,
\* or retained because the recheck or the deletion failed.
Delete ==
    /\ pc = "delete" /\ sweep.todo # {}
    /\ LET c == Oldest(sweep.todo)
       IN  \E outcome \in {"absent", "deleted", "retained"} :
              /\ outcome = "absent" <=> c \notin disk
              /\ IF outcome = "retained" THEN Disturb ELSE UNCHANGED faults
              /\ disk' = IF outcome = "deleted" THEN disk \ {c} ELSE disk
              /\ sweep' = [sweep EXCEPT !.todo = @ \ {c},
                                        !.managed = ManagedAfter(outcome, @, c)]
    /\ UNCHANGED <<published, guarded, private, producers, slot, stop, suspended, pc, round,
                   stopSeen, plan, seen, since, fresh, history, now>>

\* Where the thread goes after publishing: the start returns to its caller.
AfterSweep ==
    /\ IF round = "initial" THEN pc' = "wait" /\ phase' = "running"
                            ELSE pc' = "check" /\ UNCHANGED phase
    /\ sweep' = NoSweep /\ plan' = NoPlan

\* The free space is probed again and publish_retention_telemetry stores the flag.
PublishTelemetry ==
    /\ pc = "delete" /\ sweep.todo = {}
    /\ \E free \in {Free, None} : /\ Probed(free)
                                  /\ suspended' = ~QuotasSatisfied(sweep.managed, free)
    /\ fresh' = since
    /\ AfterSweep
    /\ UNCHANGED <<files, queue, pending, failed, slot, stop, round, stopSeen, seen, since,
                   history, now>>

\* The clock, the inventory, the authority or the private count failed.
SweepFails ==
    /\ pc \in {"probe", "inventory"}
    /\ Disturb
    /\ suspended' = HasByteQuota
    /\ broken' = TRUE
    /\ AfterSweep
    /\ UNCHANGED <<files, queue, pending, failed, slot, stop, round, stopSeen, seen, since, fresh,
                   removed, orphans, now>>

\* Seeded fault: a stop that arrives during a sweep ends the thread.
NoFinalSweep == FALSE

\* A stop that arrived during a sweep gets one more, begun after it.
NeedsFinalSweep == round = "loop" /\ ~stopSeen

\* RetentionStopOnDrop
Exit == pc' = "off" /\ stop' = TRUE /\ suspended' = TRUE

CheckStop ==
    /\ pc = "check"
    /\ \/ ~stop /\ pc' = "wait" /\ UNCHANGED <<round, stop, suspended>>
       \/ stop /\ NeedsFinalSweep /\ pc' = "probe" /\ round' = "final"
               /\ UNCHANGED <<stop, suspended>>
       \/ stop /\ ~NeedsFinalSweep /\ Exit /\ UNCHANGED round
    /\ UNCHANGED <<files, producers, slot, stopSeen, sweep, plan, seen, since, fresh, history,
                   now, faults>>

\* The thread panics.
Panic ==
    /\ pc # "off" /\ round # "initial"
    /\ Disturb
    /\ Exit
    /\ broken' = TRUE
    /\ UNCHANGED <<files, producers, slot, round, stopSeen, sweep, plan, seen, since, fresh,
                   removed, orphans, now>>

-----------------------------------------------------------------------------
(* The environment. *)

OperatorDeletes(c) ==
    /\ Disturb
    /\ disk' = disk \ {c}
    /\ removed' = removed \cup {c}
    /\ UNCHANGED <<published, guarded, private, producers, slot, stop, suspended, thread, since,
                   fresh, orphans, broken, now>>

Tick ==
    /\ now < policy.time
    /\ now' = now + 1
    /\ UNCHANGED <<files, producers, slot, stop, suspended, thread, since, fresh, faults,
                   history>>

WorkerStep ==
    \/ Receive \/ ReadStop \/ Probe \/ Inventory \/ Delete \/ PublishTelemetry \/ CheckStop

Step ==
    \/ Capture
    \/ \E size \in policy.sizes, guard \in BOOLEAN : WriteStill(size, guard) \/ FinishSegment(size, guard)
    \/ Spool
    \/ \E p \in pending : Wake(p)
    \/ \E thr \in Publishers : PublisherFails(thr)
    \/ \E path \in guarded : Acknowledge(path)
    \/ StopCapture
    \/ StopAndJoin
    \/ WorkerStep
    \/ Timeout
    \/ SweepFails
    \/ Panic
    \/ \E c \in disk : OperatorDeletes(c)
    \/ Tick

Next == Step /\ UNCHANGED policy

Spec == Init /\ [][Next]_vars

-----------------------------------------------------------------------------
File == [path : 1..MaxFiles, at : 1..policy.time, size : policy.sizes]

FileType ==
    /\ policy \in Policies /\ now \in 1..policy.time
    /\ disk \subseteq published /\ published \subseteq File /\ removed \subseteq published
    /\ guarded \subseteq 1..MaxFiles /\ private \in 0..policy.private
    /\ queue \in Seq(1..policy.time) /\ orphans \subseteq 1..MaxFiles
    /\ pending \subseteq [thr : Publishers, path : 1..MaxFiles] /\ failed \subseteq Publishers
    /\ since \in Nat /\ fresh \in Nat

ThreadType ==
    /\ phase \in {"starting", "running", "draining", "joined"}
    /\ slot \in BOOLEAN /\ stop \in BOOLEAN /\ suspended \in BOOLEAN /\ stopSeen \in BOOLEAN
    /\ pc \in {"wait", "woken", "probe", "inventory", "delete", "check", "off"}
    /\ round \in {"initial", "loop", "final"} /\ broken \in BOOLEAN
    /\ seen \subseteq 1..MaxFiles

SweepType == sweep \in [now : Nat, free : Limit, managed : Nat, todo : SUBSET published]

\* Every variable has its type; in particular the running byte count of a sweep
\* never goes below zero (the code subtracts with saturation).
TypeOK == FileType /\ ThreadType /\ SweepType

\* Every plan meets its definition: nothing protected; everything reclaimable
\* that is old enough; beyond that the oldest files only, none that the quotas
\* did not require, and as many as they require while there are any.
PlanIsExact ==
    LET reclaimable == Reclaimable(plan.inventory, plan.protected)
        aged == Aged(reclaimable, plan.now)
        extra == plan.deletions \ aged
        Suffices(S) == Enough(plan.inventory, plan.free, plan.private, S)
    IN  /\ aged \subseteq plan.deletions /\ plan.deletions \subseteq reclaimable
        /\ \A c \in extra : /\ \A d \in reclaimable : Older(d, c) => d \in plan.deletions
                            /\ ~Suffices(aged \cup {d \in extra : Older(d, c)})
        /\ Suffices(plan.deletions) \/ plan.deletions = reclaimable

\* keep_latest holds across sweeps that plan from an inventory other threads have
\* outrun: the newest file ever published is there, unless an operator removed it.
NewestIsKept ==
    KeepLatest => \A c \in published :
        (\A d \in published : d = c \/ Older(d, c)) => c \in disk \cup removed

\* While capture is not suspended the directory is within its quotas, but for
\* what was added after the inventory of the sweep that said so.
WithinQuotas ==
    ~Suspended => /\ MaxBytes # None => Bytes(disk) + private <= MaxBytes + fresh
                  /\ MinFree # None => Free + fresh >= MinFree

Missed == {c \in disk : c.path \notin seen}
OnTheWay == {p.path : p \in pending}

\* When the thread has been joined in order, its last inventory saw every file
\* that is there (no sweep failed on the way): the epoch's last publication was
\* still subject to retention, also that of a publisher that failed before its wake.
FinalSweepSawAll ==
    (phase = "joined" /\ pc = "off" /\ ~broken) => Missed = {}

\* A coalesced wake is never a lost one: when the thread waits with an empty slot,
\* every file its last inventory did not see has a publisher that is about to wake
\* it, or one that failed in between, unless a sweep failed.  Nothing else waits
\* for the sweep interval, whatever the other publishers do.
NoLostWake ==
    (pc = "wait" /\ ~slot /\ ~broken) => \A c \in Missed : c.path \in OnTheWay \cup orphans

\* Neither a wake that was coalesced nor the stop of an epoch leaves a file that no
\* sweep has seen; a publisher's failure delays it, and no other file, to the next sweep.
NoFileMissed == FinalSweepSawAll /\ NoLostWake

-----------------------------------------------------------------------------
(* The inductive invariant. *)

\* Files are numbered as they are published, and there is room for those queued.
Numbered ==
    /\ IsFiniteSet(published)
    /\ Cardinality(published) + Len(queue) <= MaxFiles
    /\ \A c \in published : c.path <= Cardinality(published)
    /\ \A c, d \in published : c.path = d.path => c = d

\* An epoch that was joined publishes nothing more; unless something failed, only
\* that stops the thread; and only a sweep of the loop can be asked for a last one.
StopInv ==
    /\ phase = "joined" => stop /\ queue = <<>> /\ pending = {} /\ private = 0
    /\ stop /\ ~broken => phase = "joined"
    /\ stopSeen \/ round = "final" \/ pc = "off" => stop
    /\ phase = "starting" => round = "initial"
    /\ round = "initial" /\ pc \in {"probe", "inventory", "delete"} => phase = "starting"
    /\ pc = "check" => round # "initial"
    /\ phase = "starting" => pc \in {"probe", "inventory", "delete"}

\* A file that the last inventory missed has a publisher that will wake the thread or
\* has failed, a token in the slot, or a sweep that has yet to look; once joined, a
\* sweep that need not be repeated has seen everything.
MissedInv ==
    ~broken => /\ \/ slot \/ pc \in {"woken", "probe", "inventory"}
                  \/ \A c \in Missed : c.path \in OnTheWay \cup orphans
               /\ phase = "joined" => \/ Missed = {}
                                      \/ pc \in {"wait", "woken", "probe", "inventory"}
                                      \/ pc \in {"delete", "check"} /\ NeedsFinalSweep

\* What a sweep counts is an upper bound: files that are gone and not yet attempted
\* are still in it.
ManagedInv ==
    pc = "delete" => private + Bytes(disk) + Bytes(sweep.todo \ disk) <= sweep.managed + since

\* A file about to be deleted has a newer one, whatever was published meanwhile.
TodoInv == KeepLatest => \A c \in sweep.todo : \E d \in published : Older(c, d)

IndInv ==
    /\ TypeOK /\ Numbered /\ StopInv /\ MissedInv /\ ManagedInv /\ TodoInv
    /\ PlanIsExact /\ NewestIsKept /\ WithinQuotas

=============================================================================
