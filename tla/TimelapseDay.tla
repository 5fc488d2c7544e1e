----------------------------- MODULE TimelapseDay -----------------------------
(***************************************************************************)
(* The daily timelapse (autopiercam/src/timelapse.rs): the samples cached   *)
(* for every recording window, the worker that seals a window, encodes its  *)
(* movie in a child process, publishes it and offers it once to sharing,    *)
(* and the retention sweep that races with it.  All of the worker's         *)
(* progress is in marker files, so that the process may die anywhere.       *)
(***************************************************************************)
EXTENDS Naturals, FiniteSets

CONSTANTS
    None,
    Legacy,       \* the default schedule: whole UTC days, no window metadata
    Night,        \* a schedule of shorter windows that are delivered later
    Day,          \* ticks in a day
    Dusk,         \* tick of the day at which a window of Night begins
    SendDelay,    \* ticks from the end of such a window to its delivery
    Days,         \* bound: days on which stills are taken
    Keys,         \* consent keys of sharing
    MaxCache,     \* samples the cache can hold
    MaxTime,      \* bound: ticks
    MaxFaults,    \* bound: crashes, failed encodings and failed uploads
    MaxChanges,   \* bound: reloads, changes of consent
    MaxSweeps     \* bound: retention sweeps

Plans == {Legacy, Night}

ASSUME TimelapseAssumption ==
    /\ Legacy # Night /\ None \notin Keys \cup Plans
    /\ Day \in Nat \ {0} /\ Dusk \in 0 .. Day - 1 /\ SendDelay \in Nat
    /\ Days \subseteq Nat /\ IsFiniteSet(Days)
    /\ {MaxCache, MaxTime, MaxFaults, MaxChanges, MaxSweeps} \subseteq Nat

VARIABLES
    now,
    plan,      \* the schedule of this epoch
    consent,   \* TimelapseSink::consent_key of sharing, or None
    up,        \* the worker runs
    bytes,     \* Cache::bytes, in samples
    dir,       \* window directories: samples and markers
    movie,     \* published movies
    wk,        \* the worker thread: step, jobs left, current job
    sweep,     \* a retention sweep: time, inventory, protected outputs
    hist,      \* history: samples saved, movies published, offers to sharing
    faults, changes, sweeps

budget == <<faults, changes, sweeps>>
vars == <<now, plan, consent, up, bytes, dir, movie, wk, sweep, hist, budget>>

Windows == Days \X Plans

\* TimelapseSchedule::at: the window of a schedule that encloses a timestamp.
Start(w) == w[1] * Day + IF w[2] = Night THEN Dusk ELSE 0
End(w) == (w[1] + 1) * Day
SendAfter(w) == End(w) + IF w[2] = Night THEN SendDelay ELSE 0
Contains(w, t) == Start(w) <= t /\ t < End(w)
At(p, t) == {w \in Windows : w[2] = p /\ Contains(w, t)}
Expiry(w) == End(w) + Day
Scheduled(w) == w[2] # Legacy

NoDir == [st |-> "absent", slots |-> {}, sealed |-> FALSE, tmp |-> None, sha |-> None,
          done |-> FALSE, pending |-> None, claim |-> FALSE, sent |-> FALSE, gen |-> 0]
Idle == [pc |-> "idle", jobs |-> {}, cur |-> None]
NoSweep == [st |-> "none", at |-> 0, seen |-> {}, prot |-> {}]

Init ==
    /\ now = 0 /\ plan \in Plans /\ consent \in Keys \cup {None}
    /\ up = TRUE /\ bytes = 0
    /\ dir = [w \in Windows |-> NoDir]
    /\ movie = [w \in Windows |-> None]
    /\ wk = Idle /\ sweep = NoSweep
    /\ hist = [w \in Windows |-> [saved |-> {}, published |-> None, offers |-> 0]]
    /\ faults = 0 /\ changes = 0 /\ sweeps = 0

Fault == faults < MaxFaults /\ faults' = faults + 1
Change == changes < MaxChanges /\ changes' = changes + 1
Cached == {c \in Windows \X (0 .. MaxTime) : c[2] \in dir[c[1]].slots}

-----------------------------------------------------------------------------
(* The writer of stills: DailySink::record, under the lock of the cache. *)

\* Seeded fault: a still that was delayed is added to a sealed window.
AcceptsUnlessDone(w) == ~dir[w].done
Accepts(w) == ~dir[w].sealed /\ ~dir[w].done

Record(t) ==
    /\ up
    /\ \E w \in At(plan, t) :
        /\ Accepts(w) /\ t - Start(w) \notin dir[w].slots
        /\ bytes < MaxCache
        /\ dir' = [dir EXCEPT ![w].st = "made", ![w].slots = @ \cup {t - Start(w)}]
        /\ hist' = [hist EXCEPT ![w].saved = @ \cup {t - Start(w)}]
    /\ bytes' = bytes + 1
    /\ UNCHANGED <<now, plan, consent, up, movie, wk, sweep, budget>>

Down ==
    /\ up' = FALSE /\ bytes' = 0
    /\ wk' = Idle /\ sweep' = NoSweep

\* What a death between the directory of a window and its first sample leaves: no
\* metadata, its temporary file (marker writes it beside window.json), or both done.
\* A temporary file stays; the directory of a UTC day needs no metadata.
LeftBehind(w) ==
    CASE ~Scheduled(w) -> {"made"}
      [] Scheduled(w) /\ dir[w].st = "torn" -> {"torn", "made"}
      [] OTHER -> {"bare", "torn", "made"}

RecordInterrupted(t) ==
    /\ up /\ Fault
    /\ \E w \in At(plan, t) :
        /\ dir[w].st # "made" /\ Accepts(w) /\ bytes < MaxCache
        /\ \E st \in LeftBehind(w) : dir' = [dir EXCEPT ![w].st = st]
    /\ Down
    /\ UNCHANGED <<now, plan, consent, movie, hist, changes, sweeps>>

-----------------------------------------------------------------------------
(* The worker. *)

AtStep(pc) == up /\ wk.pc = pc
Goto(pc) == wk' = [wk EXCEPT !.pc = pc]
\* The job ends, or fails and is tried again by a later pass.
JobEnds == wk' = [wk EXCEPT !.pc = "jobs", !.cur = None]
Quiet == UNCHANGED <<now, plan, consent, up, sweep, changes, sweeps>>

\* uninitialized_window skips an empty directory only: one with a temporary file and
\* no metadata is an error to read_window, and to every listing of the windows.
Blocked == \E w \in Windows : dir[w].st = "torn"

Ended == {w \in Windows : dir[w].st = "made" /\ End(w) <= now}
Sealed(S) == [w \in Windows |-> IF w \in S THEN [dir[w] EXCEPT !.sealed = TRUE] ELSE dir[w]]

\* Cache::pending: every window that has ended is sealed, under the lock.
Scan ==
    /\ AtStep("idle")
    /\ ~Blocked /\ Ended # {}
    /\ dir' = Sealed(Ended)
    /\ wk' = [pc |-> "jobs", jobs |-> Ended, cur |-> None]
    /\ UNCHANGED <<bytes, movie, hist, faults>> /\ Quiet

\* pending fails: what it listed before the torn directory is sealed, nothing is done.
ScanFails ==
    /\ AtStep("idle")
    /\ Blocked
    /\ \E listed \in SUBSET Ended : dir' = Sealed(listed)
    /\ UNCHANGED <<wk, bytes, movie, hist, faults>> /\ Quiet

PassEnds ==
    /\ AtStep("jobs") /\ wk.jobs = {}
    /\ wk' = Idle
    /\ UNCHANGED <<bytes, dir, movie, hist, faults>> /\ Quiet

AfterDone(w) == IF Scheduled(w) THEN "deliver" ELSE "clean"

\* Consent is recorded before the movie is published.
TakeJob(w) ==
    /\ AtStep("jobs") /\ w \in wk.jobs
    /\ wk' = [pc |-> IF dir[w].done THEN AfterDone(w) ELSE "finish",
              jobs |-> wk.jobs \ {w}, cur |-> w]
    /\ dir' = IF dir[w].done \/ ~Scheduled(w) \/ dir[w].pending # None \/ dir[w].sent
              THEN dir
              ELSE IF consent # None THEN [dir EXCEPT ![w].pending = consent]
              ELSE [dir EXCEPT ![w].sent = TRUE]
    /\ UNCHANGED <<bytes, movie, hist, faults>> /\ Quiet

\* Seeded fault: the receipt of an encoding that was lost is kept.
ClearedKeepingReceipt(d) == [d EXCEPT !.tmp = None]
\* What an interrupted encoding left behind is removed.
Cleared(d) == [d EXCEPT !.tmp = None, !.sha = None]

\* finish_day_with, up to the start of the encoder.
FinishDay ==
    /\ AtStep("finish")
    /\ LET w == wk.cur IN
        \/ /\ dir[w].slots = {}
           /\ dir' = [dir EXCEPT ![w].done = TRUE]
           /\ Goto(AfterDone(w))
        \/ /\ dir[w].slots # {} /\ movie[w] = None
           /\ dir' = [dir EXCEPT ![w] = Cleared(@)]
           /\ Goto("encode")
        \/ /\ dir[w].slots # {} /\ movie[w] # None
           /\ UNCHANGED dir /\ Goto("verify")
    /\ UNCHANGED <<bytes, movie, hist, faults>> /\ Quiet

\* No two encodings have the same bytes.
Encode ==
    /\ AtStep("encode")
    /\ LET w == wk.cur
       IN  dir' = [dir EXCEPT ![w].gen = @ + 1,
                              ![w].tmp = [slots |-> dir[w].slots, gen |-> dir[w].gen + 1]]
    /\ Goto("receipt")
    /\ UNCHANGED <<bytes, movie, hist, faults>> /\ Quiet

\* The encoder fails, is too slow, is cancelled or runs out of space.
EncodeFails ==
    /\ AtStep("encode") /\ Fault /\ JobEnds
    /\ UNCHANGED <<bytes, dir, movie, hist>> /\ Quiet

\* marker: a file that exists is left as it is.
WriteReceipt ==
    /\ AtStep("receipt")
    /\ dir' = [dir EXCEPT ![wk.cur].sha = IF @ = None THEN dir[wk.cur].tmp ELSE @]
    /\ Goto("publish")
    /\ UNCHANGED <<bytes, movie, hist, faults>> /\ Quiet

PublishMovie ==
    /\ AtStep("publish")
    /\ LET w == wk.cur
       IN  /\ movie' = [movie EXCEPT ![w] = dir[w].tmp]
           /\ dir' = [dir EXCEPT ![w].tmp = None]
           /\ hist' = [hist EXCEPT ![w].published = dir[w].tmp]
    /\ Goto("verify")
    /\ UNCHANGED <<bytes, faults>> /\ Quiet

\* The published bytes are those of the receipt; the movie enters the outbox.
Verify ==
    /\ AtStep("verify")
    /\ \/ movie[wk.cur] # None /\ movie[wk.cur] = dir[wk.cur].sha
          /\ Goto("mark") /\ UNCHANGED faults
       \/ movie[wk.cur] # dir[wk.cur].sha /\ JobEnds /\ UNCHANGED faults
       \/ Fault /\ JobEnds
    /\ UNCHANGED <<bytes, dir, movie, hist>> /\ Quiet

MarkDone ==
    /\ AtStep("mark")
    /\ dir' = [dir EXCEPT ![wk.cur].done = TRUE]
    /\ Goto(IF ~Scheduled(wk.cur) /\ plan = Legacy THEN "offer" ELSE AfterDone(wk.cur))
    /\ UNCHANGED <<bytes, movie, hist, faults>> /\ Quiet

\* Sharing takes the movie or refuses it (it is not ready, out of space, too late).
Offered(w, key) ==
    \/ consent = key /\ movie[w] # None /\ hist' = [hist EXCEPT ![w].offers = @ + 1]
    \/ UNCHANGED hist

OfferLegacy ==
    /\ AtStep("offer")
    /\ IF consent = None THEN UNCHANGED hist ELSE Offered(wk.cur, consent)
    /\ Goto("clean")
    /\ UNCHANGED <<bytes, dir, movie, faults>> /\ Quiet

\* delivery_decision.
Cancels(w) == plan # w[2] \/ consent # dir[w].pending \/ now >= Expiry(w)
\* Seeded fault: a claim left by an interrupted attempt is taken again.
ClaimedBefore(w) == FALSE
Interrupted(w) == dir[w].claim

\* deliver_scheduled.
Deliver ==
    /\ AtStep("deliver")
    /\ LET w == wk.cur IN
       \/ /\ dir[w].sent \/ (~Interrupted(w) /\ dir[w].pending = None)
          /\ UNCHANGED dir /\ Goto("clean")
       \/ /\ ~dir[w].sent /\ Interrupted(w)
          /\ dir' = [dir EXCEPT ![w].sent = TRUE] /\ Goto("clean")
       \/ /\ ~dir[w].sent /\ ~Interrupted(w) /\ dir[w].pending # None
          /\ \/ Cancels(w) /\ dir' = [dir EXCEPT ![w].sent = TRUE] /\ Goto("clean")
             \/ ~Cancels(w) /\ UNCHANGED dir /\ Goto("clean")   \* Wait: too early or not ready
             \/ /\ ~Cancels(w) /\ now >= SendAfter(w)
                /\ IF movie[w] = None \/ movie[w] # dir[w].sha
                   THEN UNCHANGED dir /\ JobEnds
                   ELSE dir' = [dir EXCEPT ![w].claim = TRUE] /\ Goto("send")
    /\ UNCHANGED <<bytes, movie, hist, faults>> /\ Quiet

Send ==
    /\ AtStep("send")
    /\ Offered(wk.cur, dir[wk.cur].pending)
    /\ Goto("sent")
    /\ UNCHANGED <<bytes, dir, movie, faults>> /\ Quiet

MarkSent ==
    /\ AtStep("sent")
    /\ dir' = [dir EXCEPT ![wk.cur].sent = TRUE]
    /\ Goto("clean")
    /\ UNCHANGED <<bytes, movie, hist, faults>> /\ Quiet

\* Cache::clean_done, under the lock.
Clean ==
    /\ AtStep("clean")
    /\ dir' = [dir EXCEPT ![wk.cur].slots = {}]
    /\ bytes' = bytes - Cardinality(dir[wk.cur].slots)
    /\ JobEnds
    /\ UNCHANGED <<movie, hist, faults>> /\ Quiet

\* The recording epoch ends: the worker stops between two jobs.
Stop ==
    /\ up /\ wk.pc \in {"idle", "jobs"} /\ Change
    /\ Down
    /\ UNCHANGED <<now, plan, consent, dir, movie, hist, faults, sweeps>>

Crash ==
    /\ up /\ Fault
    /\ Down
    /\ UNCHANGED <<now, plan, consent, dir, movie, hist, changes, sweeps>>

\* DailyWorker::start with the schedule now configured; Cache::open counts.
StartWorker ==
    /\ ~up /\ up' = TRUE
    /\ plan' \in Plans
    /\ bytes' = Cardinality(Cached)
    /\ UNCHANGED <<now, consent, dir, movie, wk, sweep, hist, budget>>

ConsentChanges ==
    /\ Change
    /\ consent' \in (Keys \cup {None}) \ {consent}
    /\ UNCHANGED <<now, plan, up, bytes, dir, movie, wk, sweep, hist, faults, sweeps>>

Tick ==
    /\ now < MaxTime
    /\ now' = now + 1
    /\ UNCHANGED <<plan, consent, up, bytes, dir, movie, wk, sweep, hist, budget>>

-----------------------------------------------------------------------------
(* sweep_retention: the inventory is taken before the protected outputs. *)

\* Seeded fault: only a movie that is done is protected.
ProtectedOnceDone(at) ==
    {w \in Windows : /\ Scheduled(w) /\ dir[w].done
                     /\ dir[w].pending # None /\ ~dir[w].sent /\ at < Expiry(w)}
\* protected_outputs.
Protected(at) ==
    {w \in Windows : /\ Scheduled(w) /\ dir[w].st = "made"
                     /\ dir[w].pending # None /\ ~dir[w].sent /\ at < Expiry(w)}
Inventory == {w \in Windows : movie[w] # None}

\* A sweep that finds no movie has nothing to do here.
SweepInventory ==
    /\ Inventory # {}
    /\ up /\ sweep.st = "none" /\ sweeps < MaxSweeps
    /\ sweeps' = sweeps + 1
    /\ sweep' = [st |-> "listed", at |-> now, seen |-> Inventory, prot |-> {}]
    /\ UNCHANGED <<now, plan, consent, up, bytes, dir, movie, wk, hist, faults, changes>>

\* A directory it cannot read ends the sweep.
SweepProtect ==
    /\ up /\ sweep.st = "listed"
    /\ sweep' = IF Blocked THEN NoSweep
                ELSE [sweep EXCEPT !.st = "planned", !.prot = Protected(sweep.at)]
    /\ UNCHANGED <<now, plan, consent, up, bytes, dir, movie, wk, hist, budget>>

\* The plan may spare some of what it could delete.
SweepDelete ==
    /\ up /\ sweep.st = "planned"
    /\ \E gone \in SUBSET (sweep.seen \ sweep.prot) :
            movie' = [w \in Windows |-> IF w \in gone THEN None ELSE movie[w]]
    /\ sweep' = NoSweep
    /\ UNCHANGED <<now, plan, consent, up, bytes, dir, wk, hist, budget>>

Worker ==
    \/ Scan \/ PassEnds \/ (\E w \in Windows : TakeJob(w)) \/ FinishDay \/ Encode
    \/ EncodeFails \/ WriteReceipt \/ PublishMovie \/ Verify \/ MarkDone \/ OfferLegacy
    \/ Deliver \/ Send \/ MarkSent \/ Clean

Sweep == SweepInventory \/ SweepProtect \/ SweepDelete

Next ==
    \/ \E t \in 0 .. now : Record(t) \/ RecordInterrupted(t)
    \/ Worker \/ ScanFails \/ Sweep \/ Stop \/ Crash \/ StartWorker \/ ConsentChanges \/ Tick

Spec == Init /\ [][Next]_vars
\* The worker's loop runs on and a new epoch starts a worker again.
FairSpec == Spec /\ WF_vars(Worker) /\ WF_vars(StartWorker)

-----------------------------------------------------------------------------
(* Properties. *)

Files == [slots : SUBSET (0 .. MaxTime), gen : Nat]
Movies == Files \cup {None}
Dirs == [st : {"absent", "bare", "torn", "made"}, slots : SUBSET (0 .. MaxTime), sealed : BOOLEAN,
         tmp : Movies, sha : Movies, done : BOOLEAN, pending : Keys \cup {None},
         claim : BOOLEAN, sent : BOOLEAN, gen : Nat]
History == [saved : SUBSET (0 .. MaxTime), published : Movies, offers : Nat]
AtWork == {"finish", "encode", "receipt", "publish", "verify", "mark"}
AtDelivery == {"deliver", "send", "sent"}
Steps == AtWork \cup AtDelivery \cup {"idle", "jobs", "offer", "clean"}
Work == [pc : Steps, jobs : SUBSET Windows, cur : Windows \cup {None}]
Sweeps == [st : {"none", "listed", "planned"}, at : 0 .. MaxTime,
           seen : SUBSET Windows, prot : SUBSET Windows]

ASSUME NoneIsNoFile == None \notin Files

DirType ==
    /\ dir \in [Windows -> Dirs] /\ movie \in [Windows -> Movies]
    /\ hist \in [Windows -> History]
WorkType ==
    /\ wk \in Work
    /\ wk.pc \notin {"idle", "jobs"} => wk.cur \in Windows
    /\ sweep \in Sweeps
RestType ==
    /\ now \in 0 .. MaxTime /\ plan \in Plans /\ consent \in Keys \cup {None}
    /\ up \in BOOLEAN /\ bytes \in 0 .. MaxCache
    /\ faults \in 0 .. MaxFaults /\ changes \in 0 .. MaxChanges /\ sweeps \in 0 .. MaxSweeps
TypeOK == DirType /\ WorkType /\ RestType

\* The cache knows how much it holds, whatever recorded or cleaned in between.
BytesAreCounted == up => bytes = Cardinality(Cached)

\* No sample is lost: it stays on disk until its window is done, and the movie
\* published last for a window that is done shows every sample it ever took.
MovieIsWhole ==
    \A w \in Windows :
        /\ ~dir[w].done => dir[w].slots = hist[w].saved
        /\ dir[w].done /\ hist[w].saved # {} =>
                hist[w].published # None /\ hist[w].published.slots = hist[w].saved

\* A movie is offered to sharing at most once, wherever the process dies between
\* the claim, the offer and its marker (deliver_scheduled, offer_checked).
OfferedOnce == \A w \in Windows : hist[w].offers <= 1

\* A movie that waits for its delivery is not purged before it expires, although
\* the sweep reads the directory and the markers at different times.
PendingIsKept ==
    \A w \in Windows :
        dir[w].pending # None /\ ~dir[w].sent /\ now < Expiry(w)
            /\ hist[w].published # None
        => movie[w] # None

TimelapseInv == TypeOK /\ BytesAreCounted /\ MovieIsWhole /\ PendingIsKept

-----------------------------------------------------------------------------
(* The inductive invariant behind these properties. *)

\* What the cache holds is within its limit, also while no worker counts it.
CountInv == BytesAreCounted /\ Cardinality(Cached) <= MaxCache

\* A window takes samples until it is sealed; its movie is made after that.
WindowInv ==
    /\ MovieIsWhole
    /\ \A w \in Windows :
        /\ dir[w].sealed => dir[w].st = "made"
        /\ dir[w].done => dir[w].sealed
        /\ dir[w].tmp # None => dir[w].sealed /\ dir[w].tmp.slots = hist[w].saved
        /\ hist[w].published # None =>
              dir[w].sealed /\ hist[w].published.slots = hist[w].saved
        /\ movie[w] \in {None, hist[w].published}

\* The worker has sealed what it works on, and knows how far its markers are.
WorkerInv ==
    /\ ~up => wk.pc = "idle" /\ sweep.st = "none"
    /\ wk.pc = "idle" => wk.jobs = {}
    /\ \A w \in wk.jobs : dir[w].sealed
    /\ wk.pc \notin {"idle", "jobs"} =>
          /\ dir[wk.cur].sealed
          /\ dir[wk.cur].done <=> wk.pc \notin AtWork
    /\ wk.pc \in {"receipt", "publish"} => dir[wk.cur].tmp # None
    /\ wk.pc = "mark" => hist[wk.cur].published # None

\* A movie is offered under a claim, or on the way from its marker.
OfferInv ==
    /\ OfferedOnce
    /\ \A w \in Windows :
          (IF Scheduled(w) THEN ~dir[w].claim ELSE ~dir[w].done) => hist[w].offers = 0
    /\ wk.pc = "offer" => ~Scheduled(wk.cur)
    /\ wk.pc \in AtDelivery => Scheduled(wk.cur)
    /\ wk.pc \in {"offer", "send"} => hist[wk.cur].offers = 0
    /\ wk.pc = "send" => dir[wk.cur].claim

\* Consent is decided before a movie exists, and a sweep that has read the
\* markers deletes no movie that waits.
Decided(w) == Scheduled(w) => dir[w].pending # None \/ dir[w].sent
PendingInv ==
    /\ PendingIsKept
    /\ \A w \in Windows :
        /\ ~Scheduled(w) => dir[w].pending = None
        /\ hist[w].published # None => Decided(w)
    /\ wk.pc \in AtWork => Decided(wk.cur)
    /\ sweep.at <= now
    /\ \A w \in sweep.seen :
        /\ hist[w].published # None
        /\ sweep.st = "planned" /\ w \notin sweep.prot /\ Scheduled(w) =>
              dir[w].sent \/ Expiry(w) <= now

IndInv == TypeOK /\ CountInv /\ WindowInv /\ WorkerInv /\ OfferInv /\ PendingInv

-----------------------------------------------------------------------------
\* Every window that has ended is finished in the end, over crashes, failed encodings,
\* reloads and sweeps that purge its movie before it is done.  One thing alone can
\* stand in the way for good: the directory of some other window that a death in
\* marker(window.json) has left torn, and that no later sample of its window
\* initializes; pending then fails for all of them.
Unfinished == \E w \in Ended : ~dir[w].done
EndedIsFinished == []<>~Blocked => (Unfinished ~> ~Unfinished)
=============================================================================
