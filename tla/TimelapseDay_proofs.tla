------------------------- MODULE TimelapseDay_proofs -------------------------
(* Machine-checked proofs about TimelapseDay, for any windows, any length of the *)
(* day, any cache and any number of crashes, changes and sweeps.                 *)
EXTENDS TimelapseDay, FiniteSetTheorems, TLAPS

USE TimelapseAssumption

-----------------------------------------------------------------------------
(* What the cache holds. *)

\* A function updated at one point, or not at all.
LEMMA UpdatedAt ==
    ASSUME NEW S, NEW T, NEW f \in [S -> T], NEW g, NEW x \in S, NEW y \in T,
           g = [f EXCEPT ![x] = y] \/ (g = f /\ y = f[x])
    PROVE  g \in [S -> T] /\ g[x] = y /\ \A z \in S : z # x => g[z] = f[z]
OBVIOUS

\* There are finitely many points in time.
LEMMA TimesAreFinite == IsFiniteSet(0 .. MaxTime)
<1>1. 0 \in Int /\ MaxTime \in Int
  OBVIOUS
<1> QED
  BY <1>1, FS_Interval

\* There are finitely many samples in the cache.
LEMMA CacheIsFinite ==
    /\ IsFiniteSet(Cached) /\ IsFiniteSet(Cached')
    /\ Cardinality(Cached) \in Nat /\ Cardinality(Cached') \in Nat
<1>1. IsFiniteSet(Plans)
  <2>1. IsFiniteSet({Legacy})
    BY FS_Singleton
  <2>2. IsFiniteSet({Legacy} \cup {Night})
    BY <2>1, FS_AddElement
  <2> QED
    BY <2>2 DEF Plans
<1>2. IsFiniteSet(Windows)
  BY <1>1, FS_Product DEF Windows
<1>3. IsFiniteSet(Windows \X (0 .. MaxTime))
  BY <1>2, TimesAreFinite, FS_Product
<1>4. IsFiniteSet(Cached) /\ IsFiniteSet(Cached')
  BY <1>3, FS_Subset DEF Cached
<1> QED
  BY <1>4, FS_CardinalityType

\* Steps that leave the samples alone leave their number alone.
LEMMA SameSamples ==
    ASSUME \A v \in Windows : dir'[v].slots = dir[v].slots
    PROVE  Cached' = Cached
BY DEF Cached

\* A new sample is one more.
LEMMA OneMoreSample ==
    ASSUME NEW w \in Windows, NEW s \in 0 .. MaxTime, s \notin dir[w].slots,
           dir'[w].slots = dir[w].slots \cup {s},
           \A v \in Windows : v # w => dir'[v].slots = dir[v].slots
    PROVE  Cardinality(Cached') = Cardinality(Cached) + 1
<1>1. Cached' = Cached \cup {<<w, s>>}
  BY DEF Cached
<1>2. <<w, s>> \notin Cached
  BY DEF Cached
<1> QED
  BY <1>1, <1>2, CacheIsFinite, FS_AddElement

\* Cleaning a window removes as many samples as it had.
LEMMA FewerSamples ==
    ASSUME NEW w \in Windows, dir[w].slots \subseteq 0 .. MaxTime, dir'[w].slots = {},
           \A v \in Windows : v # w => dir'[v].slots = dir[v].slots
    PROVE  Cardinality(Cached') = Cardinality(Cached) - Cardinality(dir[w].slots)
<1> DEFINE own == {c \in Cached : c[1] = w}
           pair == [s \in dir[w].slots |-> <<w, s>>]
<1>1. Cached' = Cached \ own
  BY DEF Cached
<1>2. IsFiniteSet(own) /\ Cached \cap own = own
  BY CacheIsFinite, FS_Subset
<1>3. IsFiniteSet(dir[w].slots)
  BY TimesAreFinite, FS_Subset
<1>4. ExistsBijection(dir[w].slots, own)
  <2>1. \A s \in dir[w].slots : <<w, s>> \in own
    BY DEF Cached
  <2>2. \A c \in own : c[2] \in dir[w].slots /\ c = <<w, c[2]>>
    BY DEF Cached
  <2>3. pair \in [dir[w].slots -> own]
    BY <2>1
  <2>4. pair \in Injection(dir[w].slots, own)
    BY <2>3 DEF Injection, IsInjective
  <2>5. pair \in Surjection(dir[w].slots, own)
    BY <2>2, <2>3 DEF Surjection
  <2> QED
    BY <2>4, <2>5 DEF ExistsBijection, Bijection
<1>5. Cardinality(own) = Cardinality(dir[w].slots)
  BY <1>3, <1>4, FS_Bijection
<1>6. Cardinality(Cached \ own) = Cardinality(Cached) - Cardinality(Cached \cap own)
  BY CacheIsFinite, FS_Difference
<1> HIDE DEF own
<1> QED
  BY <1>1, <1>2, <1>5, <1>6

-----------------------------------------------------------------------------
(* The inductive invariant, one window at a time. *)

\* What the invariants ask of a window with these markers, history and movie.
WindowOK(d, h, m) ==
    /\ d \in Dirs /\ h \in History /\ m \in Movies
    /\ ~d.done => d.slots = h.saved
    /\ d.done /\ h.saved # {} => h.published # None
    /\ d.sealed => d.st = "made"
    /\ d.done => d.sealed
    /\ d.tmp # None => d.sealed /\ d.tmp.slots = h.saved
    /\ h.published # None => d.sealed /\ h.published.slots = h.saved
    /\ m \in {None, h.published}
OfferOK(w, d, h) ==
    /\ h.offers <= 1
    /\ (IF Scheduled(w) THEN ~d.claim ELSE ~d.done) => h.offers = 0
DecidedOK(w, d) == Scheduled(w) => d.pending # None \/ d.sent
PendingOK(w, d, h, m) ==
    /\ d.pending # None /\ ~d.sent /\ now < Expiry(w) /\ h.published # None => m # None
    /\ ~Scheduled(w) => d.pending = None
    /\ h.published # None => DecidedOK(w, d)
\* What they ask of the window at hand at a step of the worker.
StepOK(pc, w, d, h) ==
    /\ d.sealed /\ (d.done <=> pc \notin AtWork)
    /\ pc \in {"receipt", "publish"} => d.tmp # None
    /\ pc = "mark" => h.published # None
    /\ pc = "offer" => ~Scheduled(w)
    /\ pc \in AtDelivery => Scheduled(w)
    /\ pc \in {"offer", "send"} => h.offers = 0
    /\ pc = "send" => d.claim
    /\ pc \in AtWork => DecidedOK(w, d)

\* Every window is as they ask.
LEMMA EveryWindow ==
    ASSUME IndInv, NEW w \in Windows
    PROVE  /\ WindowOK(dir[w], hist[w], movie[w])
           /\ OfferOK(w, dir[w], hist[w])
           /\ PendingOK(w, dir[w], hist[w], movie[w])
<1>1. WindowOK(dir[w], hist[w], movie[w])
  BY DEF IndInv, TypeOK, DirType, WindowInv, MovieIsWhole, WindowOK
<1>2. OfferOK(w, dir[w], hist[w])
  BY DEF IndInv, OfferInv, OfferedOnce, OfferOK
<1>3. PendingOK(w, dir[w], hist[w], movie[w])
  BY DEF IndInv, PendingInv, PendingIsKept, Decided, PendingOK, DecidedOK
<1> QED
  BY <1>1, <1>2, <1>3

\* So is the one at hand.
LEMMA AtHand ==
    ASSUME IndInv, wk.pc \notin {"idle", "jobs"}
    PROVE  wk.cur \in Windows /\ StepOK(wk.pc, wk.cur, dir[wk.cur], hist[wk.cur])
<1>1. wk.cur \in Windows
  BY DEF IndInv, TypeOK, WorkType
<1>2. wk.pc \in AtWork => Decided(wk.cur)
  BY DEF IndInv, PendingInv
<1>3. StepOK(wk.pc, wk.cur, dir[wk.cur], hist[wk.cur])
  BY <1>1, <1>2 DEF IndInv, WorkerInv, OfferInv, StepOK, DecidedOK, Decided
<1> QED
  BY <1>1, <1>3

\* A step of the worker at a window: its markers, history, movie and the next step.
Moves(w, d, h, m, k) ==
    /\ dir' = [dir EXCEPT ![w] = d] \/ (dir' = dir /\ d = dir[w])
    /\ hist' = [hist EXCEPT ![w] = h] \/ (hist' = hist /\ h = hist[w])
    /\ movie' = [movie EXCEPT ![w] = m] \/ (movie' = movie /\ m = movie[w])
    /\ wk' = k /\ k \in Work /\ k.jobs \subseteq wk.jobs /\ up /\ faults' \in 0 .. MaxFaults
    /\ UNCHANGED <<now, plan, consent, up, sweep, changes, sweeps>>
\* It takes nothing back.
Grows(d, e, g, h) ==
    /\ d.sealed => e.sealed
    /\ d.sent => e.sent
    /\ g.published # None => h.published # None

\* Such a step keeps the invariant when its window ends as asked.
LEMMA WorkerStep ==
    ASSUME IndInv, NEW w \in Windows, NEW d, NEW h, NEW m, NEW k, Moves(w, d, h, m, k),
           WindowOK(d, h, m), OfferOK(w, d, h), PendingOK(w, d, h, m),
           Grows(dir[w], d, hist[w], h), CountInv',
           k.pc = "idle" => k.jobs = {},
           k.pc \notin {"idle", "jobs"} => k.cur = w /\ StepOK(k.pc, w, d, h)
    PROVE  IndInv'
<1>0. DirType /\ WorkType /\ RestType
  BY DEF IndInv, TypeOK
<1>1. d \in Dirs /\ h \in History /\ m \in Movies
  BY DEF WindowOK
<1>2. dir' \in [Windows -> Dirs] /\ dir'[w] = d /\ \A v \in Windows : v # w => dir'[v] = dir[v]
  BY <1>0, <1>1, UpdatedAt DEF Moves, DirType
<1>3. /\ hist' \in [Windows -> History] /\ hist'[w] = h
      /\ \A v \in Windows : v # w => hist'[v] = hist[v]
  BY <1>0, <1>1, UpdatedAt DEF Moves, DirType
<1>4. /\ movie' \in [Windows -> Movies] /\ movie'[w] = m
      /\ \A v \in Windows : v # w => movie'[v] = movie[v]
  BY <1>0, <1>1, UpdatedAt DEF Moves, DirType
<1>5. wk' = k /\ k \in Work /\ UNCHANGED <<now, up, sweep>> /\ up
  BY DEF Moves
<1>6. \A v \in Windows : WindowOK(dir'[v], hist'[v], movie'[v])
  <2> SUFFICES ASSUME NEW v \in Windows PROVE WindowOK(dir'[v], hist'[v], movie'[v])
    OBVIOUS
  <2>1. CASE v = w
    BY <1>2, <1>3, <1>4, <2>1
  <2>2. CASE v # w
    BY <1>2, <1>3, <1>4, <2>2, EveryWindow
  <2> QED
    BY <2>1, <2>2
<1>7. \A v \in Windows : OfferOK(v, dir'[v], hist'[v])
  <2> SUFFICES ASSUME NEW v \in Windows PROVE OfferOK(v, dir'[v], hist'[v])
    OBVIOUS
  <2>1. CASE v = w
    BY <1>2, <1>3, <2>1
  <2>2. CASE v # w
    BY <1>2, <1>3, <2>2, EveryWindow
  <2> QED
    BY <2>1, <2>2
<1>8. \A v \in Windows : PendingOK(v, dir'[v], hist'[v], movie'[v])
  <2> SUFFICES ASSUME NEW v \in Windows PROVE PendingOK(v, dir'[v], hist'[v], movie'[v])
    OBVIOUS
  <2>1. CASE v = w
    BY <1>2, <1>3, <1>4, <2>1
  <2>2. CASE v # w
    BY <1>2, <1>3, <1>4, <2>2, EveryWindow
  <2> QED
    BY <2>1, <2>2
<1>9. k.pc \notin {"idle", "jobs"} => k.cur = w /\ StepOK(k.pc, k.cur, dir'[k.cur], hist'[k.cur])
  BY <1>2, <1>3
<1>10. \A v \in Windows : Grows(dir[v], dir'[v], hist[v], hist'[v])
  BY <1>2, <1>3 DEF Grows
<1>11. TypeOK'
  <2>1. DirType'
    BY <1>2, <1>3, <1>4 DEF DirType
  <2>2. WorkType'
    BY <1>0, <1>5, <1>9 DEF WorkType
  <2>3. RestType'
    <3>1. bytes' \in 0 .. MaxCache
      BY CacheIsFinite DEF Moves, CountInv, BytesAreCounted
    <3> QED
      BY <1>0, <3>1 DEF RestType, Moves
  <2> QED
    BY <2>1, <2>2, <2>3 DEF TypeOK
<1>12. WindowInv'
  BY <1>6 DEF WindowInv, MovieIsWhole, WindowOK
<1>13. WorkerInv'
  <2>1. \A v \in k.jobs : dir'[v].sealed
    BY <1>10 DEF Moves, Work, IndInv, WorkerInv, Grows
  <2> QED
    BY <1>5, <1>9, <2>1 DEF WorkerInv, StepOK
<1>14. OfferInv'
  BY <1>5, <1>7, <1>9 DEF OfferInv, OfferedOnce, OfferOK, StepOK, AtDelivery
<1>15. PendingInv'
  <2>1. PendingIsKept' /\ \A v \in Windows : (~Scheduled(v) => dir'[v].pending = None)
                          /\ (hist'[v].published # None => Decided(v)')
    BY <1>5, <1>8 DEF PendingIsKept, PendingOK, DecidedOK, Decided
  <2>2. wk'.pc \in AtWork => Decided(wk.cur)'
    BY <1>5, <1>9 DEF StepOK, DecidedOK, Decided, AtWork
  <2>3. \A v \in sweep.seen : v \in Windows
    BY <1>0 DEF WorkType, Sweeps
  <2> QED
    BY <1>5, <1>10, <2>1, <2>2, <2>3 DEF PendingInv, IndInv, Grows
<1> QED
  BY <1>11, <1>12, <1>13, <1>14, <1>15 DEF IndInv

-----------------------------------------------------------------------------
(* The worker, step by step. *)

\* Samples that are left alone are still counted.
LEMMA StillCounted ==
    ASSUME IndInv, \A v \in Windows : dir'[v].slots = dir[v].slots,
           UNCHANGED <<up, bytes>>
    PROVE  CountInv'
BY SameSamples DEF IndInv, CountInv, BytesAreCounted

\* A step that only moves on.
LEMMA MovesOn ==
    ASSUME IndInv, NEW w \in Windows, NEW k, Quiet, up, UNCHANGED <<bytes, dir, movie, hist>>,
           wk' = k, k \in Work, k.jobs \subseteq wk.jobs, faults' \in 0 .. MaxFaults,
           k.pc = "idle" => k.jobs = {},
           k.pc \notin {"idle", "jobs"} => k.cur = w /\ StepOK(k.pc, w, dir[w], hist[w])
    PROVE  IndInv'
<1>1. CountInv'
  BY StillCounted DEF Quiet
<1>2. Moves(w, dir[w], hist[w], movie[w], k)
  BY DEF Moves, Quiet
<1>3. Grows(dir[w], dir[w], hist[w], hist[w])
  BY DEF Grows
<1> QED
  BY <1>1, <1>2, <1>3, EveryWindow, WorkerStep

\* A step that writes the markers of the window at hand and moves on.
LEMMA Marks ==
    ASSUME IndInv, wk.pc \notin {"idle", "jobs"}, NEW d, NEW pc \in Steps \ {"idle", "jobs"},
           Quiet, up, UNCHANGED <<bytes, movie, hist, faults>>,
           dir' = [dir EXCEPT ![wk.cur] = d], wk' = [wk EXCEPT !.pc = pc],
           WindowOK(d, hist[wk.cur], movie[wk.cur]), OfferOK(wk.cur, d, hist[wk.cur]),
           PendingOK(wk.cur, d, hist[wk.cur], movie[wk.cur]),
           d.slots = dir[wk.cur].slots, dir[wk.cur].sealed => d.sealed,
           dir[wk.cur].sent => d.sent, StepOK(pc, wk.cur, d, hist[wk.cur])
    PROVE  IndInv'
<1>0. DirType /\ WorkType /\ RestType
  BY DEF IndInv, TypeOK
<1>1. wk.cur \in Windows
  BY AtHand
<1>2. \A v \in Windows : dir'[v].slots = dir[v].slots
  BY <1>0, <1>1 DEF DirType
<1>3. CountInv'
  BY <1>2, StillCounted DEF Quiet
<1>4. /\ wk' \in Work /\ wk'.pc = pc /\ wk'.cur = wk.cur /\ wk'.jobs = wk.jobs
  BY <1>0 DEF WorkType, Work
<1>5. Moves(wk.cur, d, hist[wk.cur], movie[wk.cur], wk')
  BY <1>0, <1>4 DEF Moves, Quiet, RestType
<1>6. Grows(dir[wk.cur], d, hist[wk.cur], hist[wk.cur])
  BY DEF Grows
<1>7. PICK k : k = wk'
  OBVIOUS
<1> QED
  BY <1>1, <1>3, <1>4, <1>5, <1>6, <1>7, WorkerStep

\* The end of a job.
LEMMA JobIsOver ==
    ASSUME IndInv, wk.pc \notin {"idle", "jobs"}, JobEnds, Quiet, up,
           UNCHANGED <<bytes, dir, movie, hist>>, faults' \in 0 .. MaxFaults
    PROVE  IndInv'
<1>1. wk \in Work
  BY DEF IndInv, TypeOK, WorkType
<1>2. wk' \in Work /\ wk'.pc = "jobs" /\ wk'.jobs = wk.jobs
  BY <1>1 DEF JobEnds, Work, Steps
<1>3. PICK k : k = wk'
  OBVIOUS
<1> QED
  BY <1>2, <1>3, AtHand, MovesOn

\* A step of the job that writes nothing.
LEMMA JobGoesOn ==
    ASSUME IndInv, wk.pc \notin {"idle", "jobs"}, NEW pc \in Steps \ {"idle", "jobs"}, Goto(pc),
           Quiet, up, UNCHANGED <<bytes, dir, movie, hist, faults>>,
           StepOK(pc, wk.cur, dir[wk.cur], hist[wk.cur])
    PROVE  IndInv'
<1>1. wk \in Work /\ faults \in 0 .. MaxFaults
  BY DEF IndInv, TypeOK, WorkType, RestType
<1>2. wk' \in Work /\ wk'.pc = pc /\ wk'.jobs = wk.jobs /\ wk'.cur = wk.cur
  BY <1>1 DEF Goto, Work
<1>3. PICK k : k = wk'
  OBVIOUS
<1> QED
  BY <1>1, <1>2, <1>3, AtHand, MovesOn

\* The window at hand, with all that is known of it.
LEMMA Window ==
    ASSUME IndInv, wk.pc \notin {"idle", "jobs"}
    PROVE  /\ wk.cur \in Windows
           /\ WindowOK(dir[wk.cur], hist[wk.cur], movie[wk.cur])
           /\ OfferOK(wk.cur, dir[wk.cur], hist[wk.cur])
           /\ PendingOK(wk.cur, dir[wk.cur], hist[wk.cur], movie[wk.cur])
           /\ StepOK(wk.pc, wk.cur, dir[wk.cur], hist[wk.cur])
BY AtHand, EveryWindow

\* A pass over the windows ends.
LEMMA PassEndsStep == ASSUME IndInv, PassEnds PROVE IndInv'
<1>1. wk.jobs = {} /\ wk' = Idle /\ UNCHANGED <<bytes, dir, movie, hist, faults>> /\ Quiet
  BY DEF PassEnds
<1>2. Idle \in Work /\ Idle.pc = "idle" /\ Idle.jobs = {}
  BY DEF Idle, Work, Steps
<1>3. TypeOK'
  BY <1>1, <1>2 DEF IndInv, TypeOK, DirType, WorkType, RestType, Quiet
<1>4. CountInv'
  BY <1>1, StillCounted DEF Quiet
<1>5. WindowInv'
  BY <1>1 DEF IndInv, WindowInv, MovieIsWhole
<1>6. WorkerInv'
  BY <1>1, <1>2 DEF IndInv, WorkerInv, Quiet
<1>7. OfferInv'
  BY <1>1, <1>2 DEF IndInv, OfferInv, OfferedOnce, AtDelivery
<1>8. PendingInv'
  BY <1>1, <1>2 DEF IndInv, PendingInv, PendingIsKept, Decided, Quiet, AtWork
<1> QED
  BY <1>3, <1>4, <1>5, <1>6, <1>7, <1>8 DEF IndInv

\* A job begins: consent is decided before its movie is made.
LEMMA TakeJobStep == ASSUME IndInv, NEW w \in Windows, TakeJob(w) PROVE IndInv'
<1>0. DirType /\ WorkType /\ RestType /\ dir[w] \in Dirs
  BY DEF IndInv, TypeOK, DirType
<1>1. /\ wk.pc = "jobs" /\ w \in wk.jobs /\ Quiet /\ up /\ UNCHANGED <<bytes, movie, hist, faults>>
      /\ wk' = [pc |-> IF dir[w].done THEN AfterDone(w) ELSE "finish",
                jobs |-> wk.jobs \ {w}, cur |-> w]
  BY DEF TakeJob, AtStep
<1>2. dir[w].sealed
  BY <1>1 DEF IndInv, WorkerInv
<1>3. PICK k : k = wk'
  OBVIOUS
<1>4. /\ k \in Work /\ k.cur = w /\ k.jobs \subseteq wk.jobs
      /\ k.pc = IF dir[w].done THEN AfterDone(w) ELSE "finish"
  BY <1>0, <1>1, <1>3 DEF WorkType, Work, Steps, AtWork, AtDelivery, AfterDone
<1>5. k.pc \in {"finish", "deliver", "clean"} /\ (k.pc = "finish" <=> ~dir[w].done)
      /\ (k.pc = "deliver" => Scheduled(w))
  BY <1>4 DEF AfterDone
<1>6. PICK e : /\ e \in Dirs
               /\ dir' = [dir EXCEPT ![w] = e] \/ (dir' = dir /\ e = dir[w])
               /\ \/ e = dir[w] /\ (dir[w].done \/ DecidedOK(w, e))
                  \/ Scheduled(w) /\ ~dir[w].done /\ dir[w].pending = None /\ ~dir[w].sent
                     /\ \/ e = [dir[w] EXCEPT !.pending = consent] /\ consent # None
                        \/ e = [dir[w] EXCEPT !.sent = TRUE]
  <2>1. CASE dir' = dir /\ (dir[w].done \/ ~Scheduled(w) \/ dir[w].pending # None \/ dir[w].sent)
    BY <1>0, <2>1 DEF DecidedOK
  <2>2. CASE /\ ~(dir[w].done \/ ~Scheduled(w) \/ dir[w].pending # None \/ dir[w].sent)
             /\ consent # None /\ dir' = [dir EXCEPT ![w].pending = consent]
    <3>1. [dir[w] EXCEPT !.pending = consent] \in Dirs
      BY <1>0 DEF RestType, Dirs
    <3> QED
      BY <2>2, <3>1
  <2>3. CASE /\ ~(dir[w].done \/ ~Scheduled(w) \/ dir[w].pending # None \/ dir[w].sent)
             /\ dir' = [dir EXCEPT ![w].sent = TRUE]
    <3>1. [dir[w] EXCEPT !.sent = TRUE] \in Dirs
      BY <1>0 DEF Dirs
    <3> QED
      BY <2>3, <3>1
  <2> QED
    BY <2>1, <2>2, <2>3 DEF TakeJob
<1>7. /\ e.slots = dir[w].slots /\ e.sealed = dir[w].sealed /\ e.done = dir[w].done
      /\ e.st = dir[w].st /\ e.tmp = dir[w].tmp /\ e.claim = dir[w].claim
      /\ e.pending = dir[w].pending \/ Scheduled(w)
      /\ dir[w].sent => e.sent
      /\ dir[w].done => e = dir[w]
      /\ ~dir[w].done => DecidedOK(w, e)
  BY <1>0, <1>6 DEF Dirs, DecidedOK
<1>8. WindowOK(e, hist[w], movie[w]) /\ OfferOK(w, e, hist[w])
  BY <1>6, <1>7, EveryWindow DEF WindowOK, OfferOK
<1>9. PendingOK(w, e, hist[w], movie[w])
  <2>1. CASE e = dir[w]
    BY <2>1, EveryWindow
  <2>2. CASE Scheduled(w) /\ dir[w].pending = None /\ ~dir[w].sent
    BY <2>2, EveryWindow DEF PendingOK, DecidedOK
  <2> QED
    BY <1>6, <2>1, <2>2
<1>10. StepOK(k.pc, w, e, hist[w])
  BY <1>2, <1>5, <1>7 DEF StepOK, AtWork, AtDelivery
<1>11. \A v \in Windows : dir'[v].slots = dir[v].slots
  BY <1>0, <1>6, <1>7 DEF DirType
<1>12. CountInv'
  BY <1>1, <1>11, StillCounted DEF Quiet
<1>13. Moves(w, e, hist[w], movie[w], k)
  BY <1>0, <1>1, <1>3, <1>4, <1>6 DEF Moves, Quiet, RestType
<1>14. Grows(dir[w], e, hist[w], hist[w])
  BY <1>7 DEF Grows
<1> QED
  BY <1>4, <1>5, <1>8, <1>9, <1>10, <1>12, <1>13, <1>14, WorkerStep

\* A window without samples is done; otherwise its movie is made, or checked.
LEMMA FinishDayStep == ASSUME IndInv, FinishDay PROVE IndInv'
<1> DEFINE w == wk.cur
<1>0. /\ wk.pc = "finish" /\ up /\ Quiet /\ UNCHANGED <<bytes, movie, hist, faults>>
      /\ WindowOK(dir[w], hist[w], movie[w]) /\ OfferOK(w, dir[w], hist[w])
      /\ PendingOK(w, dir[w], hist[w], movie[w]) /\ StepOK("finish", w, dir[w], hist[w])
  BY Window DEF FinishDay, AtStep
<1>1. dir[w] \in Dirs
  BY <1>0 DEF WindowOK
<1>2. CASE /\ dir[w].slots = {} /\ dir' = [dir EXCEPT ![w].done = TRUE] /\ Goto(AfterDone(w))
  <2>1. PICK d : d = [dir[w] EXCEPT !.done = TRUE]
    OBVIOUS
  <2>2. /\ d \in Dirs /\ d.done /\ d.slots = dir[w].slots /\ d.sealed = dir[w].sealed
        /\ d.st = dir[w].st /\ d.tmp = dir[w].tmp /\ d.claim = dir[w].claim
        /\ d.pending = dir[w].pending /\ d.sent = dir[w].sent
    BY <1>1, <2>1 DEF Dirs
  <2>3. WindowOK(d, hist[w], movie[w])
    BY <1>0, <1>2, <2>2 DEF WindowOK, StepOK, AtWork
  <2>4. OfferOK(w, d, hist[w]) /\ PendingOK(w, d, hist[w], movie[w])
    BY <1>0, <2>2 DEF OfferOK, PendingOK, DecidedOK, StepOK, AtWork
  <2>5. AfterDone(w) \in {"deliver", "clean"} /\ (AfterDone(w) = "deliver" => Scheduled(w))
    BY DEF AfterDone
  <2>6. AfterDone(w) \in Steps \ {"idle", "jobs"} /\ StepOK(AfterDone(w), w, d, hist[w])
    BY <1>0, <2>2, <2>5 DEF StepOK, Steps, AtWork, AtDelivery
  <2>7. PICK pc : pc = AfterDone(w)
    OBVIOUS
  <2> QED
    BY <1>0, <1>2, <2>1, <2>2, <2>3, <2>4, <2>6, <2>7, Marks DEF Goto
<1>3. CASE dir' = [dir EXCEPT ![w] = Cleared(@)] /\ Goto("encode")
  <2>1. PICK d : d = Cleared(dir[w])
    OBVIOUS
  <2>2. /\ d \in Dirs /\ d.done = dir[w].done /\ d.slots = dir[w].slots
        /\ d.sealed = dir[w].sealed /\ d.st = dir[w].st /\ d.tmp = None
        /\ d.claim = dir[w].claim /\ d.pending = dir[w].pending /\ d.sent = dir[w].sent
    BY <1>1, <2>1 DEF Dirs, Cleared, Movies
  <2>3. WindowOK(d, hist[w], movie[w])
    BY <1>0, <2>2 DEF WindowOK
  <2>4. OfferOK(w, d, hist[w]) /\ PendingOK(w, d, hist[w], movie[w])
    BY <1>0, <2>2 DEF OfferOK, PendingOK, DecidedOK
  <2>5. "encode" \in Steps \ {"idle", "jobs"} /\ StepOK("encode", w, d, hist[w])
    BY <1>0, <2>2 DEF StepOK, DecidedOK, Steps, AtWork, AtDelivery
  <2> QED
    BY <1>0, <1>3, <2>1, <2>2, <2>3, <2>4, <2>5, Marks DEF Goto
<1>4. CASE UNCHANGED dir /\ Goto("verify")
  <2>1. "verify" \in Steps \ {"idle", "jobs"} /\ StepOK("verify", w, dir[w], hist[w])
    BY <1>0 DEF StepOK, Steps, AtWork, AtDelivery
  <2> QED
    BY <1>0, <1>4, <2>1, JobGoesOn
<1> QED
  BY <1>2, <1>3, <1>4 DEF FinishDay

\* The encoder writes the movie beside the samples.
LEMMA EncodeStep == ASSUME IndInv, Encode PROVE IndInv'
<1> DEFINE w == wk.cur
<1>0. /\ wk.pc = "encode" /\ up /\ Quiet /\ UNCHANGED <<bytes, movie, hist, faults>>
      /\ Goto("receipt")
      /\ dir' = [dir EXCEPT ![w].gen = @ + 1,
                            ![w].tmp = [slots |-> dir[w].slots, gen |-> dir[w].gen + 1]]
      /\ WindowOK(dir[w], hist[w], movie[w]) /\ OfferOK(w, dir[w], hist[w])
      /\ PendingOK(w, dir[w], hist[w], movie[w]) /\ StepOK("encode", w, dir[w], hist[w])
  BY Window DEF Encode, AtStep
<1>1. dir[w] \in Dirs /\ w \in Windows /\ dir \in [Windows -> Dirs]
  BY <1>0, Window DEF WindowOK, IndInv, TypeOK, DirType
<1>2. PICK f : f = [slots |-> dir[w].slots, gen |-> dir[w].gen + 1]
  OBVIOUS
<1>3. f \in Files /\ f # None /\ f.slots = dir[w].slots /\ dir[w].gen + 1 \in Nat
  BY <1>1, <1>2, NoneIsNoFile DEF Dirs, Files
<1>4. PICK d : d = [dir[w] EXCEPT !.gen = @ + 1, !.tmp = f]
  OBVIOUS
<1>5. dir' = [dir EXCEPT ![w] = d]
  BY <1>0, <1>1, <1>2, <1>4
<1>6. /\ d \in Dirs /\ d.done = dir[w].done /\ d.slots = dir[w].slots
      /\ d.sealed = dir[w].sealed /\ d.st = dir[w].st /\ d.tmp = f
      /\ d.claim = dir[w].claim /\ d.pending = dir[w].pending /\ d.sent = dir[w].sent
  BY <1>1, <1>3, <1>4 DEF Dirs, Movies
<1>7. WindowOK(d, hist[w], movie[w])
  BY <1>0, <1>3, <1>6 DEF WindowOK, StepOK, AtWork
<1>8. OfferOK(w, d, hist[w]) /\ PendingOK(w, d, hist[w], movie[w])
  BY <1>0, <1>6 DEF OfferOK, PendingOK, DecidedOK
<1>9. "receipt" \in Steps \ {"idle", "jobs"} /\ StepOK("receipt", w, d, hist[w])
  BY <1>0, <1>3, <1>6 DEF StepOK, DecidedOK, Steps, AtWork, AtDelivery
<1> QED
  BY <1>0, <1>5, <1>6, <1>7, <1>8, <1>9, Marks DEF Goto

\* The encoder fails.
LEMMA EncodeFailsStep == ASSUME IndInv, EncodeFails PROVE IndInv'
<1>1. /\ wk.pc = "encode" /\ up /\ JobEnds /\ Quiet /\ UNCHANGED <<bytes, dir, movie, hist>>
      /\ faults < MaxFaults /\ faults' = faults + 1
  BY DEF EncodeFails, AtStep, Fault
<1>2. faults' \in 0 .. MaxFaults
  BY <1>1 DEF IndInv, TypeOK, RestType
<1> QED
  BY <1>1, <1>2, JobIsOver

\* The receipt of the encoding, unless there is one.
LEMMA WriteReceiptStep == ASSUME IndInv, WriteReceipt PROVE IndInv'
<1> DEFINE w == wk.cur
<1>0. /\ wk.pc = "receipt" /\ up /\ Quiet /\ UNCHANGED <<bytes, movie, hist, faults>>
      /\ Goto("publish")
      /\ dir' = [dir EXCEPT ![w].sha = IF @ = None THEN dir[w].tmp ELSE @]
      /\ WindowOK(dir[w], hist[w], movie[w]) /\ OfferOK(w, dir[w], hist[w])
      /\ PendingOK(w, dir[w], hist[w], movie[w]) /\ StepOK("receipt", w, dir[w], hist[w])
  BY Window DEF WriteReceipt, AtStep
<1>1. dir[w] \in Dirs
  BY <1>0 DEF WindowOK
<1>2. PICK s : s = IF dir[w].sha = None THEN dir[w].tmp ELSE dir[w].sha
  OBVIOUS
<1>3. s \in Movies
  BY <1>1, <1>2 DEF Dirs
<1>4. PICK d : d = [dir[w] EXCEPT !.sha = s]
  OBVIOUS
<1>5. dir' = [dir EXCEPT ![w] = d]
  BY <1>0, <1>2, <1>4
<1>6. /\ d \in Dirs /\ d.done = dir[w].done /\ d.slots = dir[w].slots
      /\ d.sealed = dir[w].sealed /\ d.st = dir[w].st /\ d.tmp = dir[w].tmp
      /\ d.claim = dir[w].claim /\ d.pending = dir[w].pending /\ d.sent = dir[w].sent
  BY <1>1, <1>3, <1>4 DEF Dirs
<1>7. WindowOK(d, hist[w], movie[w])
  BY <1>0, <1>6 DEF WindowOK
<1>8. OfferOK(w, d, hist[w]) /\ PendingOK(w, d, hist[w], movie[w])
  BY <1>0, <1>6 DEF OfferOK, PendingOK, DecidedOK
<1>9. "publish" \in Steps \ {"idle", "jobs"} /\ StepOK("publish", w, d, hist[w])
  BY <1>0, <1>6 DEF StepOK, DecidedOK, Steps, AtWork, AtDelivery
<1> QED
  BY <1>0, <1>5, <1>6, <1>7, <1>8, <1>9, Marks DEF Goto

\* The movie gets its name.
LEMMA PublishMovieStep == ASSUME IndInv, PublishMovie PROVE IndInv'
<1> DEFINE w == wk.cur
<1>0. /\ wk.pc = "publish" /\ up /\ Quiet /\ UNCHANGED <<bytes, faults>> /\ Goto("verify")
      /\ movie' = [movie EXCEPT ![w] = dir[w].tmp]
      /\ dir' = [dir EXCEPT ![w].tmp = None]
      /\ hist' = [hist EXCEPT ![w].published = dir[w].tmp]
      /\ WindowOK(dir[w], hist[w], movie[w]) /\ OfferOK(w, dir[w], hist[w])
      /\ PendingOK(w, dir[w], hist[w], movie[w]) /\ StepOK("publish", w, dir[w], hist[w])
  BY Window DEF PublishMovie, AtStep
<1>1. /\ dir[w] \in Dirs /\ hist[w] \in History /\ w \in Windows /\ dir \in [Windows -> Dirs]
      /\ wk \in Work /\ faults \in 0 .. MaxFaults
  BY <1>0, Window DEF WindowOK, IndInv, TypeOK, DirType, WorkType, RestType
<1>2. PICK d : d = [dir[w] EXCEPT !.tmp = None]
  OBVIOUS
<1>3. PICK m : m = dir[w].tmp
  OBVIOUS
<1>4. PICK h : h = [hist[w] EXCEPT !.published = m]
  OBVIOUS
<1>5. m \in Movies /\ m # None /\ m.slots = hist[w].saved
  BY <1>0, <1>1, <1>3 DEF WindowOK, StepOK, Dirs
<1>6. /\ d \in Dirs /\ d.done = dir[w].done /\ d.slots = dir[w].slots
      /\ d.sealed = dir[w].sealed /\ d.st = dir[w].st /\ d.tmp = None
      /\ d.claim = dir[w].claim /\ d.pending = dir[w].pending /\ d.sent = dir[w].sent
  BY <1>1, <1>2 DEF Dirs, Movies
<1>7. h \in History /\ h.published = m /\ h.saved = hist[w].saved /\ h.offers = hist[w].offers
  BY <1>1, <1>4, <1>5 DEF History
<1>8. WindowOK(d, h, m)
  BY <1>0, <1>5, <1>6, <1>7 DEF WindowOK, StepOK
<1>9. OfferOK(w, d, h)
  BY <1>0, <1>6, <1>7 DEF OfferOK
<1>10. PendingOK(w, d, h, m)
  BY <1>0, <1>5, <1>6, <1>7 DEF PendingOK, DecidedOK, StepOK, AtWork
<1>11. StepOK("verify", w, d, h)
  BY <1>0, <1>6, <1>7 DEF StepOK, DecidedOK, AtWork, AtDelivery
<1>12. PICK k : k = wk'
  OBVIOUS
<1>13. k \in Work /\ k.pc = "verify" /\ k.cur = w /\ k.jobs = wk.jobs
  BY <1>0, <1>1, <1>12 DEF Goto, Work, Steps, AtWork
<1>14. Moves(w, d, h, m, k)
  BY <1>0, <1>1, <1>2, <1>3, <1>4, <1>12, <1>13 DEF Moves, Quiet
<1>15. \A v \in Windows : dir'[v].slots = dir[v].slots
  BY <1>0, <1>1, <1>2, <1>6
<1>16. CountInv'
  BY <1>0, <1>15, StillCounted DEF Quiet
<1>17. Grows(dir[w], d, hist[w], h)
  BY <1>5, <1>6, <1>7 DEF Grows
<1> QED
  BY <1>1, <1>8, <1>9, <1>10, <1>11, <1>13, <1>14, <1>16, <1>17, WorkerStep

\* The movie is compared with its receipt.
LEMMA VerifyStep == ASSUME IndInv, Verify PROVE IndInv'
<1> DEFINE w == wk.cur
<1>0. /\ wk.pc = "verify" /\ up /\ Quiet /\ UNCHANGED <<bytes, dir, movie, hist>>
      /\ WindowOK(dir[w], hist[w], movie[w]) /\ StepOK("verify", w, dir[w], hist[w])
  BY Window DEF Verify, AtStep
<1>1. faults \in 0 .. MaxFaults
  BY DEF IndInv, TypeOK, RestType
<1>2. CASE movie[w] # None /\ Goto("mark") /\ UNCHANGED faults
  <2>1. hist[w].published # None
    BY <1>0, <1>2 DEF WindowOK
  <2>2. "mark" \in Steps \ {"idle", "jobs"} /\ StepOK("mark", w, dir[w], hist[w])
    BY <1>0, <2>1 DEF StepOK, Steps, AtWork, AtDelivery
  <2> QED
    BY <1>0, <1>2, <2>2, JobGoesOn
<1>3. CASE JobEnds /\ (UNCHANGED faults \/ Fault)
  <2>1. faults' \in 0 .. MaxFaults
    BY <1>1, <1>3 DEF Fault
  <2> QED
    BY <1>0, <1>3, <2>1, JobIsOver
<1> QED
  BY <1>2, <1>3 DEF Verify

\* The movie is done.
LEMMA MarkDoneStep == ASSUME IndInv, MarkDone PROVE IndInv'
<1> DEFINE w == wk.cur
<1>0. /\ wk.pc = "mark" /\ up /\ Quiet /\ UNCHANGED <<bytes, movie, hist, faults>>
      /\ dir' = [dir EXCEPT ![w].done = TRUE]
      /\ WindowOK(dir[w], hist[w], movie[w]) /\ OfferOK(w, dir[w], hist[w])
      /\ PendingOK(w, dir[w], hist[w], movie[w]) /\ StepOK("mark", w, dir[w], hist[w])
  BY Window DEF MarkDone, AtStep
<1>1. dir[w] \in Dirs
  BY <1>0 DEF WindowOK
<1>2. PICK pc : pc = IF ~Scheduled(w) /\ plan = Legacy THEN "offer" ELSE AfterDone(w)
  OBVIOUS
<1>3. /\ pc \in {"offer", "deliver", "clean"} /\ (pc = "deliver" => Scheduled(w))
      /\ (pc = "offer" => ~Scheduled(w)) /\ Goto(pc)
  BY <1>2 DEF AfterDone, MarkDone
<1>4. PICK d : d = [dir[w] EXCEPT !.done = TRUE]
  OBVIOUS
<1>5. /\ d \in Dirs /\ d.done /\ d.slots = dir[w].slots
      /\ d.sealed = dir[w].sealed /\ d.st = dir[w].st /\ d.tmp = dir[w].tmp
      /\ d.claim = dir[w].claim /\ d.pending = dir[w].pending /\ d.sent = dir[w].sent
  BY <1>1, <1>4 DEF Dirs
<1>6. WindowOK(d, hist[w], movie[w])
  BY <1>0, <1>5 DEF WindowOK, StepOK
<1>7. OfferOK(w, d, hist[w]) /\ PendingOK(w, d, hist[w], movie[w])
  BY <1>0, <1>5 DEF OfferOK, PendingOK, DecidedOK
<1>8. ~Scheduled(w) => hist[w].offers = 0
  BY <1>0 DEF OfferOK, StepOK, AtWork
<1>9. pc \in Steps \ {"idle", "jobs"} /\ StepOK(pc, w, d, hist[w])
  BY <1>0, <1>3, <1>5, <1>8 DEF StepOK, Steps, AtWork, AtDelivery
<1> QED
  BY <1>0, <1>3, <1>4, <1>5, <1>6, <1>7, <1>9, Marks DEF Goto

\* An offer is made, or not.
LEMMA OfferMade ==
    ASSUME IndInv, wk.pc \in {"offer", "send"}, NEW pc \in {"clean", "sent"},
           hist' = [hist EXCEPT ![wk.cur].offers = @ + 1] \/ UNCHANGED hist,
           Goto(pc), up, Quiet, UNCHANGED <<bytes, dir, movie, faults>>,
           wk.pc = "offer" <=> pc = "clean"
    PROVE  IndInv'
<1> DEFINE w == wk.cur
<1>0. /\ WindowOK(dir[w], hist[w], movie[w]) /\ OfferOK(w, dir[w], hist[w])
      /\ PendingOK(w, dir[w], hist[w], movie[w]) /\ StepOK(wk.pc, w, dir[w], hist[w])
  BY Window
<1>1. hist[w] \in History /\ w \in Windows /\ wk \in Work /\ faults \in 0 .. MaxFaults
  BY <1>0, Window DEF WindowOK, IndInv, TypeOK, WorkType, RestType
<1>2. hist[w].offers = 0
  BY <1>0 DEF StepOK
<1>3. PICK h : /\ h = hist[w] \/ h = [hist[w] EXCEPT !.offers = @ + 1]
               /\ hist' = [hist EXCEPT ![w] = h] \/ (hist' = hist /\ h = hist[w])
  OBVIOUS
<1>4. h \in History /\ h.saved = hist[w].saved /\ h.published = hist[w].published /\ h.offers <= 1
  BY <1>1, <1>2, <1>3 DEF History
<1>5. WindowOK(dir[w], h, movie[w])
  BY <1>0, <1>4 DEF WindowOK
<1>6. OfferOK(w, dir[w], h)
  BY <1>0, <1>4 DEF OfferOK, StepOK, AtWork
<1>7. PendingOK(w, dir[w], h, movie[w])
  BY <1>0, <1>4 DEF PendingOK
<1>8. StepOK(pc, w, dir[w], h)
  BY <1>0, <1>4 DEF StepOK, AtWork, AtDelivery
<1>9. PICK k : k = wk'
  OBVIOUS
<1>10. k \in Work /\ k.pc = pc /\ k.cur = w /\ k.jobs = wk.jobs
  BY <1>1, <1>9 DEF Goto, Work, Steps, AtDelivery
<1>11. Moves(w, dir[w], h, movie[w], k)
  BY <1>1, <1>3, <1>9, <1>10 DEF Moves, Quiet
<1>12. CountInv'
  BY StillCounted DEF Quiet
<1>13. Grows(dir[w], dir[w], hist[w], h)
  BY <1>4 DEF Grows
<1> QED
  BY <1>1, <1>5, <1>6, <1>7, <1>8, <1>10, <1>11, <1>12, <1>13, WorkerStep

\* The default schedule offers on its way from the marker.
LEMMA OfferLegacyStep == ASSUME IndInv, OfferLegacy PROVE IndInv'
<1>1. hist' = [hist EXCEPT ![wk.cur].offers = @ + 1] \/ UNCHANGED hist
  BY DEF OfferLegacy, Offered
<1> QED
  BY <1>1, OfferMade DEF OfferLegacy, AtStep

\* A claimed movie is offered.
LEMMA SendStep == ASSUME IndInv, Send PROVE IndInv'
<1>1. hist' = [hist EXCEPT ![wk.cur].offers = @ + 1] \/ UNCHANGED hist
  BY DEF Send, Offered
<1> QED
  BY <1>1, OfferMade DEF Send, AtStep

\* The marker of a delivery is written.
LEMMA SentIsMarked ==
    ASSUME IndInv, wk.pc \in AtDelivery, Quiet, up, UNCHANGED <<bytes, movie, hist, faults>>,
           dir' = [dir EXCEPT ![wk.cur].sent = TRUE], Goto("clean")
    PROVE  IndInv'
<1> DEFINE w == wk.cur
<1>0. /\ wk.pc \notin {"idle", "jobs"}
      /\ WindowOK(dir[w], hist[w], movie[w]) /\ OfferOK(w, dir[w], hist[w])
      /\ PendingOK(w, dir[w], hist[w], movie[w]) /\ StepOK(wk.pc, w, dir[w], hist[w])
  BY Window DEF AtDelivery
<1>1. dir[w] \in Dirs
  BY <1>0 DEF WindowOK
<1>2. PICK d : d = [dir[w] EXCEPT !.sent = TRUE]
  OBVIOUS
<1>3. /\ d \in Dirs /\ d.done = dir[w].done /\ d.slots = dir[w].slots
      /\ d.sealed = dir[w].sealed /\ d.st = dir[w].st /\ d.tmp = dir[w].tmp
      /\ d.claim = dir[w].claim /\ d.pending = dir[w].pending /\ d.sent
  BY <1>1, <1>2 DEF Dirs
<1>4. WindowOK(d, hist[w], movie[w])
  BY <1>0, <1>3 DEF WindowOK
<1>5. OfferOK(w, d, hist[w]) /\ PendingOK(w, d, hist[w], movie[w])
  BY <1>0, <1>3 DEF OfferOK, PendingOK, DecidedOK
<1>6. "clean" \in Steps \ {"idle", "jobs"} /\ StepOK("clean", w, d, hist[w])
  BY <1>0, <1>3 DEF StepOK, Steps, AtWork, AtDelivery
<1> QED
  BY <1>0, <1>2, <1>3, <1>4, <1>5, <1>6, Marks DEF Goto

\* So it is after an offer.
LEMMA MarkSentStep == ASSUME IndInv, MarkSent PROVE IndInv'
BY SentIsMarked DEF MarkSent, AtStep, AtDelivery

\* A delivery is claimed, cancelled, put off, or found already made.
LEMMA DeliverStep == ASSUME IndInv, Deliver PROVE IndInv'
<1> DEFINE w == wk.cur
<1>0. /\ wk.pc = "deliver" /\ up /\ Quiet /\ UNCHANGED <<bytes, movie, hist, faults>>
      /\ WindowOK(dir[w], hist[w], movie[w]) /\ OfferOK(w, dir[w], hist[w])
      /\ PendingOK(w, dir[w], hist[w], movie[w]) /\ StepOK("deliver", w, dir[w], hist[w])
  BY Window DEF Deliver, AtStep
<1>1. dir[w] \in Dirs /\ faults \in 0 .. MaxFaults
  BY <1>0 DEF WindowOK, IndInv, TypeOK, RestType
<1>2. CASE UNCHANGED dir /\ Goto("clean")
  <2>1. "clean" \in Steps \ {"idle", "jobs"} /\ StepOK("clean", w, dir[w], hist[w])
    BY <1>0 DEF StepOK, Steps, AtWork, AtDelivery
  <2> QED
    BY <1>0, <1>2, <2>1, JobGoesOn
<1>3. CASE UNCHANGED dir /\ JobEnds
  BY <1>0, <1>1, <1>3, JobIsOver
<1>4. CASE dir' = [dir EXCEPT ![w].sent = TRUE] /\ Goto("clean")
  BY <1>0, <1>4, SentIsMarked DEF AtDelivery
<1>5. CASE /\ ~dir[w].claim /\ dir' = [dir EXCEPT ![w].claim = TRUE] /\ Goto("send")
  <2>1. PICK d : d = [dir[w] EXCEPT !.claim = TRUE]
    OBVIOUS
  <2>2. /\ d \in Dirs /\ d.done = dir[w].done /\ d.slots = dir[w].slots
        /\ d.sealed = dir[w].sealed /\ d.st = dir[w].st /\ d.tmp = dir[w].tmp
        /\ d.claim /\ d.pending = dir[w].pending /\ d.sent = dir[w].sent
    BY <1>1, <2>1 DEF Dirs
  <2>3. hist[w].offers = 0 /\ Scheduled(w)
    BY <1>0, <1>5 DEF OfferOK, StepOK, AtDelivery
  <2>4. WindowOK(d, hist[w], movie[w])
    BY <1>0, <2>2 DEF WindowOK
  <2>5. OfferOK(w, d, hist[w]) /\ PendingOK(w, d, hist[w], movie[w])
    BY <1>0, <2>2, <2>3 DEF OfferOK, PendingOK, DecidedOK
  <2>6. "send" \in Steps \ {"idle", "jobs"} /\ StepOK("send", w, d, hist[w])
    BY <1>0, <2>2, <2>3 DEF StepOK, Steps, AtWork, AtDelivery
  <2> QED
    BY <1>0, <1>5, <2>1, <2>2, <2>4, <2>5, <2>6, Marks DEF Goto
<1> QED
  BY <1>2, <1>3, <1>4, <1>5 DEF Deliver, Interrupted

\* A done window is emptied.
LEMMA CleanStep == ASSUME IndInv, Clean PROVE IndInv'
<1> DEFINE w == wk.cur
<1>0. /\ wk.pc = "clean" /\ up /\ Quiet /\ UNCHANGED <<movie, hist, faults>> /\ JobEnds
      /\ dir' = [dir EXCEPT ![w].slots = {}]
      /\ bytes' = bytes - Cardinality(dir[w].slots)
      /\ WindowOK(dir[w], hist[w], movie[w]) /\ OfferOK(w, dir[w], hist[w])
      /\ PendingOK(w, dir[w], hist[w], movie[w]) /\ StepOK("clean", w, dir[w], hist[w])
  BY Window DEF Clean, AtStep
<1>1. /\ dir[w] \in Dirs /\ w \in Windows /\ dir \in [Windows -> Dirs] /\ wk \in Work
      /\ faults \in 0 .. MaxFaults
  BY <1>0, Window DEF WindowOK, IndInv, TypeOK, DirType, WorkType, RestType
<1>2. PICK d : d = [dir[w] EXCEPT !.slots = {}]
  OBVIOUS
<1>3. /\ d \in Dirs /\ d.done = dir[w].done /\ d.slots = {}
      /\ d.sealed = dir[w].sealed /\ d.st = dir[w].st /\ d.tmp = dir[w].tmp
      /\ d.claim = dir[w].claim /\ d.pending = dir[w].pending /\ d.sent = dir[w].sent
  BY <1>1, <1>2 DEF Dirs
<1>4. WindowOK(d, hist[w], movie[w])
  BY <1>0, <1>3 DEF WindowOK, StepOK, AtWork
<1>5. OfferOK(w, d, hist[w]) /\ PendingOK(w, d, hist[w], movie[w])
  BY <1>0, <1>3 DEF OfferOK, PendingOK, DecidedOK
<1>6. PICK k : k = wk'
  OBVIOUS
<1>7. k \in Work /\ k.pc = "jobs" /\ k.jobs = wk.jobs
  BY <1>0, <1>1, <1>6 DEF JobEnds, Work, Steps
<1>8. Moves(w, d, hist[w], movie[w], k)
  BY <1>0, <1>1, <1>2, <1>6, <1>7 DEF Moves, Quiet
<1>9. dir'[w].slots = {} /\ \A v \in Windows : v # w => dir'[v].slots = dir[v].slots
  BY <1>0, <1>1, <1>2, <1>3
<1>10. dir[w].slots \subseteq 0 .. MaxTime
  BY <1>1 DEF Dirs
<1>11. Cardinality(Cached') = Cardinality(Cached) - Cardinality(dir[w].slots)
  BY <1>1, <1>9, <1>10, FewerSamples
<1>12. Cardinality(dir[w].slots) \in Nat
  BY <1>10, TimesAreFinite, FS_Subset, FS_CardinalityType
<1>13. bytes = Cardinality(Cached) /\ Cardinality(Cached) <= MaxCache
  BY <1>0 DEF IndInv, CountInv, BytesAreCounted
<1>14. CountInv'
  BY <1>0, <1>11, <1>12, <1>13, CacheIsFinite DEF CountInv, BytesAreCounted
<1>15. Grows(dir[w], d, hist[w], hist[w])
  BY <1>3 DEF Grows
<1> QED
  BY <1>1, <1>4, <1>5, <1>7, <1>8, <1>14, <1>15, WorkerStep

-----------------------------------------------------------------------------
(* The other steps. *)

\* Windows that are as asked, a worker between two jobs and no sweep ahead of them.
LEMMA BetweenJobs ==
    ASSUME DirType', WorkType', RestType', CountInv',
           \A v \in Windows : /\ WindowOK(dir'[v], hist'[v], movie'[v])
                              /\ OfferOK(v, dir'[v], hist'[v])
                              /\ PendingOK(v, dir'[v], hist'[v], movie'[v]),
           UNCHANGED now,
           wk'.pc \in {"idle", "jobs"}, ~up' => wk'.pc = "idle" /\ sweep'.st = "none",
           wk'.pc = "idle" => wk'.jobs = {}, \A v \in wk'.jobs : dir'[v].sealed,
           sweep'.at <= now',
           \A v \in sweep'.seen :
              /\ hist'[v].published # None
              /\ sweep'.st = "planned" /\ v \notin sweep'.prot /\ Scheduled(v) =>
                    dir'[v].sent \/ Expiry(v) <= now'
    PROVE  IndInv'
<1>1. WindowInv'
  BY DEF WindowInv, MovieIsWhole, WindowOK
<1>2. WorkerInv'
  BY DEF WorkerInv
<1>3. OfferInv'
  BY DEF OfferInv, OfferedOnce, OfferOK, AtDelivery
<1>4. PendingInv'
  <2>1. PendingIsKept' /\ \A v \in Windows : (~Scheduled(v) => dir'[v].pending = None)
                          /\ (hist'[v].published # None => Decided(v)')
    BY DEF PendingIsKept, PendingOK, DecidedOK, Decided
  <2>2. wk'.pc \notin AtWork
    BY DEF AtWork
  <2> QED
    BY <2>1, <2>2 DEF PendingInv
<1> QED
  BY <1>1, <1>2, <1>3, <1>4 DEF IndInv, TypeOK

\* What a sweep has seen stays published.
LEMMA SweepSeen ==
    ASSUME IndInv
    PROVE  /\ sweep.at <= now
           /\ \A v \in sweep.seen :
              /\ v \in Windows /\ hist[v].published # None
              /\ sweep.st = "planned" /\ v \notin sweep.prot /\ Scheduled(v) =>
                    dir[v].sent \/ Expiry(v) <= now
BY DEF IndInv, PendingInv, TypeOK, WorkType, Sweeps

\* Windows that have ended are sealed, and given to the worker or not.
LEMMA SealingStep ==
    ASSUME IndInv, NEW ended \in SUBSET Ended, AtStep("idle"), Quiet,
           UNCHANGED <<bytes, movie, hist, faults>>, dir' = Sealed(ended),
           wk' = wk \/ wk' = [pc |-> "jobs", jobs |-> ended, cur |-> None]
    PROVE  IndInv'
<1>0. /\ wk.pc = "idle" /\ up /\ ended \subseteq Windows
      /\ dir' = [w \in Windows |-> IF w \in ended THEN [dir[w] EXCEPT !.sealed = TRUE] ELSE dir[w]]
      /\ \A v \in ended : dir[v].st = "made"
  BY DEF AtStep, Sealed, Ended
<1>1. DirType /\ WorkType /\ RestType /\ dir \in [Windows -> Dirs]
  BY DEF IndInv, TypeOK, DirType
<1>2. \A v \in Windows :
         /\ dir'[v] \in Dirs /\ dir'[v].slots = dir[v].slots /\ dir'[v].done = dir[v].done
         /\ dir'[v].st = dir[v].st /\ dir'[v].tmp = dir[v].tmp /\ dir'[v].claim = dir[v].claim
         /\ dir'[v].pending = dir[v].pending /\ dir'[v].sent = dir[v].sent
         /\ dir'[v].sealed <=> (dir[v].sealed \/ v \in ended)
  <2> SUFFICES ASSUME NEW v \in Windows
               PROVE  /\ dir'[v] \in Dirs /\ dir'[v].slots = dir[v].slots
                      /\ dir'[v].done = dir[v].done
                      /\ dir'[v].st = dir[v].st /\ dir'[v].tmp = dir[v].tmp
                      /\ dir'[v].claim = dir[v].claim
                      /\ dir'[v].pending = dir[v].pending /\ dir'[v].sent = dir[v].sent
                      /\ dir'[v].sealed <=> (dir[v].sealed \/ v \in ended)
    OBVIOUS
  <2>1. dir[v] \in Dirs
    BY <1>1
  <2>2. CASE v \in ended
    <3>1. dir'[v] = [dir[v] EXCEPT !.sealed = TRUE]
      BY <1>0, <2>2
    <3> QED
      BY <2>1, <2>2, <3>1 DEF Dirs
  <2>3. CASE v \notin ended
    <3>1. dir'[v] = dir[v]
      BY <1>0, <2>3
    <3> QED
      BY <2>1, <2>3, <3>1
  <2> QED
    BY <2>2, <2>3
<1>3. DirType'
  BY <1>0, <1>1, <1>2 DEF DirType
<1>4. WorkType'
  <2>1. wk' \in Work /\ wk'.pc \in {"idle", "jobs"}
    BY <1>0, <1>1 DEF Work, Steps, WorkType
  <2> QED
    BY <1>0, <1>1, <2>1 DEF WorkType, Quiet
<1>5. RestType'
  BY <1>0, <1>1 DEF RestType, Quiet
<1>6. CountInv'
  BY <1>0, <1>2, StillCounted DEF Quiet
<1>7. \A v \in Windows : WindowOK(dir'[v], hist'[v], movie'[v])
  BY <1>0, <1>2, EveryWindow DEF WindowOK
<1>8. \A v \in Windows : /\ OfferOK(v, dir'[v], hist'[v])
                         /\ PendingOK(v, dir'[v], hist'[v], movie'[v])
  BY <1>0, <1>2, EveryWindow DEF OfferOK, PendingOK, DecidedOK
<1>9. UNCHANGED <<now, up, sweep>>
  BY <1>0 DEF Quiet
<1>10. /\ wk'.pc \in {"idle", "jobs"} /\ (wk'.pc = "idle" => wk'.jobs = {})
       /\ \A v \in wk'.jobs : dir'[v].sealed
  <2>1. CASE wk' = wk
    <3>1. wk.jobs = {}
      BY <1>0 DEF IndInv, WorkerInv
    <3> QED
      BY <1>0, <2>1, <3>1
  <2>2. CASE wk' = [pc |-> "jobs", jobs |-> ended, cur |-> None]
    <3>1. wk'.pc = "jobs" /\ wk'.jobs = ended
      BY <2>2
    <3> QED
      BY <1>0, <1>2, <3>1
  <2> QED
    BY <2>1, <2>2
<1> QED
  BY <1>0, <1>2, <1>3, <1>4, <1>5, <1>6, <1>7, <1>8, <1>9, <1>10, SweepSeen, BetweenJobs

\* Every window that has ended is sealed, or those listed before a torn directory.
LEMMA ScanStep == ASSUME IndInv, Scan \/ ScanFails PROVE IndInv'
<1>1. CASE Scan
  BY <1>1, SealingStep DEF Scan
<1>2. CASE ScanFails
  <2>1. PICK listed \in SUBSET Ended : dir' = Sealed(listed)
    BY <1>2 DEF ScanFails
  <2> QED
    BY <1>2, <2>1, SealingStep DEF ScanFails
<1> QED
  BY <1>1, <1>2

\* The process stops or dies; at most a directory of an open window has been made.
LEMMA GoesDown ==
    ASSUME IndInv, Down, UNCHANGED <<now, plan, consent, movie, hist>>,
           faults' \in 0 .. MaxFaults, changes' \in 0 .. MaxChanges, sweeps' \in 0 .. MaxSweeps,
           NEW w, NEW st \in {"bare", "torn", "made"},
           dir' = dir \/ (w \in Windows /\ ~dir[w].sealed /\ dir' = [dir EXCEPT ![w].st = st])
    PROVE  IndInv'
<1>1. DirType /\ WorkType /\ RestType /\ dir \in [Windows -> Dirs]
  BY DEF IndInv, TypeOK, DirType
<1>2. \A v \in Windows :
         /\ dir'[v] \in Dirs /\ dir'[v].slots = dir[v].slots /\ dir'[v].done = dir[v].done
         /\ dir'[v].sealed = dir[v].sealed
         /\ dir'[v].tmp = dir[v].tmp /\ dir'[v].claim = dir[v].claim
         /\ dir'[v].pending = dir[v].pending /\ dir'[v].sent = dir[v].sent
         /\ dir[v].sealed => dir'[v].st = dir[v].st
  <2>1. CASE dir' = dir
    BY <1>1, <2>1
  <2>2. CASE w \in Windows /\ ~dir[w].sealed /\ dir' = [dir EXCEPT ![w].st = st]
    <3>1. /\ [dir[w] EXCEPT !.st = st] \in Dirs
          /\ [dir[w] EXCEPT !.st = st].slots = dir[w].slots
          /\ [dir[w] EXCEPT !.st = st].done = dir[w].done
          /\ [dir[w] EXCEPT !.st = st].sealed = dir[w].sealed
          /\ [dir[w] EXCEPT !.st = st].tmp = dir[w].tmp
          /\ [dir[w] EXCEPT !.st = st].claim = dir[w].claim
          /\ [dir[w] EXCEPT !.st = st].pending = dir[w].pending
          /\ [dir[w] EXCEPT !.st = st].sent = dir[w].sent
      BY <1>1, <2>2 DEF Dirs
    <3>2. \A v \in Windows : dir'[v] = IF v = w THEN [dir[w] EXCEPT !.st = st] ELSE dir[v]
      BY <1>1, <2>2
    <3> QED
      BY <1>1, <2>2, <3>1, <3>2
  <2> QED
    BY <2>1, <2>2
<1>3. wk' = Idle /\ sweep' = NoSweep /\ up' = FALSE /\ bytes' = 0
  BY DEF Down
<1>4. DirType'
  <2>1. dir' \in [Windows -> Dirs]
    BY <1>1, <1>2
  <2> QED
    BY <1>1, <2>1 DEF DirType
<1>5. /\ Idle \in Work /\ Idle.pc = "idle" /\ Idle.jobs = {}
      /\ NoSweep \in Sweeps /\ NoSweep.st = "none" /\ NoSweep.at = 0 /\ NoSweep.seen = {}
  BY DEF Idle, Work, Steps, NoSweep, Sweeps
<1>6. WorkType'
  BY <1>3, <1>5 DEF WorkType
<1>7. RestType'
  <2>1. up' \in BOOLEAN
    BY <1>3
  <2>2. bytes' \in 0 .. MaxCache
    BY <1>3
  <2> QED
    BY <1>1, <2>1, <2>2 DEF RestType
<1>8. CountInv'
  BY <1>2, <1>3, SameSamples DEF IndInv, CountInv, BytesAreCounted
<1>9. \A v \in Windows : WindowOK(dir'[v], hist'[v], movie'[v])
  BY <1>2, EveryWindow DEF WindowOK
<1>10. \A v \in Windows : /\ OfferOK(v, dir'[v], hist'[v])
                          /\ PendingOK(v, dir'[v], hist'[v], movie'[v])
  BY <1>2, EveryWindow DEF OfferOK, PendingOK, DecidedOK
<1>11. sweep'.at <= now'
  BY <1>1, <1>3, <1>5 DEF RestType
<1> QED
  BY <1>3, <1>4, <1>5, <1>6, <1>7, <1>8, <1>9, <1>10, <1>11, BetweenJobs

\* A death while a still is recorded.
LEMMA RecordInterruptedStep == ASSUME IndInv, NEW t, RecordInterrupted(t) PROVE IndInv'
<1>1. PICK w \in At(plan, t) : /\ Accepts(w)
                               /\ \E st \in LeftBehind(w) : dir' = [dir EXCEPT ![w].st = st]
  BY DEF RecordInterrupted
<1>2. PICK st \in {"bare", "torn", "made"} : dir' = [dir EXCEPT ![w].st = st]
  BY <1>1 DEF LeftBehind
<1>3. w \in Windows /\ ~dir[w].sealed
  BY <1>1 DEF At, Accepts
<1>4. /\ faults' \in 0 .. MaxFaults /\ changes' \in 0 .. MaxChanges /\ sweeps' \in 0 .. MaxSweeps
  BY DEF RecordInterrupted, Fault, IndInv, TypeOK, RestType
<1> QED
  BY <1>2, <1>3, <1>4, GoesDown DEF RecordInterrupted

\* The end of an epoch, and a death anywhere else.
LEMMA StopStep == ASSUME IndInv, Stop \/ Crash PROVE IndInv'
<1>1. /\ faults' \in 0 .. MaxFaults /\ changes' \in 0 .. MaxChanges /\ sweeps' \in 0 .. MaxSweeps
  BY DEF Stop, Crash, Fault, Change, IndInv, TypeOK, RestType
<1>2. Down /\ UNCHANGED <<now, plan, consent, movie, hist, dir>>
  BY DEF Stop, Crash
<1>3. PICK st \in {"bare", "torn", "made"} : st = "bare"
  OBVIOUS
<1> QED
  BY <1>1, <1>2, <1>3, GoesDown

\* Steps beside the worker: its window at hand stays as it was left.
LEMMA BesideWorker ==
    ASSUME IndInv, DirType', WorkType', RestType', CountInv', UNCHANGED wk, up' \/ ~up,
           \A v \in Windows : /\ WindowOK(dir'[v], hist'[v], movie'[v])
                              /\ OfferOK(v, dir'[v], hist'[v])
                              /\ PendingOK(v, dir[v], hist[v], movie[v])'
                              /\ dir[v].sealed => dir'[v].sealed,
           wk.pc \notin {"idle", "jobs"} =>
              StepOK(wk.pc, wk.cur, dir'[wk.cur], hist'[wk.cur]),
           ~up' => sweep'.st = "none", sweep'.at <= now',
           \A v \in sweep'.seen :
              /\ hist'[v].published # None
              /\ sweep'.st = "planned" /\ v \notin sweep'.prot /\ Scheduled(v) =>
                    dir'[v].sent \/ Expiry(v) <= now'
    PROVE  IndInv'
<1>1. WindowInv'
  BY DEF WindowInv, MovieIsWhole, WindowOK
<1>2. wk.cur' = wk.cur /\ wk.pc' = wk.pc /\ wk.jobs' = wk.jobs
  OBVIOUS
<1>3. WorkerInv'
  <2>1. \A v \in wk.jobs : dir'[v].sealed
    BY DEF IndInv, WorkerInv, TypeOK, WorkType, Work
  <2>2. /\ ~up' => wk.pc = "idle"
        /\ wk.pc = "idle" => wk.jobs = {}
    BY DEF IndInv, WorkerInv
  <2> QED
    BY <1>2, <2>1, <2>2 DEF WorkerInv, StepOK
<1>4. OfferInv'
  BY <1>2 DEF OfferInv, OfferedOnce, OfferOK, StepOK, AtDelivery
<1>5. PendingInv'
  <2>1. PendingIsKept' /\ \A v \in Windows : (~Scheduled(v) => dir'[v].pending = None)
                          /\ (hist'[v].published # None => Decided(v)')
    BY DEF PendingIsKept, PendingOK, DecidedOK, Decided
  <2>2. wk.pc \in AtWork => Decided(wk.cur)'
    BY <1>2 DEF StepOK, DecidedOK, Decided, AtWork
  <2> QED
    BY <1>2, <2>1, <2>2 DEF PendingInv
<1> QED
  BY <1>1, <1>3, <1>4, <1>5 DEF IndInv, TypeOK

\* The time from the start of its window is the slot of a still.
LEMMA SlotIsTime ==
    ASSUME RestType, NEW t \in 0 .. now, NEW w \in At(plan, t)
    PROVE  t - Start(w) \in 0 .. MaxTime
<1>1. w \in Windows /\ Start(w) <= t /\ w[1] \in Nat
  BY DEF At, Contains, Windows
<1>2. PICK base : base = w[1] * Day
  OBVIOUS
<1>3. base \in Nat
  BY <1>1, <1>2
<1>4. Start(w) \in Nat
  <2>1. CASE w[2] = Night
    BY <1>2, <1>3, <2>1 DEF Start
  <2>2. CASE w[2] # Night
    BY <1>2, <1>3, <2>2 DEF Start
  <2> QED
    BY <2>1, <2>2
<1> HIDE DEF Start
<1> QED
  BY <1>1, <1>4 DEF RestType

\* A still is recorded in its window, which is open.
LEMMA RecordStep == ASSUME IndInv, NEW t \in 0 .. now, Record(t) PROVE IndInv'
<1>1. /\ up /\ bytes' = bytes + 1 /\ UNCHANGED <<now, plan, consent, up, movie, wk, sweep, budget>>
  BY DEF Record
<1>2. PICK w \in At(plan, t) :
        /\ Accepts(w) /\ t - Start(w) \notin dir[w].slots /\ bytes < MaxCache
        /\ dir' = [dir EXCEPT ![w].st = "made", ![w].slots = @ \cup {t - Start(w)}]
        /\ hist' = [hist EXCEPT ![w].saved = @ \cup {t - Start(w)}]
  BY DEF Record
<1>3. DirType /\ WorkType /\ RestType
  BY DEF IndInv, TypeOK
<1>4. PICK s : s = t - Start(w)
  OBVIOUS
<1>5. s \in 0 .. MaxTime
  BY <1>3, <1>4, SlotIsTime
<1>6. w \in Windows /\ ~dir[w].sealed /\ ~dir[w].done /\ s \notin dir[w].slots
  BY <1>2, <1>4 DEF At, Accepts
<1>7. /\ dir[w] \in Dirs /\ hist[w] \in History /\ dir \in [Windows -> Dirs]
      /\ hist \in [Windows -> History]
  BY <1>3, <1>6 DEF DirType
<1>8. PICK d : d = [dir[w] EXCEPT !.st = "made", !.slots = @ \cup {s}]
  OBVIOUS
<1>9. PICK h : h = [hist[w] EXCEPT !.saved = @ \cup {s}]
  OBVIOUS
<1>10. /\ d \in Dirs /\ d.done = dir[w].done /\ d.slots = dir[w].slots \cup {s}
       /\ d.sealed = dir[w].sealed /\ d.tmp = dir[w].tmp
       /\ d.claim = dir[w].claim /\ d.pending = dir[w].pending /\ d.sent = dir[w].sent
  BY <1>5, <1>7, <1>8 DEF Dirs
<1>11. /\ h \in History /\ h.saved = hist[w].saved \cup {s} /\ h.published = hist[w].published
       /\ h.offers = hist[w].offers
  BY <1>5, <1>7, <1>9 DEF History
<1>12. dir' = [dir EXCEPT ![w] = d] /\ hist' = [hist EXCEPT ![w] = h]
  BY <1>2, <1>4, <1>6, <1>7, <1>8, <1>9
<1>13. /\ dir' \in [Windows -> Dirs] /\ dir'[w] = d
       /\ \A v \in Windows : v # w => dir'[v] = dir[v]
  BY <1>6, <1>7, <1>10, <1>12, UpdatedAt
<1>14. /\ hist' \in [Windows -> History] /\ hist'[w] = h
       /\ \A v \in Windows : v # w => hist'[v] = hist[v]
  BY <1>6, <1>7, <1>11, <1>12, UpdatedAt
<1>15. WindowOK(d, h, movie[w]) /\ OfferOK(w, d, h) /\ PendingOK(w, d, h, movie[w])
  <2>1. WindowOK(dir[w], hist[w], movie[w])
    BY <1>6, EveryWindow
  <2>2. hist[w].published = None /\ dir[w].tmp = None
    BY <1>6, <2>1 DEF WindowOK
  <2>3. WindowOK(d, h, movie[w])
    BY <1>6, <1>10, <1>11, <2>1, <2>2 DEF WindowOK
  <2>4. OfferOK(w, d, h) /\ PendingOK(w, d, h, movie[w])
    BY <1>6, <1>10, <1>11, EveryWindow DEF OfferOK, PendingOK, DecidedOK
  <2> QED
    BY <2>3, <2>4
<1>16. \A v \in Windows : /\ WindowOK(dir'[v], hist'[v], movie'[v])
                          /\ OfferOK(v, dir'[v], hist'[v])
                          /\ PendingOK(v, dir'[v], hist'[v], movie'[v])
                          /\ dir[v].sealed => dir'[v].sealed
                          /\ dir[v].sent => dir'[v].sent
                          /\ hist'[v].published = hist[v].published
  <2> SUFFICES ASSUME NEW v \in Windows
               PROVE  /\ WindowOK(dir'[v], hist'[v], movie'[v])
                      /\ OfferOK(v, dir'[v], hist'[v])
                      /\ PendingOK(v, dir'[v], hist'[v], movie'[v])
                      /\ dir[v].sealed => dir'[v].sealed
                      /\ dir[v].sent => dir'[v].sent
                      /\ hist'[v].published = hist[v].published
    OBVIOUS
  <2>1. CASE v = w
    BY <1>1, <1>10, <1>11, <1>13, <1>14, <1>15, <2>1
  <2>2. CASE v # w
    BY <1>1, <1>13, <1>14, <2>2, EveryWindow
  <2> QED
    BY <2>1, <2>2
<1>17. DirType'
  BY <1>1, <1>3, <1>13, <1>14 DEF DirType
<1>18. WorkType'
  BY <1>1, <1>3 DEF WorkType
<1>19. Cardinality(Cached') = Cardinality(Cached) + 1
  BY <1>5, <1>6, <1>10, <1>13, OneMoreSample
<1>20. CountInv'
  <2>1. bytes = Cardinality(Cached)
    BY <1>1 DEF IndInv, CountInv, BytesAreCounted
  <2> QED
    BY <1>1, <1>2, <1>3, <1>19, <2>1 DEF CountInv, BytesAreCounted, RestType
<1>21. RestType'
  <2>1. bytes' \in 0 .. MaxCache
    BY <1>1, <1>2, <1>3 DEF RestType
  <2> QED
    BY <1>1, <1>3, <2>1 DEF RestType, budget
<1>22. wk.pc \notin {"idle", "jobs"} => StepOK(wk.pc, wk.cur, dir'[wk.cur], hist'[wk.cur])
  <2> SUFFICES ASSUME wk.pc \notin {"idle", "jobs"}
               PROVE  StepOK(wk.pc, wk.cur, dir'[wk.cur], hist'[wk.cur])
    OBVIOUS
  <2>1. wk.cur \in Windows /\ StepOK(wk.pc, wk.cur, dir[wk.cur], hist[wk.cur])
    BY AtHand
  <2>2. wk.cur # w
    BY <1>6, <2>1 DEF StepOK
  <2> QED
    BY <1>13, <1>14, <2>1, <2>2
<1>23. \A v \in Windows : PendingOK(v, dir[v], hist[v], movie[v])'
  BY <1>1, <1>16 DEF PendingOK
<1>24. UNCHANGED <<now, sweep, wk, up>>
  BY <1>1
<1> QED
  BY <1>1, <1>16, <1>17, <1>18, <1>20, <1>21, <1>22, <1>23, <1>24, SweepSeen, BesideWorker

\* A window expires at a point in time.
LEMMA ExpiryIsTime == ASSUME NEW w \in Windows PROVE Expiry(w) \in Nat
<1>1. w[1] \in Nat
  BY DEF Windows
<1>2. PICK next : next = w[1] + 1
  OBVIOUS
<1>3. next * Day \in Nat
  BY <1>1, <1>2
<1> QED
  BY <1>2, <1>3 DEF Expiry, End

\* Steps that change no window.
LEMMA ElsewhereStep ==
    ASSUME IndInv, StartWorker \/ ConsentChanges \/ Tick \/ SweepInventory \/ SweepProtect
    PROVE  IndInv'
<1>1. UNCHANGED <<dir, movie, hist, wk>> /\ (up' \/ ~up)
  BY DEF StartWorker, ConsentChanges, Tick, SweepInventory, SweepProtect, IndInv, TypeOK, RestType
<1>2. DirType /\ WorkType /\ RestType
  BY DEF IndInv, TypeOK
<1>3. DirType'
  BY <1>1, <1>2 DEF DirType
<1>4. \A v \in Windows : /\ WindowOK(dir'[v], hist'[v], movie'[v])
                         /\ OfferOK(v, dir'[v], hist'[v])
  BY <1>1, EveryWindow
<1>5. Cached' = Cached
  BY <1>1, SameSamples
<1>6. wk.pc \notin {"idle", "jobs"} => StepOK(wk.pc, wk.cur, dir'[wk.cur], hist'[wk.cur])
  BY <1>1, AtHand
<1>7. CASE StartWorker
  <2>1. /\ ~up /\ up' = TRUE /\ plan' \in Plans /\ bytes' = Cardinality(Cached)
        /\ UNCHANGED <<now, consent, sweep, budget>>
    BY <1>7 DEF StartWorker
  <2>2. CountInv'
    BY <1>5, <2>1 DEF IndInv, CountInv, BytesAreCounted
  <2>3. WorkType'
    BY <1>1, <1>2, <2>1 DEF WorkType
  <2>4. RestType'
    <3>1. bytes' \in 0 .. MaxCache
      BY <1>5, <2>1, <2>2, CacheIsFinite DEF CountInv
    <3>2. up' \in BOOLEAN
      BY <2>1
    <3> QED
      BY <1>2, <2>1, <3>1, <3>2 DEF RestType, budget
  <2>5. \A v \in Windows : PendingOK(v, dir[v], hist[v], movie[v])'
    BY <1>1, <2>1, EveryWindow DEF PendingOK
  <2> QED
    BY <1>1, <1>3, <1>4, <1>6, <2>1, <2>2, <2>3, <2>4, <2>5, SweepSeen, BesideWorker
<1>8. CASE ConsentChanges
  <2>1. /\ consent' \in Keys \cup {None} /\ Change
        /\ UNCHANGED <<now, plan, up, bytes, sweep, faults, sweeps>>
    BY <1>8 DEF ConsentChanges
  <2>2. CountInv'
    BY <1>5, <2>1 DEF IndInv, CountInv, BytesAreCounted
  <2>3. WorkType'
    BY <1>1, <1>2, <2>1 DEF WorkType
  <2>4. RestType'
    BY <1>2, <2>1 DEF RestType, Change
  <2>5. \A v \in Windows : PendingOK(v, dir[v], hist[v], movie[v])'
    BY <1>1, <2>1, EveryWindow DEF PendingOK
  <2>6. ~up' => sweep'.st = "none"
    BY <2>1 DEF IndInv, WorkerInv
  <2> QED
    BY <1>1, <1>3, <1>4, <1>6, <2>1, <2>2, <2>3, <2>4, <2>5, <2>6, SweepSeen, BesideWorker
<1>9. CASE Tick
  <2>1. /\ now < MaxTime /\ now' = now + 1
        /\ UNCHANGED <<plan, consent, up, bytes, sweep, budget>>
    BY <1>9 DEF Tick
  <2>2. CountInv'
    BY <1>5, <2>1 DEF IndInv, CountInv, BytesAreCounted
  <2>3. WorkType'
    BY <1>1, <1>2, <2>1 DEF WorkType
  <2>4. RestType'
    BY <1>2, <2>1 DEF RestType, budget
  <2>5. now \in Nat /\ sweep.at \in Nat /\ \A v \in Windows : Expiry(v) \in Nat
    <3>1. now \in Nat /\ sweep.at \in Nat
      BY <1>2 DEF RestType, WorkType, Sweeps
    <3> QED
      BY <3>1, ExpiryIsTime
  <2>6. \A v \in Windows : PendingOK(v, dir[v], hist[v], movie[v])'
    <3>1. \A v \in Windows : now' < Expiry(v) => now < Expiry(v)
      BY <2>1, <2>5
    <3> QED
      BY <1>1, <3>1, EveryWindow DEF PendingOK
  <2>7. ~up' => sweep'.st = "none"
    BY <2>1 DEF IndInv, WorkerInv
  <2>8. sweep'.at <= now' /\ \A v \in Windows : Expiry(v) <= now => Expiry(v) <= now'
    BY <2>1, <2>5, SweepSeen
  <2> QED
    BY <1>1, <1>3, <1>4, <1>6, <2>1, <2>2, <2>3, <2>4, <2>6, <2>7, <2>8, SweepSeen, BesideWorker
<1>10. CASE SweepInventory
  <2>1. /\ up /\ sweep' = [st |-> "listed", at |-> now, seen |-> Inventory, prot |-> {}]
        /\ sweeps < MaxSweeps /\ sweeps' = sweeps + 1
        /\ UNCHANGED <<now, plan, consent, up, bytes, faults, changes>>
    BY <1>10 DEF SweepInventory
  <2>2. CountInv'
    BY <1>5, <2>1 DEF IndInv, CountInv, BytesAreCounted
  <2>3. sweep' \in Sweeps /\ sweep'.st = "listed" /\ sweep'.seen = Inventory /\ sweep'.at = now
    BY <1>2, <2>1 DEF Sweeps, Inventory, RestType
  <2>4. WorkType'
    BY <1>1, <1>2, <2>3 DEF WorkType
  <2>5. RestType'
    BY <1>2, <2>1 DEF RestType
  <2>6. \A v \in Windows : PendingOK(v, dir[v], hist[v], movie[v])'
    BY <1>1, <2>1, EveryWindow DEF PendingOK
  <2>7. \A v \in Inventory : hist[v].published # None
    BY EveryWindow DEF Inventory, WindowOK
  <2>8. now <= now
    BY <1>2 DEF RestType
  <2> QED
    BY <1>1, <1>3, <1>4, <1>6, <2>1, <2>2, <2>3, <2>4, <2>5, <2>6, <2>7, <2>8, BesideWorker
<1>11. CASE SweepProtect /\ ~Blocked
  <2>1. /\ up /\ sweep.st = "listed"
        /\ sweep' = [sweep EXCEPT !.st = "planned", !.prot = Protected(sweep.at)]
        /\ UNCHANGED <<now, plan, consent, up, bytes, budget>>
    BY <1>11 DEF SweepProtect
  <2>2. CountInv'
    BY <1>5, <2>1 DEF IndInv, CountInv, BytesAreCounted
  <2>3. /\ sweep' \in Sweeps /\ sweep'.st = "planned" /\ sweep'.seen = sweep.seen
        /\ sweep'.at = sweep.at /\ sweep'.prot = Protected(sweep.at)
    BY <1>2, <2>1 DEF Sweeps, Protected, WorkType
  <2>4. WorkType'
    BY <1>1, <1>2, <2>3 DEF WorkType
  <2>5. RestType'
    BY <1>2, <2>1 DEF RestType, budget
  <2>6. \A v \in Windows : PendingOK(v, dir[v], hist[v], movie[v])'
    BY <1>1, <2>1, EveryWindow DEF PendingOK
  <2>7. ASSUME NEW v \in sweep.seen, v \notin Protected(sweep.at), Scheduled(v)
        PROVE  dir[v].sent \/ Expiry(v) <= now
    <3>1. v \in Windows /\ hist[v].published # None /\ sweep.at <= now
      BY SweepSeen
    <3>2. dir[v].st = "made" /\ (dir[v].pending # None \/ dir[v].sent)
      BY <2>7, <3>1, EveryWindow DEF WindowOK, PendingOK, DecidedOK
    <3>3. dir[v].sent \/ ~(sweep.at < Expiry(v))
      BY <2>7, <3>1, <3>2 DEF Protected
    <3>4. now \in Nat /\ sweep.at \in Nat /\ Expiry(v) \in Nat
      BY <1>2, <3>1, ExpiryIsTime DEF RestType, WorkType, Sweeps
    <3>5. ~(sweep.at < Expiry(v)) => Expiry(v) <= now
      BY <3>1, <3>4
    <3> QED
      BY <3>3, <3>5
  <2> QED
    BY <1>1, <1>3, <1>4, <1>6, <2>1, <2>2, <2>3, <2>4, <2>5, <2>6, <2>7, SweepSeen, BesideWorker
<1>12. CASE SweepProtect /\ Blocked
  <2>1. sweep' = NoSweep /\ UNCHANGED <<now, plan, consent, up, bytes, budget>>
    BY <1>12 DEF SweepProtect
  <2>2. CountInv'
    BY <1>5, <2>1 DEF IndInv, CountInv, BytesAreCounted
  <2>3. /\ NoSweep \in Sweeps /\ NoSweep.st = "none" /\ NoSweep.at = 0 /\ NoSweep.seen = {}
    BY DEF NoSweep, Sweeps
  <2>4. WorkType'
    BY <1>1, <1>2, <2>1, <2>3 DEF WorkType
  <2>5. RestType'
    BY <1>2, <2>1 DEF RestType, budget
  <2>6. \A v \in Windows : PendingOK(v, dir[v], hist[v], movie[v])'
    BY <1>1, <2>1, EveryWindow DEF PendingOK
  <2>7. sweep'.at <= now'
    BY <1>2, <2>1, <2>3 DEF RestType
  <2> QED
    BY <1>1, <1>3, <1>4, <1>6, <2>1, <2>2, <2>3, <2>4, <2>5, <2>6, <2>7, SweepSeen, BesideWorker
<1> QED
  BY <1>7, <1>8, <1>9, <1>10, <1>11, <1>12

\* A sweep deletes no movie that waits for its delivery.
LEMMA SweepDeleteStep == ASSUME IndInv, SweepDelete PROVE IndInv'
<1>1. /\ up /\ sweep.st = "planned" /\ sweep' = NoSweep
      /\ UNCHANGED <<now, plan, consent, up, bytes, dir, wk, hist, budget>>
  BY DEF SweepDelete
<1>2. PICK gone \in SUBSET (sweep.seen \ sweep.prot) :
        movie' = [w \in Windows |-> IF w \in gone THEN None ELSE movie[w]]
  BY DEF SweepDelete
<1>3. DirType /\ WorkType /\ RestType
  BY DEF IndInv, TypeOK
<1>4. \A v \in Windows : movie'[v] = IF v \in gone THEN None ELSE movie[v]
  BY <1>2
<1>5. movie' \in [Windows -> Movies]
  BY <1>2, <1>3 DEF DirType, Movies
<1>6. DirType'
  BY <1>1, <1>3, <1>5 DEF DirType
<1>7. NoSweep \in Sweeps /\ NoSweep.st = "none" /\ NoSweep.at = 0 /\ NoSweep.seen = {}
  BY DEF NoSweep, Sweeps
<1>8. WorkType'
  BY <1>1, <1>3, <1>7 DEF WorkType
<1>9. RestType'
  BY <1>1, <1>3 DEF RestType, budget
<1>10. CountInv'
  BY <1>1, StillCounted
<1>11. \A v \in Windows : WindowOK(dir'[v], hist'[v], movie'[v])
  <2>1. None \in Movies
    BY DEF Movies
  <2> QED
    BY <1>1, <1>4, <2>1, EveryWindow DEF WindowOK
<1>12. \A v \in Windows : OfferOK(v, dir'[v], hist'[v])
  BY <1>1, EveryWindow
<1>13. \A v \in Windows : PendingOK(v, dir[v], hist[v], movie[v])'
  <2> SUFFICES ASSUME NEW v \in Windows PROVE PendingOK(v, dir[v], hist[v], movie[v])'
    OBVIOUS
  <2>1. PendingOK(v, dir[v], hist[v], movie[v])
    BY EveryWindow
  <2>2. CASE v \notin gone
    BY <1>1, <1>4, <2>1, <2>2 DEF PendingOK
  <2>3. CASE v \in gone
    <3>1. v \in sweep.seen /\ v \notin sweep.prot
      BY <2>3
    <3>2. Scheduled(v) => dir[v].sent \/ Expiry(v) <= now
      BY <1>1, <3>1, SweepSeen
    <3>3. now \in Nat /\ Expiry(v) \in Nat
      BY <1>3, ExpiryIsTime DEF RestType
    <3>4. ~Scheduled(v) => dir[v].pending = None
      BY <2>1 DEF PendingOK
    <3>5. Expiry(v) <= now => ~(now < Expiry(v))
      BY <3>3
    <3> QED
      BY <1>1, <2>1, <3>2, <3>4, <3>5 DEF PendingOK
  <2> QED
    BY <2>2, <2>3
<1>14. wk.pc \notin {"idle", "jobs"} => StepOK(wk.pc, wk.cur, dir'[wk.cur], hist'[wk.cur])
  BY <1>1, AtHand
<1>15. sweep'.at <= now'
  BY <1>1, <1>3, <1>7 DEF RestType
<1>16. \A v \in Windows : dir'[v].sealed = dir[v].sealed
  BY <1>1
<1> QED
  BY <1>1, <1>6, <1>7, <1>8, <1>9, <1>10, <1>11, <1>12, <1>13, <1>14, <1>15, <1>16, BesideWorker

-----------------------------------------------------------------------------
(* The invariant, and what it says. *)

\* It holds before the first window.
LEMMA InitInd == ASSUME Init PROVE IndInv
<1>1. NoDir \in Dirs /\ NoDir.slots = {} /\ NoDir.st = "absent" /\ ~NoDir.sealed /\ ~NoDir.done
      /\ NoDir.tmp = None /\ NoDir.pending = None /\ ~NoDir.claim /\ ~NoDir.sent
  BY DEF NoDir, Dirs, Movies
<1>2. \A w \in Windows : /\ dir[w] = NoDir /\ movie[w] = None
                         /\ hist[w] = [saved |-> {}, published |-> None, offers |-> 0]
  BY DEF Init
<1>3. \A w \in Windows : hist[w].saved = {} /\ hist[w].published = None /\ hist[w].offers = 0
  BY <1>2
<1>4. /\ Idle \in Work /\ Idle.pc = "idle" /\ Idle.jobs = {}
      /\ NoSweep \in Sweeps /\ NoSweep.st = "none" /\ NoSweep.at = 0 /\ NoSweep.seen = {}
  BY DEF Idle, Work, Steps, NoSweep, Sweeps
<1>5. wk = Idle /\ sweep = NoSweep /\ now = 0 /\ up = TRUE /\ bytes = 0
  BY DEF Init
<1>6. DirType
  <2>1. [saved |-> {}, published |-> None, offers |-> 0] \in History
    BY DEF History, Movies
  <2>2. None \in Movies
    BY DEF Movies
  <2> QED
    BY <1>1, <2>1, <2>2 DEF DirType, Init
<1>7. WorkType
  BY <1>4, <1>5 DEF WorkType
<1>8. RestType
  BY DEF Init, RestType
<1>9. CountInv
  <2>1. Cached = {}
    BY <1>1, <1>2 DEF Cached
  <2>2. Cardinality(Cached) = 0
    BY <2>1, FS_EmptySet
  <2> QED
    BY <1>5, <2>2 DEF CountInv, BytesAreCounted
<1>10. WindowInv
  BY <1>1, <1>2, <1>3 DEF WindowInv, MovieIsWhole
<1>11. WorkerInv
  BY <1>4, <1>5 DEF WorkerInv
<1>12. OfferInv
  BY <1>3, <1>4, <1>5 DEF OfferInv, OfferedOnce, AtDelivery
<1>13. PendingInv
  BY <1>1, <1>2, <1>3, <1>4, <1>5 DEF PendingInv, PendingIsKept, AtWork
<1> QED
  BY <1>6, <1>7, <1>8, <1>9, <1>10, <1>11, <1>12, <1>13 DEF IndInv, TypeOK

\* A stutter changes nothing of it.
LEMMA StutterStep == ASSUME IndInv, UNCHANGED vars PROVE IndInv'
<1>1. /\ UNCHANGED <<now, plan, consent, up, bytes, dir, movie, wk, sweep, hist>>
      /\ UNCHANGED <<faults, changes, sweeps>>
  BY DEF vars, budget
<1>2. TypeOK'
  BY <1>1 DEF IndInv, TypeOK, DirType, WorkType, RestType
<1>3. CountInv'
  BY <1>1, StillCounted
<1>4. WindowInv' /\ WorkerInv'
  BY <1>1 DEF IndInv, WindowInv, MovieIsWhole, WorkerInv
<1>5. OfferInv' /\ PendingInv'
  BY <1>1 DEF IndInv, OfferInv, OfferedOnce, PendingInv, PendingIsKept, Decided
<1> QED
  BY <1>2, <1>3, <1>4, <1>5 DEF IndInv

\* Whatever the writer, the worker, the sweep and the deaths of the process do
\* to the markers, in whatever order, every part of the invariant stays.
THEOREM Invariance == Spec => []IndInv
<1>1. Init => IndInv
  BY InitInd
<1>2. IndInv /\ [Next]_vars => IndInv'
  <2> SUFFICES ASSUME IndInv, [Next]_vars PROVE IndInv'
    OBVIOUS
  <2>1. CASE \E t \in 0 .. now : Record(t) \/ RecordInterrupted(t)
    BY <2>1, RecordStep, RecordInterruptedStep
  <2>2. CASE Worker \/ ScanFails
    BY <2>2, ScanStep, PassEndsStep, TakeJobStep, FinishDayStep, EncodeStep, EncodeFailsStep,
       WriteReceiptStep, PublishMovieStep, VerifyStep, MarkDoneStep, OfferLegacyStep,
       DeliverStep, SendStep, MarkSentStep, CleanStep DEF Worker
  <2>3. CASE Sweep
    BY <2>3, ElsewhereStep, SweepDeleteStep DEF Sweep
  <2>4. CASE Stop \/ Crash
    BY <2>4, StopStep
  <2>5. CASE StartWorker \/ ConsentChanges \/ Tick
    BY <2>5, ElsewhereStep
  <2>6. CASE UNCHANGED vars
    BY <2>6, StutterStep
  <2> QED
    BY <2>1, <2>2, <2>3, <2>4, <2>5, <2>6 DEF Next
<1> QED
  BY <1>1, <1>2, PTL DEF Spec

\* The cache is counted right, a published movie shows every sample its window
\* took, and no sweep purges a movie that still waits for its delivery
\* (DailySink::record, finish_day_with, protected_outputs).
THEOREM TimelapseIsSound == Spec => []TimelapseInv
<1>1. IndInv => TimelapseInv
  BY DEF IndInv, CountInv, WindowInv, PendingInv, TimelapseInv
<1> QED
  BY <1>1, Invariance, PTL

\* deliver_scheduled offers a movie to sharing at most once, wherever the process
\* dies between the claim, the offer and the marker of the offer.
THEOREM MoviesAreOfferedOnce == Spec => []OfferedOnce
<1>1. IndInv => OfferedOnce
  BY DEF IndInv, OfferInv
<1> QED
  BY <1>1, Invariance, PTL
=============================================================================
