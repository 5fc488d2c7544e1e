------------------------- MODULE SharingService_proofs -------------------------
(* Machine-checked proofs about SharingService, for any number of settings      *)
(* revisions, capture sessions, attempts and faults.                            *)
EXTENDS SharingService, TLAPS

USE SharingAssumption

-----------------------------------------------------------------------------
(* Records. *)

\* The next settings a save or a stop asks for: the preferences, and local rules.
LEMMA UpdatedIsNext ==
    ASSUME ConfType, settings.rev < MaxRevision, NEW p \in Preferences
    PROVE  /\ Updated(p) \in SettingsType /\ Updated(p).rev = settings.rev + 1
           /\ Updated(p).dev = settings.dev /\ Updated(p).rules = "local"
<1>1. settings \in SettingsType /\ settings.rev \in Revisions /\ settings.rev + 1 \in Revisions
  BY DEF ConfType, SettingsType, Revisions
<1>2. p.on \in BOOLEAN /\ p.allow \in SUBSET Kinds
  BY DEF Preferences
<1> QED
  BY <1>1, <1>2 DEF Updated, SettingsType

\* The saved preferences are preferences.
LEMMA PrefsAreTyped == ASSUME NEW s \in SettingsType PROVE Prefs(s) \in Preferences
BY DEF SettingsType, Prefs, Preferences

\* What a Viewer can show: it saves against the revision its user has seen.
Sees(v) == v \in Views /\ v.exp = v.ack

\* A form of the settings, with or without edits, is one of the kind.
LEMMA ViewFields ==
    ASSUME NEW v \in Views
    PROVE  /\ v.exp \in Revisions /\ v.ack \in Revisions /\ v.draft \in Preferences
           /\ v.base \in Preferences /\ v.op \in Operations \cup {None}
           /\ v.st.rev \in Revisions /\ v.st.prefs \in Preferences
BY DEF Views

\* A form filled from the settings shows exactly their revision.
LEMMA FreshSees ==
    ASSUME NEW s \in SettingsType, NEW op \in Operations \cup {None}
    PROVE  Sees([Fresh(s) EXCEPT !.op = op])
<1>1. s.rev \in Revisions /\ Prefs(s) \in Preferences
  BY PrefsAreTyped DEF SettingsType
<1>2. [Fresh(s) EXCEPT !.op = op] =
         [exp |-> s.rev, st |-> [rev |-> s.rev, prefs |-> Prefs(s)], draft |-> Prefs(s),
          base |-> Prefs(s), op |-> op, ack |-> s.rev]
  BY DEF Fresh
<1> QED
  BY <1>1, <1>2 DEF Sees, Views

\* Ending an operation, starting one, or taking over the status changes no revision.
LEMMA SeesWith ==
    ASSUME NEW v, Sees(v), NEW op \in Operations \cup {None}
    PROVE  Sees([v EXCEPT !.op = op])
BY DEF Sees, Views

\* Polling a new status beside an edited draft leaves its revision alone.
LEMMA SeesStatus ==
    ASSUME NEW v, Sees(v), NEW s \in SettingsType
    PROVE  Sees([v EXCEPT !.st = [rev |-> s.rev, prefs |-> Prefs(s)]])
<1>1. s.rev \in Revisions /\ Prefs(s) \in Preferences
  BY PrefsAreTyped DEF SettingsType
<1> QED
  BY <1>1 DEF Sees, Views

\* Accept, Refresh and Stopped keep it.
LEMMA AcceptedSees ==
    ASSUME NEW v, Sees(v), NEW s \in SettingsType
    PROVE  Sees(Accepted(v, s)) /\ Accepted(v, s).op = v.op
<1>1. v.op \in Operations \cup {None}
  BY ViewFields DEF Sees
<1>2. Accepted(v, s).op = v.op
  BY DEF Accepted, Fresh
<1> QED
  BY <1>1, <1>2, FreshSees DEF Accepted

\* Refresh: a new form, or the new status only.
LEMMA RefreshedSees ==
    ASSUME NEW v, Sees(v), NEW s \in SettingsType
    PROVE  Sees(Refreshed(v, s))
BY AcceptedSees, SeesStatus DEF Refreshed

\* Stopped: an edited draft keeps its revision unless the stop was made on it.
LEMMA StoppedSees ==
    ASSUME NEW v, Sees(v), NEW s \in SettingsType
    PROVE  Sees(Stopped(v, s))
<1>1. CASE ~Dirty(v)
  BY <1>1, AcceptedSees DEF Stopped
<1>2. CASE Dirty(v)
  <2> DEFINE w == Accepted(v, s)
             off == [v.draft EXCEPT !.on = FALSE]
             rev == IF v.op.before = v.exp THEN s.rev ELSE v.exp
  <2>1. w \in Views
    BY AcceptedSees DEF Sees
  <2>2. off \in Preferences
    BY ViewFields DEF Sees, Preferences
  <2>3. rev \in Revisions /\ v.exp = v.ack
    BY ViewFields DEF Sees, SettingsType
  <2>4. Stopped(v, s) = [w EXCEPT !.draft = off, !.exp = rev, !.ack = rev]
    BY <1>2, <2>3 DEF Stopped
  <2> HIDE DEF w, off, rev
  <2> QED
    BY <2>1, <2>2, <2>3, <2>4 DEF Sees, Views
<1> QED
  BY <1>1, <1>2

\* What the Viewer shows when a call returns, or does not.
LEMMA ShownSees ==
    ASSUME NEW v, Sees(v), NEW s \in SettingsType, NEW name
    PROVE  Sees(Shown(v, name, s)) /\ Sees(Failed(v, name, s))
<1>1. Sees(Stopped(v, s)) /\ Sees(Accepted(v, s)) /\ Sees(Refreshed(v, s))
  BY StoppedSees, AcceptedSees, RefreshedSees
<1>2. /\ Sees([Stopped(v, s) EXCEPT !.op = None]) /\ Sees([Accepted(v, s) EXCEPT !.op = None])
      /\ Sees([Refreshed(v, s) EXCEPT !.op = None])
  BY <1>1, SeesWith
<1>3. Sees(Shown(v, name, s))
  BY <1>2 DEF Shown
<1>4. Sees(Failed(v, name, s))
  BY <1>2 DEF Failed
<1> QED
  BY <1>3, <1>4

-----------------------------------------------------------------------------
(* What the steps of each part leave alone. *)

\* A commit may begin with these settings.
Begins(op, next) ==
    /\ lock = None /\ lock' = [op |-> op, next |-> next, pc |-> "cancel"]
    /\ op \in {"save", "stop", "forget", "pair", "paired"} /\ next \in SettingsType
    /\ next.rev = settings.rev + 1 /\ (next.dev => cred')
    /\ next.rules = "none" => "chat" \in next.allow
    /\ op = "forget" => ~next.on /\ ~next.dev
    /\ op = "save" => settings.rev = view.ack

\* The Viewer and pairing begin commits, and change no settings themselves.
ViewerKeeps ==
    /\ cred' \in BOOLEAN /\ (cred => cred') /\ pairing' \in Revisions \cup {None}
    /\ (lock' = lock /\ cred' = cred) \/ \E op, next : Begins(op, next)
    /\ UNCHANGED <<disk, settings, chatRev, movie, net, cap>>

\* Each action of the Viewer and of pairing is of this kind.
LEMMA ViewerEffect ==
    ASSUME IndInv, Viewer
    PROVE  ViewerKeeps
<1>0. /\ ConfType /\ settings \in SettingsType /\ Sees(view)
      /\ view.draft \in Preferences /\ view.st.prefs \in Preferences
      /\ view.op \in Operations \cup {None} /\ CommitInv
  BY ViewFields DEF IndInv, TypeOK, ConfType, RestType, Sees
<1>1. CASE Poll \/ Edit \/ KeepEdits \/ Discard \/ StopRead \/ CallTimesOut
  <2>1. UNCHANGED conf /\ Same
    BY <1>1 DEF Poll, Edit, KeepEdits, Discard, StopRead, CallTimesOut
  <2> QED
    BY <1>0, <2>1 DEF conf, Same, ViewerKeeps, ConfType
<1>2. ASSUME NEW op \in {"save", "stop"}, NEW p \in Preferences, lock = None,
             Begin(op, Updated(p)), UNCHANGED <<disk, cred, settings, pairing, chatRev>>, Same,
             op = "save" => settings.rev = view.ack, settings.dev => cred
      PROVE  ViewerKeeps
  <2>1. settings.rev < MaxRevision /\ lock' = [op |-> op, next |-> Updated(p), pc |-> "cancel"]
    BY <1>2 DEF Begin
  <2>2. Begins(op, Updated(p))
    BY <1>0, <1>2, <2>1, UpdatedIsNext DEF Begins
  <2> QED
    BY <1>0, <1>2, <2>2 DEF Same, ViewerKeeps, ConfType
<1>3. ASSUME Conflict, Same PROVE ViewerKeeps
  BY <1>0, <1>3 DEF Conflict, conf, Same, ViewerKeeps, ConfType
<1>4. settings.dev => cred
  BY <1>0 DEF CommitInv, PairedHasCredential
<1>5. CASE Save
  <2>1. CASE settings.rev = view.exp
    <3>1. settings.rev = view.ack
      BY <1>0, <2>1 DEF Sees
    <3>2. /\ lock = None /\ Begin("save", Updated(view.draft)) /\ Same
          /\ UNCHANGED <<disk, cred, settings, pairing, chatRev>>
      BY <1>5, <2>1 DEF Save
    <3> QED
      BY <1>0, <1>2, <1>4, <3>1, <3>2
  <2>2. CASE settings.rev # view.exp
    BY <1>3, <1>5, <2>2 DEF Save
  <2> QED
    BY <2>1, <2>2
<1>6. CASE StopSave
  <2>1. CASE settings.rev = view.op.before
    <3>1. view.op \in Operations /\ view.op.name = "stop"
      BY <1>0, <1>6 DEF StopSave
    <3>2. view.op.prefs \in Preferences
      BY <3>1 DEF Operations
    <3>3. [view.op.prefs EXCEPT !.on = FALSE] \in Preferences
      BY <3>2 DEF Preferences
    <3>4. /\ lock = None /\ Same /\ Begin("stop", Updated([view.op.prefs EXCEPT !.on = FALSE]))
          /\ UNCHANGED <<disk, cred, settings, pairing, chatRev>>
      BY <1>6, <2>1 DEF StopSave
    <3> QED
      BY <1>2, <1>4, <3>3, <3>4
  <2>2. CASE settings.rev # view.op.before
    BY <1>3, <1>6, <2>2 DEF StopSave
  <2> QED
    BY <2>1, <2>2
<1>7. ASSUME NEW op \in {"forget", "pair", "paired"}, NEW next, lock = None, Begin(op, next), Same,
             UNCHANGED <<disk, settings, chatRev>>,
             cred' \in BOOLEAN, cred => cred', pairing' \in Revisions \cup {None},
             next \in SettingsType, next.rev = settings.rev + 1, next.dev => cred',
             next.rules = "none" => "chat" \in next.allow,
             op = "forget" => ~next.on /\ ~next.dev
      PROVE  ViewerKeeps
  <2>1. Begins(op, next)
    BY <1>7 DEF Begin, Begins
  <2> QED
    BY <1>7, <2>1 DEF Same, ViewerKeeps
<1>8. settings.rev < MaxRevision => settings.rev + 1 \in Revisions
  BY <1>0 DEF SettingsType, Revisions
<1>9. CASE Forget
  <2> DEFINE next == [settings EXCEPT !.rev = @ + 1, !.on = FALSE, !.allow = {}, !.dev = FALSE,
                                      !.rules = "local"]
  <2>1. /\ lock = None /\ Begin("forget", next) /\ Same
        /\ UNCHANGED <<disk, cred, settings, pairing, chatRev>>
    BY <1>9 DEF Forget, Holds
  <2>2. /\ next \in SettingsType /\ next.rev = settings.rev + 1 /\ ~next.dev /\ ~next.on
        /\ next.rules = "local"
    BY <1>0, <1>8, <2>1 DEF Begin, SettingsType
  <2> HIDE DEF next
  <2> QED
    BY <1>0, <1>7, <2>1, <2>2 DEF ConfType
<1>10. CASE Pair
  <2> DEFINE next == [settings EXCEPT !.rev = @ + 1, !.on = FALSE, !.rules = "local"]
  <2>1. /\ lock = None /\ Begin("pair", next) /\ Same
        /\ UNCHANGED <<disk, cred, settings, pairing, chatRev>>
    BY <1>10 DEF Pair, Holds
  <2>2. /\ next \in SettingsType /\ next.rev = settings.rev + 1 /\ next.dev = settings.dev
        /\ next.rules = "local"
    BY <1>0, <1>8, <2>1 DEF Begin, SettingsType
  <2> HIDE DEF next
  <2> QED
    BY <1>0, <1>4, <1>7, <2>1, <2>2 DEF ConfType
<1>11. CASE PairAnswered
  <2>1. CASE settings.rev = pairing
    <3> DEFINE next == [settings EXCEPT !.rev = @ + 1, !.dev = TRUE]
    <3>1. /\ lock = None /\ Begin("paired", next) /\ Same /\ cred' = TRUE /\ pairing' = None
          /\ UNCHANGED <<disk, settings, chatRev>>
      BY <1>11, <2>1 DEF PairAnswered
    <3>2. /\ next \in SettingsType /\ next.rev = settings.rev + 1
          /\ next.rules = settings.rules /\ next.allow = settings.allow
      BY <1>0, <1>8, <3>1 DEF Begin, SettingsType
    <3>3. next.rules = "none" => "chat" \in next.allow
      BY <1>0, <3>2 DEF CommitInv, RulesArePermitted
    <3> HIDE DEF next
    <3> QED
      BY <1>7, <3>1, <3>2, <3>3
  <2>2. CASE settings.rev # pairing
    <3>1. pairing' = None /\ UNCHANGED <<disk, cred, settings, lock, chatRev>> /\ Same
      BY <1>11, <2>2 DEF PairAnswered
    <3> QED
      BY <1>0, <3>1 DEF Same, ViewerKeeps, ConfType
  <2> QED
    BY <2>1, <2>2
<1>12. CASE PairFails
  <2>1. pairing' = None /\ UNCHANGED <<disk, cred, settings, lock, chatRev>> /\ Same
    BY <1>12 DEF PairFails
  <2> QED
    BY <1>0, <2>1 DEF Same, ViewerKeeps, ConfType
<1> QED
  BY <1>1, <1>5, <1>6, <1>9, <1>10, <1>11, <1>12 DEF Viewer

\* The steps of the daily worker touch the movie only.
LEMMA DailyEffect == ASSUME Daily PROVE UNCHANGED <<conf, net, cap, ready, view>>
BY DEF Daily, Consent, Claim, OfferLegacy, OfferRead, OfferQueue

\* Capture touches neither the settings nor the Viewer.
LEMMA CaptureEffect == ASSUME Capture PROVE UNCHANGED <<conf, key, view>>
BY DEF Capture, Pause, Resume, NewSession, movie

\* The transport, but for a change from chat, touches neither the settings nor the Viewer.
Network ==
    \/ Link \/ SessionFails \/ Movies
    \/ Connected \/ MediaReady \/ MakeImage \/ ImageStale \/ SendImage \/ ImageSettled
    \/ SnapshotRequest \/ SendSnapshot \/ SnapshotEnds

\* Each action of the transport is of this kind.
LEMMA NetworkEffect == ASSUME Network PROVE UNCHANGED <<conf, key, cap, view>>
BY DEF Network, Link, LinkEpoch, LinkRead, LinkChanged, BackoffOver, SessionChanged, SessionFails,
   Movies, TakeMovie, PostMovie, MovieEnds, MovieRetry, Connected, MediaReady, MakeImage,
   ImageStale, SendImage, ImageSettled, SnapshotRequest, SendSnapshot, SnapshotEnds, Rest

\* Every step is one of these, or changes nothing.
LEMMA EveryStep ==
    ASSUME [Next]_vars
    PROVE  \/ CommitCancel \/ CommitSave \/ CommitFails \/ ForgetCredential
           \/ Viewer \/ Capture \/ Daily \/ Network \/ ConfigureTriggers \/ Crash
           \/ UNCHANGED vars
BY DEF Next, Commit, Session, Network

-----------------------------------------------------------------------------
(* Settings. *)

\* The saved settings, a commit under way and the credential agree after every step.
LEMMA NextConf ==
    ASSUME IndInv, [Next]_vars
    PROVE  ConfType' /\ CommitInv'
<1>0. ConfType /\ CommitInv
  BY DEF IndInv, TypeOK
<1>1. lock # None =>
         /\ lock \in Locks /\ lock.next \in SettingsType
         /\ lock.op \in {"save", "stop", "forget", "pair", "paired"}
         /\ lock.pc \in {"cancel", "save", "delete"}
  BY <1>0 DEF ConfType, Locks
<1>2. CASE CommitCancel
  <2>1. /\ lock # None /\ lock.pc = "cancel" /\ lock' = [lock EXCEPT !.pc = "save"]
        /\ settings' = [settings EXCEPT !.on = FALSE]
        /\ UNCHANGED <<disk, cred, pairing, chatRev>>
    BY <1>2 DEF CommitCancel
  <2>2. /\ lock' \in Locks /\ lock' # None /\ lock'.pc = "save" /\ lock'.op = lock.op
        /\ lock'.next = lock.next
    BY <1>1, <2>1, NoneIsNoRecord DEF Locks
  <2>3. /\ settings' \in SettingsType /\ settings'.on = FALSE /\ settings'.rev = settings.rev
        /\ settings'.dev = settings.dev /\ settings'.rules = settings.rules
        /\ settings'.allow = settings.allow
    BY <1>0, <2>1 DEF ConfType, SettingsType
  <2>4. ConfType'
    BY <1>0, <2>1, <2>2, <2>3 DEF ConfType
  <2> QED
    BY <1>0, <2>1, <2>2, <2>3, <2>4
       DEF CommitInv, PairedHasCredential, ActiveIsSaved, RulesArePermitted
<1>3. CASE CommitSave
  <2>1. /\ lock # None /\ lock.pc = "save" /\ disk' = lock.next /\ settings' = lock.next
        /\ pairing' = IF lock.op = "pair" THEN lock.next.rev ELSE pairing
        /\ lock' = IF lock.op = "forget" THEN [lock EXCEPT !.pc = "delete"] ELSE None
        /\ UNCHANGED <<cred, chatRev>>
    BY <1>3 DEF CommitSave
  <2>2. /\ lock' # None => /\ lock' \in Locks /\ lock'.pc = "delete" /\ lock'.op = "forget"
                           /\ lock'.next = lock.next /\ lock.op = "forget"
    BY <1>1, <2>1 DEF Locks
  <2>3. /\ lock.next.rev = settings.rev + 1 /\ lock.next.rev \in Revisions
        /\ settings.rev \in Revisions
    BY <1>0, <1>1, <2>1 DEF CommitInv, ConfType, SettingsType
  <2>4. ConfType'
    BY <1>0, <1>1, <2>1, <2>2, <2>3 DEF ConfType
  <2>5. chatRev <= settings'.rev
    BY <1>0, <2>1, <2>3 DEF CommitInv, ConfType, Revisions
  <2>6. /\ settings'.dev => cred
        /\ settings'.rules = "none" => "chat" \in settings'.allow
        /\ lock.op = "forget" => ~settings'.on /\ ~settings'.dev
    BY <1>0, <2>1 DEF CommitInv
  <2> QED
    BY <2>1, <2>2, <2>4, <2>5, <2>6
       DEF CommitInv, PairedHasCredential, ActiveIsSaved, RulesArePermitted
<1>4. CASE CommitFails
  <2>1. lock' = None /\ UNCHANGED <<disk, cred, settings, pairing, chatRev>>
    BY <1>4 DEF CommitFails
  <2> QED
    BY <1>0, <2>1
       DEF ConfType, CommitInv, PairedHasCredential, ActiveIsSaved, RulesArePermitted
<1>5. CASE ForgetCredential
  <2>1. /\ lock # None /\ lock.pc = "delete" /\ cred' = FALSE /\ lock' = None
        /\ UNCHANGED <<disk, settings, pairing, chatRev>>
    BY <1>5 DEF ForgetCredential
  <2>2. ~disk.dev /\ ~settings.dev
    BY <1>0, <2>1 DEF CommitInv
  <2> QED
    BY <1>0, <2>1, <2>2
       DEF ConfType, CommitInv, PairedHasCredential, ActiveIsSaved, RulesArePermitted
<1>6. CASE Viewer
  <2>1. /\ cred' \in BOOLEAN /\ (cred => cred') /\ pairing' \in Revisions \cup {None}
        /\ (lock' = lock /\ cred' = cred) \/ \E op, next : Begins(op, next)
        /\ UNCHANGED <<disk, settings, chatRev>>
    BY <1>6, ViewerEffect DEF ViewerKeeps
  <2>2. CASE lock' = lock /\ cred' = cred
    BY <1>0, <2>1, <2>2
       DEF ConfType, CommitInv, PairedHasCredential, ActiveIsSaved, RulesArePermitted
  <2>3. ASSUME NEW op, NEW next, Begins(op, next) PROVE ConfType' /\ CommitInv'
    <3>1. /\ lock' \in Locks /\ lock'.op = op /\ lock'.next = next /\ lock'.pc = "cancel"
      BY <2>3 DEF Begins, Locks
    <3> QED
      BY <1>0, <2>1, <2>3, <3>1
         DEF Begins, ConfType, CommitInv, PairedHasCredential, ActiveIsSaved, RulesArePermitted
  <2> QED
    BY <2>1, <2>2, <2>3
<1>7. CASE Capture \/ Daily \/ Network \/ UNCHANGED vars
  <2>1. UNCHANGED conf
    BY <1>7, CaptureEffect, DailyEffect, NetworkEffect DEF vars
  <2> QED
    BY <1>0, <2>1
       DEF conf, ConfType, CommitInv, PairedHasCredential, ActiveIsSaved, RulesArePermitted
<1>8. CASE ConfigureTriggers
  <2>1. /\ lock = None /\ settings.on /\ "chat" \in settings.allow /\ settings.rev < MaxRevision
        /\ settings' = [settings EXCEPT !.rules = "none", !.rev = @ + 1]
        /\ disk' = settings' /\ chatRev' = settings'.rev
        /\ UNCHANGED <<cred, lock, pairing>>
    BY <1>8 DEF ConfigureTriggers
  <2>2. settings.rev + 1 \in Revisions
    BY <1>0, <2>1 DEF ConfType, SettingsType, Revisions
  <2>3. /\ settings' \in SettingsType /\ settings'.allow = settings.allow
        /\ settings'.dev = settings.dev /\ settings'.rev = settings.rev + 1
    BY <1>0, <2>1, <2>2 DEF ConfType, SettingsType
  <2>4. settings'.rev \in Nat
    BY <2>2, <2>3 DEF Revisions
  <2> QED
    BY <1>0, <2>1, <2>3, <2>4
       DEF ConfType, CommitInv, PairedHasCredential, ActiveIsSaved, RulesArePermitted
<1>9. CASE Crash
  <2>1. settings' = disk /\ lock' = None /\ pairing' = None /\ UNCHANGED <<disk, cred, chatRev>>
    BY <1>9 DEF Crash
  <2> QED
    BY <1>0, <2>1
       DEF ConfType, CommitInv, PairedHasCredential, ActiveIsSaved, RulesArePermitted
<1> QED
  BY <1>2, <1>3, <1>4, <1>5, <1>6, <1>7, <1>8, <1>9, EveryStep

-----------------------------------------------------------------------------
(* The Viewer and capture. *)

\* The Viewer keeps what its user has seen, whatever its calls answer.
LEMMA NextView ==
    ASSUME IndInv, [Next]_vars
    PROVE  Sees(view)'
<1>0. /\ Sees(view) /\ settings \in SettingsType /\ disk \in SettingsType /\ view \in Views
      /\ lock # None => lock.next \in SettingsType
  BY DEF IndInv, TypeOK, ConfType, RestType, Sees, Locks
<1>1. /\ view.draft \in Preferences /\ view.st.prefs \in Preferences /\ view.st.rev \in Revisions
      /\ Prefs(settings) \in Preferences /\ settings.rev \in Revisions
  BY <1>0, ViewFields, PrefsAreTyped DEF SettingsType
<1>2. ASSUME NEW op \in Operations \cup {None}, view' = [view EXCEPT !.op = op] PROVE Sees(view)'
  BY <1>0, <1>2, SeesWith
<1>3. {[name |-> "save"], [name |-> "forget"], [name |-> "pair"]} \subseteq Operations
  BY DEF Operations
<1>4. ASSUME Conflict PROVE Sees(view)'
  BY <1>0, <1>4, RefreshedSees, SeesWith DEF Conflict
<1>5. ASSUME UNCHANGED view PROVE Sees(view)'
  BY <1>0, <1>5
<1>6. CASE CommitSave
  BY <1>0, <1>6, ShownSees DEF CommitSave
<1>7. CASE CommitFails
  BY <1>0, <1>7, ShownSees DEF CommitFails
<1>8. CASE ForgetCredential
  BY <1>0, <1>8, ShownSees DEF ForgetCredential
<1>9. CASE Poll
  BY <1>0, <1>9, RefreshedSees DEF Poll
<1>10. CASE Edit
  <2>1. PICK on \in BOOLEAN, allow \in Choices :
           view' = [view EXCEPT !.draft = [on |-> on, allow |-> allow]]
    BY <1>10 DEF Edit
  <2>2. [on |-> on, allow |-> allow] \in Preferences
    BY DEF Preferences
  <2> QED
    BY <1>0, <2>1, <2>2 DEF Sees, Views
<1>11. CASE KeepEdits
  BY <1>0, <1>1, <1>11 DEF KeepEdits, Sees, Views
<1>12. CASE Discard
  BY <1>0, <1>1, <1>12 DEF Discard, Sees, Views
<1>13. CASE Save
  <2>1. Call([name |-> "save"]) \/ Conflict
    BY <1>13 DEF Save
  <2> QED
    BY <1>2, <1>3, <1>4, <2>1 DEF Call
<1>14. CASE StopRead
  <2>1. [name |-> "stop", before |-> settings.rev, prefs |-> Prefs(settings)] \in Operations
    BY <1>1 DEF Operations
  <2> QED
    BY <1>2, <1>14, <2>1 DEF StopRead, Call
<1>15. CASE StopSave
  BY <1>4, <1>5, <1>15 DEF StopSave
<1>16. CASE Forget
  BY <1>2, <1>3, <1>16 DEF Forget, Call
<1>17. CASE Pair
  BY <1>2, <1>3, <1>17 DEF Pair, Call
<1>18. CASE PairAnswered
  BY <1>0, <1>5, <1>18, ShownSees DEF PairAnswered
<1>19. CASE PairFails
  BY <1>0, <1>19, ShownSees DEF PairFails
<1>20. CASE CallTimesOut
  BY <1>0, <1>20, ShownSees DEF CallTimesOut
<1>21. CASE Crash
  BY <1>0, <1>21, RefreshedSees, SeesWith DEF Crash
<1>22. CASE CommitCancel \/ Capture \/ Daily \/ Network \/ ConfigureTriggers \/ UNCHANGED vars
  BY <1>5, <1>22, CaptureEffect, DailyEffect, NetworkEffect DEF CommitCancel, ConfigureTriggers, vars
<1> QED
  BY <1>6, <1>7, <1>8, <1>9, <1>10, <1>11, <1>12, <1>13, <1>14, <1>15, <1>16, <1>17, <1>18, <1>19,
     <1>20, <1>21, <1>22, EveryStep DEF Viewer

\* Capture sessions and the bounds stay within their types.
LEMMA NextRest ==
    ASSUME IndInv, [Next]_vars
    PROVE  RestType'
<1>0. RestType
  BY DEF IndInv, TypeOK
<1>1. view' \in Views
  BY NextView DEF Sees
<1>2. cap' \in [ses : Sessions, live : BOOLEAN]
  <2>1. cap \in [ses : Sessions, live : BOOLEAN]
    BY <1>0 DEF RestType
  <2>2. CASE Capture
    <3>1. CASE Pause \/ Resume
      BY <2>1, <3>1 DEF Pause, Resume
    <3>2. CASE NewSession
      <4>1. cap.ses + 1 \in Sessions
        BY <2>1, <3>2 DEF NewSession, Sessions
      <4> QED
        BY <3>2, <4>1 DEF NewSession
    <3> QED
      BY <2>2, <3>1, <3>2 DEF Capture
  <2>3. CASE ~Capture
    <3>1. UNCHANGED cap
      BY <2>3, EveryStep, DailyEffect, NetworkEffect, ViewerEffect
         DEF CommitCancel, CommitSave, CommitFails, ForgetCredential, ConfigureTriggers, Crash, vars,
             ViewerKeeps
    <3> QED
      BY <2>1, <3>1
  <2> QED
    BY <2>2, <2>3
<1>3. (edits' = edits \/ Act) /\ (faults' = faults \/ Fault)
  <2>1. CASE Commit
    BY <2>1 DEF Commit, CommitCancel, CommitSave, CommitFails, ForgetCredential, bounds
  <2>2. CASE Viewer
    BY <2>2 DEF Viewer, Poll, Edit, KeepEdits, Discard, Save, StopRead, StopSave, Forget, Pair,
       PairAnswered, PairFails, CallTimesOut, bounds
  <2>3. CASE Capture \/ Daily
    BY <2>3 DEF Capture, Pause, Resume, NewSession, Daily, Consent, Claim, OfferLegacy, OfferRead,
       OfferQueue, bounds
  <2>4. CASE Link \/ SessionFails \/ Movies
    BY <2>4 DEF Link, LinkEpoch, LinkRead, LinkChanged, BackoffOver, SessionChanged, SessionFails,
       Movies, TakeMovie, PostMovie, MovieEnds, MovieRetry, bounds
  <2>5. CASE Session
    BY <2>5 DEF Session, Connected, MediaReady, ConfigureTriggers, MakeImage, ImageStale, SendImage,
       ImageSettled, SnapshotRequest, SendSnapshot, SnapshotEnds, bounds
  <2>6. CASE Crash \/ UNCHANGED vars
    BY <2>6 DEF Crash, vars, bounds
  <2> QED
    BY <2>1, <2>2, <2>3, <2>4, <2>5, <2>6 DEF Next
<1> QED
  BY <1>0, <1>1, <1>2, <1>3 DEF RestType, Act, Fault

-----------------------------------------------------------------------------
(* The transport. *)

\* What ages changes nothing but its currency.
LEMMA Ages ==
    ASSUME NetType, MovieType
    PROVE  /\ Aged(link) = [link EXCEPT !.cur = FALSE] /\ Aged(link) \in Links
           /\ Aged(link).cur = FALSE /\ Aged(link).pc = link.pc /\ Aged(link).set = link.set
           /\ Aged(link).limit = link.limit
           /\ Aged(snap) \in Snapshots \cup {None} /\ (snap = None => Aged(snap) = None)
           /\ snap # None => Aged(snap) # None
           /\ Aged(upload) \in Uploads \cup {None} /\ (upload = None => Aged(upload) = None)
           /\ Aged(upload) # None => ~Aged(upload).cur
           /\ Aged(offer) \in Offers \cup {None} /\ (Aged(offer) # None => ~Aged(offer).cur)
<1>1. link \in Links /\ link # None
  BY NoneIsNoRecord DEF NetType
<1>2. /\ Aged(link) = [link EXCEPT !.cur = FALSE] /\ Aged(link) \in Links
      /\ Aged(link).cur = FALSE /\ Aged(link).pc = link.pc /\ Aged(link).set = link.set
      /\ Aged(link).limit = link.limit
  BY <1>1 DEF Aged, Links
<1>3. /\ Aged(snap) \in Snapshots \cup {None} /\ (snap = None => Aged(snap) = None)
      /\ snap # None => Aged(snap) # None
  BY NoneIsNoRecord DEF Aged, NetType, Snapshots
<1>4. /\ Aged(upload) \in Uploads \cup {None} /\ (upload = None => Aged(upload) = None)
      /\ Aged(upload) # None => ~Aged(upload).cur
  BY DEF Aged, NetType, Uploads
<1>5. Aged(offer) \in Offers \cup {None} /\ (Aged(offer) # None => ~Aged(offer).cur)
  BY DEF Aged, MovieType, Offers
<1> QED
  BY <1>2, <1>3, <1>4, <1>5

\* A transport that starts over.
LEMMA DownIsTyped == /\ Down \in Links /\ Down.pc = "top" /\ ~Down.cur
                     /\ [Down EXCEPT !.pc = "read", !.cur = TRUE] \in Links
                     /\ [Down EXCEPT !.pc = "read", !.cur = TRUE].pc = "read"
BY DEF Down, Links

\* A connection no change has reached works with the settings in force, after every step.
LEMMA NextNet ==
    ASSUME IndInv, [Next]_vars
    PROVE  NetType' /\ LinkInv'
<1>0. /\ NetType /\ LinkInv /\ MovieType /\ ConfType /\ CommitInv
      /\ cap \in [ses : Sessions, live : BOOLEAN]
  BY DEF IndInv, TypeOK, RestType
<1>1. ASSUME CommitCancel PROVE NetType' /\ LinkInv'
  <2>1. /\ link' = Aged(link) /\ snap' = Aged(snap) /\ upload' = Aged(upload) /\ UNCHANGED image
    BY <1>1 DEF CommitCancel, Invalidate
  <2> QED
    BY <1>0, <2>1, Ages DEF NetType, LinkInv
<1>2. ASSUME CommitSave PROVE NetType' /\ LinkInv'
  <2>1. /\ link' = Aged(link) /\ snap' = Aged(snap) /\ upload' = Aged(upload) /\ UNCHANGED image
    BY <1>2 DEF CommitSave, Invalidate
  <2> QED
    BY <1>0, <2>1, Ages DEF NetType, LinkInv
<1>3. ASSUME CommitFails PROVE NetType' /\ LinkInv'
  <2>1. UNCHANGED <<settings, link, image, snap, upload>> /\ (lock' = lock \/ lock' = None)
    BY <1>3 DEF CommitFails, net
  <2> QED
    BY <1>0, <2>1 DEF NetType, LinkInv
<1>4. ASSUME ForgetCredential PROVE NetType' /\ LinkInv'
  <2>1. UNCHANGED <<settings, link, image, snap, upload>> /\ (lock' = lock \/ lock' = None)
    BY <1>4 DEF ForgetCredential, net
  <2> QED
    BY <1>0, <2>1 DEF NetType, LinkInv
<1>5. ASSUME Viewer PROVE NetType' /\ LinkInv'
  <2>1. UNCHANGED <<settings, link, image, snap, upload>>
    BY <1>5, ViewerEffect DEF ViewerKeeps, net
  <2>2. lock' = lock \/ lock'.pc = "cancel"
    BY <1>5, ViewerEffect DEF ViewerKeeps, Begins
  <2> QED
    BY <1>0, <2>1, <2>2 DEF NetType, LinkInv
<1>6. ASSUME Capture PROVE NetType' /\ LinkInv'
  <2>1. UNCHANGED <<settings, lock>>
    BY <1>6, CaptureEffect DEF conf
  <2>2. CASE Pause \/ Resume
    <3>1. /\ link' = Aged(link) /\ snap' = Aged(snap) /\ upload' = Aged(upload) /\ UNCHANGED image
      BY <2>2 DEF Pause, Resume, Invalidate
    <3> QED
      BY <1>0, <2>1, <3>1, Ages DEF NetType, LinkInv
  <2>3. CASE NewSession
    BY <1>0, <2>1, <2>3 DEF NewSession, net, NetType, LinkInv
  <2> QED
    BY <1>6, <2>2, <2>3 DEF Capture
<1>7. ASSUME Daily PROVE NetType' /\ LinkInv'
  <2>1. UNCHANGED <<settings, lock, link, image, snap, upload>>
    BY <1>7, DailyEffect DEF conf, net
  <2> QED
    BY <1>0, <2>1 DEF NetType, LinkInv
<1>8. ASSUME LinkEpoch PROVE NetType' /\ LinkInv'
  <2>1. /\ link.pc = "top" /\ link' = [Down EXCEPT !.pc = "read", !.cur = TRUE]
        /\ UNCHANGED <<settings, lock, image, snap, upload>>
    BY <1>8 DEF LinkEpoch, Rest, conf
  <2> QED
    BY <1>0, <2>1, DownIsTyped DEF NetType, LinkInv
<1>9. ASSUME LinkRead PROVE NetType' /\ LinkInv'
  <2>1. link.pc = "read" /\ UNCHANGED <<settings, lock, snap, upload>> /\ link \in Links
    BY <1>0, <1>9 DEF LinkRead, Rest, conf, NetType
  <2>2. CASE link' = [link EXCEPT !.pc = "wait"] /\ image' \in {image, None}
    <3>1. link' \in Links /\ link'.pc = "wait"
      BY <2>1, <2>2 DEF Links
    <3> QED
      BY <1>0, <2>1, <2>2, <3>1 DEF NetType, LinkInv
  <2>3. CASE /\ settings.on /\ settings.dev /\ UNCHANGED image
             /\ link' = [link EXCEPT !.pc = "connect", !.set = settings]
    <3>1. settings \in SettingsType
      BY <1>0 DEF ConfType
    <3>2. link' \in Links /\ link'.pc = "connect" /\ link'.set = settings
      BY <2>1, <2>3, <3>1 DEF Links
    <3>3. lock = None \/ lock.pc = "cancel"
      BY <1>0, <2>3 DEF CommitInv
    <3>4. settings = [settings EXCEPT !.rev = settings.rev]
      BY <3>1 DEF SettingsType
    <3>5. snap = None /\ upload = None
      BY <1>0, <2>1 DEF LinkInv
    <3> QED
      BY <1>0, <2>1, <2>3, <3>1, <3>2, <3>3, <3>4, <3>5 DEF NetType, LinkInv
  <2> QED
    BY <1>9, <2>2, <2>3 DEF LinkRead
<1>10. ASSUME LinkChanged PROVE NetType' /\ LinkInv'
  <2>1. /\ link.pc \in {"wait", "backoff"} /\ link' = Down /\ image' \in {image, None}
        /\ UNCHANGED <<settings, lock, snap, upload>>
    BY <1>10 DEF LinkChanged, Rest, conf
  <2> QED
    BY <1>0, <2>1, DownIsTyped DEF NetType, LinkInv
<1>11. ASSUME BackoffOver PROVE NetType' /\ LinkInv'
  <2>1. /\ link.pc = "backoff" /\ link' = Down /\ UNCHANGED <<settings, lock, image, snap, upload>>
    BY <1>11 DEF BackoffOver, Rest, conf
  <2> QED
    BY <1>0, <2>1, DownIsTyped DEF NetType, LinkInv
<1>12. ASSUME SessionChanged PROVE NetType' /\ LinkInv'
  <2>1. /\ link' = Down /\ image' = None /\ snap' = None /\ upload' = None
    BY <1>12 DEF SessionChanged, EndSession
  <2> QED
    BY <1>0, <2>1, DownIsTyped DEF NetType, LinkInv
<1>13. ASSUME SessionFails PROVE NetType' /\ LinkInv'
  <2>1. PICK pc \in {"backoff", "wait"} : link' = [link EXCEPT !.pc = pc]
    BY <1>13 DEF SessionFails, EndSession
  <2>2. image' \in {image, None} /\ snap' = None /\ upload' = None
    BY <1>13 DEF SessionFails, EndSession
  <2>3. link' \in Links /\ link'.pc \in {"backoff", "wait"}
    BY <1>0, <2>1 DEF NetType, Links
  <2> QED
    BY <1>0, <2>2, <2>3 DEF NetType, LinkInv
<1>14. ASSUME Connected PROVE NetType' /\ LinkInv'
  <2>1. /\ link.pc = "connect" /\ link' = [link EXCEPT !.pc = "session"]
        /\ UNCHANGED <<settings, lock, image, snap, upload>>
    BY <1>14 DEF Connected, Rest, conf
  <2>2. /\ link' \in Links /\ link'.pc = "session" /\ link'.cur = link.cur /\ link'.set = link.set
    BY <1>0, <2>1 DEF NetType, Links
  <2> QED
    BY <1>0, <2>1, <2>2 DEF NetType, LinkInv
<1>15. ASSUME MediaReady PROVE NetType' /\ LinkInv'
  <2>1. /\ link.pc = "session" /\ link' = [link EXCEPT !.limit = TRUE]
        /\ UNCHANGED <<settings, lock, image, snap, upload>>
    BY <1>15 DEF MediaReady, Rest, conf
  <2>2. /\ link' \in Links /\ link'.pc = "session" /\ link'.cur = link.cur /\ link'.set = link.set
    BY <1>0, <2>1 DEF NetType, Links
  <2> QED
    BY <1>0, <2>1, <2>2 DEF NetType, LinkInv
<1>16. ASSUME ConfigureTriggers PROVE NetType' /\ LinkInv'
  <2>1. /\ link.pc = "session" /\ link.cur /\ lock = None /\ settings.rev < MaxRevision
        /\ settings' = [settings EXCEPT !.rules = "none", !.rev = @ + 1]
        /\ link' = [link EXCEPT !.set.rules = "none"]
        /\ image' = None /\ snap' = None /\ UNCHANGED <<lock, upload>>
    BY <1>16 DEF ConfigureTriggers, Changed
  <2>2. /\ link.set \in SettingsType /\ settings \in SettingsType
        /\ link.set = [settings EXCEPT !.rev = link.set.rev] /\ settings.on /\ settings.dev
    BY <1>0, <2>1 DEF NetType, LinkInv, ConfType
  <2>3. /\ link' \in Links /\ link'.pc = "session" /\ link'.cur = link.cur
        /\ link'.set = [link.set EXCEPT !.rules = "none"] /\ link'.set \in SettingsType
    BY <1>0, <2>1, <2>2 DEF NetType, Links, SettingsType
  <2>4. settings'.on /\ settings'.dev
    BY <2>1, <2>2 DEF SettingsType
  <2>5. link'.set = [settings' EXCEPT !.rev = link'.set.rev]
    <3> DEFINE With(rev) == [rev |-> rev, on |-> settings.on, allow |-> settings.allow,
                             dev |-> settings.dev, rules |-> "none"]
    <3>1. [settings EXCEPT !.rev = link.set.rev] =
             [rev |-> link.set.rev, on |-> settings.on, allow |-> settings.allow,
              dev |-> settings.dev, rules |-> settings.rules]
      BY <2>2 DEF SettingsType
    <3>2. link'.set = With(link.set.rev)
      <4> DEFINE now == [rev |-> link.set.rev, on |-> settings.on, allow |-> settings.allow,
                         dev |-> settings.dev, rules |-> settings.rules]
      <4>1. link.set = now
        BY <2>2, <3>1
      <4>2. [now EXCEPT !.rules = "none"] = With(link.set.rev)
        OBVIOUS
      <4> HIDE DEF now, With
      <4> QED
        BY <2>3, <4>1, <4>2
    <3>3. settings' = With(settings.rev + 1)
      BY <2>1, <2>2 DEF SettingsType
    <3>4. [With(settings.rev + 1) EXCEPT !.rev = link.set.rev] = With(link.set.rev)
      OBVIOUS
    <3>5. With(link.set.rev).rev = link.set.rev
      OBVIOUS
    <3> QED
      BY <3>2, <3>3, <3>4, <3>5
  <2> QED
    BY <1>0, <2>1, <2>3, <2>4, <2>5 DEF NetType, LinkInv
<1>17. ASSUME MakeImage PROVE NetType' /\ LinkInv'
  <2>1. UNCHANGED <<settings, lock, link>> /\ link.pc = "session"
    BY <1>17 DEF MakeImage, Tick, Rest, conf

  <2>2. image' \in Images /\ UNCHANGED <<snap, upload>>
    BY <1>0, <1>17 DEF MakeImage, Images
  <2> QED
    BY <1>0, <2>1, <2>2 DEF NetType, LinkInv
<1>18. ASSUME ImageStale PROVE NetType' /\ LinkInv'
  <2>1. UNCHANGED <<settings, lock, link>> /\ link.pc = "session"
    BY <1>18 DEF ImageStale, Tick, Rest, conf

  <2>2. image' \in {image, None} /\ snap' \in {snap, None} /\ upload' \in {upload, None}
    BY <1>18 DEF ImageStale
  <2> QED
    BY <1>0, <2>1, <2>2 DEF NetType, LinkInv
<1>19. ASSUME SendImage PROVE NetType' /\ LinkInv'
  <2>1. UNCHANGED <<settings, lock, link>> /\ link.pc = "session"
    BY <1>19 DEF SendImage, Tick, Rest, conf

  <2>2. image' \in Images /\ UNCHANGED <<snap, upload>>
    BY <1>0, <1>19 DEF SendImage, NetType, Images
  <2> QED
    BY <1>0, <2>1, <2>2 DEF NetType, LinkInv
<1>20. ASSUME ImageSettled PROVE NetType' /\ LinkInv'
  <2>1. UNCHANGED <<settings, lock, link>> /\ link.pc = "session"
    BY <1>20 DEF ImageSettled, Tick, Rest, conf

  <2>2. image' \in {image, None} /\ snap' \in {snap, None} /\ upload' \in {upload, None}
    BY <1>20 DEF ImageSettled
  <2> QED
    BY <1>0, <2>1, <2>2 DEF NetType, LinkInv
<1>21. ASSUME SnapshotRequest PROVE NetType' /\ LinkInv'
  <2>1. UNCHANGED <<settings, lock, link>> /\ link.pc = "session"
    BY <1>21 DEF SnapshotRequest, Tick, Rest, conf

  <2>2. /\ snap' \in Snapshots /\ UNCHANGED <<image, upload>> /\ "snapshot" \in link.set.allow
    BY <1>0, <1>21 DEF SnapshotRequest, Snapshots
  <2> QED
    BY <1>0, <2>1, <2>2 DEF NetType, LinkInv
<1>22. ASSUME SendSnapshot PROVE NetType' /\ LinkInv'
  <2>1. UNCHANGED <<settings, lock, link>> /\ link.pc = "session"
    BY <1>22 DEF SendSnapshot, Tick, Rest, conf

  <2>2. /\ snap # None /\ snap' = [snap EXCEPT !.tries = @ + 1] /\ UNCHANGED <<image, upload>>
    BY <1>22 DEF SendSnapshot
  <2>3. snap' \in Snapshots
    BY <1>0, <2>2 DEF NetType, Snapshots
  <2> QED
    BY <1>0, <2>1, <2>2, <2>3 DEF NetType, LinkInv
<1>23. ASSUME SnapshotEnds PROVE NetType' /\ LinkInv'
  <2>1. UNCHANGED <<settings, lock, link>> /\ link.pc = "session"
    BY <1>23 DEF SnapshotEnds, Tick, Rest, conf

  <2>2. image' \in {image, None} /\ snap' \in {snap, None} /\ upload' \in {upload, None}
    BY <1>23 DEF SnapshotEnds
  <2> QED
    BY <1>0, <2>1, <2>2 DEF NetType, LinkInv
<1>24. ASSUME TakeMovie PROVE NetType' /\ LinkInv'
  <2>1. UNCHANGED <<settings, lock, link>> /\ link.pc = "session"
    BY <1>24 DEF TakeMovie, Tick, Rest, conf

  <2>2. /\ UNCHANGED <<image, snap>> /\ link.cur /\ pending # None
        /\ upload' = IF Live(pending.ses)
                     THEN [ses |-> pending.ses, cur |-> TRUE, pc |-> "check", n |-> 0] ELSE upload
    BY <1>24 DEF TakeMovie, Tick, Changed
  <2>3. pending.ses \in Sessions
    BY <1>0, <2>2 DEF MovieType, Queue
  <2>4. upload' \in Uploads \cup {None}
    BY <1>0, <2>2, <2>3 DEF NetType, Uploads
  <2> QED
    BY <1>0, <2>1, <2>2, <2>4 DEF NetType, LinkInv
<1>25. ASSUME PostMovie PROVE NetType' /\ LinkInv'
  <2>1. UNCHANGED <<settings, lock, link>> /\ link.pc = "session"
    BY <1>25 DEF PostMovie, Tick, Rest, conf

  <2>2. UNCHANGED <<image, snap>>
    BY <1>25 DEF PostMovie
  <2>3. upload' = None \/ (upload # None /\ upload' = [upload EXCEPT !.pc = "post", !.n = @ + 1])
    BY <1>25 DEF PostMovie
  <2>4. upload' = None \/ (upload # None /\ upload' \in Uploads /\ upload'.cur = upload.cur)
    <3>1. upload # None => upload \in Uploads
      BY <1>0 DEF NetType
    <3>2. upload # None => upload.n \in Nat /\ upload.n + 1 \in Nat
      BY <3>1 DEF Uploads
    <3>3. CASE upload # None /\ upload' = [upload EXCEPT !.pc = "post", !.n = @ + 1]
      BY <3>1, <3>2, <3>3 DEF Uploads
    <3> QED
      BY <2>3, <3>3
  <2> QED
    BY <1>0, <2>1, <2>2, <2>4 DEF NetType, LinkInv
<1>26. ASSUME MovieEnds PROVE NetType' /\ LinkInv'
  <2>1. UNCHANGED <<settings, lock, link>> /\ link.pc = "session"
    BY <1>26 DEF MovieEnds, Tick, Rest, conf

  <2>2. image' \in {image, None} /\ snap' \in {snap, None} /\ upload' \in {upload, None}
    BY <1>26 DEF MovieEnds
  <2> QED
    BY <1>0, <2>1, <2>2 DEF NetType, LinkInv
<1>27. ASSUME MovieRetry PROVE NetType' /\ LinkInv'
  <2>1. UNCHANGED <<settings, lock, link>> /\ link.pc = "session"
    BY <1>27 DEF MovieRetry, Tick, Rest, conf

  <2>2. UNCHANGED <<image, snap>>
    BY <1>27 DEF MovieRetry
  <2>3. upload' = None \/ (upload # None /\ upload' = [upload EXCEPT !.pc = "check"])
    BY <1>27 DEF MovieRetry
  <2>4. upload' = None \/ (upload # None /\ upload' \in Uploads /\ upload'.cur = upload.cur)
    <3>1. upload # None => upload \in Uploads
      BY <1>0 DEF NetType
    <3> QED
      BY <2>3, <3>1 DEF Uploads
  <2> QED
    BY <1>0, <2>1, <2>2, <2>4 DEF NetType, LinkInv
<1>28. ASSUME Crash PROVE NetType' /\ LinkInv'
  <2>1. link' = Down /\ image' = None /\ snap' = None /\ upload' = None
    BY <1>28 DEF Crash
  <2> QED
    BY <1>0, <2>1, DownIsTyped DEF NetType, LinkInv
<1>29. CASE UNCHANGED vars
  <2>1. UNCHANGED <<settings, lock, link, image, snap, upload>>
    BY <1>29 DEF vars, conf, net
  <2> QED
    BY <1>0, <2>1 DEF NetType, LinkInv
<1> QED
  BY EveryStep, <1>1, <1>2, <1>3, <1>4, <1>5, <1>6, <1>7, <1>8, <1>9, <1>10, <1>11, <1>12, <1>13,
     <1>14, <1>15, <1>16, <1>17, <1>18, <1>19, <1>20, <1>21, <1>22, <1>23, <1>24, <1>25,
     <1>26, <1>27, <1>28, <1>29 DEF Network, Link, Session, Movies

\* A queued movie has a session to take it, after every step.
LEMMA NextMovie ==
    ASSUME IndInv, [Next]_vars
    PROVE  MovieType' /\ MovieInv'
<1>0. /\ MovieType /\ MovieInv /\ NetType /\ ConfType /\ cap \in [ses : Sessions, live : BOOLEAN]
  BY DEF IndInv, TypeOK, RestType
<1>1. ASSUME CommitCancel PROVE MovieType' /\ MovieInv'
  <2>1. ready' = FALSE /\ pending' = None /\ offer' = Aged(offer) /\ UNCHANGED key
    BY <1>1 DEF CommitCancel, Invalidate, CancelMovies, EndSession, Rest
  <2> QED
    BY <1>0, <2>1, Ages DEF MovieType, MovieInv
<1>2. ASSUME CommitSave PROVE MovieType' /\ MovieInv'
  <2>1. ready' = FALSE /\ pending' = None /\ offer' = Aged(offer) /\ UNCHANGED key
    BY <1>2 DEF CommitSave, Invalidate, CancelMovies, EndSession, Rest
  <2> QED
    BY <1>0, <2>1, Ages DEF MovieType, MovieInv
<1>3. ASSUME CommitFails PROVE MovieType' /\ MovieInv'
  <2>1. UNCHANGED <<ready, pending, key, offer>> /\ (ready => link'.pc = link.pc /\ link'.limit = link.limit)
    BY <1>0, <1>3 DEF CommitFails, movie, net, Rest, Unsent, Tick, NetType, MovieInv
  <2> QED
    BY <1>0, <2>1 DEF MovieType, MovieInv
<1>4. ASSUME ForgetCredential PROVE MovieType' /\ MovieInv'
  <2>1. UNCHANGED <<ready, pending, key, offer>> /\ (ready => link'.pc = link.pc /\ link'.limit = link.limit)
    BY <1>0, <1>4 DEF ForgetCredential, movie, net, Rest, Unsent, Tick, NetType, MovieInv
  <2> QED
    BY <1>0, <2>1 DEF MovieType, MovieInv
<1>5. ASSUME Viewer PROVE MovieType' /\ MovieInv'
  <2>1. UNCHANGED <<ready, pending, key, offer, link>>
    BY <1>5, ViewerEffect DEF ViewerKeeps, movie, net
  <2> QED
    BY <1>0, <2>1 DEF MovieType, MovieInv
<1>6. ASSUME Capture PROVE MovieType' /\ MovieInv'
  <2>1. CASE Pause \/ Resume
    <3>1. ready' = FALSE /\ pending' = None /\ offer' = Aged(offer) /\ UNCHANGED key
      BY <2>1 DEF Pause, Resume, Invalidate, CancelMovies
    <3> QED
      BY <1>0, <3>1, Ages DEF MovieType, MovieInv
  <2>2. CASE NewSession
    BY <1>0, <2>2 DEF NewSession, movie, net, MovieType, MovieInv
  <2> QED
    BY <1>6, <2>1, <2>2 DEF Capture
<1>7. ASSUME Daily PROVE MovieType' /\ MovieInv'
  <2>1. UNCHANGED <<settings, link, ready>>
    BY <1>7, DailyEffect DEF conf, net
  <2>2. CASE Consent
    <3>1. settings.rev \in Revisions
      BY <1>0 DEF ConfType, SettingsType
    <3> QED
      BY <1>0, <2>1, <2>2, <3>1 DEF Consent, MovieType, MovieInv
  <2>3. CASE Claim
    <3>1. /\ key \in Revisions /\ offer = None /\ key' = None /\ UNCHANGED pending
          /\ \/ ready /\ offer' = [pc |-> "settings", cur |-> TRUE, ses |-> 0, key |-> key]
             \/ UNCHANGED offer
      BY <1>0, <2>3 DEF Claim, MovieType
    <3>2. CASE ready /\ offer' = [pc |-> "settings", cur |-> TRUE, ses |-> 0, key |-> key]
      <4>1. offer' \in Offers
        BY <3>1, <3>2 DEF Offers
      <4> QED
        BY <1>0, <2>1, <3>1, <3>2, <4>1 DEF MovieType, MovieInv
    <3>3. CASE UNCHANGED offer
      BY <1>0, <2>1, <3>1, <3>3 DEF MovieType, MovieInv
    <3> QED
      BY <3>1, <3>2, <3>3
  <2>4. CASE OfferLegacy
    <3>1. /\ offer' = [pc |-> "settings", cur |-> TRUE, ses |-> 0, key |-> None]
          /\ UNCHANGED <<pending, key>>
      BY <2>4 DEF OfferLegacy
    <3>2. offer' \in Offers /\ offer'.key = None
      BY <3>1 DEF Offers
    <3> QED
      BY <1>0, <2>1, <3>1, <3>2 DEF MovieType, MovieInv
  <2>5. CASE OfferRead
    <3>1. /\ offer # None /\ UNCHANGED <<pending, key>>
          /\ offer' \in {[offer EXCEPT !.pc = "copy", !.ses = cap.ses], None}
      BY <2>5 DEF OfferRead
    <3>2. cap.ses \in 0 .. MaxSessions /\ offer \in Offers
      BY <1>0, <3>1 DEF MovieType, Sessions
    <3>3. offer' # None => offer' \in Offers /\ offer'.cur = offer.cur /\ offer'.key = offer.key
      BY <3>1, <3>2 DEF Offers
    <3> QED
      BY <1>0, <2>1, <3>1, <3>3 DEF MovieType, MovieInv
  <2>6. CASE OfferQueue
    <3>1. /\ offer # None /\ offer' = None /\ UNCHANGED key
          /\ \/ StillOffered /\ pending' = [ses |-> offer.ses, key |-> offer.key]
             \/ UNCHANGED pending
      BY <2>6 DEF OfferQueue
    <3>2. CASE StillOffered /\ pending' = [ses |-> offer.ses, key |-> offer.key]
      <4>1. offer.cur /\ offer.ses = cap.ses /\ offer \in Offers
        BY <1>0, <3>1, <3>2 DEF StillOffered, Live, MovieType
      <4>2. pending' \in Queue /\ pending'.key = offer.key
        BY <1>0, <3>2, <4>1 DEF Offers, Queue
      <4> QED
        BY <1>0, <2>1, <3>1, <4>1, <4>2 DEF MovieType, MovieInv
    <3>3. CASE UNCHANGED pending
      BY <1>0, <2>1, <3>1, <3>3 DEF MovieType, MovieInv
    <3> QED
      BY <3>1, <3>2, <3>3
  <2> QED
    BY <1>7, <2>2, <2>3, <2>4, <2>5, <2>6 DEF Daily
<1>8. ASSUME LinkEpoch PROVE MovieType' /\ MovieInv'
  <2>1. UNCHANGED <<ready, pending, key, offer>> /\ (ready => link'.pc = link.pc /\ link'.limit = link.limit)
    BY <1>0, <1>8 DEF LinkEpoch, movie, net, Rest, Unsent, Tick, NetType, MovieInv
  <2> QED
    BY <1>0, <2>1 DEF MovieType, MovieInv
<1>9. ASSUME LinkRead PROVE MovieType' /\ MovieInv'
  <2>1. UNCHANGED <<ready, pending, key, offer>> /\ (ready => link'.pc = link.pc /\ link'.limit = link.limit)
    BY <1>0, <1>9 DEF LinkRead, movie, net, Rest, Unsent, Tick, NetType, MovieInv
  <2> QED
    BY <1>0, <2>1 DEF MovieType, MovieInv
<1>10. ASSUME LinkChanged PROVE MovieType' /\ MovieInv'
  <2>1. UNCHANGED <<ready, pending, key, offer>> /\ (ready => link'.pc = link.pc /\ link'.limit = link.limit)
    BY <1>0, <1>10 DEF LinkChanged, movie, net, Rest, Unsent, Tick, NetType, MovieInv
  <2> QED
    BY <1>0, <2>1 DEF MovieType, MovieInv
<1>11. ASSUME BackoffOver PROVE MovieType' /\ MovieInv'
  <2>1. UNCHANGED <<ready, pending, key, offer>> /\ (ready => link'.pc = link.pc /\ link'.limit = link.limit)
    BY <1>0, <1>11 DEF BackoffOver, movie, net, Rest, Unsent, Tick, NetType, MovieInv
  <2> QED
    BY <1>0, <2>1 DEF MovieType, MovieInv
<1>12. ASSUME SessionChanged PROVE MovieType' /\ MovieInv'
  <2>1. ready' = FALSE /\ pending' = None /\ offer' = Aged(offer) /\ UNCHANGED key
    BY <1>12 DEF SessionChanged, Invalidate, CancelMovies, EndSession, Rest
  <2> QED
    BY <1>0, <2>1, Ages DEF MovieType, MovieInv
<1>13. ASSUME SessionFails PROVE MovieType' /\ MovieInv'
  <2>1. ready' = FALSE /\ pending' = None /\ offer' = Aged(offer) /\ UNCHANGED key
    BY <1>13 DEF SessionFails, Invalidate, CancelMovies, EndSession, Rest
  <2> QED
    BY <1>0, <2>1, Ages DEF MovieType, MovieInv
<1>14. ASSUME Connected PROVE MovieType' /\ MovieInv'
  <2>1. UNCHANGED <<ready, pending, key, offer>> /\ (ready => link'.pc = link.pc /\ link'.limit = link.limit)
    BY <1>0, <1>14 DEF Connected, movie, net, Rest, Unsent, Tick, NetType, MovieInv
  <2> QED
    BY <1>0, <2>1 DEF MovieType, MovieInv
<1>15. ASSUME MediaReady PROVE MovieType' /\ MovieInv'
  <2>1. /\ link.pc = "session" /\ link' = [link EXCEPT !.limit = TRUE] /\ ready' = TRUE
        /\ UNCHANGED <<pending, offer, key>>
    BY <1>15 DEF MediaReady, Rest
  <2>2. link'.pc = "session" /\ link'.limit
    BY <1>0, <2>1 DEF NetType, Links
  <2> QED
    BY <1>0, <2>1, <2>2 DEF MovieType, MovieInv
<1>16. ASSUME ConfigureTriggers PROVE MovieType' /\ MovieInv'
  <2>1. /\ link' = [link EXCEPT !.set.rules = "none"] /\ UNCHANGED <<ready, pending, offer, key>>
    BY <1>16 DEF ConfigureTriggers, Unsent
  <2>2. link'.pc = link.pc /\ link'.limit = link.limit
    BY <1>0, <2>1 DEF NetType, Links
  <2> QED
    BY <1>0, <2>1, <2>2 DEF MovieType, MovieInv
<1>17. ASSUME MakeImage PROVE MovieType' /\ MovieInv'
  <2>1. UNCHANGED <<ready, pending, key, offer>> /\ (ready => link'.pc = link.pc /\ link'.limit = link.limit)
    BY <1>0, <1>17 DEF MakeImage, movie, net, Rest, Unsent, Tick, NetType, MovieInv
  <2> QED
    BY <1>0, <2>1 DEF MovieType, MovieInv
<1>18. ASSUME ImageStale PROVE MovieType' /\ MovieInv'
  <2>1. UNCHANGED <<ready, pending, key, offer>> /\ (ready => link'.pc = link.pc /\ link'.limit = link.limit)
    BY <1>0, <1>18 DEF ImageStale, movie, net, Rest, Unsent, Tick, NetType, MovieInv
  <2> QED
    BY <1>0, <2>1 DEF MovieType, MovieInv
<1>19. ASSUME SendImage PROVE MovieType' /\ MovieInv'
  <2>1. UNCHANGED <<ready, pending, key, offer>> /\ (ready => link'.pc = link.pc /\ link'.limit = link.limit)
    BY <1>0, <1>19 DEF SendImage, movie, net, Rest, Unsent, Tick, NetType, MovieInv
  <2> QED
    BY <1>0, <2>1 DEF MovieType, MovieInv
<1>20. ASSUME ImageSettled PROVE MovieType' /\ MovieInv'
  <2>1. UNCHANGED <<ready, pending, key, offer>> /\ (ready => link'.pc = link.pc /\ link'.limit = link.limit)
    BY <1>0, <1>20 DEF ImageSettled, movie, net, Rest, Unsent, Tick, NetType, MovieInv
  <2> QED
    BY <1>0, <2>1 DEF MovieType, MovieInv
<1>21. ASSUME SnapshotRequest PROVE MovieType' /\ MovieInv'
  <2>1. UNCHANGED <<ready, pending, key, offer>> /\ (ready => link'.pc = link.pc /\ link'.limit = link.limit)
    BY <1>0, <1>21 DEF SnapshotRequest, movie, net, Rest, Unsent, Tick, NetType, MovieInv
  <2> QED
    BY <1>0, <2>1 DEF MovieType, MovieInv
<1>22. ASSUME SendSnapshot PROVE MovieType' /\ MovieInv'
  <2>1. UNCHANGED <<ready, pending, key, offer>> /\ (ready => link'.pc = link.pc /\ link'.limit = link.limit)
    BY <1>0, <1>22 DEF SendSnapshot, movie, net, Rest, Unsent, Tick, NetType, MovieInv
  <2> QED
    BY <1>0, <2>1 DEF MovieType, MovieInv
<1>23. ASSUME SnapshotEnds PROVE MovieType' /\ MovieInv'
  <2>1. UNCHANGED <<ready, pending, key, offer>> /\ (ready => link'.pc = link.pc /\ link'.limit = link.limit)
    BY <1>0, <1>23 DEF SnapshotEnds, movie, net, Rest, Unsent, Tick, NetType, MovieInv
  <2> QED
    BY <1>0, <2>1 DEF MovieType, MovieInv
<1>24. ASSUME TakeMovie PROVE MovieType' /\ MovieInv'
  <2>1. pending' = None /\ UNCHANGED <<ready, offer, link, key>>
    BY <1>24 DEF TakeMovie, Rest
  <2> QED
    BY <1>0, <2>1 DEF MovieType, MovieInv
<1>25. ASSUME PostMovie PROVE MovieType' /\ MovieInv'
  <2>1. UNCHANGED <<ready, pending, key, offer>> /\ (ready => link'.pc = link.pc /\ link'.limit = link.limit)
    BY <1>0, <1>25 DEF PostMovie, movie, net, Rest, Unsent, Tick, NetType, MovieInv
  <2> QED
    BY <1>0, <2>1 DEF MovieType, MovieInv
<1>26. ASSUME MovieEnds PROVE MovieType' /\ MovieInv'
  <2>1. UNCHANGED <<ready, pending, key, offer>> /\ (ready => link'.pc = link.pc /\ link'.limit = link.limit)
    BY <1>0, <1>26 DEF MovieEnds, movie, net, Rest, Unsent, Tick, NetType, MovieInv
  <2> QED
    BY <1>0, <2>1 DEF MovieType, MovieInv
<1>27. ASSUME MovieRetry PROVE MovieType' /\ MovieInv'
  <2>1. UNCHANGED <<ready, pending, key, offer>> /\ (ready => link'.pc = link.pc /\ link'.limit = link.limit)
    BY <1>0, <1>27 DEF MovieRetry, movie, net, Rest, Unsent, Tick, NetType, MovieInv
  <2> QED
    BY <1>0, <2>1 DEF MovieType, MovieInv
<1>28. ASSUME Crash PROVE MovieType' /\ MovieInv'
  <2>1. ready' = FALSE /\ pending' = None /\ offer' = None /\ UNCHANGED key
    BY <1>28 DEF Crash
  <2> QED
    BY <1>0, <2>1 DEF MovieType, MovieInv
<1>29. CASE UNCHANGED vars
  BY <1>29, <1>0 DEF MovieType, MovieInv, vars, conf, net, movie, Rest, Unsent
<1> QED
  BY EveryStep, <1>1, <1>2, <1>3, <1>4, <1>5, <1>6, <1>7, <1>8, <1>9, <1>10, <1>11, <1>12, <1>13,
     <1>14, <1>15, <1>16, <1>17, <1>18, <1>19, <1>20, <1>21, <1>22, <1>23, <1>24, <1>25,
     <1>26, <1>27, <1>28, <1>29 DEF Network, Link, Session, Movies

\* Only these steps send.
LEMMA StepSends ==
    ASSUME IndInv, [Next]_vars
    PROVE  /\ image # None /\ image' # None /\ image'.tries > image.tries => SendImage
           /\ snap # None /\ snap' # None /\ snap'.tries > snap.tries => SendSnapshot
           /\ upload # None /\ upload' # None /\ upload'.n > upload.n => PostMovie
<1>0. NetType /\ MovieType
  BY DEF IndInv, TypeOK
<1>1. /\ image # None => image.tries \in Nat
      /\ snap # None => snap.tries \in Nat
      /\ upload # None => upload.n \in Nat
  BY <1>0 DEF NetType, Images, Snapshots, Uploads
<1>2. /\ snap # None => Aged(snap).tries = snap.tries
      /\ upload # None => Aged(upload).n = upload.n
  BY <1>0 DEF NetType, Aged, Snapshots, Uploads
<1>3. ASSUME image' = image \/ image = None \/ image' = None,
             snap' = snap \/ snap = None \/ snap' = None \/ snap' = Aged(snap),
             upload' = upload \/ upload = None \/ upload' = None \/ upload' = Aged(upload)
      PROVE  /\ ~(image # None /\ image' # None /\ image'.tries > image.tries)
             /\ ~(snap # None /\ snap' # None /\ snap'.tries > snap.tries)
             /\ ~(upload # None /\ upload' # None /\ upload'.n > upload.n)
  BY <1>1, <1>2, <1>3
<1>4. CASE CommitCancel \/ CommitSave \/ Capture
  <2>1. \/ UNCHANGED <<image, snap, upload>>
        \/ UNCHANGED image /\ snap' = Aged(snap) /\ upload' = Aged(upload)
    BY <1>4 DEF CommitCancel, CommitSave, Capture, Pause, Resume, NewSession, Invalidate, net
  <2> QED
    BY <1>3, <2>1
<1>5. CASE CommitFails \/ ForgetCredential \/ Viewer \/ Daily \/ UNCHANGED vars
  <2>1. UNCHANGED net
    BY <1>5, ViewerEffect, DailyEffect DEF CommitFails, ForgetCredential, ViewerKeeps, vars
  <2> QED
    BY <1>3, <2>1 DEF net
<1>6. CASE Link \/ SessionFails \/ Connected \/ MediaReady \/ ConfigureTriggers \/ Crash
  <2>1. image' \in {image, None} /\ snap' \in {snap, None} /\ upload' \in {upload, None}
    BY <1>6 DEF Link, LinkEpoch, LinkRead, LinkChanged, BackoffOver, SessionChanged, SessionFails,
       EndSession, Connected, MediaReady, ConfigureTriggers, Crash
  <2> QED
    BY <1>3, <2>1
<1>7. CASE MakeImage \/ ImageStale \/ ImageSettled \/ SnapshotRequest \/ SnapshotEnds
  <2>1. /\ image' = image \/ image = None \/ image' = None
        /\ snap' = snap \/ snap = None \/ snap' = None
        /\ UNCHANGED upload
    BY <1>7 DEF MakeImage, ImageStale, ImageSettled, SnapshotRequest, SnapshotEnds
  <2> QED
    BY <1>3, <2>1
<1>8. CASE SendImage
  BY <1>1, <1>8 DEF SendImage
<1>9. CASE SendSnapshot
  BY <1>1, <1>9 DEF SendSnapshot
<1>10. CASE TakeMovie
  <2>1. /\ UNCHANGED <<image, snap>> /\ (upload' = upload \/ upload = None)
    BY <1>10 DEF TakeMovie
  <2> QED
    BY <1>3, <2>1
<1>11. CASE PostMovie
  BY <1>1, <1>11 DEF PostMovie
<1>12. CASE MovieEnds
  <2>1. UNCHANGED <<image, snap>> /\ upload' = None
    BY <1>12 DEF MovieEnds
  <2> QED
    BY <1>3, <2>1
<1>13. CASE MovieRetry
  <2>1. UNCHANGED <<image, snap>> /\ upload # None
        /\ (upload' = None \/ upload' = [upload EXCEPT !.pc = "check"])
    BY <1>13 DEF MovieRetry
  <2>2. upload' # None => upload'.n = upload.n
    BY <1>0, <2>1 DEF NetType, Uploads
  <2> QED
    BY <1>1, <2>1, <2>2
<1> QED
  BY <1>4, <1>5, <1>6, <1>7, <1>8, <1>9, <1>10, <1>11, <1>12, <1>13, EveryStep
     DEF Network, Movies

\* Every initial state satisfies the inductive invariant: paired and sharing, or new.
LEMMA InitInd == Init => IndInv
<1> SUFFICES ASSUME Init PROVE IndInv
  OBVIOUS
<1>1. /\ disk \in SettingsType /\ disk.rev = 1 /\ disk.rules = "local" /\ cred \in BOOLEAN
      /\ disk.dev => cred
  <2>1. 1 \in Revisions
    BY DEF Revisions
  <2>2. CASE disk = [rev |-> 1, on |-> TRUE, allow |-> Kinds, dev |-> TRUE, rules |-> "local"]
    BY <2>1, <2>2 DEF Init, SettingsType
  <2>3. CASE disk = [rev |-> 1, on |-> FALSE, allow |-> {}, dev |-> FALSE, rules |-> "local"]
    BY <2>1, <2>3 DEF Init, SettingsType
  <2> QED
    BY <2>2, <2>3 DEF Init
<1>2. /\ settings = disk /\ lock = None /\ ready = FALSE /\ pending = None /\ pairing = None
      /\ cap = [ses |-> 1, live |-> TRUE] /\ key = None /\ offer = None
      /\ link = Down /\ image = None /\ snap = None /\ upload = None
      /\ view = Fresh(disk) /\ chatRev = 0 /\ edits = 0 /\ faults = 0
  BY DEF Init
<1>3. ConfType /\ MovieType
  BY <1>1, <1>2 DEF ConfType, MovieType
<1>4. NetType
  BY <1>2, DownIsTyped DEF NetType
<1>5. Sees(view)
  <2>1. Sees([Fresh(disk) EXCEPT !.op = None])
    BY <1>1, FreshSees
  <2>2. [Fresh(disk) EXCEPT !.op = None] = Fresh(disk)
    BY DEF Fresh
  <2> QED
    BY <1>2, <2>1, <2>2
<1>6. RestType
  <2>1. cap \in [ses : Sessions, live : BOOLEAN]
    BY <1>2 DEF Sessions
  <2> QED
    BY <1>2, <1>5, <2>1 DEF RestType, Sees
<1>7. CommitInv
  BY <1>1, <1>2 DEF CommitInv, PairedHasCredential, ActiveIsSaved, RulesArePermitted
<1>8. LinkInv
  BY <1>2, DownIsTyped DEF LinkInv
<1>9. MovieInv
  BY <1>2 DEF MovieInv
<1> QED
  BY <1>3, <1>4, <1>5, <1>6, <1>7, <1>8, <1>9 DEF IndInv, TypeOK, Sees

\* The inductive invariant holds in every reachable state.
THEOREM Invariance == Spec => []IndInv
<1>1. IndInv /\ [Next]_vars => IndInv'
  BY NextConf, NextView, NextRest, NextNet, NextMovie DEF IndInv, TypeOK, Sees
<1> QED
  BY InitInd, <1>1, PTL DEF Spec

\* A device is named only with its credential, what is shared is what is saved, rules from
\* chat are permitted and a queued movie has a session (service.rs: commit, pair, forget).
THEOREM SharingIsSound == Spec => []SharingInv
<1>1. IndInv => SharingInv
  BY DEF IndInv, SharingInv, CommitInv, MovieInv, QueuedHasSession
<1> QED
  BY Invariance, <1>1, PTL

\* Nothing is sent without consent: an image, a snapshot or a movie leaves only while sharing
\* is on, paired and not being changed, in the capture session it comes from
\* (transport.rs, snapshot.rs, movie.rs).
THEOREM NothingIsSentWithoutConsent == Spec => SendsAreConsented
<1> DEFINE Consents ==
             /\ ImageSent => Consented("image", image.ses)
             /\ snap # None /\ snap' # None /\ snap'.tries > snap.tries =>
                   Consented("snapshot", snap.ses)
             /\ upload # None /\ upload' # None /\ upload'.n > upload.n =>
                   Consented("movie", upload.ses)
<1>1. IndInv /\ [Next]_vars => [Consents]_vars
  <2> SUFFICES ASSUME IndInv, [Next]_vars PROVE Consents
    OBVIOUS
  <2>0. NetType /\ LinkInv /\ ConfType /\ MovieType
    BY DEF IndInv, TypeOK
  <2>1. ASSUME link.cur, link.pc = "session"
        PROVE  /\ settings.on /\ settings.dev /\ (lock = None \/ lock.pc = "cancel")
               /\ link.set.allow = settings.allow
    <3>1. /\ link.set = [settings EXCEPT !.rev = link.set.rev] /\ settings \in SettingsType
          /\ settings.on /\ settings.dev /\ (lock = None \/ lock.pc = "cancel")
      BY <2>0, <2>1 DEF LinkInv, ConfType
    <3>2. link.set.allow = settings.allow
      BY <3>1 DEF SettingsType
    <3> QED
      BY <3>1, <3>2
  <2>2. ImageSent => SendImage
    BY StepSends DEF ImageSent
  <2>3. snap # None /\ snap' # None /\ snap'.tries > snap.tries => SendSnapshot
    BY StepSends
  <2>4. upload # None /\ upload' # None /\ upload'.n > upload.n => PostMovie
    BY StepSends
  <2>5. ASSUME SendImage PROVE Consented("image", image.ses)
    BY <2>1, <2>5 DEF SendImage, Tick, Changed, Consented
  <2>6. ASSUME SendSnapshot PROVE Consented("snapshot", snap.ses)
    BY <2>0, <2>1, <2>6 DEF SendSnapshot, Tick, Changed, Fenced, Consented, LinkInv
  <2>7. ASSUME PostMovie, upload # None, upload' # None PROVE Consented("movie", upload.ses)
    BY <2>0, <2>1, <2>7 DEF PostMovie, Consented, LinkInv
  <2> QED
    BY <2>2, <2>3, <2>4, <2>5, <2>6, <2>7
<1> QED
  BY Invariance, <1>1, PTL DEF Spec, SendsAreConsented

\* A save never replaces a change from chat its user has not seen (SharingSetupState.cs).
THEOREM ChatIsNotOverwritten == Spec => SavesAreReviewed
<1> DEFINE Reviewed == lock = None /\ lock' # None /\ lock'.op = "save" => chatRev <= view.ack
<1>1. IndInv /\ [Next]_vars => [Reviewed]_vars
  <2> SUFFICES ASSUME IndInv, [Next]_vars, lock = None, lock' # None, lock'.op = "save"
               PROVE  chatRev <= view.ack
    OBVIOUS
  <2>1. Viewer
    BY EveryStep, CaptureEffect, DailyEffect, NetworkEffect
       DEF CommitCancel, CommitSave, CommitFails, ForgetCredential, ConfigureTriggers, Crash, vars,
           conf
  <2>2. PICK op, next : Begins(op, next)
    BY <2>1, ViewerEffect DEF ViewerKeeps
  <2>3. op = "save"
    BY <2>2 DEF Begins
  <2>4. settings.rev = view.ack
    BY <2>2, <2>3 DEF Begins
  <2> QED
    BY <2>4 DEF IndInv, CommitInv
<1> QED
  BY Invariance, <1>1, PTL DEF Spec, SavesAreReviewed

=============================================================================
