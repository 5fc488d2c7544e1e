---------------------------- MODULE SharingService ----------------------------
(***************************************************************************)
(* Chatstronomy sharing (autopiercam-chatstronomy): the revisioned settings *)
(* and their commit, pairing and the credential store (service.rs,          *)
(* vault.rs), the offer of a finished movie (service.rs, movie.rs), the     *)
(* connection to the Hub with its images, snapshots and movie uploads       *)
(* (transport.rs, snapshot.rs), chat configuration (triggers.rs) and the    *)
(* Viewer's settings draft (SharingSetupState.cs, Sharing.cs).              *)
(* Shared.changes (the epoch) and Shared.movie_generation are counters that *)
(* are only ever compared for equality with their present value: whoever    *)
(* keeps one has a flag "cur" instead, which every increment resets.        *)
(***************************************************************************)
EXTENDS Naturals

CONSTANTS
    None,
    Choices,      \* what a settings save may allow: sets of kinds
    MaxRevision,  \* bound: revision of the settings
    MaxSessions,  \* bound: capture sessions
    MaxSends,     \* bound: times an image is sent (the code: for 300 seconds)
    Attempts,     \* posts of a movie, 3 in upload_timelapse
    MaxEdits,     \* bound: edits, pauses and snapshot requests
    MaxFaults     \* bound: crashes, failed saves, lost credentials, disconnects

\* Automatic images, requested snapshots, movies, and rules set from chat.
Kinds == {"image", "snapshot", "movie", "chat"}

ASSUME SharingAssumption ==
    /\ Choices \subseteq SUBSET Kinds /\ Kinds \in Choices
    /\ {MaxRevision, MaxSessions} \subseteq Nat \ {0}
    /\ {MaxSends, Attempts, MaxEdits, MaxFaults} \subseteq Nat

VARIABLES
    disk,     \* the settings file
    cred,     \* the credential store holds this installation's credential
    settings, \* Shared.settings
    lock,     \* Shared.mutation: None, or the commit its holder is in
    ready,    \* Shared.media_ready
    pending,  \* Shared.pending_timelapse
    pairing,  \* None, or the revision a pairing request waits with
    cap,      \* capture: session, and whether the source has a frame
    key,      \* consent key stored with a finished movie, None once claimed
    offer,    \* the daily worker's offer: step, session, key, current
    link,     \* the transport task: step, current, its settings, limit known
    image,    \* its outbox, kept over reconnections
    snap,     \* its snapshot request
    upload,   \* its movie upload
    view,     \* the Viewer: expected revision, status, draft, baseline, operation
    chatRev,  \* last revision made from chat (history)
    edits, faults

conf == <<disk, cred, settings, lock, pairing, chatRev>>
movie == <<ready, pending, key, offer>>
net == <<link, image, snap, upload>>
bounds == <<edits, faults>>
vars == <<conf, movie, net, cap, view, bounds>>

Prefs(s) == [on |-> s.on, allow |-> s.allow]
\* TriggerRules: "local", or narrowed from chat to no automatic image at all.
AutoAllowed(s) == "image" \in s.allow /\ s.rules = "local"

Down == [pc |-> "top", cur |-> FALSE, set |-> None, limit |-> FALSE]
Fresh(s) == [exp |-> s.rev, st |-> [rev |-> s.rev, prefs |-> Prefs(s)], draft |-> Prefs(s),
             base |-> Prefs(s), op |-> None, ack |-> s.rev]

\* An installation that is paired and shares everything, or a new one.
Init ==
    /\ \/ /\ disk = [rev |-> 1, on |-> TRUE, allow |-> Kinds, dev |-> TRUE, rules |-> "local"]
          /\ cred = TRUE
       \/ /\ disk = [rev |-> 1, on |-> FALSE, allow |-> {}, dev |-> FALSE, rules |-> "local"]
          /\ cred = FALSE
    /\ settings = disk /\ lock = None /\ ready = FALSE
    /\ pending = None /\ pairing = None
    /\ cap = [ses |-> 1, live |-> TRUE]
    /\ key = None /\ offer = None
    /\ link = Down /\ image = None /\ snap = None /\ upload = None
    /\ view = Fresh(disk) /\ chatRev = 0 /\ edits = 0 /\ faults = 0

Fault == faults < MaxFaults /\ faults' = faults + 1
Act == edits < MaxEdits /\ edits' = edits + 1
Live(ses) == cap.live /\ cap.ses = ses

Aged(x) == IF x = None THEN None ELSE [x EXCEPT !.cur = FALSE]
\* cancel_timelapses.
CancelMovies == ready' = FALSE /\ pending' = None /\ offer' = Aged(offer)
\* SharingClient::invalidate.
Invalidate ==
    /\ CancelMovies
    /\ link' = Aged(link) /\ UNCHANGED image /\ snap' = Aged(snap) /\ upload' = Aged(upload)

-----------------------------------------------------------------------------
(* Settings.  commit: cancel first, then the file, then the settings. *)

Begin(op, next) ==
    /\ settings.rev < MaxRevision
    /\ lock' = [op |-> op, next |-> next, pc |-> "cancel"]
\* Revisions are compared under the lock (update, pair, forget).
Holds(rev) == lock = None /\ settings.rev = rev

CommitCancel ==
    /\ lock # None /\ lock.pc = "cancel"
    /\ lock' = [lock EXCEPT !.pc = "save"]
    /\ settings' = [settings EXCEPT !.on = FALSE]
    /\ Invalidate
    /\ UNCHANGED <<disk, cred, pairing, chatRev, key, cap, view, bounds>>

\* SharingSetupState: Accept, Refresh and Stopped.
Dirty(v) == v.draft # v.base
Accepted(v, s) == [Fresh(s) EXCEPT !.op = v.op]
\* Seeded fault: polling adopts the new revision under an edited draft.
RefreshedAdopting(v, s) ==
    IF ~Dirty(v) THEN Accepted(v, s)
    ELSE [v EXCEPT !.st = [rev |-> s.rev, prefs |-> Prefs(s)], !.exp = s.rev]
Refreshed(v, s) == IF ~Dirty(v) /\ v.exp = v.st.rev THEN Accepted(v, s)
                   ELSE [v EXCEPT !.st = [rev |-> s.rev, prefs |-> Prefs(s)]]
Stopped(v, s) ==
    IF ~Dirty(v) THEN Accepted(v, s)
    ELSE [Accepted(v, s) EXCEPT !.draft = [v.draft EXCEPT !.on = FALSE],
                                !.exp = IF v.op.before = v.exp THEN s.rev ELSE v.exp,
                                !.ack = IF v.op.before = v.exp THEN s.rev ELSE v.ack]
\* What the Viewer shows when its call returns, if it still waits for it.
Waits(v, name) == v.op # None /\ v.op.name = name
Shown(v, name, s) ==
    IF ~Waits(v, name) THEN v
    ELSE [(IF name = "stop" THEN Stopped(v, s) ELSE Accepted(v, s)) EXCEPT !.op = None]
Failed(v, name, s) == IF Waits(v, name) THEN [Refreshed(v, s) EXCEPT !.op = None] ELSE v

\* The first half of a pairing leaves the Viewer waiting for the second.
CommitSave ==
    /\ lock # None /\ lock.pc = "save"
    /\ disk' = lock.next /\ settings' = lock.next
    /\ Invalidate
    /\ pairing' = IF lock.op = "pair" THEN lock.next.rev ELSE pairing
    /\ lock' = IF lock.op = "forget" THEN [lock EXCEPT !.pc = "delete"] ELSE None
    /\ view' = CASE lock.op = "paired" -> Shown(view, "pair", lock.next)
                 [] lock.op \in {"save", "stop"} -> Shown(view, lock.op, lock.next)
                 [] OTHER -> view
    /\ UNCHANGED <<cred, chatRev, key, cap, bounds>>

\* The file cannot be written: an error, and sharing stays off in this process.
CommitFails ==
    /\ lock # None /\ lock.pc = "save" /\ Fault
    /\ lock' = None
    /\ view' = Failed(view, IF lock.op = "paired" THEN "pair" ELSE lock.op, settings)
    /\ UNCHANGED <<disk, cred, settings, pairing, chatRev, movie, net, cap, edits>>

\* The end of forget.
ForgetCredential ==
    /\ lock # None /\ lock.pc = "delete"
    /\ cred' = FALSE /\ lock' = None
    /\ view' = Shown(view, "forget", settings)
    /\ UNCHANGED <<disk, settings, pairing, chatRev, movie, net, cap, bounds>>

\* Seeded fault: a save keeps the rules that chat has set.
KeepingRules(prefs) ==
    [settings EXCEPT !.rev = @ + 1, !.on = prefs.on, !.allow = prefs.allow]
\* update replaces the preferences and resets the rules.
Updated(prefs) ==
    [settings EXCEPT !.rev = @ + 1, !.on = prefs.on, !.allow = prefs.allow, !.rules = "local"]

-----------------------------------------------------------------------------
(* The Viewer. *)

Idle == view.op = None
Same == UNCHANGED <<movie, net, cap>>

Poll ==
    /\ Idle /\ Refreshed(view, settings) # view
    /\ view' = Refreshed(view, settings)
    /\ UNCHANGED <<conf, bounds>> /\ Same
Edit ==
    /\ Idle /\ Act
    /\ \E on \in BOOLEAN, allow \in Choices :
          /\ [on |-> on, allow |-> allow] # view.draft
          /\ view' = [view EXCEPT !.draft = [on |-> on, allow |-> allow]]
    /\ UNCHANGED <<conf, faults>> /\ Same
KeepEdits ==
    /\ Idle /\ view.exp # view.st.rev
    /\ view' = [view EXCEPT !.base = view.st.prefs, !.exp = view.st.rev, !.ack = view.st.rev]
    /\ UNCHANGED <<conf, bounds>> /\ Same
Discard ==
    /\ Idle /\ (Dirty(view) \/ view.exp # view.st.rev)
    /\ view' = [view EXCEPT !.draft = view.st.prefs, !.base = view.st.prefs,
                            !.exp = view.st.rev, !.ack = view.st.rev]
    /\ UNCHANGED <<conf, bounds>> /\ Same

Call(op) == view' = [view EXCEPT !.op = op]
\* A revision conflict: the Viewer reads the status again.
Conflict == view' = [Refreshed(view, settings) EXCEPT !.op = None] /\ UNCHANGED conf

\* ForSave: reviewed, and paired before it is turned on.
Save ==
    /\ Idle /\ lock = None /\ Dirty(view) /\ view.exp = view.st.rev
    /\ IF settings.rev = view.exp
       THEN /\ ~view.draft.on \/ settings.dev
            /\ Begin("save", Updated(view.draft)) /\ Call([name |-> "save"])
            /\ UNCHANGED <<disk, cred, settings, pairing, chatRev>>
       ELSE Conflict
    /\ UNCHANGED bounds /\ Same

\* Stop sharing now: the saved permissions, read first, with the switch off.
StopRead ==
    /\ Idle /\ view.st.prefs.on
    /\ Call([name |-> "stop", before |-> settings.rev, prefs |-> Prefs(settings)])
    /\ UNCHANGED <<conf, bounds>> /\ Same
StopSave ==
    /\ view.op # None /\ view.op.name = "stop" /\ lock = None
    /\ IF settings.rev = view.op.before
       THEN /\ Begin("stop", Updated([view.op.prefs EXCEPT !.on = FALSE]))
            /\ UNCHANGED <<disk, cred, settings, pairing, chatRev, view>>
       ELSE Conflict
    /\ UNCHANGED bounds /\ Same

Forget ==
    /\ Idle /\ Holds(view.st.rev) /\ settings.dev
    /\ Begin("forget", [settings EXCEPT !.rev = @ + 1, !.on = FALSE, !.allow = {},
                                        !.dev = FALSE, !.rules = "local"])
    /\ Call([name |-> "forget"])
    /\ UNCHANGED <<disk, cred, settings, pairing, chatRev, bounds>> /\ Same

\* pair: off, then the Hub is asked without the lock...
Pair ==
    /\ Idle /\ pairing = None /\ Holds(view.exp) /\ ~settings.dev
    /\ settings.rev + 1 < MaxRevision
    /\ Begin("pair", [settings EXCEPT !.rev = @ + 1, !.on = FALSE, !.rules = "local"])
    /\ Call([name |-> "pair"])
    /\ UNCHANGED <<disk, cred, settings, pairing, chatRev, bounds>> /\ Same
\* ...and the credential is stored before the settings name the device.
PairAnswered ==
    /\ pairing # None /\ lock = None
    /\ pairing' = None
    /\ IF settings.rev = pairing
       THEN /\ cred' = TRUE
            /\ Begin("paired", [settings EXCEPT !.rev = @ + 1, !.dev = TRUE])
            /\ UNCHANGED <<disk, settings, chatRev, view>>
       ELSE UNCHANGED <<disk, cred, settings, lock, chatRev>>
            /\ view' = Failed(view, "pair", settings)
    /\ UNCHANGED bounds /\ Same
PairFails ==
    /\ pairing # None /\ Fault
    /\ pairing' = None
    /\ view' = Failed(view, "pair", settings)
    /\ UNCHANGED <<disk, cred, settings, lock, chatRev, edits>> /\ Same
\* The call is answered too late: the Viewer reads the status, the call goes on.
CallTimesOut ==
    /\ view.op # None /\ Fault
    /\ view' = Failed(view, view.op.name, settings)
    /\ UNCHANGED <<conf, edits>> /\ Same

-----------------------------------------------------------------------------
(* Capture, and the offer of a finished movie by the daily worker. *)

\* WorkerClient::send: pausing, resuming and restarting invalidate sharing.
Pause ==
    /\ Act /\ cap.live
    /\ cap' = [cap EXCEPT !.live = FALSE]
    /\ Invalidate
    /\ UNCHANGED <<conf, key, view, faults>>
Resume ==
    /\ ~cap.live
    /\ cap' = [cap EXCEPT !.live = TRUE]
    /\ Invalidate
    /\ UNCHANGED <<conf, key, view, bounds>>
\* A session that ends by itself: nothing is invalidated.
NewSession ==
    /\ cap.ses < MaxSessions
    /\ cap' = [ses |-> cap.ses + 1, live |-> TRUE]
    /\ UNCHANGED <<conf, movie, net, view, bounds>>

\* consent_key, stored before the movie is published.
MayOffer(s) == s.on /\ "movie" \in s.allow /\ s.dev
Consent ==
    /\ key = None /\ offer = None /\ MayOffer(settings) /\ Act
    /\ key' = settings.rev
    /\ UNCHANGED <<conf, ready, pending, offer, net, cap, view, faults>>
\* delivery_decision: wait, cancel, or claim and offer.
Claim ==
    /\ key # None /\ offer = None
    /\ IF MayOffer(settings) /\ settings.rev = key
       THEN /\ ready /\ cap.live /\ pending = None
            /\ offer' = [pc |-> "settings", cur |-> TRUE, ses |-> 0, key |-> key]
       ELSE UNCHANGED offer
    /\ key' = None
    /\ UNCHANGED <<conf, ready, pending, net, cap, view, bounds>>
\* The plain daily schedule offers at once, connected or not.
OfferLegacy ==
    /\ offer = None /\ Act
    /\ offer' = [pc |-> "settings", cur |-> TRUE, ses |-> 0, key |-> None]
    /\ UNCHANGED <<conf, ready, pending, key, net, cap, view, faults>>
\* expected_consent.
Expected == offer.key \in {None, settings.rev}
\* offer_timelapse_checked: the settings, after the epoch; then the copy.
OfferRead ==
    /\ offer # None /\ offer.pc = "settings"
    /\ offer' = IF MayOffer(settings) /\ Expected /\ cap.live /\ pending = None
                THEN [offer EXCEPT !.pc = "copy", !.ses = cap.ses] ELSE None
    /\ UNCHANGED <<conf, ready, pending, key, net, cap, view, bounds>>
\* still_allowed, and the checks under the lock after the copy.
StillOffered ==
    offer.cur /\ Live(offer.ses) /\ Expected
OfferQueue ==
    /\ offer # None /\ offer.pc = "copy" /\ lock = None
    /\ offer' = None
    /\ pending' = IF StillOffered /\ pending = None
                  THEN [ses |-> offer.ses, key |-> offer.key] ELSE pending
    /\ UNCHANGED <<conf, ready, key, net, cap, view, bounds>>

-----------------------------------------------------------------------------
(* The transport task. *)

Rest == UNCHANGED <<conf, key, cap, view>>
Unsent == UNCHANGED <<ready, pending, offer>>

\* run: the epoch first, the settings after it.
LinkEpoch ==
    /\ link.pc = "top"
    /\ link' = [Down EXCEPT !.pc = "read", !.cur = TRUE]
    /\ UNCHANGED <<image, snap, upload, bounds>> /\ Unsent /\ Rest
\* Off or not paired, or the credential cannot be read: wait for a change.
LinkRead ==
    /\ link.pc = "read"
    /\ \/ /\ ~settings.on \/ ~settings.dev
          /\ link' = [link EXCEPT !.pc = "wait"] /\ image' = None /\ UNCHANGED faults
       \/ /\ settings.on /\ settings.dev /\ Fault
          /\ link' = [link EXCEPT !.pc = "wait"] /\ UNCHANGED image
       \/ /\ settings.on /\ settings.dev /\ cred
          /\ link' = [link EXCEPT !.pc = "connect", !.set = settings]
          /\ UNCHANGED <<image, faults>>
    /\ UNCHANGED <<snap, upload, edits>> /\ Unsent /\ Rest

\* changed(): polled first whatever the task waits for.
Changed == ~link.cur
LinkChanged ==
    /\ link.pc \in {"wait", "backoff"} /\ Changed
    /\ link' = Down
    /\ image' = IF link.pc = "backoff" THEN None ELSE image
    /\ UNCHANGED <<snap, upload, bounds>> /\ Unsent /\ Rest
BackoffOver ==
    /\ link.pc = "backoff" /\ ~Changed
    /\ link' = Down
    /\ UNCHANGED <<image, snap, upload, bounds>> /\ Unsent /\ Rest

\* The end of a session drops MovieSession.
EndSession(pc, box) ==
    /\ link' = IF pc = "top" THEN Down ELSE [link EXCEPT !.pc = pc]
    /\ image' = box /\ snap' = None /\ upload' = None
    /\ CancelMovies
\* Seeded fault: an established session polls no change.
SessionChangedEarly ==
    /\ link.pc = "connect" /\ Changed
    /\ EndSession("top", None)
    /\ UNCHANGED bounds /\ Rest
SessionChanged ==
    /\ link.pc \in {"connect", "session"} /\ Changed
    /\ EndSession("top", None)
    /\ UNCHANGED bounds /\ Rest
\* The Hub is not reached, disconnects, or is idle; or it rejects the device.
SessionFails ==
    /\ link.pc \in {"connect", "session"} /\ Fault
    /\ EndSession("backoff", image) \/ EndSession("wait", None)
    /\ UNCHANGED edits /\ Rest

Connected ==
    /\ link.pc = "connect"
    /\ link' = [link EXCEPT !.pc = "session"]
    /\ UNCHANGED <<image, snap, upload, bounds>> /\ Unsent /\ Rest
MediaReady ==
    /\ link.pc = "session" /\ "movie" \in link.set.allow /\ ~link.limit
    /\ link' = [link EXCEPT !.limit = TRUE] /\ ready' = TRUE
    /\ UNCHANGED <<pending, offer, image, snap, upload, bounds>> /\ Rest

\* configure_triggers, from chat: within local permissions, and recorded.
ConfigureTriggers ==
    /\ link.pc = "session" /\ ~Changed /\ lock = None
    /\ settings.on /\ "chat" \in settings.allow /\ settings.rev < MaxRevision
    /\ settings' = [settings EXCEPT !.rules = "none", !.rev = @ + 1]
    /\ disk' = settings' /\ chatRev' = settings'.rev
    /\ link' = [link EXCEPT !.set.rules = "none"]
    /\ image' = None /\ snap' = None
    /\ UNCHANGED <<cred, lock, pairing, key, cap, view, upload, bounds>> /\ Unsent

Tick == link.pc = "session" /\ ~Changed

\* Scheduler::due: the rules in force have a trigger for a frame of the source.
Due == cap.live /\ AutoAllowed(link.set)

\* A completed frame of the session becomes the one event.
MakeImage ==
    /\ Tick /\ image = None /\ snap = None /\ upload = None /\ Due
    /\ image' = [ses |-> cap.ses, tries |-> 0]
    /\ UNCHANGED <<link, snap, upload, bounds>> /\ Unsent /\ Rest
ImageStale ==
    /\ Tick /\ image # None /\ ~Live(image.ses)
    /\ image' = None
    /\ UNCHANGED <<link, snap, upload, bounds>> /\ Unsent /\ Rest
SendImage ==
    /\ Tick /\ image # None /\ upload = None /\ snap = None
    /\ Live(image.ses) /\ image.tries < MaxSends
    /\ image' = [image EXCEPT !.tries = @ + 1]
    /\ UNCHANGED <<link, snap, upload, bounds>> /\ Unsent /\ Rest
\* EventAck other than retry, or 300 seconds.
ImageSettled ==
    /\ Tick /\ image # None /\ image.tries > 0
    /\ image' = None
    /\ UNCHANGED <<link, snap, upload, bounds>> /\ Unsent /\ Rest

\* SnapshotFence::new, or SnapshotUnavailable.
SnapshotRequest ==
    /\ Tick /\ image = None /\ snap = None /\ upload = None /\ Act
    /\ cap.live /\ "snapshot" \in link.set.allow
    /\ snap' = [cur |-> TRUE, ses |-> cap.ses, tries |-> 0]
    /\ UNCHANGED <<link, image, upload, faults>> /\ Unsent /\ Rest
\* Seeded fault: the fence forgets the capture session.
FencedByEpoch == snap.cur
\* check_frame.
Fenced == snap.cur /\ Live(snap.ses)
\* Encoded from a frame the fence admits, and checked again when it is sent.
SendSnapshot ==
    /\ Tick /\ snap # None /\ snap.tries < MaxSends /\ Fenced
    /\ snap' = [snap EXCEPT !.tries = @ + 1]
    /\ UNCHANGED <<link, image, upload, bounds>> /\ Unsent /\ Rest
\* Unavailable, acknowledged, or its deadline has passed.
SnapshotEnds ==
    /\ Tick /\ snap # None
    /\ snap' = None
    /\ UNCHANGED <<link, image, upload, bounds>> /\ Unsent /\ Rest

\* The tick takes the queued movie, or drops it.  It is of this epoch: every
\* change clears the queue.
TakeMovie ==
    /\ Tick /\ pending # None
    /\ ~Live(pending.ses) \/ (link.limit /\ upload = None)
    /\ pending' = None
    /\ upload' = IF Live(pending.ses)
                 THEN [ses |-> pending.ses, cur |-> TRUE, pc |-> "check", n |-> 0] ELSE upload
    /\ UNCHANGED <<ready, offer, link, image, snap, bounds>> /\ Rest
\* upload_timelapse.
PostMovie ==
    /\ link.pc = "session" /\ upload # None /\ upload.pc = "check"
    /\ upload' = IF upload.cur /\ link.set.on /\ "movie" \in link.set.allow
                    /\ Live(upload.ses)
                 THEN [upload EXCEPT !.pc = "post", !.n = @ + 1] ELSE None
    /\ UNCHANGED <<link, image, snap, bounds>> /\ Unsent /\ Rest
\* An answer other than retry, or the source is gone.
MovieEnds ==
    /\ link.pc = "session" /\ upload # None
    /\ upload.pc = "post" \/ ~Live(upload.ses)
    /\ upload' = None
    /\ UNCHANGED <<link, image, snap, bounds>> /\ Unsent /\ Rest
MovieRetry ==
    /\ link.pc = "session" /\ upload # None /\ upload.pc = "post"
    /\ upload' = IF upload.n < Attempts THEN [upload EXCEPT !.pc = "check"] ELSE None
    /\ UNCHANGED <<link, image, snap, bounds>> /\ Unsent /\ Rest

\* The process ends, at any point, and starts with what the file says.
Crash ==
    /\ Fault
    /\ settings' = disk /\ lock' = None /\ pairing' = None
    /\ ready' = FALSE /\ pending' = None /\ offer' = None
    /\ link' = Down /\ image' = None /\ snap' = None /\ upload' = None
    /\ view' = [Refreshed(view, disk) EXCEPT !.op = None]
    /\ UNCHANGED <<disk, cred, chatRev, key, cap, edits>>

Commit == CommitCancel \/ CommitSave \/ CommitFails \/ ForgetCredential
Viewer == Poll \/ Edit \/ KeepEdits \/ Discard \/ Save \/ StopRead \/ StopSave \/ Forget
          \/ Pair \/ PairAnswered \/ PairFails \/ CallTimesOut
Capture == Pause \/ Resume \/ NewSession
Daily == Consent \/ Claim \/ OfferLegacy \/ OfferRead \/ OfferQueue
Link == LinkEpoch \/ LinkRead \/ LinkChanged \/ BackoffOver \/ SessionChanged
Session == Connected \/ MediaReady \/ ConfigureTriggers \/ MakeImage \/ ImageStale \/ SendImage
           \/ ImageSettled \/ SnapshotRequest \/ SendSnapshot \/ SnapshotEnds
Movies == TakeMovie \/ PostMovie \/ MovieEnds \/ MovieRetry

Next == Commit \/ Viewer \/ Capture \/ Daily \/ Link \/ SessionFails \/ Session \/ Movies \/ Crash

Spec == Init /\ [][Next]_vars
\* The transport task and a commit under way are scheduled.
FairSpec ==
    /\ Spec
    /\ WF_vars(Link) /\ WF_vars(Movies) /\ WF_vars(CommitCancel) /\ WF_vars(CommitSave)
    /\ WF_vars(ForgetCredential)

-----------------------------------------------------------------------------
(* Properties. *)

Revisions == 1 .. MaxRevision
Sessions == 1 .. MaxSessions
SettingsType == [rev : Revisions, on : BOOLEAN, allow : SUBSET Kinds, dev : BOOLEAN,
                 rules : {"local", "none"}]
Preferences == [on : BOOLEAN, allow : SUBSET Kinds]
Locks == [op : {"save", "stop", "forget", "pair", "paired"}, next : SettingsType,
          pc : {"cancel", "save", "delete"}]
Offers == [pc : {"settings", "copy"}, cur : BOOLEAN, ses : 0 .. MaxSessions,
           key : Revisions \cup {None}]
Queue == [ses : Sessions, key : Revisions \cup {None}]
Links == [pc : {"top", "read", "wait", "connect", "session", "backoff"}, cur : BOOLEAN,
          set : SettingsType \cup {None}, limit : BOOLEAN]
Images == [ses : Sessions, tries : Nat]
Snapshots == [cur : BOOLEAN, ses : Sessions, tries : Nat]
Uploads == [ses : Sessions, cur : BOOLEAN, pc : {"check", "post"}, n : Nat]
Operations == [name : {"save", "forget", "pair"}]
              \cup [name : {"stop"}, before : Revisions, prefs : Preferences]
Views == [exp : Revisions, st : [rev : Revisions, prefs : Preferences], draft : Preferences,
          base : Preferences, op : Operations \cup {None}, ack : Revisions]

ASSUME NoneIsNoRecord ==
    None \notin Locks \cup Offers \cup Queue \cup Links \cup Images \cup Snapshots \cup Uploads
                \cup Operations \cup Revisions

ConfType ==
    /\ disk \in SettingsType /\ settings \in SettingsType /\ cred \in BOOLEAN
    /\ lock \in Locks \cup {None} /\ pairing \in Revisions \cup {None} /\ chatRev \in Nat
MovieType ==
    /\ ready \in BOOLEAN /\ key \in Revisions \cup {None}
    /\ offer \in Offers \cup {None} /\ pending \in Queue \cup {None}
NetType ==
    /\ link \in Links /\ (link.pc \in {"connect", "session"} => link.set \in SettingsType)
    /\ image \in Images \cup {None} /\ snap \in Snapshots \cup {None}
    /\ upload \in Uploads \cup {None}
RestType ==
    /\ cap \in [ses : Sessions, live : BOOLEAN] /\ view \in Views
    /\ edits \in 0 .. MaxEdits /\ faults \in 0 .. MaxFaults
TypeOK == ConfType /\ MovieType /\ NetType /\ RestType

\* The settings name a device only while its credential is stored, whichever of
\* the steps of pairing and forgetting the process dies after.
PairedHasCredential == disk.dev \/ settings.dev => cred
\* What is shared in this process is what it would share after a restart.
ActiveIsSaved == settings.on => settings = disk
\* Rules from chat exist only with the local permission for them.
RulesArePermitted == settings.rules = "none" => "chat" \in settings.allow
\* A scheduled movie is queued only while a session is there to take it: the
\* copy on disk is never left behind by a session that ended during the copy.
QueuedHasSession ==
    pending # None /\ pending.key # None => ready /\ link.pc = "session" /\ link.limit

SharingInv == TypeOK /\ PairedHasCredential /\ ActiveIsSaved /\ RulesArePermitted /\ QueuedHasSession

\* Nothing is sent without consent: whatever changes between a request, an offer
\* or a trigger and the check before its bytes leave, sharing is on, paired and not
\* being changed, capture is in the session they come from, and movies and
\* snapshots are still allowed.
Consented(kind, ses) ==
    /\ settings.on /\ settings.dev /\ Live(ses)
    /\ lock = None \/ lock.pc = "cancel"
    /\ kind # "image" => kind \in settings.allow
ImageSent == image # None /\ image' # None /\ image'.tries > image.tries
SendsAreConsented ==
    [][/\ ImageSent => Consented("image", image.ses)
       /\ snap # None /\ snap' # None /\ snap'.tries > snap.tries => Consented("snapshot", snap.ses)
       /\ upload # None /\ upload' # None /\ upload'.n > upload.n => Consented("movie", upload.ses)
      ]_vars

\* The Viewer never overwrites a change from chat that its user has not been
\* shown or chosen to replace, not even after stopping sharing in between.
SavesAreReviewed ==
    [][lock = None /\ lock' # None /\ lock'.op = "save" => chatRev <= view.ack]_vars

\* Turning sharing off ends the connection and everything it holds.
WithdrawnSharingEnds ==
    ~settings.on ~> (settings.on \/ (link.pc = "wait" /\ image = None /\ upload = None /\ pending = None))

-----------------------------------------------------------------------------
(* The inductive invariant behind these properties. *)

\* A commit under way holds the next revision; the switch is off once it has cancelled.
CommitInv ==
    /\ PairedHasCredential /\ ActiveIsSaved /\ RulesArePermitted
    /\ disk.rev = settings.rev /\ chatRev <= settings.rev
    /\ disk.rules = "none" => "chat" \in disk.allow
    /\ lock # None =>
          /\ lock.next.dev => cred
          /\ lock.next.rules = "none" => "chat" \in lock.next.allow
          /\ lock.op = "forget" => ~lock.next.on /\ ~lock.next.dev
          /\ lock.pc # "cancel" => ~settings.on
          /\ lock.pc # "delete" => lock.next.rev = settings.rev + 1
          /\ lock.pc = "delete" => lock.op = "forget" /\ disk = lock.next /\ settings = lock.next

\* A connection that no change has reached works with the settings in force.
LinkInv ==
    /\ link.cur /\ link.pc \in {"connect", "session"} =>
          /\ link.set = [settings EXCEPT !.rev = link.set.rev]
          /\ settings.on /\ settings.dev
          /\ lock = None \/ lock.pc = "cancel"
    /\ link.pc # "session" => snap = None /\ upload = None
    /\ snap # None => "snapshot" \in link.set.allow
    /\ upload # None /\ upload.cur => link.cur

\* A scheduled movie is claimed for a session that is ready to take it.
MovieInv ==
    /\ ready => link.pc = "session" /\ link.limit
    /\ offer # None /\ offer.cur /\ offer.key # None => ready
    /\ pending # None /\ pending.key # None => ready

IndInv == TypeOK /\ CommitInv /\ LinkInv /\ MovieInv /\ view.exp = view.ack
=============================================================================
