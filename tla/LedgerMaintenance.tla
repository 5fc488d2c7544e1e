-------------------------- MODULE LedgerMaintenance --------------------------
(***************************************************************************)
(* The offline commands on the upload ledger (ledger_maintenance.rs): the   *)
(* v3 to v4 migration and the archive, with the lease that keeps them apart *)
(* from a live agent, crashes between any two of their steps, and what the  *)
(* agent does before and after: opening, creating and rotating the ledger,  *)
(* recording, settling and requeueing rows, retention, and the paged        *)
(* listing of rows (upload_store.rs).                                       *)
(*                                                                          *)
(* A live row is one that is pending, in progress or retrying; UploadOutbox *)
(* tells them apart.  Publication is the Windows one: an atomic move that   *)
(* does not replace.                                                        *)
(***************************************************************************)
EXTENDS Naturals, FiniteSets

CONSTANTS
    Artifacts,  \* generated captures, each name published at most once
    Auths,      \* delivery bindings: destination and account
    Ids,        \* random ledger ids
    None,       \* no file, no ledger, no account
    Legacy,     \* the binding the migration gives to v3 failures
    PageSize,   \* rows in a page of the listing
    MaxRev,     \* bound: ledger revisions
    MaxFaults   \* bound: crashes and failed commands

ASSUME MaintenanceAssumption ==
    /\ IsFiniteSet(Artifacts)
    /\ None \notin Artifacts \cup Auths \cup Ids
    /\ Legacy \notin Auths /\ Legacy # None
    /\ PageSize \in Nat \ {0}
    /\ MaxRev \in Nat /\ MaxFaults \in Nat

VARIABLES
    files,      \* captures in the capture directory
    fresh,      \* capture names not used yet
    agent,      \* the live agent: "off", "enabled" or "disabled" uploads
    active,     \* committed content of <config>.upload.sqlite3
    base,       \* content of its main file without the write-ahead log
    wal,        \* a write-ahead log lies beside it
    archive,    \* upload.<id>.archive.sqlite3
    retired,    \* upload.<id>.retired.sqlite3
    maint,      \* the maintenance command: step, ledger id, partial copy
    list,       \* an operator's listing: cursor, rows seen, rows at its start
    faults,
    owed,       \* history: published with uploads enabled, not acknowledged
    owner       \* history: account in force when a capture was published

disk == <<files, fresh>>
ledgers == <<active, base, wal, archive, retired>>
vars == <<disk, agent, ledgers, maint, list, faults, owed, owner>>

-----------------------------------------------------------------------------
(* A ledger and its triggers. *)

RowStates == {"live", "completed", "failed"}
NoRow == [st |-> "none", id |-> 0, bind |-> None]
Row == [st : RowStates \cup {"none"}, id : Nat, bind : Auths \cup {None, Legacy}]

\* ver 0 is a database file without a schema.
Ledger == [ver : {0, 3, 4}, id : Ids \cup {None}, rev : Nat, auth : Auths \cup {None},
           rows : [Artifacts -> Row], pre : SUBSET Artifacts, count : [RowStates -> Nat]]
ASSUME NoneIsNoLedger == None \notin Ledger

Empty == [ver |-> 0, id |-> None, rev |-> 0, auth |-> None,
          rows |-> [a \in Artifacts |-> NoRow], pre |-> {},
          count |-> [s \in RowStates |-> 0]]

Recorded(db) == {a \in Artifacts : db.rows[a].st # "none"}
InState(db, s) == {a \in Artifacts : db.rows[a].st = s}
Gap(db) == files \ (Recorded(db) \cup db.pre)

\* Seeded fault: the update trigger does not take the old state off the count.
TriggeredWithoutOld(db, a, row) ==
    [db EXCEPT !.rows[a] = row, !.rev = @ + 1,
               !.count = [s \in RowStates |-> @[s] + IF row.st = s THEN 1 ELSE 0]]
\* An INSERT or an UPDATE of one row, with the aggregate triggers.
Triggered(db, a, row) ==
    [db EXCEPT !.rows[a] = row, !.rev = @ + 1,
               !.count = [s \in RowStates |->
                   @[s] + (IF row.st = s THEN 1 ELSE 0)
                        - (IF db.rows[a].st = s THEN 1 ELSE 0)]]

CountsAgree(db) == \A s \in RowStates : db.count[s] = Cardinality(InState(db, s))
VerifyV3(db) == db.ver = 3 /\ CountsAgree(db)
LiveRowsBound(db) == \A a \in InState(db, "live") : db.rows[a].bind = db.auth
\* verify_schema: the objects, the signature and the metadata of a v4 ledger.
IsV4(db) == db.ver = 4
VerifyV4(db) == IsV4(db) /\ CountsAgree(db) /\ LiveRowsBound(db)

Terminal(db) == InState(db, "live") = {} /\ InState(db, "failed") = {}
\* Seeded fault: only the rows are looked at, not the directory.
RowsReady(db) == Terminal(db)
ArchiveReady(db) == Terminal(db) /\ Gap(db) = {}

-----------------------------------------------------------------------------
Idle == [pc |-> "idle", id |-> None, copy |-> None]
\* exact: the listing that ended last showed what matched when it began.
NoList == [more |-> FALSE, id |-> None, rev |-> 0, high |-> 0, before |-> 0,
           filter |-> {}, seen |-> {}, snap |-> {}, exact |-> TRUE]

\* A v3 ledger an earlier release left behind: live rows belong to its account,
\* failures may date from before a rotation.
V3Ledger(auth, st) ==
    [ver |-> 3, id |-> None, auth |-> auth, pre |-> {},
     rev |-> 0, count |-> [s \in RowStates |-> Cardinality({a \in Artifacts : st[a] = s})],
     rows |-> [a \in Artifacts |->
                  IF st[a] = "none" THEN NoRow ELSE [NoRow EXCEPT !.st = st[a], !.id = 1]]]

Init ==
    /\ \E auth \in Auths, st \in [Artifacts -> RowStates \cup {"none"}] :
          /\ owner \in [Artifacts -> Auths \cup {None}]
          /\ \A a \in Artifacts :
                /\ st[a] = "none" <=> owner[a] = None
                /\ st[a] = "live" => owner[a] = auth
          /\ LET used == {a \in Artifacts : st[a] # "none"}
             IN  /\ Cardinality(used) <= 1
                 /\ active = IF used = {} THEN None ELSE V3Ledger(auth, st)
                 /\ files = used
                 /\ fresh = Artifacts \ used
                 /\ owed = {a \in used : st[a] # "completed"}
    /\ base = active
    /\ wal = FALSE
    /\ agent = "off"
    /\ archive = [i \in Ids |-> None]
    /\ retired = [i \in Ids |-> None]
    /\ maint = Idle
    /\ list = NoList
    /\ faults = 0

Fault ==
    /\ faults < MaxFaults
    /\ faults' = faults + 1

\* The agent commits to the write-ahead log; the main file keeps its content.
Commit(db) ==
    /\ active' = db
    /\ wal' = TRUE
    /\ UNCHANGED <<base, archive, retired>>

\* Seeded fault: the log is discarded and not folded into the main file.
CloseWithoutCheckpoint(db) ==
    /\ base' = base
    /\ wal' = FALSE
\* The last connection closes in order: the log is folded into the main file.
Close(db) ==
    /\ base' = db
    /\ wal' = FALSE

Unused(i) ==
    /\ archive[i] = None /\ retired[i] = None
    /\ active # None => active.id # i

-----------------------------------------------------------------------------
(* The live agent.  LedgerLease::acquire_live takes the marker shared. *)

LiveLease == agent = "off" /\ maint.pc = "idle"

\* Seeded fault: the new ledger starts without the inventory of older captures.
CreatedWithoutInventory(f, i) == [Empty EXCEPT !.ver = 4, !.id = i, !.auth = f]
Created(f, i) == [Empty EXCEPT !.ver = 4, !.id = i, !.auth = f, !.pre = files]

\* UploadStore::open on no ledger, or on an empty database.
OpenCreates(f) ==
    /\ LiveLease
    /\ active \in {None, Empty}
    /\ \E i \in Ids : Unused(i) /\ Commit(Created(f, i))
    /\ agent' = "enabled"
    /\ UNCHANGED <<disk, maint, list, faults, owed, owner>>

\* The process dies between opening the file and the schema's transaction.
OpenDies ==
    /\ LiveLease /\ active = None
    /\ Fault
    /\ active' = Empty /\ base' = Empty
    /\ UNCHANGED <<disk, agent, wal, archive, retired, maint, list, owed, owner>>

\* UploadStore::open on a v4 ledger: another account may take over only a
\* drained one.
OpenExisting(f) ==
    /\ LiveLease
    /\ active # None /\ VerifyV4(active)
    /\ active.rev < MaxRev
    /\ f # active.auth => InState(active, "live") = {} /\ Gap(active) = {}
    /\ Commit(IF f = active.auth THEN active
              ELSE [active EXCEPT !.auth = f, !.rev = @ + 1])
    /\ agent' = "enabled"
    /\ UNCHANGED <<disk, maint, list, faults, owed, owner>>

\* An agent with uploads disabled holds the lease and no connection.
StartDisabled ==
    /\ LiveLease
    /\ agent' = "disabled"
    /\ UNCHANGED <<disk, ledgers, maint, list, faults, owed, owner>>

Publish(a) ==
    /\ agent # "off" /\ a \in fresh
    /\ files' = files \cup {a}
    /\ fresh' = fresh \ {a}
    /\ IF agent = "enabled"
         THEN /\ owed' = owed \cup {a}
              /\ owner' = [owner EXCEPT ![a] = active.auth]
         ELSE UNCHANGED <<owed, owner>>
    /\ UNCHANGED <<agent, ledgers, maint, list, faults>>

\* record_artifact, for a new capture or by reconciliation.
Record(a) ==
    /\ agent = "enabled" /\ a \in Gap(active)
    /\ active.rev < MaxRev
    /\ Commit(Triggered(active, a,
                 [st |-> "live", bind |-> active.auth,
                  id |-> Cardinality(Recorded(active)) + 1]))
    /\ owed' = owed \cup {a}
    /\ owner' = [owner EXCEPT ![a] = IF @ = None THEN active.auth ELSE @]
    /\ UNCHANGED <<disk, agent, maint, list, faults>>

\* The endpoint's answer is persisted.
Settle(a, st) ==
    /\ agent = "enabled" /\ active.rows[a].st = "live"
    /\ active.rev < MaxRev
    /\ st \in {"completed", "failed"}
    /\ Commit(Triggered(active, a, [active.rows[a] EXCEPT !.st = st]))
    /\ owed' = IF st = "completed" THEN owed \ {a} ELSE owed
    /\ UNCHANGED <<disk, agent, maint, list, faults, owner>>

\* requeue_permanently_failed: the row's binding must be the ledger's.
Requeue(a) ==
    /\ agent = "enabled" /\ active.rows[a].st = "failed"
    /\ active.rows[a].bind = active.auth
    /\ a \in files
    /\ active.rev < MaxRev
    /\ Commit(Triggered(active, a, [active.rows[a] EXCEPT !.st = "live"]))
    /\ UNCHANGED <<disk, agent, maint, list, faults, owed, owner>>

\* Retention deletes what its authority gives up: delivered or older captures,
\* and without a ledger everything.
Reclaim(a) ==
    /\ a \in files
    /\ \/ agent = "enabled" /\ (active.rows[a].st = "completed" \/ a \in active.pre)
       \/ agent = "disabled" /\ active = None /\ ~wal
    /\ files' = files \ {a}
    /\ UNCHANGED <<fresh, agent, ledgers, maint, list, faults, owed, owner>>

StopAgent ==
    /\ agent # "off"
    /\ agent' = "off"
    /\ IF agent = "enabled" THEN Close(active) ELSE UNCHANGED <<base, wal>>
    /\ UNCHANGED <<disk, active, archive, retired, maint, list, faults, owed, owner>>

CrashAgent ==
    /\ agent # "off"
    /\ Fault
    /\ agent' = "off"
    /\ UNCHANGED <<disk, ledgers, maint, list, owed, owner>>

-----------------------------------------------------------------------------
(* Offline maintenance.  LedgerLease::acquire_maintenance takes the marker  *)
(* exclusively; it is held until the command returns or its process dies.   *)

MaintenanceLease == agent = "off" /\ maint.pc = "idle"

At(pc) == maint.pc = pc
Goto(pc) == maint' = [maint EXCEPT !.pc = pc]
Finish == maint' = Idle

MigrateBegin ==
    /\ MaintenanceLease
    /\ active # None /\ VerifyV3(active)
    /\ Goto("migrate")
    /\ UNCHANGED <<disk, agent, ledgers, list, faults, owed, owner>>

\* Seeded fault: v3 failures inherit the account of the migration.
BindAll(db, row) == IF row.st = "none" THEN row ELSE [row EXCEPT !.bind = db.auth]
MigratedRow(db, row) ==
    IF row.st = "none" THEN row
    ELSE [row EXCEPT !.bind = IF row.st = "failed" THEN Legacy ELSE db.auth]

\* One transaction, verified before it commits.
MigrateV3ToV4 ==
    /\ At("migrate")
    /\ \E i \in Ids :
          LET db == [active EXCEPT !.ver = 4, !.id = i,
                                   !.rev = Cardinality(Recorded(active)),
                                   !.rows = [a \in Artifacts |-> MigratedRow(active, @[a])]]
          IN  Unused(i) /\ VerifyV4(db) /\ Commit(db)
    /\ Goto("migrated")
    /\ UNCHANGED <<disk, agent, list, faults, owed, owner>>

MigrateEnd ==
    /\ At("migrated") /\ VerifyV4(active)
    /\ Close(active)
    /\ Finish
    /\ UNCHANGED <<disk, agent, active, archive, retired, list, faults, owed, owner>>

\* The preflight of archive_upload_ledger: an active ledger, nothing retired.
ArchiveBegin(i) ==
    /\ MaintenanceLease
    /\ retired[i] = None /\ active # None
    /\ maint' = [Idle EXCEPT !.pc = "verify", !.id = i]
    /\ UNCHANGED <<disk, agent, ledgers, list, faults, owed, owner>>

\* Open, verify, check that nothing is owed, and fold the log into the file.
ArchiveVerify ==
    /\ At("verify")
    /\ VerifyV4(active) /\ active.id = maint.id
    /\ ArchiveReady(active)
    /\ Close(active)
    /\ Goto("copy")
    /\ UNCHANGED <<disk, agent, active, archive, retired, list, faults, owed, owner>>

\* An archive of an earlier, interrupted command is used only if it still is
\* what the active ledger holds.
ArchiveResume ==
    /\ At("copy") /\ ArchiveReady(active)
    /\ archive[maint.id] # None /\ archive[maint.id] = active
    /\ Goto("retire")
    /\ UNCHANGED <<disk, agent, ledgers, list, faults, owed, owner>>

\* Back up to a partial file and verify the copy.
ArchiveBackup ==
    /\ At("copy") /\ ArchiveReady(active)
    /\ archive[maint.id] = None
    /\ maint' = [maint EXCEPT !.pc = "publish", !.copy = active]
    /\ UNCHANGED <<disk, agent, ledgers, list, faults, owed, owner>>

ArchivePublish ==
    /\ At("publish") /\ archive[maint.id] = None
    /\ archive' = [archive EXCEPT ![maint.id] = maint.copy]
    /\ maint' = [maint EXCEPT !.pc = "retire", !.copy = None]
    /\ UNCHANGED <<disk, agent, active, base, wal, retired, list, faults, owed, owner>>

\* Close the source, see no sidecar, move the main file away.
ArchiveRetire ==
    /\ At("retire") /\ ~wal /\ retired[maint.id] = None
    /\ retired' = [retired EXCEPT ![maint.id] = base]
    /\ active' = None /\ base' = None
    /\ Finish
    /\ UNCHANGED <<disk, agent, wal, archive, list, faults, owed, owner>>

\* A check refuses, an I/O call fails or the process dies.  An interrupted
\* transaction rolls back; a partial file is dropped, or left and never read.
\* A clean failure closes the connection, a death leaves the log behind.
MaintenanceFails ==
    /\ maint.pc # "idle"
    /\ Fault
    /\ Finish
    /\ Close(active) \/ UNCHANGED <<base, wal>>
    /\ UNCHANGED <<disk, agent, active, archive, retired, list, owed, owner>>

MaintenanceRefuses ==
    /\ \/ At("verify") /\ ~(VerifyV4(active) /\ active.id = maint.id /\ ArchiveReady(active))
       \/ At("copy") /\ ~ArchiveReady(active)
       \/ At("copy") /\ archive[maint.id] \notin {None, active}
    /\ Finish
    /\ Close(active)
    /\ UNCHANGED <<disk, agent, active, archive, retired, list, faults, owed, owner>>

-----------------------------------------------------------------------------
(* The paged listing of rows, newest first.  The cursor carries the ledger, *)
(* its revision, the high-water id, the last id shown and the parameters.   *)

Matching(db, high, before, filter) ==
    {a \in Recorded(db) : /\ db.rows[a].id <= high
                          /\ before = 0 \/ db.rows[a].id < before
                          /\ db.rows[a].st \in filter}

Page(db, high, before, filter) ==
    LET M == Matching(db, high, before, filter)
    IN  {a \in M : Cardinality({b \in M : db.rows[b].id > db.rows[a].id}) < PageSize}

Shown(db, S) == {<<a, db.rows[a].st>> : a \in S}

\* A page, and the cursor for what is left.
Listed(l, high, before, filter) ==
    LET page == Page(active, high, before, filter)
        seen == l.seen \cup Shown(active, page)
        last == CHOOSE n \in {active.rows[a].id : a \in page} :
                   \A a \in page : n <= active.rows[a].id
    IN  IF page = Matching(active, high, before, filter)
          THEN [NoList EXCEPT !.exact = (seen = l.snap)]
          ELSE [more |-> TRUE, id |-> active.id, rev |-> active.rev, high |-> high,
                before |-> last, filter |-> filter, seen |-> seen, snap |-> l.snap,
                exact |-> TRUE]

ListFirst(filter) ==
    /\ agent = "enabled" /\ ~list.more
    /\ LET high == Cardinality(Recorded(active))
       IN  list' = Listed([NoList EXCEPT !.snap =
                              Shown(active, Matching(active, high, 0, filter))],
                          high, 0, filter)
    /\ UNCHANGED <<disk, agent, ledgers, maint, faults, owed, owner>>

\* Seeded fault: the cursor's revision is not compared with the ledger's.
CursorOfLedger == list.id = active.id
CursorIsCurrent == list.id = active.id /\ list.rev = active.rev

ListNext ==
    /\ agent = "enabled" /\ list.more
    /\ CursorIsCurrent
    /\ list' = Listed(list, list.high, list.before, list.filter)
    /\ UNCHANGED <<disk, agent, ledgers, maint, faults, owed, owner>>

\* The operator starts over, by choice or after a stale cursor.
ListEnd ==
    /\ list.more
    /\ list' = NoList
    /\ UNCHANGED <<disk, agent, ledgers, maint, faults, owed, owner>>

-----------------------------------------------------------------------------
Agent ==
    \/ \E f \in Auths : OpenCreates(f) \/ OpenExisting(f)
    \/ OpenDies \/ StartDisabled \/ StopAgent \/ CrashAgent
    \/ \E a \in Artifacts :
          \/ Publish(a) \/ Record(a) \/ Requeue(a) \/ Reclaim(a)
          \/ Settle(a, "completed") \/ Settle(a, "failed")

Maintenance ==
    \/ MigrateBegin \/ MigrateV3ToV4 \/ MigrateEnd
    \/ \E i \in Ids : ArchiveBegin(i)
    \/ ArchiveVerify \/ ArchiveResume \/ ArchiveBackup \/ ArchivePublish
    \/ ArchiveRetire \/ MaintenanceFails \/ MaintenanceRefuses

Listing == ListFirst(RowStates) \/ ListFirst({"failed"}) \/ ListNext \/ ListEnd

Next == Agent \/ Maintenance \/ Listing

Spec == Init /\ [][Next]_vars

-----------------------------------------------------------------------------
Command == [pc : {"idle", "migrate", "migrated", "verify", "copy", "publish", "retire"},
            id : Ids \cup {None}, copy : Ledger \cup {None}]
Lists == [more : BOOLEAN, id : Ids \cup {None}, rev : Nat, high : Nat, before : Nat,
          filter : SUBSET RowStates, seen : SUBSET (Artifacts \X RowStates),
          snap : SUBSET (Artifacts \X RowStates), exact : BOOLEAN]
DiskType ==
    /\ files \subseteq Artifacts /\ fresh \subseteq Artifacts
    /\ agent \in {"off", "enabled", "disabled"} /\ faults \in 0..MaxFaults
    /\ owed \subseteq Artifacts /\ owner \in [Artifacts -> Auths \cup {None}]
LedgerType ==
    /\ active \in Ledger \cup {None} /\ base \in Ledger \cup {None}
    /\ wal \in BOOLEAN
    /\ archive \in [Ids -> Ledger \cup {None}] /\ retired \in [Ids -> Ledger \cup {None}]
    /\ maint \in Command
ListType == list \in Lists
TypeOK == DiskType /\ LedgerType /\ ListType

\* No capture that is still to be delivered is forgotten: it is on disk, and the
\* active ledger has it as unfinished work or will find it as a crash gap.
\* Archiving checks the rows and then the directory (ensure_archive_ready).
OwedIsSafe ==
    \A a \in owed :
        /\ a \in files
        /\ active # None
        /\ \/ active.rows[a].st \in {"live", "failed"}
           \/ a \in Gap(active)

\* A row waits for delivery only under the account that took the capture, across
\* migration (legacy_failed_delivery_binding), rotation and requeue.
LiveRowsHaveOwner ==
    active # None => \A a \in InState(active, "live") : owner[a] = active.auth

\* What an archived ledger delivered is not delivered again under its successor
\* (inventory_generated_artifacts at activation).
DeliveredOnce ==
    \A i \in Ids : retired[i] # None /\ active # None =>
        \A a \in InState(retired[i], "completed") : active.rows[a].st = "none"

\* A listing that ran to its end showed exactly the rows that matched when it
\* began, each in the state it had then (list_jobs and its cursor).
ListingIsExact == list.exact

\* The lease: a live agent and a maintenance command never run together, and
\* whatever the agents and the commands did before, the ledger beside them
\* passes the verification the next command starts with.  An archived ledger
\* exists twice, with the same content, whatever interrupted the archiving.
LedgersAreSound ==
    /\ agent = "off" \/ maint.pc = "idle"
    /\ active # None => VerifyV3(active) \/ VerifyV4(active) \/ active = Empty
    /\ agent = "enabled" => active # None /\ IsV4(active)
    /\ maint.pc = "publish" => maint.copy = active
    /\ \A i \in Ids : retired[i] # None => archive[i] = retired[i]

MaintenanceInv == TypeOK /\ LedgersAreSound /\ LiveRowsHaveOwner /\ ListingIsExact

\* The commands implement the abstract custody of ledgers: at no crash point is
\* content lost, nothing unfinished is archived, and no archived ledger changes.
Custody == INSTANCE LedgerCustody WITH
    ledger <- [i \in Ids |-> IF retired[i] # None THEN retired[i]
                             ELSE IF active # None /\ active.id = i THEN active ELSE None],
    archived <- {i \in Ids : retired[i] # None}
CustodyKept == Custody!Spec

-----------------------------------------------------------------------------
(* The inductive invariant behind these properties. *)

\* A capture name is fresh, or was published once.
FreshInv ==
    /\ fresh \cap files = {}
    /\ \A a \in fresh : owner[a] = None
    /\ active # None => fresh \cap (Recorded(active) \cup active.pre) = {}

\* What the active ledger is in each version.
ActiveInv ==
    active # None =>
        /\ active.ver # 0 => active.auth \in Auths
        /\ active.ver = 4 => active.id \in Ids /\ retired[active.id] = None
        /\ active.ver # 4 => active.id = None
        /\ \A a \in Recorded(active) : active.rows[a].id > 0
        /\ Recorded(active) \cap active.pre = {}

\* Where a command stands, nothing has changed since it checked.
CommandInv ==
    /\ LedgersAreSound
    /\ agent = "enabled" => wal
    /\ ~wal => base = active
    /\ maint.pc # "idle" => active # None
    /\ At("migrate") => VerifyV3(active)
    /\ maint.pc \in {"verify", "copy", "publish", "retire"} => maint.id \in Ids
    /\ maint.pc \in {"copy", "publish", "retire"} =>
          VerifyV4(active) /\ active.id = maint.id /\ ArchiveReady(active) /\ ~wal
    /\ At("retire") => archive[maint.id] = active

\* Unfinished rows and captures not recorded yet belong to the account that took them.
OwnerInv ==
    active # None =>
        /\ \A a \in Artifacts :
              /\ active.rows[a].st \in {"live", "failed"} /\ active.rows[a].bind \in Auths
                    => owner[a] = active.rows[a].bind
              /\ active.ver = 3 /\ active.rows[a].st = "live" => owner[a] = active.auth
        /\ active.ver # 0 => \A a \in Gap(active) : owner[a] \in {None, active.auth}

OwedInv == OwedIsSafe /\ (active = Empty => owed = {})

\* What was delivered before an archive is an older capture afterwards.
DeliveredInv ==
    \A i \in Ids : retired[i] # None => \A a \in InState(retired[i], "completed") :
        /\ a \notin fresh
        /\ active # None => active.rows[a].st = "none" /\ (active.ver # 0 => a \notin Gap(active))

\* While the cursor is current, what was shown and what is left is what matched.
ListInv ==
    /\ list.exact
    /\ list.more =>
          /\ list.id \in Ids
          /\ retired[list.id] # None \/ (active # None /\ active.id = list.id)
          /\ active # None /\ active.id = list.id =>
                /\ list.rev <= active.rev
                /\ list.rev = active.rev =>
                      list.snap = list.seen \cup
                          Shown(active, Matching(active, list.high, list.before, list.filter))

IndInv ==
    /\ TypeOK /\ FreshInv /\ ActiveInv /\ CommandInv /\ OwnerInv /\ OwedInv
    /\ DeliveredInv /\ ListInv
=============================================================================
