----------------------- MODULE LedgerMaintenance_proofs -----------------------
(* Machine-checked proofs about LedgerMaintenance, for every value of its      *)
(* constants: any finite set of captures, any accounts, ids and page size.     *)
EXTENDS LedgerMaintenance, FiniteSetTheorems, WellFoundedInduction, TLAPS

USE MaintenanceAssumption

\* A ledger has the fields of one.
LEMMA LedgerFields ==
    ASSUME NEW db \in Ledger
    PROVE  /\ db # None
           /\ db.ver \in {0, 3, 4} /\ db.id \in Ids \cup {None} /\ db.rev \in Nat
           /\ db.auth \in Auths \cup {None} /\ db.rows \in [Artifacts -> Row]
           /\ db.pre \subseteq Artifacts /\ db.count \in [RowStates -> Nat]
           /\ \A a \in Artifacts : /\ db.rows[a] \in Row /\ db.rows[a].st \in RowStates \cup {"none"}
                                   /\ db.rows[a].id \in Nat
                                   /\ db.rows[a].bind \in Auths \cup {None, Legacy}
<1>1. /\ db # None /\ db.rows \in [Artifacts -> Row]
      /\ db.ver \in {0, 3, 4} /\ db.id \in Ids \cup {None} /\ db.rev \in Nat
      /\ db.auth \in Auths \cup {None}
      /\ db.pre \subseteq Artifacts /\ db.count \in [RowStates -> Nat]
  BY NoneIsNoLedger DEF Ledger
<1>2. \A a \in Artifacts : db.rows[a] \in Row
  BY <1>1
<1> QED
  BY <1>1, <1>2 DEF Row

\* Any set of rows of a ledger is finite.
LEMMA RowsAreFinite ==
    ASSUME NEW S \in SUBSET Artifacts
    PROVE  IsFiniteSet(S) /\ Cardinality(S) \in Nat
BY FS_Subset, FS_CardinalityType

\* A ledger without rows counts none.
LEMMA EmptyLedger ==
    /\ Empty \in Ledger /\ Empty.ver = 0 /\ Empty.id = None /\ Empty.auth = None /\ Empty.pre = {}
    /\ Empty.rev = 0 /\ CountsAgree(Empty) /\ Empty # None /\ Recorded(Empty) = {}
    /\ \A a \in Artifacts : Empty.rows[a] = NoRow /\ Empty.rows[a].st = "none"
<1>1. NoRow \in Row /\ NoRow.st = "none"
  BY DEF NoRow, Row
<1>2. Empty.rows = [a \in Artifacts |-> NoRow] /\ Empty.count = [s \in RowStates |-> 0]
  BY DEF Empty
<1>3. Empty \in Ledger
  BY <1>1 DEF Empty, Ledger
<1>4. \A s \in RowStates : InState(Empty, s) = {}
  BY <1>1, <1>2 DEF InState, RowStates
<1>5. CountsAgree(Empty)
  BY <1>2, <1>4, FS_EmptySet DEF CountsAgree
<1>6. \A a \in Artifacts : Empty.rows[a] = NoRow /\ Empty.rows[a].st = "none"
  BY <1>1, <1>2
<1> QED
  BY <1>2, <1>3, <1>5, <1>6, NoneIsNoLedger DEF Empty, Recorded

\* The number of rows in a state after one row has changed.
LEMMA CountOfState ==
    ASSUME NEW db \in Ledger, NEW a \in Artifacts, NEW row \in Row, NEW s \in RowStates,
           NEW new, new = [db EXCEPT !.rows[a] = row]
    PROVE  Cardinality(InState(new, s)) = Cardinality(InState(db, s))
               + (IF row.st = s THEN 1 ELSE 0) - (IF db.rows[a].st = s THEN 1 ELSE 0)
<1>1. /\ \A b \in Artifacts : new.rows[b] = IF b = a THEN row ELSE db.rows[b]
  BY LedgerFields DEF Ledger
<1>2. /\ IsFiniteSet(InState(db, s)) /\ Cardinality(InState(db, s)) \in Nat
  BY RowsAreFinite DEF InState
<1>3. CASE row.st = s /\ db.rows[a].st # s
  <2>1. InState(new, s) = InState(db, s) \cup {a} /\ a \notin InState(db, s)
    BY <1>1, <1>3 DEF InState
  <2> QED
    BY <1>2, <1>3, <2>1, FS_AddElement
<1>4. CASE row.st # s /\ db.rows[a].st = s
  <2>1. InState(new, s) = InState(db, s) \ {a} /\ a \in InState(db, s)
    BY <1>1, <1>4 DEF InState
  <2> QED
    BY <1>2, <1>4, <2>1, FS_RemoveElement
<1>5. CASE (row.st = s) <=> (db.rows[a].st = s)
  <2>1. InState(new, s) = InState(db, s)
    BY <1>1, <1>5 DEF InState
  <2> QED
    BY <1>2, <1>5, <2>1
<1> QED
  BY <1>3, <1>4, <1>5

\* What one row's change makes of a ledger.
RowChanged(db, a, row, new) ==
    /\ new \in Ledger /\ CountsAgree(new) /\ new.rev = db.rev + 1
    /\ new.ver = db.ver /\ new.id = db.id /\ new.auth = db.auth /\ new.pre = db.pre
    /\ \A b \in Artifacts : new.rows[b] = IF b = a THEN row ELSE db.rows[b]

\* A statement on one row and its triggers: a ledger again, whose counts agree.
LEMMA TriggeredEffect ==
    ASSUME NEW db \in Ledger, NEW a \in Artifacts, NEW row \in Row, CountsAgree(db)
    PROVE  RowChanged(db, a, row, Triggered(db, a, row))
<1> DEFINE new == Triggered(db, a, row)
           count == [s \in RowStates |-> db.count[s] + (IF row.st = s THEN 1 ELSE 0)
                                                     - (IF db.rows[a].st = s THEN 1 ELSE 0)]
           mid == [db EXCEPT !.rows[a] = row]
<1>1. new = [db EXCEPT !.rows[a] = row, !.rev = @ + 1, !.count = count]
  BY DEF Triggered
<1>2. \A s \in RowStates : count[s] = Cardinality(InState(mid, s)) /\ count[s] \in Nat
  <2> SUFFICES ASSUME NEW s \in RowStates
               PROVE  count[s] = Cardinality(InState(mid, s)) /\ count[s] \in Nat
    OBVIOUS
  <2>1. count[s] = db.count[s] + (IF row.st = s THEN 1 ELSE 0)
                               - (IF db.rows[a].st = s THEN 1 ELSE 0)
    OBVIOUS
  <2>2. db.count[s] = Cardinality(InState(db, s))
    BY DEF CountsAgree
  <2>3. Cardinality(InState(mid, s)) \in Nat
    BY RowsAreFinite DEF InState
  <2> QED
    BY <2>1, <2>2, <2>3, CountOfState
<1>3. count \in [RowStates -> Nat]
  BY <1>2
<1>4. mid.rows = [db.rows EXCEPT ![a] = row]
  BY DEF Ledger
<1> HIDE DEF count, mid, new
<1>5. /\ new.rev = db.rev + 1 /\ new.rows = [db.rows EXCEPT ![a] = row] /\ new.count = count
      /\ new.ver = db.ver /\ new.id = db.id /\ new.auth = db.auth /\ new.pre = db.pre
      /\ new = [ver |-> db.ver, id |-> db.id, rev |-> db.rev + 1, auth |-> db.auth,
                rows |-> [db.rows EXCEPT ![a] = row], pre |-> db.pre, count |-> count]
  BY <1>1 DEF Ledger
<1>6. [db.rows EXCEPT ![a] = row] \in [Artifacts -> Row]
  BY LedgerFields
<1>7. new \in Ledger
  BY <1>3, <1>5, <1>6, LedgerFields DEF Ledger
<1>8. CountsAgree(new)
  <2>1. \A s \in RowStates : InState(new, s) = InState(mid, s)
    BY <1>4, <1>5 DEF InState
  <2> QED
    BY <1>2, <1>5, <2>1 DEF CountsAgree
<1>9. \A b \in Artifacts : new.rows[b] = IF b = a THEN row ELSE db.rows[b]
  BY <1>5, LedgerFields
<1> QED
  BY <1>5, <1>7, <1>8, <1>9 DEF new, RowChanged

\* What a page leaves out is older than all it shows.
LEMMA PageIsTop ==
    ASSUME NEW db \in Ledger, NEW high, NEW before, NEW filter,
           NEW a \in Page(db, high, before, filter), NEW b \in Matching(db, high, before, filter),
           db.rows[b].id >= db.rows[a].id
    PROVE  b \in Page(db, high, before, filter)
<1> DEFINE M == Matching(db, high, before, filter)
           Above(c) == {d \in M : db.rows[d].id > db.rows[c].id}
<1>1. M \subseteq Artifacts /\ a \in M
  BY DEF Matching, Recorded, Page
<1>2. \A d \in M : db.rows[d].id \in Nat
  BY <1>1, LedgerFields
<1>3. Above(b) \subseteq Above(a)
  BY <1>1, <1>2
<1>4. IsFiniteSet(Above(a)) /\ Cardinality(Above(a)) \in Nat /\ Cardinality(Above(b)) \in Nat
  BY <1>1, RowsAreFinite
<1>5. Cardinality(Above(b)) <= Cardinality(Above(a))
  BY <1>3, <1>4, FS_Subset
<1>6. Cardinality(Above(a)) < PageSize
  BY DEF Page
<1>7. Cardinality(Above(b)) < PageSize
  BY <1>4, <1>5, <1>6
<1> QED
  BY <1>7 DEF Page

\* A set of numbers has a least one.
LEMMA LeastNumber ==
    ASSUME NEW T \in SUBSET Nat, T # {}
    PROVE  \E x \in T : \A y \in T : x <= y
<1>1. \E x \in T : \A y \in T : ~(<<y, x>> \in OpToRel(<, Nat))
  BY NatLessThanWellFounded, WFMin
<1>2. PICK x \in T : \A y \in T : ~(<<y, x>> \in OpToRel(<, Nat))
  BY <1>1
<1>3. \A y \in T : ~(y < x)
  BY <1>2 DEF OpToRel
<1> QED
  BY <1>3

\* A page of what matches shows something.
LEMMA PageShowsSome ==
    ASSUME NEW db \in Ledger, NEW high \in Nat, NEW before, NEW filter,
           Matching(db, high, before, filter) # {}
    PROVE  Page(db, high, before, filter) # {}
<1> DEFINE M == Matching(db, high, before, filter)
<1>1. \A a \in M : a \in Artifacts /\ db.rows[a].id \in Nat /\ db.rows[a].id <= high
  BY LedgerFields DEF Matching, Recorded
<1>2. {high - db.rows[a].id : a \in M} \in SUBSET Nat /\ {high - db.rows[a].id : a \in M} # {}
  BY <1>1
<1>3. PICK x \in {high - db.rows[a].id : a \in M} :
             \A y \in {high - db.rows[a].id : a \in M} : x <= y
  BY <1>2, LeastNumber
<1>4. PICK a \in M : x = high - db.rows[a].id
  BY <1>3
<1>5. \A b \in M : ~(db.rows[b].id > db.rows[a].id)
  <2> SUFFICES ASSUME NEW b \in M PROVE ~(db.rows[b].id > db.rows[a].id)
    OBVIOUS
  <2>1. x <= high - db.rows[b].id
    BY <1>3
  <2> QED
    BY <1>1, <1>4, <2>1
<1>6. {b \in M : db.rows[b].id > db.rows[a].id} = {}
  BY <1>5
<1>7. Cardinality({b \in M : db.rows[b].id > db.rows[a].id}) < PageSize
  <2>1. Cardinality({}) = 0 /\ 0 < PageSize
    BY FS_EmptySet
  <2> QED
    BY ONLY <1>6, <2>1
<1> QED
  BY <1>4, <1>7 DEF Page

\* What a page leaves: the end of an exact listing, or a current cursor before which
\* everything that matched was shown.
PageEffect(l, high, before, filter, new) ==
    /\ new.exact
    /\ \/ new = [NoList EXCEPT !.exact = TRUE]
       \/ /\ new.more /\ new.id = active.id /\ new.rev = active.rev
          /\ new.high = high /\ new.before \in Nat /\ new.filter = filter
          /\ new.snap = new.seen \cup Shown(active, Matching(active, high, new.before, filter))

\* A page and the cursor that follows it: what is left is what matched, without what
\* the page showed.
LEMMA ListedEffect ==
    ASSUME active \in Ledger, NEW l, NEW high \in Nat, NEW before \in Nat, NEW filter,
           l.snap = l.seen \cup Shown(active, Matching(active, high, before, filter)),
           \A a \in Recorded(active) : active.rows[a].id > 0
    PROVE  PageEffect(l, high, before, filter, Listed(l, high, before, filter))
<1> DEFINE new == Listed(l, high, before, filter)
           M == Matching(active, high, before, filter)
           page == Page(active, high, before, filter)
           ids == {active.rows[a].id : a \in page}
           seen == l.seen \cup Shown(active, page)
           last == CHOOSE n \in ids : \A a \in page : n <= active.rows[a].id
<1>1. /\ page \subseteq M
      /\ \A a \in M : a \in Artifacts /\ active.rows[a].id \in Nat /\ active.rows[a].id > 0
  BY LedgerFields DEF Matching, Recorded, Page
<1>2. CASE page = M
  <2>1. seen = l.snap
    BY <1>2
  <2>2. new = [NoList EXCEPT !.exact = (seen = l.snap)]
    BY <1>2 DEF Listed
  <2>3. new = [NoList EXCEPT !.exact = TRUE]
    BY <2>1, <2>2
  <2> QED
    BY <2>3 DEF NoList, PageEffect
<1>3. CASE page # M
  <2>1. page # {}
    BY <1>1, <1>3, PageShowsSome
  <2>2. ids \in SUBSET Nat /\ ids # {}
    BY <1>1, <2>1
  <2>3. PICK x \in ids : \A y \in ids : x <= y
    BY <2>2, LeastNumber
  <2>4. \E n \in ids : \A a \in page : n <= active.rows[a].id
    BY <2>3
  <2>5. last \in ids /\ \A a \in page : last <= active.rows[a].id
    BY <2>4
  <2>6. last \in Nat /\ last > 0
    BY <1>1, <2>2, <2>5
  <2>7. PICK z \in page : active.rows[z].id = last
    BY <2>5
  <2> HIDE DEF last
  <2>8. Matching(active, high, last, filter) \cup page = M
    <3>1. ASSUME NEW b \in M PROVE b \in Matching(active, high, last, filter) \cup page
      <4>1. CASE active.rows[b].id >= active.rows[z].id
        BY <4>1, <2>7, PageIsTop
      <4>2. CASE active.rows[b].id < last
        BY <4>2 DEF Matching
      <4> QED
        BY <1>1, <2>6, <2>7, <4>1, <4>2
    <3>2. ASSUME NEW b \in Matching(active, high, last, filter) PROVE b \in M
      <4>1. /\ b \in Recorded(active) /\ active.rows[b].id <= high
            /\ active.rows[b].st \in filter /\ active.rows[b].id < last
        BY <2>6 DEF Matching
      <4>2. before = 0 \/ (active.rows[z].id < before /\ before \in Nat)
        BY <1>1, <2>7 DEF Matching
      <4>3. b \in Artifacts /\ active.rows[b].id \in Nat
        BY <4>1, LedgerFields DEF Recorded
      <4>4. before = 0 \/ active.rows[b].id < before
        BY <2>6, <2>7, <4>1, <4>2, <4>3
      <4> QED
        BY <4>1, <4>4 DEF Matching
    <3> QED
      BY <1>1, <3>1, <3>2
  <2>9. Shown(active, M) = Shown(active, page) \cup
                           Shown(active, Matching(active, high, last, filter))
    BY <2>8 DEF Shown
  <2>10. new = [more |-> TRUE, id |-> active.id, rev |-> active.rev, high |-> high,
                before |-> last, filter |-> filter, seen |-> seen, snap |-> l.snap,
                exact |-> TRUE]
    BY <1>3 DEF Listed, last
  <2> HIDE DEF M, page, ids, seen, new
  <2>11. /\ new.exact = TRUE /\ new.more = TRUE /\ new.id = active.id /\ new.rev = active.rev
         /\ new.high = high /\ new.before = last /\ new.filter = filter
         /\ new.snap = l.snap /\ new.seen = seen
    BY <2>10
  <2>12. new.snap = new.seen \cup Shown(active, Matching(active, high, new.before, filter))
    BY <2>9, <2>11 DEF seen, M
  <2> QED
    BY <2>6, <2>11, <2>12 DEF PageEffect, new
<1> QED
  BY <1>2, <1>3

\* An active ledger of version 4 passes its verification.
LEMMA EnabledLedger ==
    ASSUME TypeOK, ActiveInv, CommandInv, agent = "enabled" \/ (active # None /\ IsV4(active))
    PROVE  /\ active \in Ledger /\ active.ver = 4 /\ active.auth \in Auths
           /\ CountsAgree(active) /\ LiveRowsBound(active)
<1>1. active \in Ledger /\ active.ver = 4
  BY DEF TypeOK, LedgerType, CommandInv, LedgersAreSound, IsV4
<1>2. VerifyV3(active) \/ VerifyV4(active) \/ active = Empty
  BY <1>1, NoneIsNoLedger DEF CommandInv, LedgersAreSound
<1>3. VerifyV4(active)
  BY <1>1, <1>2, EmptyLedger DEF VerifyV3
<1> QED
  BY <1>1, <1>3, NoneIsNoLedger DEF VerifyV4, ActiveInv

\* The three steps that write one row.
RowAction(a) == Record(a) \/ Settle(a, "completed") \/ Settle(a, "failed") \/ Requeue(a)

\* What they have in common: a row the ledger may have, in an enabled agent's ledger.
LEMMA RowWritten ==
    ASSUME TypeOK, FreshInv, ActiveInv, CommandInv, OwnerInv, NEW a \in Artifacts, RowAction(a)
    PROVE  /\ agent = "enabled" /\ a \notin active.pre /\ a \notin fresh
           /\ a \in Gap(active) \cup Recorded(active)
           /\ \E row \in Row :
                 /\ Commit(Triggered(active, a, row))
                 /\ row.st \in RowStates /\ row.id > 0
                 /\ row.st = "live" => row.bind = active.auth
                 /\ row.st \in {"live", "failed"} /\ row.bind \in Auths => owner'[a] = row.bind
                 /\ a \in owed' => row.st \in {"live", "failed"}
           /\ \A b \in Artifacts : b # a => owner'[b] = owner[b]
           /\ owed' \subseteq owed \cup {a}
           /\ a \in owed' => a \in files \/ a \in owed
           /\ UNCHANGED <<disk, agent, maint, list, faults>>
<1>0. agent = "enabled" /\ UNCHANGED <<disk, agent, maint, list, faults>>
  BY DEF RowAction, Record, Settle, Requeue
<1>1. /\ active \in Ledger /\ active.ver = 4 /\ active.auth \in Auths /\ LiveRowsBound(active)
      /\ active # None
  BY <1>0, EnabledLedger, NoneIsNoLedger
<1>2. /\ active.rows[a] \in Row /\ active.rows[a].id \in Nat
      /\ \A r \in Row : [r EXCEPT !.st = "live"] \in Row /\ [r EXCEPT !.st = "completed"] \in Row
                        /\ [r EXCEPT !.st = "failed"] \in Row
  <2>1. \A r \in Row, s \in RowStates : [r EXCEPT !.st = s] \in Row
    BY DEF Row
  <2> QED
    BY <1>1, <2>1, LedgerFields DEF RowStates
<1>3. owner \in [Artifacts -> Auths \cup {None}] /\ Legacy \notin Auths
  BY DEF TypeOK, DiskType
<1>4. CASE Record(a)
  <2> DEFINE row == [st |-> "live", bind |-> active.auth, id |-> Cardinality(Recorded(active)) + 1]
  <2>1. a \in Gap(active) /\ Commit(Triggered(active, a, row)) /\ owed' = owed \cup {a}
        /\ owner' = [owner EXCEPT ![a] = IF @ = None THEN active.auth ELSE @]
    BY <1>4 DEF Record
  <2>2. Cardinality(Recorded(active)) \in Nat
    BY RowsAreFinite DEF Recorded
  <2>3. row \in Row /\ row.id > 0 /\ row.st = "live" /\ row.bind = active.auth
    BY <1>1, <2>2 DEF Row, RowStates
  <2>4. a \in files /\ a \notin active.pre /\ a \notin fresh
    BY <2>1 DEF Gap, FreshInv
  <2>5. owner'[a] = active.auth
    BY <1>1, <1>3, <2>1 DEF OwnerInv
  <2>6. \A b \in Artifacts : b # a => owner'[b] = owner[b]
    BY <1>3, <2>1
  <2> HIDE DEF row
  <2> QED
    BY <1>0, <2>1, <2>3, <2>4, <2>5, <2>6 DEF RowStates
<1>5. ASSUME NEW st \in {"completed", "failed"}, Settle(a, st)
      PROVE  /\ active.rows[a].st = "live" /\ UNCHANGED owner
             /\ owed' = IF st = "completed" THEN owed \ {a} ELSE owed
             /\ Commit(Triggered(active, a, [active.rows[a] EXCEPT !.st = st]))
  BY <1>5 DEF Settle
<1>6. ASSUME NEW st \in {"completed", "failed"}, Settle(a, st) PROVE
          \E row \in Row :
                 /\ Commit(Triggered(active, a, row))
                 /\ row.st \in RowStates /\ row.id > 0
                 /\ row.st = "live" => row.bind = active.auth
                 /\ row.st \in {"live", "failed"} /\ row.bind \in Auths => owner'[a] = row.bind
                 /\ a \in owed' => row.st \in {"live", "failed"}
  <2>1. [active.rows[a] EXCEPT !.st = st] \in Row /\ [active.rows[a] EXCEPT !.st = st].st = st
        /\ [active.rows[a] EXCEPT !.st = st].id = active.rows[a].id
        /\ [active.rows[a] EXCEPT !.st = st].bind = active.rows[a].bind
    BY <1>2 DEF Row
  <2>2. active.rows[a].st = "live" /\ active.rows[a].id > 0 /\ active.rows[a].bind = active.auth
    BY <1>1, <1>5, <1>6 DEF ActiveInv, Recorded, LiveRowsBound, InState
  <2>3. owner'[a] = active.rows[a].bind
    BY <1>1, <1>5, <1>6, <2>2 DEF OwnerInv
  <2>4. a \in owed' => st = "failed"
    BY <1>5, <1>6
  <2> QED
    BY <1>5, <1>6, <2>1, <2>2, <2>3, <2>4 DEF RowStates
<1>7. ASSUME Requeue(a)
      PROVE  /\ active.rows[a].st = "failed" /\ UNCHANGED <<owner, owed>>
             /\ active.rows[a].bind = active.auth
             /\ Commit(Triggered(active, a, [active.rows[a] EXCEPT !.st = "live"]))
  BY <1>7 DEF Requeue
<1>8. ASSUME Requeue(a) PROVE
          \E row \in Row :
                 /\ Commit(Triggered(active, a, row))
                 /\ row.st \in RowStates /\ row.id > 0
                 /\ row.st = "live" => row.bind = active.auth
                 /\ row.st \in {"live", "failed"} /\ row.bind \in Auths => owner'[a] = row.bind
                 /\ a \in owed' => row.st \in {"live", "failed"}
  <2>1. [active.rows[a] EXCEPT !.st = "live"] \in Row
        /\ [active.rows[a] EXCEPT !.st = "live"].st = "live"
        /\ [active.rows[a] EXCEPT !.st = "live"].id = active.rows[a].id
        /\ [active.rows[a] EXCEPT !.st = "live"].bind = active.rows[a].bind
    BY <1>2 DEF Row
  <2>2. active.rows[a].id > 0
    BY <1>1, <1>7, <1>8 DEF ActiveInv, Recorded
  <2>3. owner'[a] = active.auth
    BY <1>1, <1>7, <1>8 DEF OwnerInv
  <2> QED
    BY <1>7, <1>8, <2>1, <2>2, <2>3 DEF RowStates
<1>9. CASE ~Record(a)
  <2>1. Settle(a, "completed") \/ Settle(a, "failed") \/ Requeue(a)
    BY <1>9 DEF RowAction
  <2>2. active.rows[a].st \in {"live", "failed"}
    BY <1>5, <1>7, <2>1
  <2>3. a \in Recorded(active)
    BY <2>2 DEF Recorded
  <2>4. a \notin active.pre /\ a \notin fresh
    BY <1>1, <2>3 DEF ActiveInv, FreshInv
  <2>5. UNCHANGED owner /\ owed' \subseteq owed
    BY <1>5, <1>7, <2>1
  <2> QED
    BY <1>0, <1>6, <1>8, <2>1, <2>3, <2>4, <2>5
<1> QED
  BY <1>4, <1>9

\* The same, told of the ledger before and after.
LEMMA RowStep ==
    ASSUME TypeOK, FreshInv, ActiveInv, CommandInv, OwnerInv, NEW a \in Artifacts, RowAction(a)
    PROVE  /\ agent = "enabled" /\ a \notin active.pre /\ a \notin fresh
           /\ a \in Gap(active) \cup Recorded(active)
           /\ active \in Ledger /\ active.ver = 4 /\ active.auth \in Auths /\ active # None
           /\ CountsAgree(active) /\ LiveRowsBound(active)
           /\ active' \in Ledger /\ CountsAgree(active') /\ LiveRowsBound(active')
           /\ active' # None /\ active'.rev = active.rev + 1
           /\ active'.ver = active.ver /\ active'.id = active.id /\ active'.auth = active.auth
           /\ active'.pre = active.pre
           /\ active'.rows[a].st \in RowStates /\ active'.rows[a].id > 0
           /\ active'.rows[a].st \in {"live", "failed"} /\ active'.rows[a].bind \in Auths
                 => owner'[a] = active'.rows[a].bind
           /\ \A b \in Artifacts : b # a => /\ active'.rows[b] = active.rows[b]
                                            /\ owner'[b] = owner[b]
           /\ owed' \subseteq owed \cup {a} /\ (a \in owed' => a \in files \/ a \in owed)
           /\ a \in owed' => active'.rows[a].st \in {"live", "failed"}
           /\ Recorded(active') = Recorded(active) \cup {a}
           /\ wal' = TRUE /\ UNCHANGED <<disk, agent, base, archive, retired, maint, list, faults>>
<1>1. PICK row \in Row :
                 /\ Commit(Triggered(active, a, row))
                 /\ row.st \in RowStates /\ row.id > 0
                 /\ row.st = "live" => row.bind = active.auth
                 /\ row.st \in {"live", "failed"} /\ row.bind \in Auths => owner'[a] = row.bind
                 /\ a \in owed' => row.st \in {"live", "failed"}
  BY RowWritten
<1>2. /\ active \in Ledger /\ active.ver = 4 /\ active.auth \in Auths
      /\ CountsAgree(active) /\ LiveRowsBound(active) /\ active # None
  BY EnabledLedger, RowWritten, NoneIsNoLedger
<1>3. active' = Triggered(active, a, row) /\ wal' = TRUE /\ UNCHANGED <<base, archive, retired>>
  BY <1>1 DEF Commit
<1>4. /\ active' \in Ledger /\ CountsAgree(active') /\ active'.rev = active.rev + 1
      /\ active'.ver = active.ver /\ active'.id = active.id /\ active'.auth = active.auth
      /\ active'.pre = active.pre
      /\ \A b \in Artifacts : active'.rows[b] = IF b = a THEN row ELSE active.rows[b]
  <2>1. RowChanged(active, a, row, Triggered(active, a, row))
    BY <1>2, TriggeredEffect
  <2> QED
    BY <1>3, <2>1 DEF RowChanged
<1>5. LiveRowsBound(active')
  BY <1>1, <1>2, <1>4 DEF LiveRowsBound, InState
<1>6. Recorded(active') = Recorded(active) \cup {a}
  BY <1>1, <1>4 DEF Recorded, RowStates
<1>7. active' # None
  BY <1>4, NoneIsNoLedger
<1> QED
  BY <1>1, <1>2, <1>3, <1>4, <1>5, <1>6, <1>7, RowWritten

\* The first ledger of an account, or the next one after an archive: nothing but the
\* inventory of what was captured before.
LEMMA CreatedEffect ==
    ASSUME TypeOK, NEW f \in Auths, OpenCreates(f)
    PROVE  /\ agent = "off" /\ maint.pc = "idle" /\ active \in {None, Empty}
           /\ active' \in Ledger /\ active' # None /\ active'.ver = 4 /\ active'.auth = f
           /\ active'.id \in Ids /\ archive[active'.id] = None /\ retired[active'.id] = None
           /\ CountsAgree(active') /\ LiveRowsBound(active') /\ active'.pre = files
           /\ Recorded(active') = {} /\ \A a \in Artifacts : active'.rows[a].st = "none"
           /\ agent' = "enabled" /\ wal' = TRUE
           /\ UNCHANGED <<disk, base, archive, retired, maint, list, faults, owed, owner>>
<1>1. /\ agent = "off" /\ maint.pc = "idle" /\ active \in {None, Empty} /\ agent' = "enabled"
      /\ UNCHANGED <<disk, maint, list, faults, owed, owner>>
  BY DEF OpenCreates, LiveLease
<1>2. PICK i \in Ids : Unused(i) /\ Commit(Created(f, i))
  BY DEF OpenCreates
<1>3. active' = Created(f, i) /\ wal' = TRUE /\ UNCHANGED <<base, archive, retired>>
  BY <1>2 DEF Commit
<1>4. archive[i] = None /\ retired[i] = None
  BY <1>2 DEF Unused
<1>5. files \subseteq Artifacts
  BY DEF TypeOK, DiskType
<1>6. active' = [Empty EXCEPT !.ver = 4, !.id = i, !.auth = f, !.pre = files]
  BY <1>3 DEF Created
<1>7. /\ active'.ver = 4 /\ active'.id = i /\ active'.auth = f /\ active'.pre = files
      /\ active'.rows = Empty.rows /\ active'.count = Empty.count
  BY <1>6 DEF Empty
<1>8. active' \in Ledger
  BY <1>5, <1>6, EmptyLedger DEF Ledger
<1>9. \A a \in Artifacts : active'.rows[a].st = "none"
  BY <1>7, EmptyLedger DEF NoRow
<1>10. CountsAgree(active')
  BY <1>7, EmptyLedger DEF CountsAgree, InState
<1>11. LiveRowsBound(active') /\ Recorded(active') = {}
  BY <1>9 DEF LiveRowsBound, InState, Recorded
<1> QED
  BY <1>1, <1>3, <1>4, <1>7, <1>8, <1>9, <1>10, <1>11, NoneIsNoLedger

\* Another account takes over a drained ledger, or the same account its own.
LEMMA OpenedEffect ==
    ASSUME TypeOK, NEW f \in Auths, OpenExisting(f)
    PROVE  /\ agent = "off" /\ maint.pc = "idle"
           /\ active \in Ledger /\ active # None /\ active.ver = 4
           /\ active' \in Ledger /\ active' # None /\ active'.auth = f
           /\ active'.ver = active.ver /\ active'.id = active.id /\ active'.pre = active.pre
           /\ active'.rows = active.rows /\ (active' = active \/ active'.rev > active.rev)
           /\ CountsAgree(active') /\ LiveRowsBound(active')
           /\ f = active.auth \/ (InState(active, "live") = {} /\ Gap(active) = {})
           /\ agent' = "enabled" /\ wal' = TRUE
           /\ UNCHANGED <<disk, base, archive, retired, maint, list, faults, owed, owner>>
<1>1. /\ agent = "off" /\ maint.pc = "idle" /\ agent' = "enabled" /\ active # None
      /\ VerifyV4(active)
      /\ f = active.auth \/ (InState(active, "live") = {} /\ Gap(active) = {})
      /\ UNCHANGED <<disk, maint, list, faults, owed, owner>>
  BY DEF OpenExisting, LiveLease
<1>2. /\ active' = IF f = active.auth THEN active ELSE [active EXCEPT !.auth = f, !.rev = @ + 1]
      /\ wal' = TRUE /\ UNCHANGED <<base, archive, retired>>
  BY DEF OpenExisting, Commit
<1>3. active \in Ledger /\ active.ver = 4 /\ CountsAgree(active) /\ LiveRowsBound(active)
  BY <1>1 DEF TypeOK, LedgerType, VerifyV4, IsV4
<1>4. CASE f = active.auth
  BY <1>1, <1>2, <1>3, <1>4, LedgerFields
<1>5. CASE f # active.auth
  <2>1. active' = [active EXCEPT !.auth = f, !.rev = @ + 1] /\ active.rev \in Nat
    BY <1>2, <1>3, <1>5, LedgerFields
  <2>2. active' \in Ledger
    <3>1. active' = [ver |-> active.ver, id |-> active.id, rev |-> active.rev + 1, auth |-> f,
                     rows |-> active.rows, pre |-> active.pre, count |-> active.count]
      BY <1>3, <2>1 DEF Ledger
    <3>2. active.rev + 1 \in Nat /\ f \in Auths \cup {None}
      BY <2>1
    <3> QED
      BY <1>3, <3>1, <3>2, LedgerFields DEF Ledger
  <2>3. /\ active'.auth = f /\ active'.ver = active.ver /\ active'.id = active.id
        /\ active'.pre = active.pre /\ active'.rows = active.rows
        /\ active'.count = active.count /\ active'.rev > active.rev
    BY <1>3, <2>1 DEF Ledger
  <2>4. CountsAgree(active')
    BY <1>3, <2>3 DEF CountsAgree, InState
  <2>5. LiveRowsBound(active')
    BY <1>1, <1>5, <2>3 DEF LiveRowsBound, InState
  <2> QED
    BY <1>1, <1>2, <1>3, <2>2, <2>3, <2>4, <2>5, NoneIsNoLedger
<1> QED
  BY <1>4, <1>5

\* A migrated ledger has the same rows, its failures under a binding of their own.
LEMMA MigratedEffect ==
    ASSUME TypeOK, CommandInv, ActiveInv, MigrateV3ToV4
    PROVE  /\ agent = "off" /\ At("migrate") /\ maint' = [maint EXCEPT !.pc = "migrated"]
           /\ active \in Ledger /\ active # None /\ active.ver = 3 /\ active.auth \in Auths
           /\ active' \in Ledger /\ active' # None /\ active'.ver = 4
           /\ active'.id \in Ids /\ retired[active'.id] = None
           /\ active'.auth = active.auth /\ active'.pre = active.pre
           /\ CountsAgree(active') /\ LiveRowsBound(active')
           /\ \A a \in Artifacts : /\ active'.rows[a].st = active.rows[a].st
                                   /\ active'.rows[a].id = active.rows[a].id
                                   /\ active'.rows[a].st = "live" => active'.rows[a].bind = active.auth
                                   /\ active'.rows[a].st = "failed" => active'.rows[a].bind = Legacy
           /\ Recorded(active') = Recorded(active)
           /\ wal' = TRUE /\ UNCHANGED <<disk, agent, base, archive, retired, list, faults, owed, owner>>
<1>1. /\ At("migrate") /\ maint' = [maint EXCEPT !.pc = "migrated"]
      /\ UNCHANGED <<disk, agent, list, faults, owed, owner>>
  BY DEF MigrateV3ToV4, Goto
<1>2. /\ active \in Ledger /\ active # None /\ active.ver = 3 /\ CountsAgree(active) /\ agent = "off"
      /\ active.auth \in Auths
  BY <1>1, NoneIsNoLedger
     DEF CommandInv, LedgersAreSound, At, TypeOK, LedgerType, VerifyV3, ActiveInv
<1>3. PICK i \in Ids : /\ Unused(i)
                       /\ VerifyV4(active')
                       /\ Commit(active')
                       /\ active' = [active EXCEPT !.ver = 4, !.id = i,
                                         !.rev = Cardinality(Recorded(active)),
                                         !.rows = [a \in Artifacts |-> MigratedRow(active, @[a])]]
  BY DEF MigrateV3ToV4, Commit
<1> DEFINE rows == [a \in Artifacts |-> MigratedRow(active, active.rows[a])]
<1>4. \A a \in Artifacts : /\ rows[a] \in Row /\ rows[a].st = active.rows[a].st
                           /\ rows[a].id = active.rows[a].id
                           /\ rows[a].st = "live" => rows[a].bind = active.auth
                           /\ rows[a].st = "failed" => rows[a].bind = Legacy
  BY <1>2, LedgerFields DEF MigratedRow, Row
<1>5. Cardinality(Recorded(active)) \in Nat
  BY RowsAreFinite DEF Recorded
<1>6. active' = [active EXCEPT !.ver = 4, !.id = i, !.rev = Cardinality(Recorded(active)),
                               !.rows = rows]
  BY <1>3
<1>7. rows \in [Artifacts -> Row]
  BY <1>4
<1> HIDE DEF rows
<1>8. /\ active' \in Ledger /\ active'.ver = 4 /\ active'.id = i /\ active'.auth = active.auth
      /\ active'.pre = active.pre /\ active'.rows = rows
  BY <1>2, <1>5, <1>6, <1>7 DEF Ledger
<1>9. CountsAgree(active') /\ LiveRowsBound(active')
  BY <1>3 DEF VerifyV4
<1>10. wal' = TRUE /\ UNCHANGED <<base, archive, retired>> /\ retired[i] = None
  BY <1>3 DEF Commit, Unused
<1>11. Recorded(active') = Recorded(active)
  BY <1>4, <1>8 DEF Recorded
<1> QED
  BY <1>1, <1>2, <1>4, <1>8, <1>9, <1>10, <1>11, NoneIsNoLedger

\* The account of the active ledger is an account.
LEMMA ActiveAuth == ASSUME TypeOK, active # None PROVE active.auth \in Auths \cup {None}
BY LedgerFields DEF TypeOK, LedgerType

\* What the program starts with is well formed.
LEMMA IdleIsTyped == Idle \in Command /\ Idle.pc = "idle" /\ Idle.id = None
BY DEF Idle, Command

\* The list a search starts with.
LEMMA NoListIsTyped == NoList \in Lists /\ ~NoList.more /\ NoList.exact
BY DEF NoList, Lists

\* What a listing shows are captures with the states of rows.
LEMMA ShownIsTyped ==
    ASSUME TypeOK, ActiveInv, CommandInv, agent = "enabled", NEW high, NEW before, NEW filter
    PROVE  /\ Shown(active, Matching(active, high, before, filter)) \subseteq Artifacts \X RowStates
           /\ Shown(active, Page(active, high, before, filter)) \subseteq Artifacts \X RowStates
<1>1. active \in Ledger
  BY EnabledLedger
<1>2. \A a \in Recorded(active) : a \in Artifacts /\ active.rows[a].st \in RowStates
  BY <1>1, LedgerFields DEF Recorded
<1>3. /\ Matching(active, high, before, filter) \subseteq Recorded(active)
      /\ Page(active, high, before, filter) \subseteq Recorded(active)
  BY DEF Matching, Page
<1> QED
  BY <1>2, <1>3 DEF Shown

\* A page and its cursor are well formed.
LEMMA ListedIsTyped ==
    ASSUME TypeOK, ActiveInv, CommandInv, agent = "enabled", NEW l \in Lists, NEW high \in Nat,
           NEW before \in Nat, NEW filter \in SUBSET RowStates
    PROVE  Listed(l, high, before, filter) \in Lists
<1> DEFINE page == Page(active, high, before, filter)
           seen == l.seen \cup Shown(active, page)
           ids == {active.rows[a].id : a \in page}
           last == CHOOSE n \in ids : \A a \in page : n <= active.rows[a].id
<1>1. active \in Ledger /\ active.ver = 4
  BY EnabledLedger
<1>2. active.id \in Ids \cup {None} /\ active.rev \in Nat
  BY <1>1, LedgerFields
<1>3. seen \in SUBSET (Artifacts \X RowStates)
  BY ShownIsTyped DEF Lists
<1>4. CASE page = Matching(active, high, before, filter)
  <2>1. Listed(l, high, before, filter) = [NoList EXCEPT !.exact = (seen = l.snap)]
    BY <1>4 DEF Listed
  <2>2. (seen = l.snap) \in BOOLEAN
    OBVIOUS
  <2> HIDE DEF seen
  <2> QED
    BY <2>1, <2>2, NoListIsTyped DEF Lists
<1>5. CASE page # Matching(active, high, before, filter)
  <2>1. page # {}
    BY <1>1, <1>5, PageShowsSome
  <2>2. page \subseteq Artifacts
    BY DEF Page, Matching, Recorded
  <2>3. ids \in SUBSET Nat /\ ids # {}
    BY <1>1, <2>1, <2>2, LedgerFields
  <2>4. \E n \in ids : \A y \in ids : n <= y
    BY <2>3, LeastNumber
  <2>5. \E n \in ids : \A a \in page : n <= active.rows[a].id
    BY <2>4
  <2>6. last \in Nat
    BY <2>3, <2>5
  <2>7. Listed(l, high, before, filter) =
           [more |-> TRUE, id |-> active.id, rev |-> active.rev, high |-> high,
            before |-> last, filter |-> filter, seen |-> seen, snap |-> l.snap, exact |-> TRUE]
    BY <1>5 DEF Listed
  <2> HIDE DEF last, seen, page, ids
  <2> QED
    BY <1>2, <1>3, <2>6, <2>7 DEF Lists
<1> QED
  BY <1>4, <1>5

\* A page leaves a cursor that is current and misses nothing.
LEMMA ListedKeeps ==
    ASSUME TypeOK, ActiveInv, CommandInv, agent = "enabled", UNCHANGED <<active, retired>>,
           NEW l, NEW high \in Nat, NEW before \in Nat, NEW filter,
           l.snap = l.seen \cup Shown(active, Matching(active, high, before, filter)),
           list' = Listed(l, high, before, filter)
    PROVE  ListInv'
<1>1. active \in Ledger /\ active # None /\ active.ver = 4
  BY EnabledLedger, NoneIsNoLedger
<1>2. active.id \in Ids /\ \A a \in Recorded(active) : active.rows[a].id > 0
  BY <1>1 DEF ActiveInv
<1>3. active.rev \in Nat
  BY <1>1, LedgerFields
<1>4. PageEffect(l, high, before, filter, list')
  BY <1>1, <1>2, ListedEffect
<1>5. CASE list' = [NoList EXCEPT !.exact = TRUE]
  <2>1. list'.exact = TRUE /\ list'.more = FALSE
    BY <1>5 DEF NoList
  <2> QED
    BY <2>1 DEF ListInv
<1>6. CASE /\ list'.more /\ list'.id = active.id /\ list'.rev = active.rev
           /\ list'.snap = list'.seen \cup
                  Shown(active, Matching(active, list'.high, list'.before, list'.filter))
  <2>1. list'.exact
    BY <1>4 DEF PageEffect
  <2>2. /\ active' = active /\ list'.id \in Ids /\ active.rev <= active.rev
    BY <1>2, <1>3, <1>6
  <2> QED
    BY <1>1, <1>6, <2>1, <2>2 DEF ListInv
<1> QED
  BY <1>4, <1>5, <1>6 DEF PageEffect

\* Every step keeps the types of the captures and their history.
LEMMA NextDiskType ==
    ASSUME TypeOK, CommandInv, [Next]_vars
    PROVE  DiskType'
<1>0. DiskType
  BY DEF TypeOK
<1>1. ASSUME NEW f \in Auths, OpenCreates(f) PROVE DiskType'
  BY <1>1, <1>0, CreatedEffect DEF DiskType, disk
<1>2. ASSUME NEW f \in Auths, OpenExisting(f) PROVE DiskType'
  BY <1>2, <1>0, OpenedEffect DEF DiskType, disk
<1>3. ASSUME OpenDies PROVE DiskType'
  BY <1>3, <1>0 DEF OpenDies, Fault, LiveLease, DiskType, disk, ledgers
<1>4. ASSUME StartDisabled PROVE DiskType'
  BY <1>4, <1>0 DEF StartDisabled, LiveLease, DiskType, disk, ledgers
<1>5. ASSUME StopAgent PROVE DiskType'
  BY <1>5, <1>0 DEF StopAgent, Close, DiskType, disk, ledgers
<1>6. ASSUME CrashAgent PROVE DiskType'
  BY <1>6, <1>0 DEF CrashAgent, Fault, DiskType, disk, ledgers
<1>7. ASSUME NEW a \in Artifacts, Publish(a) PROVE DiskType'
  <2>1. owner' \in [Artifacts -> Auths \cup {None}] /\ owed' \subseteq Artifacts
    BY <1>7, <1>0, ActiveAuth DEF Publish, DiskType, CommandInv, LedgersAreSound
  <2> QED
    BY <1>7, <1>0, <2>1 DEF Publish, DiskType
<1>8. ASSUME NEW a \in Artifacts, RowAction(a) PROVE DiskType'
  <2>1. agent = "enabled" /\ active.auth \in Auths \cup {None}
    BY <1>8, ActiveAuth DEF RowAction, Record, Settle, Requeue, CommandInv, LedgersAreSound
  <2>2. owner' \in [Artifacts -> Auths \cup {None}] /\ owed' \subseteq Artifacts
    BY <1>8, <1>0, <2>1 DEF RowAction, Record, Settle, Requeue, DiskType
  <2> QED
    BY <1>8, <1>0, <2>2 DEF RowAction, Record, Settle, Requeue, DiskType, disk
<1>9. ASSUME NEW a \in Artifacts, Reclaim(a) PROVE DiskType'
  BY <1>9, <1>0 DEF Reclaim, DiskType, disk, ledgers
<1>10. ASSUME MigrateBegin PROVE DiskType'
  BY <1>10, <1>0 DEF MigrateBegin, MaintenanceLease, Goto, DiskType, disk, ledgers
<1>11. ASSUME MigrateV3ToV4 PROVE DiskType'
  BY <1>11, <1>0 DEF MigrateV3ToV4, Commit, Goto, At, DiskType, disk, ledgers
<1>12. ASSUME MigrateEnd PROVE DiskType'
  BY <1>12, <1>0 DEF MigrateEnd, Close, Finish, At, DiskType, disk, ledgers
<1>13. ASSUME NEW i \in Ids, ArchiveBegin(i) PROVE DiskType'
  BY <1>13, <1>0 DEF ArchiveBegin, MaintenanceLease, DiskType, disk, ledgers
<1>14. ASSUME ArchiveVerify PROVE DiskType'
  BY <1>14, <1>0 DEF ArchiveVerify, Close, Goto, At, DiskType, disk, ledgers
<1>15. ASSUME ArchiveResume PROVE DiskType'
  BY <1>15, <1>0 DEF ArchiveResume, Goto, At, DiskType, disk, ledgers
<1>16. ASSUME ArchiveBackup PROVE DiskType'
  BY <1>16, <1>0 DEF ArchiveBackup, At, DiskType, disk, ledgers
<1>17. ASSUME ArchivePublish PROVE DiskType'
  BY <1>17, <1>0 DEF ArchivePublish, At, DiskType, disk, ledgers
<1>18. ASSUME ArchiveRetire PROVE DiskType'
  BY <1>18, <1>0 DEF ArchiveRetire, Finish, At, DiskType, disk, ledgers
<1>19. ASSUME MaintenanceFails PROVE DiskType'
  BY <1>19, <1>0 DEF MaintenanceFails, Fault, Close, Finish, DiskType, disk, ledgers
<1>20. ASSUME MaintenanceRefuses PROVE DiskType'
  BY <1>20, <1>0 DEF MaintenanceRefuses, Close, Finish, At, DiskType, disk, ledgers
<1>21. ASSUME Listing PROVE DiskType'
  BY <1>21, <1>0 DEF Listing, ListFirst, ListNext, ListEnd, DiskType, disk, ledgers
<1>22. CASE UNCHANGED vars
  BY <1>22, <1>0 DEF DiskType, vars, disk, ledgers
<1> QED
  BY <1>1, <1>2, <1>3, <1>4, <1>5, <1>6, <1>7, <1>8, <1>9, <1>10, <1>11, <1>12, <1>13,
     <1>14, <1>15, <1>16, <1>17, <1>18, <1>19, <1>20, <1>21, <1>22
     DEF Next, Agent, Maintenance, RowAction

\* Every step keeps the types of the ledgers and the command.
LEMMA NextLedgerType ==
    ASSUME TypeOK, FreshInv, ActiveInv, CommandInv, OwnerInv, [Next]_vars
    PROVE  LedgerType'
<1>0. LedgerType
  BY DEF TypeOK
<1>1. ASSUME NEW f \in Auths, OpenCreates(f) PROVE LedgerType'
  BY <1>1, <1>0, CreatedEffect DEF LedgerType
<1>2. ASSUME NEW f \in Auths, OpenExisting(f) PROVE LedgerType'
  BY <1>2, <1>0, OpenedEffect DEF LedgerType
<1>3. ASSUME OpenDies PROVE LedgerType'
  BY <1>3, <1>0, EmptyLedger DEF OpenDies, LedgerType
<1>4. ASSUME StartDisabled PROVE LedgerType'
  BY <1>4, <1>0 DEF StartDisabled, LiveLease, LedgerType, Command, disk, ledgers
<1>5. ASSUME StopAgent PROVE LedgerType'
  BY <1>5, <1>0 DEF StopAgent, Close, LedgerType, Command, disk, ledgers
<1>6. ASSUME CrashAgent PROVE LedgerType'
  BY <1>6, <1>0 DEF CrashAgent, Fault, LedgerType, Command, disk, ledgers
<1>7. ASSUME NEW a \in Artifacts, Publish(a) PROVE LedgerType'
  BY <1>7, <1>0 DEF Publish, LedgerType, Command, disk, ledgers
<1>8. ASSUME NEW a \in Artifacts, RowAction(a) PROVE LedgerType'
  BY <1>8, <1>0, RowStep DEF LedgerType
<1>9. ASSUME NEW a \in Artifacts, Reclaim(a) PROVE LedgerType'
  BY <1>9, <1>0 DEF Reclaim, LedgerType, Command, disk, ledgers
<1>10. ASSUME MigrateBegin PROVE LedgerType'
  BY <1>10, <1>0
     DEF MigrateBegin, MaintenanceLease, Goto, LedgerType, Command, disk, ledgers
<1>11. ASSUME MigrateV3ToV4 PROVE LedgerType'
  <2>1. maint' \in Command
    BY <1>11, <1>0, MigratedEffect DEF LedgerType, Command
  <2>2. /\ active' \in Ledger /\ wal' = TRUE /\ UNCHANGED <<base, archive, retired>>
    BY <1>11, MigratedEffect
  <2> QED
    BY <1>0, <2>1, <2>2 DEF LedgerType
<1>12. ASSUME MigrateEnd PROVE LedgerType'
  <2>1. maint' = Idle /\ Idle \in Command
    BY <1>12, IdleIsTyped DEF MigrateEnd, Finish
  <2>2. base' \in Ledger \cup {None} /\ wal' \in BOOLEAN
    BY <1>12, <1>0 DEF MigrateEnd, Close, LedgerType
  <2>3. UNCHANGED <<active, archive, retired>>
    BY <1>12 DEF MigrateEnd
  <2> QED
    BY <1>0, <2>1, <2>2, <2>3 DEF LedgerType
<1>13. ASSUME NEW i \in Ids, ArchiveBegin(i) PROVE LedgerType'
  <2>1. maint' \in Command
    BY <1>13, IdleIsTyped DEF ArchiveBegin, Command
  <2> QED
    BY <1>13, <1>0, <2>1 DEF ArchiveBegin, LedgerType, ledgers
<1>14. ASSUME ArchiveVerify PROVE LedgerType'
  BY <1>14, <1>0 DEF ArchiveVerify, Close, Goto, At, LedgerType, Command, disk, ledgers
<1>15. ASSUME ArchiveResume PROVE LedgerType'
  BY <1>15, <1>0 DEF ArchiveResume, Goto, At, LedgerType, Command, disk, ledgers
<1>16. ASSUME ArchiveBackup PROVE LedgerType'
  BY <1>16, <1>0 DEF ArchiveBackup, At, LedgerType, Command, disk, ledgers
<1>17. ASSUME ArchivePublish PROVE LedgerType'
  BY <1>17, <1>0 DEF ArchivePublish, At, LedgerType, Command, disk, ledgers
<1>18. ASSUME ArchiveRetire PROVE LedgerType'
  <2>1. maint' = Idle /\ Idle \in Command
    BY <1>18, IdleIsTyped DEF ArchiveRetire, Finish
  <2>2. retired' \in [Ids -> Ledger \cup {None}]
    BY <1>18, <1>0 DEF ArchiveRetire, LedgerType
  <2>3. active' = None /\ base' = None /\ UNCHANGED <<wal, archive>>
    BY <1>18 DEF ArchiveRetire
  <2> QED
    BY <1>0, <2>1, <2>2, <2>3 DEF LedgerType
<1>19. ASSUME MaintenanceFails PROVE LedgerType'
  <2>1. maint' = Idle /\ Idle \in Command
    BY <1>19, IdleIsTyped DEF MaintenanceFails, Finish
  <2>2. base' \in Ledger \cup {None} /\ wal' \in BOOLEAN
    BY <1>19, <1>0 DEF MaintenanceFails, Close, LedgerType
  <2>3. UNCHANGED <<active, archive, retired>>
    BY <1>19 DEF MaintenanceFails
  <2> QED
    BY <1>0, <2>1, <2>2, <2>3 DEF LedgerType
<1>20. ASSUME MaintenanceRefuses PROVE LedgerType'
  <2>1. maint' = Idle /\ Idle \in Command
    BY <1>20, IdleIsTyped DEF MaintenanceRefuses, Finish
  <2>2. base' \in Ledger \cup {None} /\ wal' \in BOOLEAN
    BY <1>20, <1>0 DEF MaintenanceRefuses, Close, LedgerType
  <2>3. UNCHANGED <<active, archive, retired>>
    BY <1>20 DEF MaintenanceRefuses
  <2> QED
    BY <1>0, <2>1, <2>2, <2>3 DEF LedgerType
<1>21. ASSUME Listing PROVE LedgerType'
  BY <1>21, <1>0
     DEF Listing, ListFirst, ListNext, ListEnd, LedgerType, Command, disk, ledgers
<1>22. CASE UNCHANGED vars
  BY <1>22, <1>0 DEF LedgerType, Command, vars, disk, ledgers
<1> QED
  BY <1>1, <1>2, <1>3, <1>4, <1>5, <1>6, <1>7, <1>8, <1>9, <1>10, <1>11, <1>12, <1>13,
     <1>14, <1>15, <1>16, <1>17, <1>18, <1>19, <1>20, <1>21, <1>22
     DEF Next, Agent, Maintenance, RowAction

\* Every step keeps the type of the listing.
LEMMA NextListType ==
    ASSUME TypeOK, ActiveInv, CommandInv, [Next]_vars
    PROVE  ListType'
<1>0. ListType
  BY DEF TypeOK
<1>1. ASSUME NEW f \in Auths, OpenCreates(f) PROVE ListType'
  BY <1>1, <1>0 DEF OpenCreates, Commit, LiveLease, ListType, Lists, disk, ledgers
<1>2. ASSUME NEW f \in Auths, OpenExisting(f) PROVE ListType'
  BY <1>2, <1>0 DEF OpenExisting, Commit, LiveLease, ListType, Lists, disk, ledgers
<1>3. ASSUME OpenDies PROVE ListType'
  BY <1>3, <1>0 DEF OpenDies, Fault, LiveLease, ListType, Lists, disk, ledgers
<1>4. ASSUME StartDisabled PROVE ListType'
  BY <1>4, <1>0 DEF StartDisabled, LiveLease, ListType, Lists, disk, ledgers
<1>5. ASSUME StopAgent PROVE ListType'
  BY <1>5, <1>0 DEF StopAgent, Close, ListType, Lists, disk, ledgers
<1>6. ASSUME CrashAgent PROVE ListType'
  BY <1>6, <1>0 DEF CrashAgent, Fault, ListType, Lists, disk, ledgers
<1>7. ASSUME NEW a \in Artifacts, Publish(a) PROVE ListType'
  BY <1>7, <1>0 DEF Publish, ListType, Lists, disk, ledgers
<1>8. ASSUME NEW a \in Artifacts, RowAction(a) PROVE ListType'
  BY <1>8, <1>0 DEF RowAction, Record, Settle, Requeue, ListType
<1>9. ASSUME NEW a \in Artifacts, Reclaim(a) PROVE ListType'
  BY <1>9, <1>0 DEF Reclaim, ListType, Lists, disk, ledgers
<1>10. ASSUME MigrateBegin PROVE ListType'
  BY <1>10, <1>0 DEF MigrateBegin, MaintenanceLease, Goto, ListType, Lists, disk, ledgers
<1>11. ASSUME MigrateV3ToV4 PROVE ListType'
  BY <1>11, <1>0 DEF MigrateV3ToV4, Commit, Goto, At, ListType, Lists, disk, ledgers
<1>12. ASSUME MigrateEnd PROVE ListType'
  BY <1>12, <1>0 DEF MigrateEnd, Close, Finish, At, ListType, Lists, disk, ledgers
<1>13. ASSUME NEW i \in Ids, ArchiveBegin(i) PROVE ListType'
  BY <1>13, <1>0 DEF ArchiveBegin, MaintenanceLease, ListType, Lists, disk, ledgers
<1>14. ASSUME ArchiveVerify PROVE ListType'
  BY <1>14, <1>0 DEF ArchiveVerify, Close, Goto, At, ListType, Lists, disk, ledgers
<1>15. ASSUME ArchiveResume PROVE ListType'
  BY <1>15, <1>0 DEF ArchiveResume, Goto, At, ListType, Lists, disk, ledgers
<1>16. ASSUME ArchiveBackup PROVE ListType'
  BY <1>16, <1>0 DEF ArchiveBackup, At, ListType, Lists, disk, ledgers
<1>17. ASSUME ArchivePublish PROVE ListType'
  BY <1>17, <1>0 DEF ArchivePublish, At, ListType, Lists, disk, ledgers
<1>18. ASSUME ArchiveRetire PROVE ListType'
  BY <1>18, <1>0 DEF ArchiveRetire, Finish, At, ListType, Lists, disk, ledgers
<1>19. ASSUME MaintenanceFails PROVE ListType'
  BY <1>19, <1>0 DEF MaintenanceFails, Fault, Close, Finish, ListType, Lists, disk, ledgers
<1>20. ASSUME MaintenanceRefuses PROVE ListType'
  BY <1>20, <1>0 DEF MaintenanceRefuses, Close, Finish, At, ListType, Lists, disk, ledgers
<1>21. ASSUME Listing PROVE ListType'
  <2>1. ASSUME NEW l \in Lists, NEW high \in Nat, NEW before \in Nat, NEW filter \in SUBSET RowStates,
               agent = "enabled"
        PROVE  Listed(l, high, before, filter) \in Lists
    BY <2>1, ListedIsTyped
  <2>2. NoList \in Lists
    BY NoListIsTyped
  <2>3. ASSUME NEW filter \in SUBSET RowStates, ListFirst(filter) PROVE list' \in Lists
    <3> DEFINE high == Cardinality(Recorded(active))
               start == [NoList EXCEPT !.snap = Shown(active, Matching(active, high, 0, filter))]
    <3>1. high \in Nat
      BY RowsAreFinite DEF Recorded
    <3>2. list' = Listed(start, high, 0, filter) /\ agent = "enabled"
      BY <2>3 DEF ListFirst
    <3>3. start \in Lists
      BY <3>2, ShownIsTyped, NoListIsTyped DEF Lists
    <3> HIDE DEF high, start
    <3> QED
      BY <2>1, <3>1, <3>2, <3>3
  <2>4. ASSUME ListNext PROVE list' \in Lists
    BY <1>0, <2>1, <2>4 DEF ListNext, ListType, Lists
  <2>5. ASSUME ListEnd PROVE list' \in Lists
    BY <2>2, <2>5 DEF ListEnd
  <2>6. RowStates \in SUBSET RowStates /\ {"failed"} \in SUBSET RowStates
    BY DEF RowStates
  <2> QED
    BY <1>21, <2>3, <2>4, <2>5, <2>6 DEF Listing, ListType
<1>22. CASE UNCHANGED vars
  BY <1>22, <1>0 DEF ListType, Lists, vars, disk, ledgers
<1> QED
  BY <1>1, <1>2, <1>3, <1>4, <1>5, <1>6, <1>7, <1>8, <1>9, <1>10, <1>11, <1>12, <1>13,
     <1>14, <1>15, <1>16, <1>17, <1>18, <1>19, <1>20, <1>21, <1>22
     DEF Next, Agent, Maintenance, RowAction

\* No step publishes a name twice.
LEMMA NextFresh ==
    ASSUME TypeOK, FreshInv, ActiveInv, CommandInv, OwnerInv, [Next]_vars
    PROVE  FreshInv'
<1>1. ASSUME NEW f \in Auths, OpenCreates(f) PROVE FreshInv'
  BY <1>1, CreatedEffect DEF FreshInv, disk
<1>2. ASSUME NEW f \in Auths, OpenExisting(f) PROVE FreshInv'
  BY <1>2, OpenedEffect DEF FreshInv, disk, Recorded
<1>3. ASSUME OpenDies PROVE FreshInv'
  <2>1. active' = Empty /\ UNCHANGED <<disk, owner>>
    BY <1>3 DEF OpenDies
  <2> QED
    BY <2>1, EmptyLedger DEF FreshInv, disk
<1>4. ASSUME StartDisabled PROVE FreshInv'
  BY <1>4 DEF StartDisabled, LiveLease, FreshInv, Recorded, disk, ledgers
<1>5. ASSUME StopAgent PROVE FreshInv'
  BY <1>5 DEF StopAgent, Close, FreshInv, Recorded, disk, ledgers
<1>6. ASSUME CrashAgent PROVE FreshInv'
  BY <1>6 DEF CrashAgent, Fault, FreshInv, Recorded, disk, ledgers
<1>7. ASSUME NEW a \in Artifacts, Publish(a) PROVE FreshInv'
  <2>1. files' = files \cup {a} /\ fresh' = fresh \ {a} /\ UNCHANGED active
    BY <1>7 DEF Publish, ledgers
  <2>2. \A b \in fresh' : owner'[b] = owner[b]
    BY <1>7, <2>1 DEF Publish, TypeOK, DiskType
  <2> QED
    BY <2>1, <2>2 DEF FreshInv, Recorded
<1>8. ASSUME NEW a \in Artifacts, RowAction(a) PROVE FreshInv'
  <2>1. /\ a \notin fresh /\ active # None /\ active'.pre = active.pre
        /\ Recorded(active') = Recorded(active) \cup {a}
        /\ files' = files /\ fresh' = fresh
        /\ \A b \in Artifacts : b # a => owner'[b] = owner[b]
    BY <1>8, RowStep DEF disk
  <2>2. fresh \subseteq Artifacts
    BY DEF TypeOK, DiskType
  <2>3. \A b \in fresh' : owner'[b] = None
    BY <2>1, <2>2 DEF FreshInv
  <2>4. fresh' \cap (Recorded(active') \cup active'.pre) = {}
    BY <2>1 DEF FreshInv
  <2> QED
    BY <2>1, <2>3, <2>4 DEF FreshInv
<1>9. ASSUME NEW a \in Artifacts, Reclaim(a) PROVE FreshInv'
  BY <1>9 DEF Reclaim, FreshInv, Recorded, disk, ledgers
<1>10. ASSUME MigrateBegin PROVE FreshInv'
  BY <1>10 DEF MigrateBegin, MaintenanceLease, Goto, FreshInv, Recorded, disk, ledgers
<1>11. ASSUME MigrateV3ToV4 PROVE FreshInv'
  BY <1>11, MigratedEffect DEF FreshInv, disk
<1>12. ASSUME MigrateEnd PROVE FreshInv'
  BY <1>12 DEF MigrateEnd, Close, Finish, At, FreshInv, Recorded, disk, ledgers
<1>13. ASSUME NEW i \in Ids, ArchiveBegin(i) PROVE FreshInv'
  BY <1>13 DEF ArchiveBegin, MaintenanceLease, FreshInv, Recorded, disk, ledgers
<1>14. ASSUME ArchiveVerify PROVE FreshInv'
  BY <1>14 DEF ArchiveVerify, Close, Goto, At, FreshInv, Recorded, disk, ledgers
<1>15. ASSUME ArchiveResume PROVE FreshInv'
  BY <1>15 DEF ArchiveResume, Goto, At, FreshInv, Recorded, disk, ledgers
<1>16. ASSUME ArchiveBackup PROVE FreshInv'
  BY <1>16 DEF ArchiveBackup, At, FreshInv, Recorded, disk, ledgers
<1>17. ASSUME ArchivePublish PROVE FreshInv'
  BY <1>17 DEF ArchivePublish, At, FreshInv, Recorded, disk, ledgers
<1>18. ASSUME ArchiveRetire PROVE FreshInv'
  BY <1>18 DEF ArchiveRetire, Finish, At, FreshInv, Recorded, disk, ledgers
<1>19. ASSUME MaintenanceFails PROVE FreshInv'
  BY <1>19 DEF MaintenanceFails, Fault, Close, Finish, FreshInv, Recorded, disk, ledgers
<1>20. ASSUME MaintenanceRefuses PROVE FreshInv'
  BY <1>20 DEF MaintenanceRefuses, Close, Finish, At, FreshInv, Recorded, disk, ledgers
<1>21. ASSUME Listing PROVE FreshInv'
  BY <1>21 DEF Listing, ListFirst, ListNext, ListEnd, FreshInv, Recorded, disk, ledgers
<1>22. CASE UNCHANGED vars
  BY <1>22 DEF FreshInv, Recorded, vars, disk, ledgers
<1> QED
  BY <1>1, <1>2, <1>3, <1>4, <1>5, <1>6, <1>7, <1>8, <1>9, <1>10, <1>11, <1>12, <1>13,
     <1>14, <1>15, <1>16, <1>17, <1>18, <1>19, <1>20, <1>21, <1>22
     DEF Next, Agent, Maintenance, RowAction

\* Every step leaves a ledger that its version describes.
LEMMA NextActive ==
    ASSUME TypeOK, FreshInv, ActiveInv, CommandInv, OwnerInv, [Next]_vars
    PROVE  ActiveInv'
<1>1. ASSUME NEW f \in Auths, OpenCreates(f) PROVE ActiveInv'
  BY <1>1, CreatedEffect DEF ActiveInv
<1>2. ASSUME NEW f \in Auths, OpenExisting(f) PROVE ActiveInv'
  BY <1>2, OpenedEffect DEF ActiveInv, Recorded
<1>3. ASSUME OpenDies PROVE ActiveInv'
  <2>1. active' = Empty
    BY <1>3 DEF OpenDies
  <2> QED
    BY <2>1, EmptyLedger DEF ActiveInv
<1>4. ASSUME StartDisabled PROVE ActiveInv'
  BY <1>4 DEF StartDisabled, LiveLease, ActiveInv, Recorded, disk, ledgers
<1>5. ASSUME StopAgent PROVE ActiveInv'
  BY <1>5 DEF StopAgent, Close, ActiveInv, Recorded, disk, ledgers
<1>6. ASSUME CrashAgent PROVE ActiveInv'
  BY <1>6 DEF CrashAgent, Fault, ActiveInv, Recorded, disk, ledgers
<1>7. ASSUME NEW a \in Artifacts, Publish(a) PROVE ActiveInv'
  BY <1>7 DEF Publish, ActiveInv, Recorded, disk, ledgers
<1>8. ASSUME NEW a \in Artifacts, RowAction(a) PROVE ActiveInv'
  <2>1. /\ a \notin active.pre /\ active'.pre = active.pre /\ active # None
        /\ Recorded(active') = Recorded(active) \cup {a} /\ active'.rows[a].id > 0
        /\ \A b \in Artifacts : b # a => active'.rows[b] = active.rows[b]
        /\ active'.ver = active.ver /\ active'.auth = active.auth /\ active'.id = active.id
        /\ retired' = retired
    BY <1>8, RowStep
  <2>2. \A b \in Recorded(active) : b \in Artifacts
    BY DEF Recorded
  <2>3. \A b \in Recorded(active') : active'.rows[b].id > 0
    BY <2>1, <2>2 DEF ActiveInv
  <2>4. Recorded(active') \cap active'.pre = {}
    BY <2>1 DEF ActiveInv
  <2> QED
    BY <2>1, <2>3, <2>4 DEF ActiveInv
<1>9. ASSUME NEW a \in Artifacts, Reclaim(a) PROVE ActiveInv'
  BY <1>9 DEF Reclaim, ActiveInv, Recorded, disk, ledgers
<1>10. ASSUME MigrateBegin PROVE ActiveInv'
  BY <1>10 DEF MigrateBegin, MaintenanceLease, Goto, ActiveInv, Recorded, disk, ledgers
<1>11. ASSUME MigrateV3ToV4 PROVE ActiveInv'
  <2>1. \A b \in Recorded(active') : b \in Artifacts /\ active'.rows[b].id > 0
    BY <1>11, MigratedEffect DEF ActiveInv, Recorded
  <2> QED
    BY <1>11, <2>1, MigratedEffect DEF ActiveInv
<1>12. ASSUME MigrateEnd PROVE ActiveInv'
  BY <1>12 DEF MigrateEnd, Close, Finish, At, ActiveInv, Recorded, disk, ledgers
<1>13. ASSUME NEW i \in Ids, ArchiveBegin(i) PROVE ActiveInv'
  BY <1>13 DEF ArchiveBegin, MaintenanceLease, ActiveInv, Recorded, disk, ledgers
<1>14. ASSUME ArchiveVerify PROVE ActiveInv'
  BY <1>14 DEF ArchiveVerify, Close, Goto, At, ActiveInv, Recorded, disk, ledgers
<1>15. ASSUME ArchiveResume PROVE ActiveInv'
  BY <1>15 DEF ArchiveResume, Goto, At, ActiveInv, Recorded, disk, ledgers
<1>16. ASSUME ArchiveBackup PROVE ActiveInv'
  BY <1>16 DEF ArchiveBackup, At, ActiveInv, Recorded, disk, ledgers
<1>17. ASSUME ArchivePublish PROVE ActiveInv'
  BY <1>17 DEF ArchivePublish, At, ActiveInv, Recorded, disk, ledgers
<1>18. ASSUME ArchiveRetire PROVE ActiveInv'
  BY <1>18 DEF ArchiveRetire, Finish, At, ActiveInv, Recorded, disk, ledgers
<1>19. ASSUME MaintenanceFails PROVE ActiveInv'
  BY <1>19 DEF MaintenanceFails, Fault, Close, Finish, ActiveInv, Recorded, disk, ledgers
<1>20. ASSUME MaintenanceRefuses PROVE ActiveInv'
  BY <1>20 DEF MaintenanceRefuses, Close, Finish, At, ActiveInv, Recorded, disk, ledgers
<1>21. ASSUME Listing PROVE ActiveInv'
  BY <1>21 DEF Listing, ListFirst, ListNext, ListEnd, ActiveInv, Recorded, disk, ledgers
<1>22. CASE UNCHANGED vars
  BY <1>22 DEF ActiveInv, Recorded, vars, disk, ledgers
<1> QED
  BY <1>1, <1>2, <1>3, <1>4, <1>5, <1>6, <1>7, <1>8, <1>9, <1>10, <1>11, <1>12, <1>13,
     <1>14, <1>15, <1>16, <1>17, <1>18, <1>19, <1>20, <1>21, <1>22
     DEF Next, Agent, Maintenance, RowAction

\* No step changes what a maintenance command has checked.
LEMMA NextCommand ==
    ASSUME TypeOK, FreshInv, ActiveInv, CommandInv, OwnerInv, [Next]_vars
    PROVE  CommandInv'
<1>1. ASSUME NEW f \in Auths, OpenCreates(f) PROVE CommandInv'
  <2>1. VerifyV4(active')
    BY <1>1, CreatedEffect DEF VerifyV4, IsV4
  <2>2. /\ wal' /\ agent' = "enabled" /\ maint.pc = "idle" /\ active' # None
        /\ UNCHANGED <<maint, archive, retired>>
    BY <1>1, CreatedEffect DEF CommandInv, LedgersAreSound
  <2> QED
    BY <2>1, <2>2 DEF CommandInv, LedgersAreSound, At, VerifyV4
<1>2. ASSUME NEW f \in Auths, OpenExisting(f) PROVE CommandInv'
  <2>1. VerifyV4(active')
    BY <1>2, OpenedEffect DEF VerifyV4, IsV4
  <2>2. /\ wal' /\ agent' = "enabled" /\ maint.pc = "idle" /\ active' # None
        /\ UNCHANGED <<maint, archive, retired>>
    BY <1>2, OpenedEffect DEF CommandInv, LedgersAreSound
  <2> QED
    BY <2>1, <2>2 DEF CommandInv, LedgersAreSound, At, VerifyV4
<1>3. ASSUME OpenDies PROVE CommandInv'
  BY <1>3
     DEF OpenDies, Fault, LiveLease, CommandInv, LedgersAreSound, At, VerifyV3, VerifyV4,
         IsV4, LiveRowsBound, CountsAgree, InState, Terminal, ArchiveReady, Gap, Recorded,
         disk, ledgers
<1>4. ASSUME StartDisabled PROVE CommandInv'
  BY <1>4
     DEF StartDisabled, LiveLease, CommandInv, LedgersAreSound, At, VerifyV3, VerifyV4,
         IsV4, LiveRowsBound, CountsAgree, InState, Terminal, ArchiveReady, Gap, Recorded,
         disk, ledgers
<1>5. ASSUME StopAgent PROVE CommandInv'
  BY <1>5
     DEF StopAgent, Close, CommandInv, LedgersAreSound, At, VerifyV3, VerifyV4, IsV4,
         LiveRowsBound, CountsAgree, InState, Terminal, ArchiveReady, Gap, Recorded, disk,
         ledgers
<1>6. ASSUME CrashAgent PROVE CommandInv'
  BY <1>6
     DEF CrashAgent, Fault, CommandInv, LedgersAreSound, At, VerifyV3, VerifyV4, IsV4,
         LiveRowsBound, CountsAgree, InState, Terminal, ArchiveReady, Gap, Recorded, disk,
         ledgers
<1>7. ASSUME NEW a \in Artifacts, Publish(a) PROVE CommandInv'
  BY <1>7
     DEF Publish, CommandInv, LedgersAreSound, At, VerifyV3, VerifyV4, IsV4, LiveRowsBound,
         CountsAgree, InState, Terminal, ArchiveReady, Gap, Recorded, disk, ledgers
<1>8. ASSUME NEW a \in Artifacts, RowAction(a) PROVE CommandInv'
  <2>1. VerifyV4(active')
    BY <1>8, RowStep DEF VerifyV4, IsV4
  <2>2. /\ wal' /\ agent' = "enabled" /\ maint.pc = "idle" /\ active' # None
        /\ UNCHANGED <<maint, archive, retired>>
    BY <1>8, RowStep DEF CommandInv, LedgersAreSound
  <2> QED
    BY <2>1, <2>2 DEF CommandInv, LedgersAreSound, At, VerifyV4
<1>9. ASSUME NEW a \in Artifacts, Reclaim(a) PROVE CommandInv'
  BY <1>9
     DEF Reclaim, CommandInv, LedgersAreSound, At, VerifyV3, VerifyV4, IsV4, LiveRowsBound,
         CountsAgree, InState, Terminal, ArchiveReady, Gap, Recorded, disk, ledgers
<1>10. ASSUME MigrateBegin PROVE CommandInv'
  BY <1>10
     DEF MigrateBegin, MaintenanceLease, Goto, CommandInv, LedgersAreSound, At, VerifyV3,
         VerifyV4, IsV4, LiveRowsBound, CountsAgree, InState, Terminal, ArchiveReady, Gap,
         Recorded, disk, ledgers
<1>11. ASSUME MigrateV3ToV4 PROVE CommandInv'
  <2>1. VerifyV4(active')
    BY <1>11, MigratedEffect DEF VerifyV4, IsV4
  <2>2. /\ wal' /\ agent' = "off" /\ maint'.pc = "migrated" /\ active' # None
        /\ UNCHANGED <<archive, retired>>
    BY <1>11, MigratedEffect DEF CommandInv, LedgersAreSound, TypeOK, LedgerType, Command
  <2> QED
    BY <2>1, <2>2 DEF CommandInv, LedgersAreSound, At
<1>12. ASSUME MigrateEnd PROVE CommandInv'
  <2>1. maint'.pc = "idle" /\ UNCHANGED <<agent, active, archive, retired>> /\ maint.pc # "idle"
    BY <1>12 DEF MigrateEnd, Finish, Idle, At
  <2>2. (~wal' => base' = active) /\ agent = "off"
    BY <1>12, <2>1 DEF MigrateEnd, Close, CommandInv, LedgersAreSound
  <2> QED
    BY <2>1, <2>2 DEF CommandInv, LedgersAreSound, At, VerifyV3, VerifyV4, IsV4, CountsAgree,
                      LiveRowsBound, InState
<1>13. ASSUME NEW i \in Ids, ArchiveBegin(i) PROVE CommandInv'
  BY <1>13
     DEF ArchiveBegin, MaintenanceLease, CommandInv, LedgersAreSound, At, VerifyV3,
         VerifyV4, IsV4, LiveRowsBound, CountsAgree, InState, Terminal, ArchiveReady, Gap,
         Recorded, disk, ledgers
<1>14. ASSUME ArchiveVerify PROVE CommandInv'
  BY <1>14
     DEF ArchiveVerify, Close, Goto, At, CommandInv, LedgersAreSound, VerifyV3, VerifyV4,
         IsV4, LiveRowsBound, CountsAgree, InState, Terminal, ArchiveReady, Gap, Recorded,
         disk, ledgers
<1>15. ASSUME ArchiveResume PROVE CommandInv'
  BY <1>15
     DEF ArchiveResume, Goto, At, CommandInv, LedgersAreSound, VerifyV3, VerifyV4, IsV4,
         LiveRowsBound, CountsAgree, InState, Terminal, ArchiveReady, Gap, Recorded, disk,
         ledgers
<1>16. ASSUME ArchiveBackup PROVE CommandInv'
  BY <1>16
     DEF ArchiveBackup, At, CommandInv, LedgersAreSound, VerifyV3, VerifyV4, IsV4,
         LiveRowsBound, CountsAgree, InState, Terminal, ArchiveReady, Gap, Recorded, disk,
         ledgers
<1>17. ASSUME ArchivePublish PROVE CommandInv'
  <2>1. /\ maint.pc = "publish" /\ maint'.pc = "retire" /\ maint'.id = maint.id /\ maint.id \in Ids
        /\ archive' = [archive EXCEPT ![maint.id] = maint.copy] /\ archive[maint.id] = None
        /\ UNCHANGED <<disk, agent, active, base, wal, retired>>
    BY <1>17 DEF ArchivePublish, At, CommandInv, TypeOK, LedgerType, Command
  <2>2. archive'[maint.id] = active
    BY <2>1 DEF CommandInv, LedgersAreSound, TypeOK, LedgerType
  <2>3. \A i \in Ids : retired[i] # None => archive'[i] = retired[i]
    BY <2>1 DEF CommandInv, LedgersAreSound, TypeOK, LedgerType
  <2> QED
    BY <2>1, <2>2, <2>3 DEF CommandInv, LedgersAreSound, At, VerifyV3, VerifyV4, IsV4, CountsAgree,
                      LiveRowsBound, InState, ArchiveReady, Terminal, Gap, Recorded, disk
<1>18. ASSUME ArchiveRetire PROVE CommandInv'
  <2>1. /\ maint.pc = "retire" /\ maint'.pc = "idle" /\ maint.id \in Ids /\ base = active
        /\ retired' = [retired EXCEPT ![maint.id] = base] /\ active' = None /\ base' = None
        /\ agent = "off" /\ UNCHANGED <<agent, archive, wal>>
    BY <1>18 DEF ArchiveRetire, At, Finish, Idle, CommandInv, LedgersAreSound
  <2>2. \A i \in Ids : retired'[i] # None => archive[i] = retired'[i]
    BY <2>1 DEF CommandInv, LedgersAreSound, TypeOK, LedgerType, At
  <2> QED
    BY <2>1, <2>2 DEF CommandInv, LedgersAreSound, At
<1>19. ASSUME MaintenanceFails PROVE CommandInv'
  <2>1. maint'.pc = "idle" /\ UNCHANGED <<agent, active, archive, retired>> /\ maint.pc # "idle"
    BY <1>19 DEF MaintenanceFails, Finish, Idle, At
  <2>2. (~wal' => base' = active) /\ agent = "off"
    BY <1>19, <2>1 DEF MaintenanceFails, Close, CommandInv, LedgersAreSound
  <2> QED
    BY <2>1, <2>2 DEF CommandInv, LedgersAreSound, At, VerifyV3, VerifyV4, IsV4, CountsAgree,
                      LiveRowsBound, InState
<1>20. ASSUME MaintenanceRefuses PROVE CommandInv'
  <2>1. maint'.pc = "idle" /\ UNCHANGED <<agent, active, archive, retired>> /\ maint.pc # "idle"
    BY <1>20 DEF MaintenanceRefuses, Finish, Idle, At
  <2>2. (~wal' => base' = active) /\ agent = "off"
    BY <1>20, <2>1 DEF MaintenanceRefuses, Close, CommandInv, LedgersAreSound
  <2> QED
    BY <2>1, <2>2 DEF CommandInv, LedgersAreSound, At, VerifyV3, VerifyV4, IsV4, CountsAgree,
                      LiveRowsBound, InState
<1>21. ASSUME Listing PROVE CommandInv'
  BY <1>21
     DEF Listing, ListFirst, ListNext, ListEnd, CommandInv, LedgersAreSound, At, VerifyV3,
         VerifyV4, IsV4, LiveRowsBound, CountsAgree, InState, Terminal, ArchiveReady, Gap,
         Recorded, disk, ledgers
<1>22. CASE UNCHANGED vars
  BY <1>22
     DEF CommandInv, LedgersAreSound, At, VerifyV3, VerifyV4, IsV4, LiveRowsBound,
         CountsAgree, InState, Terminal, ArchiveReady, Gap, Recorded, vars, disk, ledgers
<1> QED
  BY <1>1, <1>2, <1>3, <1>4, <1>5, <1>6, <1>7, <1>8, <1>9, <1>10, <1>11, <1>12, <1>13,
     <1>14, <1>15, <1>16, <1>17, <1>18, <1>19, <1>20, <1>21, <1>22
     DEF Next, Agent, Maintenance, RowAction

\* No step moves an unfinished row to another account.
LEMMA NextOwner ==
    ASSUME TypeOK, FreshInv, ActiveInv, CommandInv, OwnerInv, [Next]_vars
    PROVE  OwnerInv'
<1>1. ASSUME NEW f \in Auths, OpenCreates(f) PROVE OwnerInv'
  <2>1. Gap(active)' = {}
    BY <1>1, CreatedEffect DEF Gap, disk
  <2> QED
    BY <1>1, <2>1, CreatedEffect DEF OwnerInv
<1>2. ASSUME NEW f \in Auths, OpenExisting(f) PROVE OwnerInv'
  <2>1. Gap(active)' = Gap(active)
    BY <1>2, OpenedEffect DEF Gap, disk, Recorded
  <2>2. \A a \in Artifacts : active'.rows[a] = active.rows[a] /\ owner'[a] = owner[a]
    BY <1>2, OpenedEffect
  <2>3. active # None /\ active.ver = 4 /\ active'.ver = 4 /\ UNCHANGED owner
    BY <1>2, OpenedEffect
  <2>4. Gap(active) = {} \/ active'.auth = active.auth
    BY <1>2, OpenedEffect
  <2> QED
    BY <2>1, <2>2, <2>3, <2>4 DEF OwnerInv
<1>3. ASSUME OpenDies PROVE OwnerInv'
  <2>1. active' = Empty
    BY <1>3 DEF OpenDies
  <2> QED
    BY <2>1, EmptyLedger DEF OwnerInv
<1>4. ASSUME StartDisabled PROVE OwnerInv'
  BY <1>4 DEF StartDisabled, LiveLease, OwnerInv, Gap, Recorded, disk, ledgers
<1>5. ASSUME StopAgent PROVE OwnerInv'
  BY <1>5 DEF StopAgent, Close, OwnerInv, Gap, Recorded, disk, ledgers
<1>6. ASSUME CrashAgent PROVE OwnerInv'
  BY <1>6 DEF CrashAgent, Fault, OwnerInv, Gap, Recorded, disk, ledgers
<1>7. ASSUME NEW a \in Artifacts, Publish(a) PROVE OwnerInv'
  <2>1. /\ files' = files \cup {a} /\ UNCHANGED active /\ a \in fresh
        /\ IF agent = "enabled" THEN owner' = [owner EXCEPT ![a] = active.auth] ELSE owner' = owner
    BY <1>7 DEF Publish, ledgers
  <2>2. owner \in [Artifacts -> Auths \cup {None}] /\ owner[a] = None
    BY <2>1 DEF TypeOK, DiskType, FreshInv
  <2>3. CASE active = None
    BY <2>1, <2>3 DEF OwnerInv
  <2>4. CASE active # None
    <3>1. active.rows[a].st = "none"
      BY <2>1, <2>4 DEF FreshInv, Recorded
    <3>2. \A b \in Artifacts : b # a => owner'[b] = owner[b]
      BY <2>1, <2>2
    <3>3. owner'[a] \in {None, active.auth}
      BY <2>1, <2>2
    <3>4. Gap(active)' \subseteq Gap(active) \cup {a}
      BY <2>1 DEF Gap, Recorded
    <3>5. Gap(active)' \subseteq Artifacts
      BY <2>1 DEF Gap, TypeOK, DiskType
    <3> QED
      BY <2>1, <3>1, <3>2, <3>3, <3>4, <3>5 DEF OwnerInv
  <2> QED
    BY <2>3, <2>4
<1>8. ASSUME NEW a \in Artifacts, RowAction(a) PROVE OwnerInv'
  <2>1. /\ files' = files /\ active'.pre = active.pre /\ files \subseteq Artifacts
        /\ Recorded(active') = Recorded(active) \cup {a}
    BY <1>8, RowStep DEF disk, TypeOK, DiskType
  <2>2. /\ Gap(active)' = Gap(active) \ {a} /\ Gap(active) \subseteq Artifacts
    BY <2>1 DEF Gap

  <2>3. /\ active # None /\ active.ver = 4 /\ active'.ver = 4 /\ active'.auth = active.auth
        /\ \A b \in Artifacts : b # a => active'.rows[b] = active.rows[b] /\ owner'[b] = owner[b]
        /\ active'.rows[a].st \in {"live", "failed"} /\ active'.rows[a].bind \in Auths
             => owner'[a] = active'.rows[a].bind
    BY <1>8, RowStep
  <2> QED
    BY <2>2, <2>3 DEF OwnerInv
<1>9. ASSUME NEW a \in Artifacts, Reclaim(a) PROVE OwnerInv'
  BY <1>9 DEF Reclaim, OwnerInv, Gap, Recorded, disk, ledgers
<1>10. ASSUME MigrateBegin PROVE OwnerInv'
  BY <1>10 DEF MigrateBegin, MaintenanceLease, Goto, OwnerInv, Gap, Recorded, disk, ledgers
<1>11. ASSUME MigrateV3ToV4 PROVE OwnerInv'
  <2>1. Gap(active)' = Gap(active) /\ Gap(active) \subseteq Artifacts
    BY <1>11, MigratedEffect DEF Gap, disk, TypeOK, DiskType
  <2> QED
    BY <1>11, <2>1, MigratedEffect DEF OwnerInv
<1>12. ASSUME MigrateEnd PROVE OwnerInv'
  BY <1>12 DEF MigrateEnd, Close, Finish, At, OwnerInv, Gap, Recorded, disk, ledgers
<1>13. ASSUME NEW i \in Ids, ArchiveBegin(i) PROVE OwnerInv'
  BY <1>13 DEF ArchiveBegin, MaintenanceLease, OwnerInv, Gap, Recorded, disk, ledgers
<1>14. ASSUME ArchiveVerify PROVE OwnerInv'
  BY <1>14 DEF ArchiveVerify, Close, Goto, At, OwnerInv, Gap, Recorded, disk, ledgers
<1>15. ASSUME ArchiveResume PROVE OwnerInv'
  BY <1>15 DEF ArchiveResume, Goto, At, OwnerInv, Gap, Recorded, disk, ledgers
<1>16. ASSUME ArchiveBackup PROVE OwnerInv'
  BY <1>16 DEF ArchiveBackup, At, OwnerInv, Gap, Recorded, disk, ledgers
<1>17. ASSUME ArchivePublish PROVE OwnerInv'
  BY <1>17 DEF ArchivePublish, At, OwnerInv, Gap, Recorded, disk, ledgers
<1>18. ASSUME ArchiveRetire PROVE OwnerInv'
  BY <1>18 DEF ArchiveRetire, Finish, At, OwnerInv, Gap, Recorded, disk, ledgers
<1>19. ASSUME MaintenanceFails PROVE OwnerInv'
  BY <1>19
     DEF MaintenanceFails, Fault, Close, Finish, OwnerInv, Gap, Recorded, disk, ledgers
<1>20. ASSUME MaintenanceRefuses PROVE OwnerInv'
  BY <1>20 DEF MaintenanceRefuses, Close, Finish, At, OwnerInv, Gap, Recorded, disk, ledgers
<1>21. ASSUME Listing PROVE OwnerInv'
  BY <1>21 DEF Listing, ListFirst, ListNext, ListEnd, OwnerInv, Gap, Recorded, disk, ledgers
<1>22. CASE UNCHANGED vars
  BY <1>22 DEF OwnerInv, Gap, Recorded, vars, disk, ledgers
<1> QED
  BY <1>1, <1>2, <1>3, <1>4, <1>5, <1>6, <1>7, <1>8, <1>9, <1>10, <1>11, <1>12, <1>13,
     <1>14, <1>15, <1>16, <1>17, <1>18, <1>19, <1>20, <1>21, <1>22
     DEF Next, Agent, Maintenance, RowAction

\* No step forgets a capture that is still to be delivered.
LEMMA NextOwed ==
    ASSUME TypeOK, FreshInv, ActiveInv, CommandInv, OwnerInv, OwedInv, [Next]_vars
    PROVE  OwedInv'
<1>1. ASSUME NEW f \in Auths, OpenCreates(f) PROVE OwedInv'
  <2>1. owed = {} /\ UNCHANGED owed /\ active' # None /\ active'.ver = 4
    BY <1>1, CreatedEffect DEF OwedInv, OwedIsSafe
  <2> QED
    BY <2>1 DEF OwedInv, OwedIsSafe
<1>2. ASSUME NEW f \in Auths, OpenExisting(f) PROVE OwedInv'
  <2>1. /\ active' # None /\ active'.rows = active.rows /\ active'.pre = active.pre
        /\ active'.ver = 4 /\ files' = files /\ owed' = owed
    BY <1>2, OpenedEffect DEF disk
  <2>2. active' # Empty
    BY <2>1, EmptyLedger
  <2>3. Gap(active)' = Gap(active)
    BY <2>1 DEF Gap, Recorded
  <2> QED
    BY <2>1, <2>2, <2>3 DEF OwedInv, OwedIsSafe
<1>3. ASSUME OpenDies PROVE OwedInv'
  BY <1>3 DEF OpenDies, Fault, LiveLease, OwedInv, OwedIsSafe, Gap, Recorded, disk, ledgers
<1>4. ASSUME StartDisabled PROVE OwedInv'
  BY <1>4 DEF StartDisabled, LiveLease, OwedInv, OwedIsSafe, Gap, Recorded, disk, ledgers
<1>5. ASSUME StopAgent PROVE OwedInv'
  BY <1>5 DEF StopAgent, Close, OwedInv, OwedIsSafe, Gap, Recorded, disk, ledgers
<1>6. ASSUME CrashAgent PROVE OwedInv'
  BY <1>6 DEF CrashAgent, Fault, OwedInv, OwedIsSafe, Gap, Recorded, disk, ledgers
<1>7. ASSUME NEW a \in Artifacts, Publish(a) PROVE OwedInv'
  <2>1. /\ files' = files \cup {a} /\ UNCHANGED active /\ a \in fresh
        /\ owed' \subseteq owed \cup {a}
        /\ agent # "enabled" => owed' = owed
    BY <1>7 DEF Publish, ledgers
  <2>2. \A b : b \in Gap(active) => b \in Gap(active)'
    BY <2>1 DEF Gap, Recorded
  <2>3. CASE agent = "enabled"
    <3>1. active # None /\ active.ver = 4 /\ active # Empty
      BY <2>3, EnabledLedger, EmptyLedger, NoneIsNoLedger
    <3>2. a \in Gap(active)'
      BY <2>1, <3>1 DEF FreshInv, Gap, Recorded
    <3> QED
      BY <2>1, <2>2, <3>1, <3>2 DEF OwedInv, OwedIsSafe
  <2>4. CASE agent # "enabled"
    BY <2>1, <2>2, <2>4 DEF OwedInv, OwedIsSafe
  <2> QED
    BY <2>3, <2>4
<1>8. ASSUME NEW a \in Artifacts, RowAction(a) PROVE OwedInv'
  <2>1. /\ files' = files /\ active'.pre = active.pre /\ files \subseteq Artifacts
        /\ Recorded(active') = Recorded(active) \cup {a}
    BY <1>8, RowStep DEF disk, TypeOK, DiskType
  <2>2. /\ Gap(active)' = Gap(active) \ {a} /\ Gap(active) \subseteq Artifacts
    BY <2>1 DEF Gap

  <2>3. /\ active' # None /\ active'.ver = 4
        /\ \A b \in Artifacts : b # a => active'.rows[b] = active.rows[b]
        /\ owed' \subseteq owed \cup {a} /\ (a \in owed' => a \in files \/ a \in owed)
        /\ a \in owed' => active'.rows[a].st \in {"live", "failed"}
    BY <1>8, RowStep
  <2>4. active' # Empty
    BY <2>3, EmptyLedger
  <2>5. owed \subseteq Artifacts
    BY DEF TypeOK, DiskType
  <2>6. ASSUME NEW b \in owed'
        PROVE  b \in files' /\ (active'.rows[b].st \in {"live", "failed"} \/ b \in Gap(active)')
    <3>1. CASE b = a
      BY <2>1, <2>3, <2>6, <3>1 DEF OwedInv, OwedIsSafe
    <3>2. CASE b # a
      BY <2>1, <2>2, <2>3, <2>5, <2>6, <3>2 DEF OwedInv, OwedIsSafe
    <3> QED
      BY <3>1, <3>2
  <2> QED
    BY <2>3, <2>4, <2>6 DEF OwedInv, OwedIsSafe
<1>9. ASSUME NEW a \in Artifacts, Reclaim(a) PROVE OwedInv'
  <2>1. a \notin owed
    BY <1>9 DEF Reclaim, OwedInv, OwedIsSafe, Gap, Recorded, ActiveInv
  <2>2. files' = files \ {a} /\ UNCHANGED <<active, owed>>
    BY <1>9 DEF Reclaim, ledgers
  <2> QED
    BY <2>1, <2>2 DEF OwedInv, OwedIsSafe, Gap, Recorded
<1>10. ASSUME MigrateBegin PROVE OwedInv'
  BY <1>10
     DEF MigrateBegin, MaintenanceLease, Goto, OwedInv, OwedIsSafe, Gap, Recorded, disk,
         ledgers
<1>11. ASSUME MigrateV3ToV4 PROVE OwedInv'
  <2>1. /\ Gap(active)' = Gap(active) /\ UNCHANGED <<owed, files>> /\ owed \subseteq Artifacts
        /\ active' # None /\ active'.ver = 4
        /\ \A a \in Artifacts : active'.rows[a].st = active.rows[a].st
    BY <1>11, MigratedEffect DEF Gap, disk, TypeOK, DiskType
  <2>2. active' # Empty
    BY <2>1, EmptyLedger
  <2> QED
    BY <2>1, <2>2 DEF OwedInv, OwedIsSafe
<1>12. ASSUME MigrateEnd PROVE OwedInv'
  BY <1>12
     DEF MigrateEnd, Close, Finish, At, OwedInv, OwedIsSafe, Gap, Recorded, disk, ledgers
<1>13. ASSUME NEW i \in Ids, ArchiveBegin(i) PROVE OwedInv'
  BY <1>13
     DEF ArchiveBegin, MaintenanceLease, OwedInv, OwedIsSafe, Gap, Recorded, disk, ledgers
<1>14. ASSUME ArchiveVerify PROVE OwedInv'
  BY <1>14
     DEF ArchiveVerify, Close, Goto, At, OwedInv, OwedIsSafe, Gap, Recorded, disk, ledgers
<1>15. ASSUME ArchiveResume PROVE OwedInv'
  BY <1>15 DEF ArchiveResume, Goto, At, OwedInv, OwedIsSafe, Gap, Recorded, disk, ledgers
<1>16. ASSUME ArchiveBackup PROVE OwedInv'
  BY <1>16 DEF ArchiveBackup, At, OwedInv, OwedIsSafe, Gap, Recorded, disk, ledgers
<1>17. ASSUME ArchivePublish PROVE OwedInv'
  BY <1>17 DEF ArchivePublish, At, OwedInv, OwedIsSafe, Gap, Recorded, disk, ledgers
<1>18. ASSUME ArchiveRetire PROVE OwedInv'
  <2>1. ArchiveReady(active) /\ active # None /\ active' = None /\ UNCHANGED owed
    BY <1>18 DEF ArchiveRetire, At, CommandInv
  <2>2. \A a \in Artifacts : active.rows[a].st \notin {"live", "failed"} /\ a \notin Gap(active)
    BY <2>1 DEF ArchiveReady, Terminal, InState
  <2>3. owed = {}
    BY <2>2 DEF OwedInv, OwedIsSafe, TypeOK, DiskType
  <2> QED
    BY <2>1, <2>3 DEF OwedInv, OwedIsSafe
<1>19. ASSUME MaintenanceFails PROVE OwedInv'
  BY <1>19
     DEF MaintenanceFails, Fault, Close, Finish, OwedInv, OwedIsSafe, Gap, Recorded, disk,
         ledgers
<1>20. ASSUME MaintenanceRefuses PROVE OwedInv'
  BY <1>20
     DEF MaintenanceRefuses, Close, Finish, At, OwedInv, OwedIsSafe, Gap, Recorded, disk,
         ledgers
<1>21. ASSUME Listing PROVE OwedInv'
  BY <1>21
     DEF Listing, ListFirst, ListNext, ListEnd, OwedInv, OwedIsSafe, Gap, Recorded, disk,
         ledgers
<1>22. CASE UNCHANGED vars
  BY <1>22 DEF OwedInv, OwedIsSafe, Gap, Recorded, vars, disk, ledgers
<1> QED
  BY <1>1, <1>2, <1>3, <1>4, <1>5, <1>6, <1>7, <1>8, <1>9, <1>10, <1>11, <1>12, <1>13,
     <1>14, <1>15, <1>16, <1>17, <1>18, <1>19, <1>20, <1>21, <1>22
     DEF Next, Agent, Maintenance, RowAction

\* No step offers what an archived ledger delivered.
LEMMA NextDelivered ==
    ASSUME TypeOK, FreshInv, ActiveInv, CommandInv, OwnerInv, DeliveredInv, [Next]_vars
    PROVE  DeliveredInv'
<1>1. ASSUME NEW f \in Auths, OpenCreates(f) PROVE DeliveredInv'
  <2>1. Gap(active)' = {} /\ UNCHANGED <<retired, fresh>>
    BY <1>1, CreatedEffect DEF Gap, disk
  <2>2. \A a \in Artifacts : active'.rows[a].st = "none"
    BY <1>1, CreatedEffect
  <2> QED
    BY <2>1, <2>2 DEF DeliveredInv, InState
<1>2. ASSUME NEW f \in Auths, OpenExisting(f) PROVE DeliveredInv'
  <2>1. /\ Gap(active)' = Gap(active) /\ UNCHANGED <<retired, fresh>> /\ active # None
        /\ active'.rows = active.rows /\ active'.ver = active.ver
    BY <1>2, OpenedEffect DEF Gap, disk, Recorded
  <2> QED
    BY <2>1 DEF DeliveredInv, InState
<1>3. ASSUME OpenDies PROVE DeliveredInv'
  <2>1. active' = Empty /\ UNCHANGED <<retired, fresh>>
    BY <1>3 DEF OpenDies, disk
  <2> QED
    BY <2>1, EmptyLedger DEF DeliveredInv, InState
<1>4. ASSUME StartDisabled PROVE DeliveredInv'
  BY <1>4 DEF StartDisabled, LiveLease, DeliveredInv, InState, Gap, Recorded, disk, ledgers
<1>5. ASSUME StopAgent PROVE DeliveredInv'
  BY <1>5 DEF StopAgent, Close, DeliveredInv, InState, Gap, Recorded, disk, ledgers
<1>6. ASSUME CrashAgent PROVE DeliveredInv'
  BY <1>6 DEF CrashAgent, Fault, DeliveredInv, InState, Gap, Recorded, disk, ledgers
<1>7. ASSUME NEW a \in Artifacts, Publish(a) PROVE DeliveredInv'
  <2>1. /\ files' = files \cup {a} /\ fresh' = fresh \ {a} /\ UNCHANGED <<active, retired>>
        /\ a \in fresh
    BY <1>7 DEF Publish, ledgers
  <2>2. Gap(active)' \subseteq Gap(active) \cup {a}
    BY <2>1 DEF Gap, Recorded
  <2> QED
    BY <2>1, <2>2 DEF DeliveredInv, InState
<1>8. ASSUME NEW a \in Artifacts, RowAction(a) PROVE DeliveredInv'
  <2>1. /\ active # None /\ active.ver = 4 /\ active'.ver = 4
        /\ \A b \in Artifacts : b # a => active'.rows[b] = active.rows[b]
        /\ a \in Gap(active) \cup Recorded(active) /\ UNCHANGED <<retired, fresh>>
    BY <1>8, RowStep DEF disk
  <2>2. Gap(active)' \subseteq Gap(active)
    BY <1>8, RowStep DEF Gap, disk
  <2>3. \A i \in Ids : retired[i] # None => a \notin InState(retired[i], "completed")
    BY <2>1 DEF DeliveredInv, Recorded
  <2> QED
    BY <2>1, <2>2, <2>3 DEF DeliveredInv, InState
<1>9. ASSUME NEW a \in Artifacts, Reclaim(a) PROVE DeliveredInv'
  BY <1>9 DEF Reclaim, DeliveredInv, InState, Gap, Recorded, disk, ledgers
<1>10. ASSUME MigrateBegin PROVE DeliveredInv'
  BY <1>10
     DEF MigrateBegin, MaintenanceLease, Goto, DeliveredInv, InState, Gap, Recorded, disk,
         ledgers
<1>11. ASSUME MigrateV3ToV4 PROVE DeliveredInv'
  <2>1. /\ Gap(active)' = Gap(active) /\ UNCHANGED <<retired, fresh>> /\ active # None
        /\ active.ver = 3 /\ \A a \in Artifacts : active'.rows[a].st = active.rows[a].st
    BY <1>11, MigratedEffect DEF Gap, disk
  <2> QED
    BY <2>1 DEF DeliveredInv, InState
<1>12. ASSUME MigrateEnd PROVE DeliveredInv'
  BY <1>12
     DEF MigrateEnd, Close, Finish, At, DeliveredInv, InState, Gap, Recorded, disk, ledgers
<1>13. ASSUME NEW i \in Ids, ArchiveBegin(i) PROVE DeliveredInv'
  BY <1>13
     DEF ArchiveBegin, MaintenanceLease, DeliveredInv, InState, Gap, Recorded, disk, ledgers
<1>14. ASSUME ArchiveVerify PROVE DeliveredInv'
  BY <1>14
     DEF ArchiveVerify, Close, Goto, At, DeliveredInv, InState, Gap, Recorded, disk, ledgers
<1>15. ASSUME ArchiveResume PROVE DeliveredInv'
  BY <1>15 DEF ArchiveResume, Goto, At, DeliveredInv, InState, Gap, Recorded, disk, ledgers
<1>16. ASSUME ArchiveBackup PROVE DeliveredInv'
  BY <1>16 DEF ArchiveBackup, At, DeliveredInv, InState, Gap, Recorded, disk, ledgers
<1>17. ASSUME ArchivePublish PROVE DeliveredInv'
  BY <1>17 DEF ArchivePublish, At, DeliveredInv, InState, Gap, Recorded, disk, ledgers
<1>18. ASSUME ArchiveRetire PROVE DeliveredInv'
  <2>1. /\ maint.id \in Ids /\ base = active /\ active # None /\ active' = None
        /\ retired' = [retired EXCEPT ![maint.id] = base] /\ UNCHANGED fresh
    BY <1>18 DEF ArchiveRetire, At, CommandInv, disk
  <2>2. \A a \in InState(active, "completed") : a \notin fresh
    BY <2>1 DEF FreshInv, InState, Recorded
  <2>3. \A i \in Ids : retired'[i] = IF i = maint.id THEN active ELSE retired[i]
    BY <2>1 DEF TypeOK, LedgerType
  <2>4. ASSUME NEW i \in Ids, retired'[i] # None, NEW a \in InState(retired'[i], "completed")
        PROVE  a \notin fresh
    <3>1. CASE i = maint.id
      BY <2>2, <2>3, <2>4, <3>1
    <3>2. CASE i # maint.id
      BY <2>3, <2>4, <3>2 DEF DeliveredInv
    <3> QED
      BY <3>1, <3>2
  <2> QED
    BY <2>1, <2>4 DEF DeliveredInv
<1>19. ASSUME MaintenanceFails PROVE DeliveredInv'
  BY <1>19
     DEF MaintenanceFails, Fault, Close, Finish, DeliveredInv, InState, Gap, Recorded, disk,
         ledgers
<1>20. ASSUME MaintenanceRefuses PROVE DeliveredInv'
  BY <1>20
     DEF MaintenanceRefuses, Close, Finish, At, DeliveredInv, InState, Gap, Recorded, disk,
         ledgers
<1>21. ASSUME Listing PROVE DeliveredInv'
  BY <1>21
     DEF Listing, ListFirst, ListNext, ListEnd, DeliveredInv, InState, Gap, Recorded, disk,
         ledgers
<1>22. CASE UNCHANGED vars
  BY <1>22 DEF DeliveredInv, InState, Gap, Recorded, vars, disk, ledgers
<1> QED
  BY <1>1, <1>2, <1>3, <1>4, <1>5, <1>6, <1>7, <1>8, <1>9, <1>10, <1>11, <1>12, <1>13,
     <1>14, <1>15, <1>16, <1>17, <1>18, <1>19, <1>20, <1>21, <1>22
     DEF Next, Agent, Maintenance, RowAction

\* No step lets a current cursor miss or repeat a row.
LEMMA NextList ==
    ASSUME TypeOK, FreshInv, ActiveInv, CommandInv, OwnerInv, ListInv, [Next]_vars
    PROVE  ListInv'
<1>1. ASSUME NEW f \in Auths, OpenCreates(f) PROVE ListInv'
  <2>1. /\ active \in {None, Empty} /\ retired[active'.id] = None /\ UNCHANGED <<retired, list>>
    BY <1>1, CreatedEffect
  <2>2. list.more => retired[list.id] # None /\ list.id \in Ids
    BY <2>1, EmptyLedger DEF ListInv
  <2> QED
    BY <2>1, <2>2 DEF ListInv
<1>2. ASSUME NEW f \in Auths, OpenExisting(f) PROVE ListInv'
  <2>1. /\ active # None /\ UNCHANGED <<retired, list>> /\ active'.rows = active.rows
        /\ active'.id = active.id /\ (active' = active \/ active'.rev > active.rev)
    BY <1>2, OpenedEffect
  <2>2. active.rev \in Nat /\ active'.rev \in Nat /\ (list.more => list.rev \in Nat)
    BY <1>2, OpenedEffect, LedgerFields DEF TypeOK, ListType, Lists
  <2>3. CASE active' = active
    BY <2>1, <2>3 DEF ListInv, Shown, Matching, Recorded
  <2>4. CASE active'.rev > active.rev
    <3>1. list.more /\ active.id = list.id => list.rev <= active.rev
      BY <2>1 DEF ListInv
    <3>2. list.more /\ active'.id = list.id => list.rev < active'.rev
      BY <2>1, <2>2, <2>4, <3>1
    <3>3. list.more /\ active'.id = list.id => list.rev <= active'.rev /\ list.rev # active'.rev
      BY <2>2, <3>2
    <3>4. /\ active # None /\ active' # None /\ active'.id = active.id
          /\ retired' = retired /\ list' = list
      BY <1>2, OpenedEffect
    <3> QED
      BY <3>3, <3>4 DEF ListInv
  <2> QED
    BY <2>1, <2>3, <2>4
<1>3. ASSUME OpenDies PROVE ListInv'
  <2>1. active = None /\ active' = Empty /\ UNCHANGED <<retired, list>>
    BY <1>3 DEF OpenDies
  <2> QED
    BY <2>1, EmptyLedger DEF ListInv
<1>4. ASSUME StartDisabled PROVE ListInv'
  BY <1>4 DEF StartDisabled, LiveLease, ListInv, Shown, Matching, Recorded, disk, ledgers
<1>5. ASSUME StopAgent PROVE ListInv'
  BY <1>5 DEF StopAgent, Close, ListInv, Shown, Matching, Recorded, disk, ledgers
<1>6. ASSUME CrashAgent PROVE ListInv'
  BY <1>6 DEF CrashAgent, Fault, ListInv, Shown, Matching, Recorded, disk, ledgers
<1>7. ASSUME NEW a \in Artifacts, Publish(a) PROVE ListInv'
  BY <1>7 DEF Publish, ListInv, Shown, Matching, Recorded, disk, ledgers
<1>8. ASSUME NEW a \in Artifacts, RowAction(a) PROVE ListInv'
  <2>1. /\ active # None /\ retired' = retired /\ list' = list /\ active' # None
        /\ active'.id = active.id /\ active'.rev = active.rev + 1
    BY <1>8, RowStep
  <2>2. active \in Ledger
    BY <1>8, RowStep
  <2>3. active.rev \in Nat /\ list.rev \in Nat
    BY <2>2, LedgerFields DEF TypeOK, ListType, Lists
  <2>4. list.more /\ active.id = list.id => list.rev <= active.rev
    BY <2>1 DEF ListInv
  <2>5. list.more /\ active'.id = list.id => list.rev <= active'.rev /\ list.rev # active'.rev
    BY <2>1, <2>3, <2>4
  <2> QED
    BY <2>1, <2>5 DEF ListInv
<1>9. ASSUME NEW a \in Artifacts, Reclaim(a) PROVE ListInv'
  BY <1>9 DEF Reclaim, ListInv, Shown, Matching, Recorded, disk, ledgers
<1>10. ASSUME MigrateBegin PROVE ListInv'
  BY <1>10
     DEF MigrateBegin, MaintenanceLease, Goto, ListInv, Shown, Matching, Recorded, disk,
         ledgers
<1>11. ASSUME MigrateV3ToV4 PROVE ListInv'
  <2>1. /\ active # None /\ active.ver = 3 /\ retired[active'.id] = None /\ UNCHANGED <<retired, list>>
    BY <1>11, MigratedEffect
  <2>2. active.id = None
    BY <2>1 DEF ActiveInv
  <2>3. list.more => retired[list.id] # None /\ list.id \in Ids
    BY <2>2 DEF ListInv
  <2> QED
    BY <2>1, <2>3 DEF ListInv
<1>12. ASSUME MigrateEnd PROVE ListInv'
  BY <1>12
     DEF MigrateEnd, Close, Finish, At, ListInv, Shown, Matching, Recorded, disk, ledgers
<1>13. ASSUME NEW i \in Ids, ArchiveBegin(i) PROVE ListInv'
  BY <1>13
     DEF ArchiveBegin, MaintenanceLease, ListInv, Shown, Matching, Recorded, disk, ledgers
<1>14. ASSUME ArchiveVerify PROVE ListInv'
  BY <1>14
     DEF ArchiveVerify, Close, Goto, At, ListInv, Shown, Matching, Recorded, disk, ledgers
<1>15. ASSUME ArchiveResume PROVE ListInv'
  BY <1>15 DEF ArchiveResume, Goto, At, ListInv, Shown, Matching, Recorded, disk, ledgers
<1>16. ASSUME ArchiveBackup PROVE ListInv'
  BY <1>16 DEF ArchiveBackup, At, ListInv, Shown, Matching, Recorded, disk, ledgers
<1>17. ASSUME ArchivePublish PROVE ListInv'
  BY <1>17 DEF ArchivePublish, At, ListInv, Shown, Matching, Recorded, disk, ledgers
<1>18. ASSUME ArchiveRetire PROVE ListInv'
  <2>1. /\ maint.id \in Ids /\ base = active /\ active # None /\ active' = None
        /\ active.id = maint.id
        /\ retired' = [retired EXCEPT ![maint.id] = base] /\ UNCHANGED list
    BY <1>18 DEF ArchiveRetire, At, CommandInv
  <2>2. \A i \in Ids : retired'[i] = IF i = maint.id THEN active ELSE retired[i]
    BY <2>1 DEF TypeOK, LedgerType
  <2>3. list.more => list.id \in Ids /\ retired'[list.id] # None
    BY <2>1, <2>2 DEF ListInv
  <2> QED
    BY <2>1, <2>3 DEF ListInv
<1>19. ASSUME MaintenanceFails PROVE ListInv'
  BY <1>19
     DEF MaintenanceFails, Fault, Close, Finish, ListInv, Shown, Matching, Recorded, disk,
         ledgers
<1>20. ASSUME MaintenanceRefuses PROVE ListInv'
  BY <1>20
     DEF MaintenanceRefuses, Close, Finish, At, ListInv, Shown, Matching, Recorded, disk,
         ledgers
<1>21. ASSUME Listing PROVE ListInv'
  <2>0. UNCHANGED <<active, retired>>
    BY <1>21 DEF Listing, ListFirst, ListNext, ListEnd, ledgers
  <2>1. ASSUME NEW filter, ListFirst(filter) PROVE ListInv'
    <3> DEFINE high == Cardinality(Recorded(active))
               start == [NoList EXCEPT !.snap = Shown(active, Matching(active, high, 0, filter))]
    <3>1. agent = "enabled" /\ list' = Listed(start, high, 0, filter)
      BY <2>1 DEF ListFirst
    <3>2. high \in Nat
      BY RowsAreFinite DEF Recorded
    <3>3. start.snap = start.seen \cup Shown(active, Matching(active, high, 0, filter))
      BY DEF NoList
    <3> HIDE DEF high, start
    <3> QED
      BY <2>0, <3>1, <3>2, <3>3, ListedKeeps
  <2>2. CASE ListNext
    <3>1. /\ agent = "enabled" /\ list.more /\ list.id = active.id /\ list.rev = active.rev
          /\ list' = Listed(list, list.high, list.before, list.filter)
      BY <2>2 DEF ListNext, CursorIsCurrent
    <3>2. list.high \in Nat /\ list.before \in Nat
      BY DEF TypeOK, ListType, Lists
    <3>3. active # None
      BY <3>1 DEF CommandInv, LedgersAreSound
    <3>4. list.snap = list.seen \cup
                      Shown(active, Matching(active, list.high, list.before, list.filter))
      BY <3>1, <3>3 DEF ListInv
    <3> QED
      BY <2>0, <3>1, <3>2, <3>4, ListedKeeps
  <2>3. CASE ListEnd
    BY <2>3 DEF ListEnd, NoList, ListInv
  <2> QED
    BY <1>21, <2>1, <2>2, <2>3 DEF Listing
<1>22. CASE UNCHANGED vars
  BY <1>22 DEF ListInv, Shown, Matching, Recorded, vars, disk, ledgers
<1> QED
  BY <1>1, <1>2, <1>3, <1>4, <1>5, <1>6, <1>7, <1>8, <1>9, <1>10, <1>11, <1>12, <1>13,
     <1>14, <1>15, <1>16, <1>17, <1>18, <1>19, <1>20, <1>21, <1>22
     DEF Next, Agent, Maintenance, RowAction

\* Every initial state satisfies the inductive invariant: a ledger of an earlier release,
\* or none.
LEMMA InitInd == Init => IndInv
<1> SUFFICES ASSUME Init PROVE IndInv
  OBVIOUS
<1>1. PICK auth \in Auths, st \in [Artifacts -> RowStates \cup {"none"}] :
          /\ owner \in [Artifacts -> Auths \cup {None}]
          /\ \A a \in Artifacts :
                /\ st[a] = "none" <=> owner[a] = None
                /\ st[a] = "live" => owner[a] = auth
          /\ active = IF {a \in Artifacts : st[a] # "none"} = {} THEN None ELSE V3Ledger(auth, st)
          /\ files = {a \in Artifacts : st[a] # "none"}
          /\ fresh = Artifacts \ {a \in Artifacts : st[a] # "none"}
          /\ owed = {a \in {b \in Artifacts : st[b] # "none"} : st[a] # "completed"}
  BY DEF Init
<1>2. /\ base = active /\ wal = FALSE /\ agent = "off" /\ archive = [i \in Ids |-> None]
      /\ retired = [i \in Ids |-> None] /\ maint = Idle /\ list = NoList /\ faults = 0
  BY DEF Init
<1> DEFINE db == V3Ledger(auth, st)
<1>3. /\ db.ver = 3 /\ db.id = None /\ db.auth = auth /\ db.pre = {} /\ db.rev = 0
      /\ db.count = [s \in RowStates |-> Cardinality({a \in Artifacts : st[a] = s})]
      /\ db.rows = [a \in Artifacts |->
                      IF st[a] = "none" THEN NoRow ELSE [NoRow EXCEPT !.st = st[a], !.id = 1]]
  BY DEF V3Ledger
<1>4. \A a \in Artifacts : /\ db.rows[a] \in Row /\ db.rows[a].st = st[a]
                           /\ st[a] # "none" => db.rows[a].id = 1
                           /\ db.rows[a].bind = None
  <2>1. /\ NoRow \in Row /\ NoRow.st = "none" /\ NoRow.bind = None
        /\ \A s \in RowStates : LET r == [NoRow EXCEPT !.st = s, !.id = 1]
                                IN  r \in Row /\ r.st = s /\ r.id = 1 /\ r.bind = None
    BY DEF Row, NoRow
  <2> SUFFICES ASSUME NEW a \in Artifacts
               PROVE  /\ db.rows[a] \in Row /\ db.rows[a].st = st[a]
                      /\ st[a] # "none" => db.rows[a].id = 1
                      /\ db.rows[a].bind = None
    OBVIOUS
  <2>2. db.rows[a] = IF st[a] = "none" THEN NoRow ELSE [NoRow EXCEPT !.st = st[a], !.id = 1]
    BY <1>3
  <2> HIDE DEF db
  <2>3. CASE st[a] = "none"
    BY <2>1, <2>2, <2>3
  <2>4. CASE st[a] # "none"
    <3>1. st[a] \in RowStates
      BY <2>4
    <3> QED
      BY <2>1, <2>2, <2>4, <3>1
  <2> QED
    BY <2>3, <2>4
<1>5. \A s \in RowStates : Cardinality({a \in Artifacts : st[a] = s}) \in Nat
  BY RowsAreFinite
<1>6. db \in Ledger
  <2>1. db.rows \in [Artifacts -> Row]
    BY <1>3, <1>4
  <2>2. [s \in RowStates |-> Cardinality({a \in Artifacts : st[a] = s})] \in [RowStates -> Nat]
    BY <1>5, Zenon
  <2>3. db = [ver |-> 3, id |-> None, rev |-> 0, auth |-> auth, rows |-> db.rows,
              pre |-> {}, count |-> db.count]
    BY DEF V3Ledger
  <2>4. db.count \in [RowStates -> Nat]
    BY <1>3, <2>2
  <2> HIDE DEF db
  <2>5. auth \in Auths \cup {None} /\ 0 \in Nat /\ {} \subseteq Artifacts
    OBVIOUS
  <2> QED
    BY ONLY <2>1, <2>3, <2>4, <2>5 DEF Ledger
<1> HIDE DEF db
<1>7. CountsAgree(db)
  <2>1. \A s \in RowStates : InState(db, s) = {a \in Artifacts : st[a] = s}
    BY <1>4 DEF InState
  <2>2. \A s \in RowStates : db.count[s] = Cardinality({a \in Artifacts : st[a] = s})
    BY <1>3, Zenon
  <2> QED
    BY ONLY <2>1, <2>2, Zenon DEF CountsAgree
<1>8. /\ active \in Ledger \cup {None}
      /\ active # None => active = db
      /\ active = None => \A a \in Artifacts : st[a] = "none"
  <2>1. active = IF {a \in Artifacts : st[a] # "none"} = {} THEN None ELSE db
    BY <1>1 DEF db
  <2>2. db # None
    BY <1>6, NoneIsNoLedger
  <2> QED
    BY <1>6, <2>1, <2>2
<1>9. Recorded(db) = files /\ Gap(db) = {} /\ files \subseteq Artifacts
  <2>1. files = {a \in Artifacts : st[a] # "none"}
    BY <1>1
  <2>2. Recorded(db) = files
    BY <1>4, <2>1 DEF Recorded
  <2> QED
    BY <2>1, <2>2 DEF Gap
<1>10. TypeOK
  <2>1. DiskType
    BY <1>1, <1>2 DEF DiskType
  <2>2. LedgerType
    BY <1>2, <1>8, IdleIsTyped DEF LedgerType
  <2>3. ListType
    BY <1>2, NoListIsTyped DEF ListType
  <2> QED
    BY <2>1, <2>2, <2>3 DEF TypeOK
<1>11. FreshInv
  <2>1. fresh \cap files = {} /\ \A a \in fresh : owner[a] = None
    BY <1>1
  <2>2. fresh \cap files = {} /\ Recorded(db) = files /\ db.pre = {}
    BY <1>3, <1>9, <2>1
  <2> QED
    BY <1>8, <2>1, <2>2 DEF FreshInv
<1>12. ActiveInv
  <2>1. \A a \in Recorded(db) : db.rows[a].id > 0
    BY <1>1, <1>4, <1>9
  <2>2. db.ver = 3 /\ db.auth \in Auths /\ db.id = None /\ db.pre = {}
    BY <1>3, Zenon
  <2> QED
    BY <1>8, <2>1, <2>2 DEF ActiveInv
<1>13. CommandInv
  <2>1. active # None => VerifyV3(active)
    BY <1>3, <1>7, <1>8 DEF VerifyV3
  <2>2. LedgersAreSound
    BY <1>2, <2>1, IdleIsTyped DEF LedgersAreSound
  <2> QED
    BY <1>2, <2>2, IdleIsTyped DEF CommandInv, At
<1>14. OwnerInv
  <2>1. \A a \in Artifacts : db.rows[a].bind \notin Auths
    BY <1>4
  <2>2. \A a \in Artifacts : db.rows[a].st = "live" => owner[a] = db.auth
    <3>1. \A a \in Artifacts : st[a] = "live" => owner[a] = auth
      BY <1>1
    <3> QED
      BY ONLY <1>3, <1>4, <3>1
  <2> QED
    BY <1>8, <1>9, <2>1, <2>2 DEF OwnerInv
<1>15. OwedInv
  <2>1. ASSUME NEW a \in owed
        PROVE  a \in files /\ active # None /\ active.rows[a].st \in {"live", "failed"}
    <3>1. a \in Artifacts /\ st[a] # "none" /\ st[a] # "completed" /\ a \in files
      BY <1>1, <2>1
    <3>2. st[a] \in {"live", "failed"}
      BY <3>1 DEF RowStates
    <3>3. active # None
      BY <1>8, <3>1
    <3>4. active.rows[a].st = st[a]
      BY <1>4, <1>8, <3>1, <3>3
    <3> QED
      BY <3>1, <3>2, <3>3, <3>4
  <2>2. active # Empty
    <3>1. Empty.ver = 0 /\ Empty # None
      BY EmptyLedger
    <3>2. db.ver = 3
      BY <1>3, Zenon
    <3> QED
      BY <1>8, <3>1, <3>2
  <2> QED
    BY <2>1, <2>2 DEF OwedInv, OwedIsSafe
<1>16. DeliveredInv
  BY <1>2 DEF DeliveredInv
<1>17. ListInv
  BY <1>2, NoListIsTyped DEF ListInv
<1> QED
  BY <1>10, <1>11, <1>12, <1>13, <1>14, <1>15, <1>16, <1>17 DEF IndInv

\* The inductive invariant holds in every reachable state.
THEOREM Invariance == Spec => []IndInv
<1>1. IndInv /\ [Next]_vars => IndInv'
  <2> SUFFICES ASSUME IndInv, [Next]_vars PROVE IndInv'
    OBVIOUS
  <2>1. /\ TypeOK /\ FreshInv /\ ActiveInv /\ CommandInv /\ OwnerInv /\ OwedInv
        /\ DeliveredInv /\ ListInv
    BY DEF IndInv
  <2>2. TypeOK'
    BY <2>1, NextDiskType, NextLedgerType, NextListType DEF TypeOK
  <2> QED
    BY <2>1, <2>2, NextFresh, NextActive, NextCommand, NextOwner, NextOwed, NextDelivered,
       NextList DEF IndInv
<1> QED
  BY InitInd, <1>1, PTL DEF Spec

\* The ledgers are sound for the next command, live rows keep their owner and a listing is
\* exact (open_existing, migrate_v3_to_v4, archive_upload_ledger, list_jobs).
THEOREM MaintenanceIsSound == Spec => []MaintenanceInv
<1>1. IndInv => MaintenanceInv
  <2> SUFFICES ASSUME IndInv PROVE MaintenanceInv
    OBVIOUS
  <2>1. TypeOK /\ CommandInv /\ OwnerInv /\ ListInv
    BY DEF IndInv
  <2>2. LiveRowsHaveOwner
    <3> SUFFICES ASSUME active # None, NEW a \in InState(active, "live")
                 PROVE  owner[a] = active.auth
      BY DEF LiveRowsHaveOwner
    <3>1. a \in Artifacts /\ active.rows[a].st = "live"
      BY DEF InState
    <3>2. VerifyV3(active) \/ VerifyV4(active) \/ active = Empty
      BY <2>1 DEF CommandInv, LedgersAreSound
    <3>3. CASE VerifyV3(active)
      BY <2>1, <3>1, <3>3 DEF VerifyV3, OwnerInv
    <3>4. CASE VerifyV4(active)
      <4>1. active.rows[a].bind = active.auth
        BY <3>4 DEF VerifyV4, LiveRowsBound
      <4>2. active.auth \in Auths
        BY <2>1, <3>4 DEF VerifyV4, IsV4, IndInv, ActiveInv
      <4> QED
        BY <2>1, <3>1, <4>1, <4>2 DEF OwnerInv
    <3>5. CASE active = Empty
      BY <3>1, <3>5, EmptyLedger
    <3> QED
      BY <3>2, <3>3, <3>4, <3>5
  <2> QED
    BY <2>1, <2>2 DEF MaintenanceInv, CommandInv, ListInv, ListingIsExact
<1> QED
  BY Invariance, <1>1, PTL

\* Neither a crash nor a command forgets what is still to be delivered
\* (ensure_archive_ready, record_artifact and reconciliation).
THEOREM NothingOwedIsForgotten == Spec => []OwedIsSafe
<1>1. IndInv => OwedIsSafe
  BY DEF IndInv, OwedInv
<1> QED
  BY Invariance, <1>1, PTL

\* What an archived ledger delivered is not offered again by its successors
\* (inventory_generated_artifacts).
THEOREM DeliveredIsNotRepeated == Spec => []DeliveredOnce
<1>1. IndInv => DeliveredOnce
  BY DEF IndInv, DeliveredInv, DeliveredOnce
<1> QED
  BY Invariance, <1>1, PTL

\* A change of the active ledger alone writes one ledger that is not archived.
LEMMA WriteMaps ==
    ASSUME NEW j \in Ids, retired[j] = None, active' # None, active'.id = j, retired' = retired,
           active # None => active.id = j \/ active.id \notin Ids
    PROVE  Custody!Write(j)
<1> DEFINE held == [i \in Ids |-> IF retired[i] # None THEN retired[i]
                                  ELSE IF active # None /\ active.id = i THEN active ELSE None]
           held2 == [i \in Ids |-> IF retired'[i] # None THEN retired'[i]
                                  ELSE IF active' # None /\ active'.id = i THEN active' ELSE None]
<1>1. held2[j] = active'
  OBVIOUS
<1>2. \A i \in Ids : i # j => held2[i] = held[i]
  OBVIOUS
<1>3. held2 = [held EXCEPT ![j] = held2[j]]
  BY <1>2
<1> QED
  BY <1>1, <1>3 DEF Custody!Write

\* Every step is a step of the custody of ledgers, or leaves it alone.
LEMMA StepMaps ==
    ASSUME TypeOK, FreshInv, ActiveInv, CommandInv, OwnerInv, [Next]_vars
    PROVE  [Custody!Next]_(Custody!vars)
<1>0. ASSUME UNCHANGED <<active, retired>> PROVE [Custody!Next]_(Custody!vars)
  BY <1>0 DEF Custody!vars
<1>1. ASSUME NEW f \in Auths, OpenCreates(f) PROVE [Custody!Next]_(Custody!vars)
  <2>1. /\ active \in {None, Empty} /\ active' # None /\ active'.id \in Ids
        /\ retired[active'.id] = None /\ retired' = retired
    BY <1>1, CreatedEffect
  <2>2. active # None => active.id \notin Ids
    BY <2>1, EmptyLedger
  <2> QED
    BY <2>1, <2>2, WriteMaps DEF Custody!Next
<1>2. ASSUME NEW f \in Auths, OpenExisting(f) PROVE [Custody!Next]_(Custody!vars)
  <2>1. active # None /\ active' # None /\ active'.id = active.id /\ active.ver = 4 /\ retired' = retired
    BY <1>2, OpenedEffect
  <2>2. active.id \in Ids /\ retired[active.id] = None
    BY <2>1 DEF ActiveInv
  <2> QED
    BY <2>1, <2>2, WriteMaps DEF Custody!Next
<1>3. ASSUME NEW a \in Artifacts, RowAction(a) PROVE [Custody!Next]_(Custody!vars)
  <2>1. active # None /\ active' # None /\ active'.id = active.id /\ active.ver = 4 /\ retired' = retired
    BY <1>3, RowStep
  <2>2. active.id \in Ids /\ retired[active.id] = None
    BY <2>1 DEF ActiveInv
  <2> QED
    BY <2>1, <2>2, WriteMaps DEF Custody!Next
<1>4. ASSUME MigrateV3ToV4 PROVE [Custody!Next]_(Custody!vars)
  <2>1. /\ active # None /\ active.ver = 3 /\ active' # None /\ active'.id \in Ids
        /\ retired[active'.id] = None /\ retired' = retired
    BY <1>4, MigratedEffect
  <2>2. active.id \notin Ids
    BY <2>1 DEF ActiveInv
  <2> QED
    BY <2>1, <2>2, WriteMaps DEF Custody!Next
<1>5. ASSUME OpenDies PROVE [Custody!Next]_(Custody!vars)
  <2>1. active = None /\ active' = Empty /\ retired' = retired
    BY <1>5 DEF OpenDies
  <2>2. Empty.id \notin Ids
    BY EmptyLedger
  <2>3. \A i \in Ids : /\ ~(active # None /\ active.id = i)
                       /\ ~(active' # None /\ active'.id = i)
    BY <2>1, <2>2
  <2> QED
    BY <2>1, <2>3 DEF Custody!vars
<1>6. ASSUME ArchiveRetire PROVE [Custody!Next]_(Custody!vars)
  <2>1. /\ maint.id \in Ids /\ base = active /\ active # None /\ active' = None
        /\ active.id = maint.id /\ retired[maint.id] = None /\ Terminal(active)
        /\ retired' = [retired EXCEPT ![maint.id] = active]
    BY <1>6 DEF ArchiveRetire, At, CommandInv, ArchiveReady
  <2>2. retired \in [Ids -> Ledger \cup {None}]
    BY DEF TypeOK, LedgerType
  <2>3. \A i \in Ids : retired'[i] = IF i = maint.id THEN active ELSE retired[i]
    BY <2>1, <2>2
  <2>4. PICK i \in Ids : i = maint.id
    BY <2>1
  <2>5. Custody!Archive(i)
    BY <2>1, <2>3, <2>4 DEF Custody!Archive
  <2> QED
    BY <2>5 DEF Custody!Next
<1>7. ASSUME \/ StartDisabled \/ StopAgent \/ CrashAgent
             \/ \E a \in Artifacts : Publish(a) \/ Reclaim(a)
             \/ MigrateBegin \/ MigrateEnd \/ \E i \in Ids : ArchiveBegin(i)
             \/ ArchiveVerify \/ ArchiveResume \/ ArchiveBackup \/ ArchivePublish
             \/ MaintenanceFails \/ MaintenanceRefuses
      PROVE  UNCHANGED <<active, retired>>
  BY <1>7 DEF StartDisabled, StopAgent, CrashAgent, Publish, Reclaim, MigrateBegin, MigrateEnd,
     ArchiveBegin, ArchiveVerify, ArchiveResume, ArchiveBackup, ArchivePublish, MaintenanceFails,
     MaintenanceRefuses, ledgers
<1>8. ASSUME Listing PROVE UNCHANGED <<active, retired>>
  BY <1>8 DEF Listing, ListFirst, ListNext, ListEnd, ledgers
<1>9. CASE UNCHANGED vars
  BY <1>0, <1>9 DEF vars, ledgers
<1> QED
  BY <1>0, <1>1, <1>2, <1>3, <1>4, <1>5, <1>6, <1>7, <1>8, <1>9
     DEF Next, Agent, Maintenance, RowAction

\* The commands keep custody of every ledger: it is written until it is archived, archived
\* only when nothing in it awaits delivery, and never changed again (archive_upload_ledger).
THEOREM CommandsKeepCustody == Spec => CustodyKept
<1>1. Init => Custody!Init
  <2> SUFFICES ASSUME Init PROVE Custody!Init
    OBVIOUS
  <2>1. retired = [i \in Ids |-> None]
    BY DEF Init
  <2>2. active = None \/ active.id = None
    <3>1. PICK auth \in Auths, st \in [Artifacts -> RowStates \cup {"none"}] :
             active = IF {a \in Artifacts : st[a] # "none"} = {} THEN None ELSE V3Ledger(auth, st)
      BY DEF Init
    <3>2. V3Ledger(auth, st).id = None
      BY DEF V3Ledger
    <3> QED
      BY <3>1, <3>2
  <2> QED
    BY <2>1, <2>2 DEF Custody!Init
<1>2. IndInv /\ [Next]_vars => [Custody!Next]_(Custody!vars)
  BY StepMaps DEF IndInv
<1> QED
  BY Invariance, <1>1, <1>2, PTL DEF Spec, CustodyKept, Custody!Spec

=============================================================================
