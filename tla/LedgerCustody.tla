---------------------------- MODULE LedgerCustody ----------------------------
(***************************************************************************)
(* What the offline maintenance commands promise about upload ledgers: a    *)
(* ledger is written until it is archived, it is archived only when nothing *)
(* in it awaits delivery, archiving takes no content away, and an archived  *)
(* ledger never changes again.                                              *)
(***************************************************************************)
CONSTANTS Ids, None, Terminal(_)

VARIABLES ledger, archived

vars == <<ledger, archived>>

Init ==
    /\ ledger \in [Ids -> {None}]
    /\ archived = {}

\* A transaction of the agent that owns the ledger, the creation included.
Write(i) ==
    /\ i \notin archived
    /\ ledger'[i] # None
    /\ ledger' = [ledger EXCEPT ![i] = ledger'[i]]
    /\ UNCHANGED archived

Archive(i) ==
    /\ i \notin archived
    /\ ledger[i] # None
    /\ Terminal(ledger[i])
    /\ archived' = archived \cup {i}
    /\ UNCHANGED ledger

Next == \E i \in Ids : Write(i) \/ Archive(i)

Spec == Init /\ [][Next]_vars
=============================================================================
