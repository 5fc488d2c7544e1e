------------------------- MODULE MCLedgerMaintenance -------------------------
(* LedgerMaintenance for TLC: captures, accounts and ledger ids are          *)
(* interchangeable.                                                          *)
EXTENDS LedgerMaintenance, TLC

CONSTANTS a1, a2, f, g, i1, i2

MCSymmetry == Permutations(Artifacts) \cup Permutations(Auths) \cup Permutations(Ids)
=============================================================================
