--------------------------- MODULE MCUploadOutbox ---------------------------
(* UploadOutbox for TLC. *)
EXTENDS UploadOutbox, TLC

CONSTANTS still, movie, x, y, f, g

\* Bytes and accounts are interchangeable (no order, no literal use of either).
MCSymmetry == Permutations({x, y}) \cup Permutations({f, g})
=============================================================================
