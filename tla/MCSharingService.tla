--------------------------- MODULE MCSharingService ---------------------------
(* Choices for the model checker: everything, or snapshots only. *)
EXTENDS SharingService

SmallChoices == {Kinds, {"snapshot"}}
=============================================================================
