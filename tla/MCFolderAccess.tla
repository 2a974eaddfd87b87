--------------------------- MODULE MCFolderAccess ---------------------------
(* FolderAccess for TLC: the guest is a model value. *)
EXTENDS FolderAccess

CONSTANT ann
=============================================================================
