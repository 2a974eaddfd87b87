--------------------------- MODULE MCFolderListing ---------------------------
(* FolderListing for TLC: vaults are numbers, notes are model values. *)
EXTENDS FolderListing

CONSTANTS x, y

XtoY == {<<x, y>>}
=============================================================================
