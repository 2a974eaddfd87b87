----------------------------- MODULE MCBlobSync -----------------------------
(* BlobSync for TLC: vaults are numbers, attachments are model values. *)
EXTENDS BlobSync

CONSTANTS x, y

XtoY == {<<x, y>>}
NoRename == {}
=============================================================================
