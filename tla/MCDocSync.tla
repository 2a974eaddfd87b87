----------------------------- MODULE MCDocSync ------------------------------
(* DocSync for TLC: each edit is a model value. *)
EXTENDS DocSync

CONSTANTS i1, p1, p2
=============================================================================
