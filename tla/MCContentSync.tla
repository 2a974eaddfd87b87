--------------------------- MODULE MCContentSync ----------------------------
(* ContentSync for TLC: each line and each activation is a model value. *)
EXTENDS ContentSync

CONSTANTS s1, l1, p1, w1, r1
=============================================================================
