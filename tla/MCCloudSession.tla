---------------------------- MODULE MCCloudSession ----------------------------
(* Instances of CloudSession: a caller of each kind of procedure. *)
EXTENDS CloudSession

CONSTANTS s1, s2, s3

\* A caller is named for the procedure it runs.
ByName == [c \in Callers |-> c]
=============================================================================
