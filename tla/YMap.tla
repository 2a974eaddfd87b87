-------------------------------- MODULE YMap --------------------------------
(***************************************************************************)
(* One key of a Y.Map, as the plugin's listings use it: which of several   *)
(* concurrent assignments counts.                                          *)
(*                                                                         *)
(* Only the rightmost item of a key counts.  An item is named by the       *)
(* clients that assigned the key up to it, which is also where it stands   *)
(* among concurrent ones; deleting a key deletes the item it holds.        *)
(***************************************************************************)
EXTENDS Naturals, Sequences

\* Item i stands to the right of item j.
RightOf(i, j) ==
    \E n \in 1..Len(i) :
        /\ \A k \in 1..n - 1 : k <= Len(j) /\ i[k] = j[k]
        /\ n > Len(j) \/ i[n] > j[n]

\* What a replica holds for the key once it has seen an assignment of it, or
\* the deletion of an item of it.
Integrate(item, change) ==
    IF RightOf(change.at, item.at) \/ (change.at = item.at /\ ~change.live)
    THEN [at |-> change.at, live |-> change.live, value |-> change.value]
    ELSE item

\* A transaction: at most one change of each key.
Apply(replica, transaction) ==
    IF transaction = {} THEN replica ELSE
    [p \in DOMAIN replica |->
        IF \E c \in transaction : c.path = p
        THEN Integrate(replica[p], CHOOSE c \in transaction : c.path = p)
        ELSE replica[p]]

\* What client v writes to assign the key, and to delete it.
Assignment(replica, v, p, value) ==
    [path |-> p, at |-> Append(replica[p].at, v), live |-> TRUE, value |-> value]
Deletion(replica, p) ==
    [path |-> p, at |-> replica[p].at, live |-> FALSE, value |-> replica[p].value]

Unset(value) == [at |-> << >>, live |-> FALSE, value |-> value]
=============================================================================
