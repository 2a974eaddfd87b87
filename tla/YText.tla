------------------------------- MODULE YText -------------------------------
(***************************************************************************)
(* A Y.Text as the plugin meets it: a sequence of items, some deleted,     *)
(* which every replica that has the same items orders the same way.        *)
(*                                                                         *)
(* An item is named by the client that made it and how many that client    *)
(* had made; left and right are the items it was made between.             *)
(***************************************************************************)
EXTENDS Naturals, SequencesExt

Nowhere == << >>

IndexOf(text, id) == CHOOSE i \in 1..Len(text) : text[i].id = id
Knows(text, id) == \E i \in 1..Len(text) : text[i].id = id
Shown(text) == SelectSeq(text, LAMBDA x : x.live)

\* One step to the right of where an item may stand: past items made at the
\* same place by a lesser client, and past what was made after those.
Passed(text, item, scan, o) ==
    LET other == text[o]
        seen == scan.seen \cup {other.id}
        tied == scan.tied \cup {other.id}
    IN IF scan.over THEN scan
       ELSE IF other.left = item.left THEN
            IF other.id[1] < item.id[1]
            THEN [scan EXCEPT !.at = o, !.seen = seen, !.tied = {}]
            ELSE [scan EXCEPT !.over = other.right = item.right, !.seen = seen, !.tied = tied]
       ELSE IF other.left \in seen THEN
            IF other.left \in tied
            THEN [scan EXCEPT !.seen = seen, !.tied = tied]
            ELSE [scan EXCEPT !.at = o, !.seen = seen, !.tied = {}]
       ELSE [scan EXCEPT !.over = TRUE]

\* An item joins a text that has the items it was made between.
Integrated(text, item) ==
    LET first == IF item.left = Nowhere THEN 0 ELSE IndexOf(text, item.left)
        last == IF item.right = Nowhere THEN Len(text) + 1 ELSE IndexOf(text, item.right)
        scan == FoldLeft(LAMBDA s, i : Passed(text, item, s, first + i),
                         [at |-> first, seen |-> {}, tied |-> {}, over |-> FALSE],
                         [i \in 1..last - first - 1 |-> i])
    IN IF Knows(text, item.id) THEN text ELSE InsertAt(text, scan.at + 1, item)

\* A text after the items of an update and its deletions.
TextAfter(text, ins, del) ==
    LET grown == FoldLeft(Integrated, text, ins)
    IN [i \in DOMAIN grown |->
            IF grown[i].id \in del THEN [grown[i] EXCEPT !.live = FALSE] ELSE grown[i]]

\* How many items of its own a client has in a text.
Made(text, client) == Len(SelectSeq(text, LAMBDA x : x.id[1] = client))

\* The items that say `said`, made one after another by a client behind the
\* n-th shown item of a text.
Typed(text, client, n, said) ==
    LET shown == Shown(text)
        left == IF n = 0 THEN Nowhere ELSE shown[n].id
        next == IF n = 0 THEN 1 ELSE IndexOf(text, left) + 1
        right == IF next > Len(text) THEN Nowhere ELSE text[next].id
        clock == Made(text, client)
    IN [i \in DOMAIN said |->
            [id |-> <<client, clock + i>>, says |-> said[i], live |-> TRUE, right |-> right,
             left |-> IF i = 1 THEN left ELSE <<client, clock + i - 1>>]]
=============================================================================
