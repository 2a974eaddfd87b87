------------------------------ MODULE CanvasDoc ------------------------------
(***************************************************************************)
(* A canvas as a document: packages/plugin/src/canvas-model.ts over        *)
(* structured-records.ts.                                                  *)
(*                                                                         *)
(* A record, a node or an edge, is an assignment per field (YMap), never   *)
(* taken away.  Deleting it writes a tombstone instead, with the record as *)
(* the deleter saw it: the record reads as deleted while it says just that.*)
(* A value is what a view or a file holds: some records and their fields.  *)
(* A card's text and the stacking order are not here, and an edge's ends   *)
(* never change.                                                           *)
(***************************************************************************)
EXTENDS YMap, FiniteSets

CONSTANTS
    Nodes,
    Edges,
    From, To,   \* the nodes an edge joins
    Clients     \* who writes to the document

Records == Nodes \cup Edges

ASSUME RecordsAssumption ==
    /\ Nodes \cap Edges = {}
    /\ From \in [Edges -> Nodes]
    /\ To \in [Edges -> Nodes]

\* Where a record is, which a gesture changes, and how it looks.
Fields == {"place", "look"}
Contents == [Fields -> Nat]
Ends(e) == {From[e], To[e]}

\* A tombstone: the record as its deleter saw it, and the node it went with.
Tombstone(snapshot, with) == [snapshot |-> snapshot, with |-> with]

\* A replica: the fields of each record, and each client's tombstone of it.
FieldPaths == Records \X Fields
TombPaths == Records \X Clients

-----------------------------------------------------------------------------
(* Slips, for the properties to catch. *)

DocumentsOwn(replica, value, base, r) ==
    [f \in Fields |-> replica.fields[<<r, f>>].value]
AllMatching(replica) ==
    {n \in Nodes : \E c \in Clients :
        LET t == replica.tombs[<<n, c>>] IN t.live /\ t.value.snapshot = DocumentsOwn(replica, << >>, << >>, n)}

-----------------------------------------------------------------------------
(* Reading. *)

Content(replica, r) == [f \in Fields |-> replica.fields[<<r, f>>].value]
Made(replica, r) == \E f \in Fields : replica.fields[<<r, f>>].live

\* The tombstones of a record that match what it says now.
Matching(replica, r) ==
    LET content == Content(replica, r)
        matches(t) == t.live /\ t.value.snapshot = content
    IN {replica.tombs[<<r, c>>].value : c \in {d \in Clients : matches(replica.tombs[<<r, d>>])}}

\* An edge that went with a node comes back with it.
BroughtBack(replica, e, dead) ==
    /\ \A t \in Matching(replica, e) : t.with # {}
    /\ \E t \in Matching(replica, e) : t.with \cap dead = {}
EdgeLive(replica, e, dead) ==
    /\ Made(replica, e)
    /\ IF Matching(replica, e) = {} THEN TRUE ELSE BroughtBack(replica, e, dead)

\* The nodes that stay deleted: the most of those that match a tombstone such
\* that no live edge has an end among them.
Buried(replica) == {n \in Nodes : Made(replica, n) /\ Matching(replica, n) # {}}
Settles(replica, dead) ==
    \A e \in Edges : EdgeLive(replica, e, dead) => Ends(e) \cap dead = {}
DeadNodes(replica) == UNION {dead \in SUBSET Buried(replica) : Settles(replica, dead)}

readCanvas(replica) ==
    LET dead == DeadNodes(replica)
        live == {n \in Nodes : Made(replica, n) /\ n \notin dead}
                \cup {e \in Edges : EdgeLive(replica, e, dead)}
    IN [r \in live |-> Content(replica, r)]

-----------------------------------------------------------------------------
(* Writing: what differs between a value and the base it was made on. *)

Set(replica, client, r, f, value) == Assignment(replica.fields, client, <<r, f>>, value)

\* A record the editor had: the fields it changed.  One new to it, made or
\* brought back: those the document does not say.
setFields(replica, client, value, base, r) ==
    {Set(replica, client, r, f, value[r][f]) : f \in
        {g \in Fields : IF r \in DOMAIN base THEN base[r][g] # value[r][g]
                        ELSE \/ ~replica.fields[<<r, g>>].live
                             \/ replica.fields[<<r, g>>].value # value[r][g]}}

\* A record wanted again answers its tombstones.
clearTombstones(replica, r) ==
    {Deletion(replica.tombs, <<r, c>>) : c \in {d \in Clients : replica.tombs[<<r, d>>].live}}

\* The record as its deleter saw it: its base, never the document.
Snapshot(replica, value, base, r) == base[r]

\* The end an edge went with: the one it comes from, when both went.
WentWith(value, base, r) ==
    LET went == DOMAIN base \ DOMAIN value IN
    IF r \notin Edges THEN {}
    ELSE IF From[r] \in went THEN {From[r]}
    ELSE {To[r]} \cap went
bury(replica, client, value, base, r) ==
    Assignment(replica.tombs, client, <<r, client>>,
               Tombstone(Snapshot(replica, value, base, r), WentWith(value, base, r)))

applyCanvas(replica, client, value, base) ==
    LET new == DOMAIN value \ DOMAIN base
        gone == {r \in DOMAIN base \ DOMAIN value : Made(replica, r)}
    IN
    [fields |-> UNION {setFields(replica, client, value, base, r) : r \in DOMAIN value},
     tombs |-> UNION {clearTombstones(replica, r) : r \in new}
               \cup {bury(replica, client, value, base, r) : r \in gone}]

\* A replica once it has a transaction.
Apply2(replica, transaction) ==
    [fields |-> Apply(replica.fields, transaction.fields),
     tombs |-> Apply(replica.tombs, transaction.tombs)]

Nothing == [fields |-> {}, tombs |-> {}]
=============================================================================
