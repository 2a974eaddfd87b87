------------------------------ MODULE CanvasLive ------------------------------
(***************************************************************************)
(* A canvas open in several vaults, each view bound to the document:       *)
(* CanvasLiveBinding in packages/plugin/src/canvas-live.ts.                *)
(*                                                                         *)
(* Out, what the view shows is compared with what it last held, and the    *)
(* difference is the user's.  In, what the document says is compared with  *)
(* the same, drawn by record and by field, and written into every state    *)
(* undo can go back to; what the user drags waits until the drag is over.  *)
(*                                                                         *)
(* A remote change is drawn before the user does anything else.  The user  *)
(* leaves no change of the view uncommitted while making another.  The     *)
(* view itself, its gestures and its history are Obsidian's.  The file is  *)
(* StructuredSync's.                                                       *)
(***************************************************************************)
EXTENDS CanvasDoc

CONSTANTS
    Draggers,   \* the vaults whose user drags
    Undoers,    \* the vaults whose user undoes and redoes
    MaxEdits    \* bound: what the users do

ASSUME LiveAssumption ==
    /\ Draggers \subseteq Clients
    /\ Undoers \subseteq Clients
    /\ MaxEdits \in Nat

VARIABLES
    doc,        \* each vault's replica of the document
    inbox,      \* the transactions on their way to it
    view,       \* each vault's view, with what its binding keeps
    edits,      \* how much the users did: also names what they write
    deleted     \* observes: who deleted what, and what it was seen to say

vars == <<doc, inbox, view, edits, deleted>>

\* A state of the board: some records and what they say.
IsBoard(value) == DOMAIN value \subseteq Records /\ \A r \in DOMAIN value : value[r] \in Contents
IsView(w) ==
    /\ IsBoard(w.shows)                              \* what the view shows
    /\ IsBoard(w.held)                               \* what the binding last carried over
    /\ \A i \in DOMAIN w.snaps : IsBoard(w.snaps[i])  \* canvas.history.data
    /\ w.at \in DOMAIN w.snaps                       \* canvas.history.current
    /\ Len(w.push) <= 1                              \* the state waiting to be pushed
    /\ w.gesture \in 0..MaxEdits                     \* 0, or a pointer is down: which press
    /\ DOMAIN w.drags \subseteq Nodes \cap DOMAIN w.shows  \* marked by Obsidian, and from where
    /\ w.late \in BOOLEAN                            \* heldLate
    /\ w.ending \in BOOLEAN                          \* gestureEnded is to run
    /\ w.unread \subseteq Records                     \* observes: see ShowsTheDocument

-----------------------------------------------------------------------------
\* A value with the records and fields of a plan taken over.
Patched(plan, value) ==
    [r \in (DOMAIN value \ plan.removed) \cup plan.added |->
        IF r \notin DOMAIN value THEN plan.next[r]
        ELSE [f \in Fields |-> IF f \in plan.fields[r] THEN plan.next[r][f] ELSE value[r][f]]]

Pressed(w) == w.gesture # 0

-----------------------------------------------------------------------------
(* Slips, for the properties to catch. *)

MarksIgnored(w) == IF Pressed(w) THEN Nodes \cap DOMAIN w.shows ELSE {}
StaysInHistory(w, plan, snap) == IF snap = w.snaps[w.at] THEN Patched(plan, snap) ELSE snap
PushedAfter(w) == w
NeverLate(w) == FALSE
TakesTheView(w, plan) == Patched(plan, w.shows)

-----------------------------------------------------------------------------
(* In: what the document says, drawn. *)

\* The nodes whose place and removal wait: those Obsidian drags, and while a
\* pointer is down and nothing is marked, all of them.
movingGeometry(w) ==
    IF DOMAIN w.drags # {} THEN DOMAIN w.drags
    ELSE IF Pressed(w) THEN Nodes \cap DOMAIN w.shows ELSE {}

planDraw(w, next) ==
    LET moving == movingGeometry(w)
        changed(r) ==
            IF r \in DOMAIN w.held \cap DOMAIN next
            THEN {f \in Fields : /\ w.held[r][f] # next[r][f]
                                 /\ ~(f = "place" /\ r \in moving)}
            ELSE {}
    IN
    [next |-> next,
     fields |-> [r \in Records |-> changed(r)],
     added |-> DOMAIN next \ DOMAIN w.held,
     removed |-> DOMAIN w.held \ (DOMAIN next \cup moving)]

Empty(plan) == /\ plan.added = {}
               /\ plan.removed = {}
               /\ \A r \in Records : plan.fields[r] = {}

\* A state of undo: a record it has keeps its other fields.
rebaseHistory(w, plan, snap) == Patched(plan, snap)

\* What the view held, with what was drawn.
patchHeld(w, plan) == Patched(plan, w.held)

\* Obsidian's push of the state an edit left, cutting off what was undone.
pushHistory(w) ==
    IF w.push = << >> THEN w
    ELSE [w EXCEPT !.snaps = Append(SubSeq(@, 1, w.at), w.push[1]),
                   !.at = @ + 1,
                   !.push = << >>]

\* A push still waiting is made first, so that it is rebased with the others.
PushedFirst(w) == pushHistory(w)

\* Held for a drag that goes on after the gesture ended.
HeldLate(w) == movingGeometry(w) # {} /\ ~Pressed(w)

applyRemoteNow(replica, view0) ==
    LET w == [view0 EXCEPT !.late = @ \/ HeldLate(view0), !.unread = {}]
        plan == planDraw(w, readCanvas(replica))
        pushed == PushedFirst(w)
    IN
    IF Empty(plan) THEN w
    ELSE [pushed EXCEPT
            !.shows = Patched(plan, @),
            !.held = patchHeld(w, plan),
            !.snaps = [i \in DOMAIN @ |-> rebaseHistory(pushed, plan, @[i])]]

-----------------------------------------------------------------------------
(* Out: the view's edits. *)

\* A save of the view: its state is to be pushed, and what differs from what
\* it held goes into the document.  w is the view as the user left it.
capture(v, w) ==
    LET t == IF w.shows = w.held THEN Nothing ELSE applyCanvas(doc[v], v, w.shows, w.held)
        now == DOMAIN readCanvas(Apply2(doc[v], t))
    IN
    /\ doc' = [doc EXCEPT ![v] = Apply2(@, t)]
    /\ inbox' = [u \in Clients |-> IF u = v \/ t = Nothing THEN inbox[u] ELSE Append(inbox[u], t)]
    /\ view' = [view EXCEPT ![v] = [w EXCEPT !.held = w.shows,
                                             !.ending = @ \/ (w.late /\ ~Pressed(w)),
                                             !.unread = {r \in Records : (r \in now) # (r \in DOMAIN w.shows)}]]
    /\ deleted' = deleted \cup {<<v, r, view[v].shows[r]>> : r \in DOMAIN w.held \ DOMAIN w.shows}

\* The state an earlier save left to be pushed may have been by now; if not,
\* this one takes its place.  (A history nobody steps through is left as it is.)
requestSave(v, w) ==
    \E h \in {w, pushHistory(w)} :
        capture(v, [h EXCEPT !.push = IF v \in Undoers THEN <<h.shows>> ELSE << >>])

Bounded == edits < MaxEdits
Does == /\ Bounded
        /\ edits' = edits + 1

\* The user is at rest: nothing dragged, nothing uncommitted.
Idle(v) == DOMAIN view[v].drags = {} /\ view[v].shows = view[v].held

\* A change the view shows and has not committed: a colour picked.
Recolour(v, n) ==
    /\ Idle(v)
    /\ n \in DOMAIN view[v].shows
    /\ Does
    /\ view' = [view EXCEPT ![v].shows[n]["look"] = edits + 1]
    /\ UNCHANGED <<doc, inbox, deleted>>

Save(v) ==
    /\ DOMAIN view[v].drags = {}
    /\ view[v].shows # view[v].held
    /\ requestSave(v, view[v])
    /\ UNCHANGED edits

\* A node moved without a pointer, by users who do not drag.
Move(v, n) ==
    LET w == view[v] IN
    /\ v \notin Draggers
    /\ Idle(v)
    /\ n \in DOMAIN w.shows
    /\ Does
    /\ requestSave(v, [w EXCEPT !.shows[n]["place"] = edits + 1])

\* A node goes with its edges.
With(r) == {r} \cup {e \in Edges : r \in Ends(e)}
Remove(v, r) ==
    LET w == view[v] IN
    /\ Idle(v)
    /\ r \in DOMAIN w.shows
    /\ Does
    /\ requestSave(v, [w EXCEPT !.shows = [s \in DOMAIN @ \ With(r) |-> @[s]]])

\* An edge is drawn: new to every vault.
Connect(v, e) ==
    LET w == view[v] IN
    /\ Idle(v)
    /\ Ends(e) \subseteq DOMAIN w.shows
    /\ \A u \in Clients : ~Made(doc[u], e)
    /\ Does
    /\ requestSave(v, [w EXCEPT !.shows =
            [s \in DOMAIN @ \cup {e} |-> IF s = e THEN [f \in Fields |-> edits + 1] ELSE @[s]]])

-----------------------------------------------------------------------------
(* Gestures. *)

Press(v) ==
    /\ v \in Draggers
    /\ Idle(v)
    /\ ~Pressed(view[v])
    /\ Does
    /\ view' = [view EXCEPT ![v].gesture = edits + 1]
    /\ UNCHANGED <<doc, inbox, deleted>>

Drag(v, n) ==
    LET w == view[v] IN
    /\ Pressed(w)
    /\ Idle(v)
    /\ n \in DOMAIN w.shows
    /\ view' = [view EXCEPT ![v].shows[n]["place"] = w.gesture,
                            ![v].drags = [m \in {n} |-> w.shows[m]["place"]]]
    /\ UNCHANGED <<doc, inbox, edits, deleted>>

\* Any pointer lifts, or the window loses the focus: the gesture falls,
\* whether or not Obsidian still drags.
Up(w) == [w EXCEPT !.gesture = 0, !.ending = @ \/ Pressed(w) \/ w.late]
Release(v) ==
    /\ Pressed(view[v]) \/ (view[v].late /\ ~view[v].ending)
    /\ view' = [view EXCEPT ![v] = Up(view[v])]
    /\ UNCHANGED <<doc, inbox, edits, deleted>>

\* The drag ends where the pointer is, and Obsidian saves.
Drop(v) ==
    /\ DOMAIN view[v].drags # {}
    /\ requestSave(v, [Up(view[v]) EXCEPT !.drags = << >>])
    /\ UNCHANGED edits

\* The drag is called off: the node goes back, and nothing is saved.
Cancel(v) ==
    LET w == view[v] IN
    /\ DOMAIN w.drags # {}
    /\ view' = [view EXCEPT ![v] = [w EXCEPT
            !.shows = [r \in DOMAIN @ |->
                IF r \in DOMAIN w.drags THEN [@[r] EXCEPT !["place"] = w.drags[r]] ELSE @[r]],
            !.drags = << >>]]
    /\ UNCHANGED <<doc, inbox, edits, deleted>>

\* What the gesture held back is read afresh.
gestureEnded(v) ==
    /\ view[v].ending
    /\ view' = [view EXCEPT ![v] =
            applyRemoteNow(doc[v], [view[v] EXCEPT !.ending = FALSE, !.late = FALSE])]
    /\ UNCHANGED <<doc, inbox, edits, deleted>>

-----------------------------------------------------------------------------
(* History, and the other vaults. *)

\* Obsidian shows a state whole; an edge is shown between nodes that are.
Imported(snap) ==
    [r \in {s \in DOMAIN snap : s \in Edges => Ends(s) \subseteq DOMAIN snap} |-> snap[r]]
applyHistory(v, w, i) == capture(v, [w EXCEPT !.shows = Imported(w.snaps[i]), !.at = i])

Undo(v) ==
    LET w == pushHistory(view[v]) IN
    /\ v \in Undoers
    /\ Idle(v)
    /\ w.at > 1
    /\ Does
    /\ applyHistory(v, w, w.at - 1)

Redo(v) ==
    LET w == pushHistory(view[v]) IN
    /\ v \in Undoers
    /\ Idle(v)
    /\ w.at < Len(w.snaps)
    /\ UNCHANGED edits
    /\ applyHistory(v, w, w.at + 1)

\* A peer's transaction reaches the document, and is drawn.
Receive(v) ==
    /\ inbox[v] # << >>
    /\ doc' = [doc EXCEPT ![v] = Apply2(@, Head(inbox[v]))]
    /\ inbox' = [inbox EXCEPT ![v] = Tail(@)]
    /\ view' = [view EXCEPT ![v] = applyRemoteNow(doc'[v], @)]
    /\ UNCHANGED <<edits, deleted>>

-----------------------------------------------------------------------------

\* Before anything happens every vault has the same records, and has drawn them.
First(made) ==
    [fields |-> [p \in FieldPaths |-> [at |-> << >>, live |-> p[1] \in made, value |-> 0]],
     tombs |-> [p \in TombPaths |-> Unset(Tombstone([f \in Fields |-> 0], {}))]]
Opened(value) ==
    [shows |-> value, held |-> value, snaps |-> <<value>>, at |-> 1, push |-> << >>,
     gesture |-> 0, drags |-> << >>, late |-> FALSE, ending |-> FALSE, unread |-> {}]

Init ==
    /\ \E edges \in SUBSET Edges :
        /\ doc = [v \in Clients |-> First(Nodes \cup edges)]
        /\ view = [v \in Clients |-> Opened(readCanvas(First(Nodes \cup edges)))]
    /\ inbox = [v \in Clients |-> << >>]
    /\ edits = 0
    /\ deleted = {}

Next ==
    \/ \E v \in Clients, n \in Nodes : Recolour(v, n)
    \/ \E v \in Clients : Save(v)
    \/ \E v \in Clients, n \in Nodes : Move(v, n)
    \/ \E v \in Clients, r \in Records : Remove(v, r)
    \/ \E v \in Clients, e \in Edges : Connect(v, e)
    \/ \E v \in Clients : Press(v)
    \/ \E v \in Clients, n \in Nodes : Drag(v, n)
    \/ \E v \in Clients : Release(v)
    \/ \E v \in Clients : Drop(v)
    \/ \E v \in Clients : Cancel(v)
    \/ \E v \in Clients : gestureEnded(v)
    \/ \E v \in Clients : Undo(v)
    \/ \E v \in Clients : Redo(v)
    \/ \E v \in Clients : Receive(v)

Spec == Init /\ [][Next]_vars

-----------------------------------------------------------------------------

TypeOK ==
    /\ \A v \in Clients :
        /\ \A p \in FieldPaths : doc[v].fields[p].value \in 0..MaxEdits
        /\ \A p \in TombPaths : doc[v].tombs[p].value.snapshot \in Contents
        /\ IsView(view[v])
    /\ edits \in 0..MaxEdits

\* A bound view shows the document.  While nothing is dragged, pressed or
\* uncommitted, and no reading is due, what a vault's view shows is what its
\* document says: nothing the user did stayed in the view, nothing a peer did
\* stayed out of it (canvas-live.ts: held, planDraw, heldLate).  Left out, until
\* it is next drawn, is a record a change of the user's own left the document
\* and the view at odds about: a vault's own changes are not drawn.  An undo
\* can make a record say again what a tombstone matches, and a node the user
\* deletes stays while an edge of it lives by its other end.
Only(value, rs) == [r \in DOMAIN value \cap rs |-> value[r]]
AtRest(v) == /\ Idle(v)
             /\ ~Pressed(view[v])
             /\ ~view[v].late
             /\ ~view[v].ending
ShowsTheDocument ==
    \A v \in Clients : AtRest(v) =>
        LET rs == Records \ view[v].unread IN
        Only(view[v].shows, rs) = Only(readCanvas(doc[v]), rs)

\* Every edge a view shows or its undo would save has both its ends there
\* (canvas-model.ts readCanvas: a live edge keeps both its ends).
EdgesKeepEnds ==
    \A v \in Clients : \A e \in Edges \cap DOMAIN view[v].shows : Ends(e) \subseteq DOMAIN view[v].shows

\* What a deleter had not seen survives the deletion: a node nobody's
\* document shows is one that some user deleted while it said just what it
\* says now (canvas-model.ts bury: the snapshot is the base).
DeletedAsSeen ==
    \A v \in Clients : \A n \in Nodes \ DOMAIN readCanvas(doc[v]) :
        \E u \in Clients : <<u, n, Content(doc[v], n)>> \in deleted

\* Undo reverts no peer: what a vault writes over another's value is what its
\* user did after it, never an earlier state (canvas-live.ts rebaseHistory), but
\* for the place of a node where a gesture keeps the other's value undrawn.  A node the vault's own user
\* had deleted is left out: a peer's change brings it back, but the states of
\* undo from before the deletion keep its old fields, a record being added only
\* where it is missing.
Wrote(v, p) == doc'[v].fields[p].at = Append(doc[v].fields[p].at, v)
ByAnother(v, p) == LET at == doc[v].fields[p].at IN at # << >> /\ at[Len(at)] # v
HeldBack(v, p) == p[2] = "place" /\ (p[1] \in movingGeometry(view[v]) \/ view[v].late \/ view[v].ending)
OwnDeleted(v, r) == \E d \in deleted : d[1] = v /\ d[2] = r
UndoSparesPeers ==
    [][\A v \in Clients, p \in FieldPaths :
        Wrote(v, p) /\ ByAnother(v, p) /\ ~OwnDeleted(v, p[1])
            => \/ doc'[v].fields[p].value > doc[v].fields[p].value
               \/ HeldBack(v, p)]_vars

\* No vault brings back what a peer deleted: a record a vault's own step makes
\* live again is one its user had deleted, or one its view still shows because
\* a gesture holds it, or comes with such a record over an edge of theirs
\* (canvas-live.ts rebaseHistory: a node the peer removed leaves every snapshot).
Acted(v) == doc'[v] # doc[v] /\ inbox'[v] = inbox[v]
Back(v) == {r \in DOMAIN readCanvas(doc'[v]) \ DOMAIN readCanvas(doc[v]) : Made(doc[v], r)}
Wanted(v, back) == {r \in back : OwnDeleted(v, r) \/ r \in DOMAIN view[v].shows}
Along(wanted) == UNION {{e} \cup Ends(e) : e \in {d \in Edges : ({d} \cup Ends(d)) \cap wanted # {}}}
NoneRevived ==
    [][\A v \in Clients : Acted(v) =>
        LET back == Back(v)
            wanted == Wanted(v, back)
        IN back \subseteq wanted \cup Along(wanted)]_vars

\* Neither way a peer is undone, by a value or by a whole record.
PeersStand == UndoSparesPeers /\ NoneRevived

\* What the source says of undo: no node a peer deleted comes back by it.  Two
\* users delete the two ends of an edge at once, the edge with each, and one
\* undoes: its node is live, so the edge is, and so the other's node.
UndoRevivesNothing ==
    [][\A v \in Clients : Acted(v) => Nodes \cap Back(v) \subseteq Wanted(v, Back(v))]_vars

\* What the user drags stays under the pointer: no peer's change moves it or
\* takes it away before the drag is over (movingGeometry).
DragStands ==
    [][\A v \in Clients : \A n \in DOMAIN view[v].drags :
        n \in DOMAIN view'[v].drags =>
            /\ n \in DOMAIN view'[v].shows
            /\ view'[v].shows[n]["place"] = view[v].shows[n]["place"]]_vars
=============================================================================
