------------------------------- MODULE Presence -------------------------------
(***************************************************************************)
(* What a device says of its person in one document, and which part of the *)
(* plugin says it.  One Awareness is written by several parts that know    *)
(* nothing of each other:                                                  *)
(*   - of a note: the editor bridge (editor-bridge.ts), the presence of    *)
(*     other views of the note (text-view-presence.ts), the note cards of  *)
(*     canvases (canvas-note-binding.ts), the Properties panel             *)
(*     (property-focus.ts);                                                *)
(*   - of a base: bases-presence.ts, for all panes that show it;           *)
(*   - of a board, a canvas or a drawing: one session for each pane        *)
(*     (canvas-presence.ts, excalidraw-presence.ts).                       *)
(* Each must say that the person is there while it is so, and take back    *)
(* what it said and nothing else.                                          *)
(*                                                                         *)
(* A person's place is a spot: where the mouse or the focus is in a note   *)
(* or a base, the pane whose fields are said on a board.                   *)
(***************************************************************************)
EXTENDS Awareness

CONSTANTS
    Kinds,      \* the documents looked at: of "note", "base" and "board"
    Spots,      \* the places a person points at in a note or a base
    MaxActs,    \* what each person does, with each kind of document
    MaxQueued,  \* and how much a chain may hold when a person acts
    Watching,   \* the devices whose person has had it open since long before
    Sharing,    \* the devices whose person shares the pointer at first
    Switching,  \* and those whose person may change that
    Closing     \* the devices whose document may be closed and subscribed again

ASSUME PresenceAssumption ==
    /\ Kinds \subseteq {"note", "base", "board"} /\ Spots \subseteq Places
    /\ MaxActs \in [Kinds -> [Devices -> Nat]] /\ MaxQueued \in [Kinds -> Nat]
    /\ Watching \cup Sharing \cup Switching \cup Closing \subseteq Devices

VARIABLES
    kind,       \* what the document is
    at,         \* the active leaf: on the note in an "editor" or a "view", or "away"
    bridge,     \* EditorBridge: "idle", "waiting" for a subscription, "binding", "bound"
    holds,      \* TextViewPresence or BasesPresence holds the Awareness
    told,       \* what that holder last said (Held.sent), or Silence
    editing,    \* a card that shows the note is being edited
    card,       \* CanvasNoteBindings: the subscription the card is bound to, or 0
    panes,      \* the panes that show the base or the board
    sessions,   \* of a board: the panes with a presence session
    sent,       \* of a board: the spot each session last sent
    again,      \* of a board: the sessions told to send again (forceSend)
    sharing,    \* the setting "Share my mouse pointer"
    spot,       \* where the person's mouse or focus is, or 0
    acts        \* what the person did

surfaces == <<at, bridge, holds, told, editing, card, panes, sessions, sent, again>>
person == <<sharing, spot, acts>>
presenceVars == <<transport, mishaps, kind, surfaces, person>>
elsewhere == <<link, epoch, life, phase, peers, opening, listeners, vouched, mishaps, kind>>

Says(d) == mine[d].says
IsBy(d, by) == Says(d).by = by
Said(by, where) == [by |-> by, spot |-> where]

-----------------------------------------------------------------------------
(* Slips, for the properties to catch. *)

NullsAnyState(d) == TRUE
StaysBoundQuietly(d) == FALSE

-----------------------------------------------------------------------------
(* What the person does. *)

MayAct(d) ==
    /\ acts[d] < MaxActs[kind][d] /\ acts' = [acts EXCEPT ![d] = @ + 1]
    /\ ChainsHold(MaxQueued[kind])

\* unbindCollab, where the bridge has a note: what was said of the note goes,
\* whoever said it.
Unbinds(d) == SayIf(d, bridge[d] # "idle" /\ Says(d) # Silence, Silence)

\* onActiveLeafChange: the bridge lets go of the note it has, and takes the
\* one in the editor that is active now, in this pane or another.
Look(d, where) ==
    /\ kind = "note" /\ MayAct(d)
    /\ where # at[d] \/ where = "editor"
    /\ at' = [at EXCEPT ![d] = where]
    /\ Unbinds(d)
    /\ bridge' = [bridge EXCEPT ![d] =
                     IF where # "editor" THEN "idle"
                     ELSE IF Subscribed(d) THEN "binding" ELSE "waiting"]
    /\ spot' = [spot EXCEPT ![d] = 0]
    /\ UNCHANGED <<elsewhere, holds, told, editing, card, panes, sessions, sent, again, sharing>>

\* Obsidian makes a card's editor when it is edited, and destroys it after.
EditCard(d) ==
    /\ kind = "note" /\ MayAct(d)
    /\ editing' = [editing EXCEPT ![d] = ~@]
    /\ UNCHANGED <<elsewhere, mine, sealing, at, bridge, holds, told, card, panes, sessions, sent, again, sharing, spot>>

\* The base or the board is opened in a pane; bound: panes are taken in order.
OpenPane(d, p) ==
    /\ kind # "note" /\ MayAct(d)
    /\ panes' = [panes EXCEPT ![d] = @ \cup {p}]
    /\ p \notin panes[d] /\ \A q \in Places : q < p => q \in panes[d]
    /\ UNCHANGED <<elsewhere, mine, sealing, at, bridge, holds, told, editing, card, sessions, sent, again, sharing, spot>>

\* stop, of a pane's session: while another pane of the board is open the
\* person is still here, and only what this pane said goes.
StopSession(d, p) ==
    LET others == sessions[d] \ {p}
    IN  /\ sessions' = [sessions EXCEPT ![d] = others]
        /\ sent' = [sent EXCEPT ![d][p] = 0]
        /\ again' = [again EXCEPT ![d] = IF p \in sessions[d] THEN others ELSE @]
        /\ SayIf(d, p \in sessions[d] /\ Says(d) # Silence,
                 IF others = {} THEN Silence ELSE [Says(d) EXCEPT !.spot = 0])

\* It is closed; a base is let go at the refresh that follows.
ClosePane(d, p) ==
    /\ kind # "note" /\ MayAct(d)
    /\ p \in panes[d]
    /\ panes' = [panes EXCEPT ![d] = @ \ {p}]
    /\ spot' = [spot EXCEPT ![d] = 0]
    /\ StopSession(d, p)
    /\ UNCHANGED <<elsewhere, at, bridge, holds, told, editing, card, sharing>>

\* The mouse leaving a note's editor is said at once, anything else when the
\* window of 50 ms closes.
PointerGone(d, p) == p = 0 /\ bridge[d] = "bound" /\ IsBy(d, "note") /\ Says(d).spot # 0

Point(d, p) ==
    /\ MayAct(d)
    /\ kind = "note" => at[d] # "away"
    /\ kind = "base" => panes[d] # {}
    /\ kind # "board" /\ p # spot[d]
    /\ spot' = [spot EXCEPT ![d] = p]
    /\ SayIf(d, PointerGone(d, p), Said("note", 0))
    /\ UNCHANGED <<elsewhere, surfaces, sharing>>

\* setSharePointer.
SetSharing(d) ==
    /\ d \in Switching /\ MayAct(d)
    /\ sharing' = [sharing EXCEPT ![d] = ~@]
    /\ UNCHANGED <<elsewhere, mine, sealing, surfaces, spot>>

-----------------------------------------------------------------------------
(* A note in the editor. *)

\* The end of installCollab, awaits behind it: the state is set, not a field of
\* it, since the subscription started silent.
Bind(d) ==
    /\ bridge[d] = "binding"
    /\ bridge' = [bridge EXCEPT ![d] = "bound"]
    /\ Say(d, Said("note", 0))
    /\ UNCHANGED <<elsewhere, at, holds, told, editing, card, panes, sessions, sent, again, person>>

\* PointerSender, while the editor is bound and the pointer is shared.
SendPointer(d) ==
    /\ bridge[d] = "bound" /\ sharing[d] /\ Says(d) # Silence
    /\ spot[d] # Says(d).spot
    /\ Say(d, [Says(d) EXCEPT !.spot = spot[d]])
    /\ UNCHANGED <<elsewhere, surfaces, person>>

\* clearPointer, once the setting is saved.
ClearPointer(d) ==
    /\ bridge[d] \in {"binding", "bound"} /\ ~sharing[d]
    /\ IsBy(d, "note") /\ Says(d).spot # 0
    /\ Say(d, Said("note", 0))
    /\ UNCHANGED <<elsewhere, surfaces, person>>

\* PropertyFocus.sync: the note the bridge has, bound or not yet, is said to
\* be looked at outside the Properties panel, if it was said to be a view.
SyncProperties(d) ==
    /\ bridge[d] \in {"binding", "bound"} /\ IsBy(d, "view")
    /\ Say(d, Said("note", 0))
    /\ UNCHANGED <<elsewhere, surfaces, person>>

-----------------------------------------------------------------------------
(* A note in another view, on a tick or after an event. *)

ViewActive(d) == kind = "note" /\ at[d] = "view" /\ Subscribed(d)

\* localFocus: the card or list of a board whose plugin is known, or nothing.
ViewSays(d) == Said("view", spot[d])

\* isOurs: another part may have replaced or cleared what the view said.
IsOurs(d) == IsBy(d, "view")

LetsGo(d) == holds' = [holds EXCEPT ![d] = FALSE] /\ told' = [told EXCEPT ![d] = Silence]

\* publish: what it said already is not said again, unless it is gone.
HoldView(d) ==
    /\ ViewActive(d)
    /\ ~holds[d] \/ told[d] # ViewSays(d) \/ ~IsOurs(d)
    /\ holds' = [holds EXCEPT ![d] = TRUE] /\ told' = [told EXCEPT ![d] = ViewSays(d)]
    /\ Say(d, ViewSays(d))
    /\ UNCHANGED <<elsewhere, at, bridge, editing, card, panes, sessions, sent, again, person>>

LeaveView(d) ==
    /\ kind = "note" /\ holds[d] /\ ~ViewActive(d)
    /\ LetsGo(d)
    /\ SayIf(d, IsOurs(d) /\ Says(d) # Silence, Silence)
    /\ UNCHANGED <<elsewhere, at, bridge, editing, card, panes, sessions, sent, again, person>>

-----------------------------------------------------------------------------
(* A note in a card that is being edited: CanvasNoteBindings.refresh, on a  *)
(* tick.  The file is read and the card's typing saved before it is bound.  *)

Live(d) == editing[d] /\ Subscribed(d) /\ card[d] = life[d]
\* announce: only if nobody has.
Announces(d) == IsBy(d, "nobody")

BindCard(d) ==
    /\ card[d] = 0 /\ editing[d] /\ Subscribed(d)
    /\ card' = [card EXCEPT ![d] = life[d]]
    /\ SayIf(d, Announces(d), Said("card", 0))
    /\ UNCHANGED <<elsewhere, at, bridge, holds, told, editing, panes, sessions, sent, again, person>>

\* A pane that let go of the note took what the card said with it.
Reannounces(d) == Announces(d)
CardSaysAgain(d) ==
    /\ card[d] # 0 /\ Live(d) /\ Reannounces(d)
    /\ Say(d, Said("card", 0))
    /\ UNCHANGED <<elsewhere, surfaces, person>>

\* release: of what was said only the caret goes, and the rest is said again
\* without it, to the Awareness the card was bound to.
ReleaseCard(d) ==
    /\ card[d] # 0 /\ ~Live(d)
    /\ card' = [card EXCEPT ![d] = 0]
    /\ SayIf(d, card[d] = life[d] /\ Says(d) # Silence, Says(d))
    /\ UNCHANGED <<elsewhere, at, bridge, holds, told, editing, panes, sessions, sent, again, person>>

-----------------------------------------------------------------------------
(* A base: refresh, on a tick or after an event. *)

\* The view that is shown, and the row in it that has the focus.
BaseSays(d) == Said("base", spot[d])

\* refresh: the base is held while a pane shows it.
BaseOpen(d) == panes[d] # {}

\* publish: only when the key of what it says has changed since it last said it.
HoldBase(d) ==
    /\ kind = "base" /\ BaseOpen(d) /\ Subscribed(d)
    /\ ~holds[d] \/ told[d] # BaseSays(d)
    /\ holds' = [holds EXCEPT ![d] = TRUE] /\ told' = [told EXCEPT ![d] = BaseSays(d)]
    /\ Say(d, BaseSays(d))
    /\ UNCHANGED <<elsewhere, at, bridge, editing, card, panes, sessions, sent, again, person>>

ReleaseBase(d) ==
    /\ kind = "base" /\ holds[d] /\ ~BaseOpen(d)
    /\ LetsGo(d)
    /\ FallSilent(d)
    /\ UNCHANGED <<elsewhere, at, bridge, editing, card, panes, sessions, sent, again, person>>

-----------------------------------------------------------------------------
(* A board. *)

\* start, once the pane is bound live: a state that already says who this is
\* came from another pane.
StartSession(d, p) ==
    /\ kind = "board" /\ Subscribed(d) /\ p \in panes[d] \ sessions[d]
    /\ sessions' = [sessions EXCEPT ![d] = @ \cup {p}]
    /\ SayIf(d, IsBy(d, "nobody"), Said("board", 0))
    /\ UNCHANGED <<elsewhere, at, bridge, holds, told, editing, card, panes, sent, again, person>>

\* The pane's pointer, viewport, selection and gesture: nothing is sent to an
\* empty room, or by somebody who does not share.
Fields(d, p) == IF sharing[d] /\ OthersIn(d) # {} THEN p ELSE 0

\* send, from the timer or the sample that set it: unchanged is not sent again.
SendFields(d, p) ==
    /\ kind = "board" /\ p \in sessions[d]
    /\ p \in again[d] \/ Fields(d, p) # sent[d][p]
    /\ again' = [again EXCEPT ![d] = @ \ {p}]
    /\ sent' = [sent EXCEPT ![d][p] = Fields(d, p)]
    /\ Say(d, Said("board", Fields(d, p)))
    /\ UNCHANGED <<elsewhere, at, bridge, holds, told, editing, card, panes, sessions, person>>

-----------------------------------------------------------------------------
(* What a device draws of the others, on the surface its person looks at.  *)

\* readPresence: whoever says who they are.
Reads(d) == {[who |-> c[1], says |-> peers[d][c].says] : c \in OthersIn(d)}

\* presenceReporter: each person once, oneself too.
People(d) == {r.who : r \in Reads(d)} \cup (IF Says(d) # Silence THEN {d} ELSE {})
\* The circles of the header of what is open, and their count.
Header(d) == IF bridge[d] = "bound" \/ holds[d] \/ sessions[d] # {} THEN People(d) ELSE {}

\* Never one's own pointer, and only what is said of the same kind of surface.
PointersToDraw(d, show) == {r \in Reads(d) : show /\ r.says.by = "note" /\ r.says.spot # 0}
DrawnInEditor(d, show) == IF bridge[d] = "bound" THEN PointersToDraw(d, show) ELSE {}
CardsFor(d) == {r \in Reads(d) : r.says.by = "view" /\ r.says.spot # 0}
DrawnInView(d) == IF kind = "note" /\ holds[d] THEN CardsFor(d) ELSE {}
ViewsOf(d) == IF kind = "base" /\ holds[d] THEN {r \in Reads(d) : r.says.by = "base"} ELSE {}
basesFocusMarks(d) == {r \in ViewsOf(d) : r.says.spot # 0}
DrawnInBase(d) == basesFocusMarks(d)
\* A canvas draws nothing of the others while pointers are hidden; a drawing
\* hands their selections to Excalidraw all the same.
PeersToDraw(d) == {r \in Reads(d) : r.says.by = "board" /\ r.says.spot # 0}
DrawnOnCanvas(d, show) == IF sessions[d] # {} /\ show THEN PeersToDraw(d) ELSE {}
CollaboratorsFrom(d) == IF sessions[d] # {} THEN PeersToDraw(d) ELSE {}
Boards == {"canvas", "drawing"}
DrawnOnBoard(d, show, board) ==
    IF board = "canvas" THEN DrawnOnCanvas(d, show) ELSE CollaboratorsFrom(d)

Depicted(d, show, board) ==
    DrawnInEditor(d, show) \cup DrawnInView(d) \cup DrawnInBase(d) \cup DrawnOnBoard(d, show, board)

\* Whose circle leads somewhere: to a pointer, drawn or not, to a card of a
\* view, to the view of a base, whatever of it has the focus.
goToInNote(d) == DrawnInEditor(d, TRUE)
canvasGoToTarget(d) == DrawnOnCanvas(d, TRUE)
GoToPerson(d) == {r.who : r \in goToInNote(d) \cup DrawnInView(d) \cup ViewsOf(d) \cup canvasGoToTarget(d)}

-----------------------------------------------------------------------------
(* The document goes and comes back: its folder is unshared or mapped anew. *)

\* The Awareness is destroyed under all who hold it: views and bases let go,
\* boards lose their binding, and the bridge waits for another.
CloseDocument(d) ==
    /\ d \in Closing /\ life[d] < MaxLives
    /\ Unsubscribe(d)
    /\ LetsGo(d)
    /\ bridge' = [bridge EXCEPT ![d] = IF @ = "idle" THEN "idle" ELSE "waiting"]
    /\ sessions' = [sessions EXCEPT ![d] = {}]
    /\ sent' = [sent EXCEPT ![d] = [p \in Places |-> 0]]
    /\ again' = [again EXCEPT ![d] = {}]
    /\ UNCHANGED <<kind, at, editing, card, panes, person>>

OpenDocument(d) ==
    /\ Subscribe(d)
    /\ bridge' = [bridge EXCEPT ![d] = IF @ = "waiting" THEN "binding" ELSE @]
    /\ UNCHANGED <<kind, at, holds, told, editing, card, panes, sessions, sent, again, person>>

Carried(d) == TransportStep(d) /\ UNCHANGED <<kind, surfaces, person>>

-----------------------------------------------------------------------------
\* Everybody is connected, and who watches is in an editor or in one pane, has
\* said so, and is known to be there.
PresenceInit ==
    /\ kind \in Kinds
    /\ TransportInit([d \in Devices |-> IF d \in Watching THEN [clock |-> 2, says |-> Said(kind, 0)] ELSE Quiet])
    /\ LET Watches(d) == d \in Watching
           In(k, d) == kind = k /\ d \in Watching
           FirstPane == {CHOOSE p \in Places : \A q \in Places : p <= q}
       IN  /\ at = [d \in Devices |-> IF In("note", d) THEN "editor" ELSE "away"]
           /\ bridge = [d \in Devices |-> IF In("note", d) THEN "bound" ELSE "idle"]
           /\ holds = [d \in Devices |-> In("base", d)]
           /\ told = [d \in Devices |-> IF In("base", d) THEN Said("base", 0) ELSE Silence]
           /\ panes = [d \in Devices |-> IF Watches(d) /\ kind # "note" THEN FirstPane ELSE {}]
           /\ sessions = [d \in Devices |-> IF In("board", d) THEN FirstPane ELSE {}]
    /\ editing = [d \in Devices |-> FALSE] /\ card = [d \in Devices |-> 0]
    /\ sent = [d \in Devices |-> [p \in Places |-> 0]] /\ again = [d \in Devices |-> {}]
    /\ sharing = [d \in Devices |-> d \in Sharing] /\ spot = [d \in Devices |-> 0]
    /\ acts = [d \in Devices |-> 0]

Acts(d) ==
    \/ \E where \in {"away", "editor", "view"} : Look(d, where)
    \/ EditCard(d)
    \/ \E p \in Places : OpenPane(d, p) \/ ClosePane(d, p)
    \/ \E p \in Spots \cup {0} : Point(d, p)
    \/ SetSharing(d)

Speaks(d) ==
    \/ Bind(d) \/ SendPointer(d) \/ ClearPointer(d) \/ SyncProperties(d)
    \/ HoldView(d) \/ LeaveView(d)
    \/ BindCard(d) \/ CardSaysAgain(d) \/ ReleaseCard(d)
    \/ HoldBase(d) \/ ReleaseBase(d)
    \/ \E p \in Places : StartSession(d, p) \/ SendFields(d, p)

PresenceNext == \E d \in Devices : Acts(d) \/ Speaks(d) \/ Carried(d) \/ CloseDocument(d) \/ OpenDocument(d)

\* What nobody decides: chains and ticks run, the timer of a lost socket fires,
\* a document closed is subscribed again.  One of them happens while one is
\* due; people, mishaps and sessions recovered are owed to nobody.
Due ==
    \E d \in Devices :
        \/ Speaks(d) \/ OpenDocument(d)
        \/ /\ \/ Seal(d) \/ OpenFrame(d) \/ Renew(d) \/ Sweep(d)
              \/ SocketOpens(d) \/ SendSubscribe(d) \/ CatchUpEnds(d)
           /\ UNCHANGED <<kind, surfaces, person>>

PresenceFairness == WF_presenceVars(Due)

PresenceSpec == PresenceInit /\ [][PresenceNext]_presenceVars /\ PresenceFairness

-----------------------------------------------------------------------------
(* What must hold. *)

\* Who is bound, held or in session is said to be there, by that part and by
\* no other; and what is said of a view, a base or a board has that part behind
\* it, with nothing left of a pane that is gone.
PresentAsOpen ==
    \A d \in Devices :
        /\ bridge[d] = "bound" => IsBy(d, "note")
        /\ IsBy(d, "note") => bridge[d] \in {"binding", "bound"}
        /\ IsBy(d, "view") => holds[d]
        /\ kind = "base" => (holds[d] <=> IsBy(d, "base"))
        /\ kind = "board" => (sessions[d] # {} <=> IsBy(d, "board"))
        /\ IsBy(d, "board") => Says(d).spot \in sessions[d] \cup {0}

\* Where a person is, by what is open.
Where(d) ==
    CASE kind # "note" -> IF panes[d] = {} THEN {"nobody"} ELSE {kind}
      [] bridge[d] = "bound" -> {"note"}
      [] at[d] = "view" -> {"view"}
      [] Live(d) -> {"card"}
      [] OTHER -> {"nobody"}

\* What a released card leaves behind: of what it said only the caret was taken
\* back, so somebody who has left the note this way stays announced in it until
\* another part of the plugin speaks or the document is closed (release).
LeftByCard(d) == Where(d) = {"nobody"} /\ card[d] = 0 /\ Says(d) = Said("card", 0)

\* The spot that is said is the person's, and none is of one who does not share.
SpotSaid(d) ==
    CASE IsBy(d, "board") -> IF sharing[d] /\ OthersIn(d) # {} THEN Says(d).spot \in sessions[d] ELSE Says(d).spot = 0
      [] IsBy(d, "note") -> IF sharing[d] THEN Says(d).spot = spot[d] ELSE Says(d).spot = 0
      [] IsBy(d, "view") \/ IsBy(d, "base") -> Says(d).spot = spot[d]
      [] OTHER -> Says(d).spot = 0

Listens(d) == Online(d) /\ Subscribed(d)
InTruth(d) == {[who |-> e, says |-> Says(e)] : e \in {e \in Devices \ {d} : Listens(e) /\ Says(e) # Silence}}

\* Whom a device should draw where, by where the persons are.
Pointing(e) ==
    CASE bridge[e] = "bound" -> "note"
      [] kind = "note" /\ at[e] = "view" -> "view"
      [] kind # "note" /\ panes[e] # {} -> kind
      [] OTHER -> "nobody"
DueIn(d, show, board) ==
    {e \in Devices \ {d} :
        /\ Listens(e) /\ Pointing(e) = Pointing(d) /\ Pointing(d) # "nobody"
        /\ Pointing(d) \in {"note", "board"} => sharing[e]
        /\ Pointing(d) = "note" \/ (Pointing(d) = "board" /\ board = "canvas") => show
        /\ kind # "board" => spot[e] # 0}

\* In the end each device says where its person is, or, of one who has left the
\* note by a card alone, what the card left behind (LeftByCard; the code takes
\* it back nowhere, see README 4); it knows of the others exactly what they say,
\* and its open surface draws exactly those who point at the same thing and
\* leads to them: nobody left from before, nobody missing.
TruthArrives ==
    <>[](\A d \in Devices :
            /\ Subscribed(d) => (Says(d).by \in Where(d) \/ LeftByCard(d)) /\ SpotSaid(d)
            /\ Listens(d) => /\ Reads(d) = InTruth(d)
                             /\ Header(d) = IF Pointing(d) = "nobody" THEN {}
                                            ELSE {e \in Devices : Listens(e) /\ Says(e) # Silence}
                             /\ \A show \in BOOLEAN, board \in Boards :
                                    {r.who : r \in Depicted(d, show, board)} = DueIn(d, show, board)
                             /\ kind # "base" => GoToPerson(d) = DueIn(d, TRUE, "canvas")
                             /\ kind = "base" => GoToPerson(d) = {e \in Devices \ {d} : Listens(e)
                                                                   /\ panes[d] # {} /\ panes[e] # {}})
=============================================================================
