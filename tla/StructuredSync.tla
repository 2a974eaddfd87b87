--------------------------- MODULE StructuredSync ---------------------------
(***************************************************************************)
(* One structured file (a canvas, a base) shared by several vaults:        *)
(* packages/plugin/src/structured-sync.ts, with text-view-guard.ts, which  *)
(* asks an open view of the file.                                          *)
(*                                                                         *)
(* A text is what the file, or a view of it, says under each key; what a   *)
(* person writes is numbered in the order of writing.  The document is one *)
(* Y.Map key by key (YMap) and a stamp, the version of the client that     *)
(* filled it.  Each await of the code that lets something happen ends an   *)
(* action.  The provider hands every vault the transactions of the others  *)
(* in order (DocSync's promise), and a vault keeps its replica on disk.    *)
(* Keys are set, never removed, and no key is presentation only; of the    *)
(* optional codec rules only the schema upgrade is here.                   *)
(***************************************************************************)
EXTENDS YMap, FiniteSets

CONSTANTS
    Vaults,
    Elsewhere,      \* vaults seen only through the document: their file follows
                    \* it at once
    Keys,
    Stamp,          \* the part of the document that says who filled it
    Viewing,        \* vaults where the file is opened in a view
    Unsteady,       \* vaults where the app stops and starts
    Version,        \* the schema version each vault's client writes
    MaxEdits,       \* what people write, all vaults together
    MaxTroubles     \* stops of the app, files left half written, views opened
                    \* or bound

ASSUME VaultsAssumption ==
    /\ Vaults \subseteq Nat \ {0} /\ IsFiniteSet(Vaults)
    /\ Elsewhere \subseteq Vaults
ASSUME KeysAssumption == Stamp \notin Keys
ASSUME BoundsAssumption == {MaxEdits, MaxTroubles} \subseteq Nat

VARIABLES
    doc,        \* each vault's replica
    inbox,      \* transactions a vault has not received
    disk,       \* the file in each vault
    told,       \* Obsidian's modify event on its way to the watcher
    sync,       \* StructuredDocState
    session,    \* times the app was started
    clients,    \* CLIENTS_KEY: the ids a vault wrote the document under
    agreed,     \* AGREED_KEY: what file and document last agreed on
    view,       \* an open view of the file
    guard,      \* what TextViewGuard knows of the view
    \* What follows no code reads.
    edits,      \* edits so far; an edit's number is what it wrote
    made,       \* every assignment of a key
    author,     \* where each edit was made
    kept,       \* edits in a conflict copy or a backup
    excused,    \* edits replaced by a person, or gone with the app
    unclear,    \* values a save may bring back, in ways the code leaves open
    troubles

files == <<disk, told>>
replicas == <<doc, inbox, made, clients>>
ghosts == <<edits, author, excused, unclear>>
vars == <<replicas, files, sync, session, agreed, view, guard, ghosts, kept, troubles>>

Here == Vaults \ Elsewhere
Contents == 0..MaxEdits
Parts == Keys \cup {Stamp}

Said(kind, keys) == [is |-> kind, keys |-> keys]
Starting == [k \in Keys |-> 0]
None == Said("none", Starting)
Blank == Said("blank", Starting)
Broken == Said("broken", Starting)
Text(keys) == Said("text", keys)
Texts == {Text(keys) : keys \in [Keys -> Contents]}

Sessions == 1..(MaxTroubles + 1)
\* A new Y.Doc, and with it a new client id, at each launch.
ClientId(v, n) == v + Cardinality(Vaults) * (n - 1)

Fresh == [up |-> "off", base |-> None, agreedAtConnect |-> None,
          checked |-> FALSE, ours |-> {}, handedOff |-> FALSE, timer |-> FALSE,
          phase |-> "idle", seen |-> None, writing |-> None]
Closed == [mode |-> "closed", data |-> None, holds |-> {}, dirty |-> FALSE,
           saving |-> FALSE, due |-> FALSE]
Unguarded == [held |-> None, written |-> None, repairing |-> None]

-----------------------------------------------------------------------------
(* The document. *)

Client(v) == ClientId(v, session[v])
Stamped(v) == doc[v][Stamp].live
Read(v) == Text([k \in Keys |-> doc[v][k].value])
OnTopOf(later, earlier) ==
    /\ Len(earlier) <= Len(later)
    /\ SubSeq(later, 1, Len(earlier)) = earlier

\* A transaction of vault v; its client id is recorded with its first.
Transact(v, transaction) ==
    /\ doc' = [doc EXCEPT ![v] = Apply(@, transaction)]
    /\ inbox' = [w \in Vaults |-> IF w = v \/ transaction = {} THEN inbox[w]
                                  ELSE Append(inbox[w], transaction)]
    /\ made' = made \cup {c \in transaction : c.path \in Keys}
    /\ clients' = [clients EXCEPT ![v] = IF transaction = {} THEN @ ELSE @ \cup {Client(v)}]

\* StructuredCodec.apply: against a base, what differs from it; without one,
\* what the document does not say.
Differing(v, text, base) ==
    {Assignment(doc[v], Client(v), k, text.keys[k]) :
        k \in {q \in Keys : text.keys[q] # base.keys[q]}}
Filling(v, text) ==
    {Assignment(doc[v], Client(v), Stamp, Version[v])} \cup
    {Assignment(doc[v], Client(v), k, text.keys[k]) :
        k \in {q \in Keys : ~doc[v][q].live \/ doc[v][q].value # text.keys[q]}}

NewerThan(v, replica) == replica[Stamp].live /\ replica[Stamp].value > Version[v]

-----------------------------------------------------------------------------
(* Slips: decisions of the code as a plausible change would break them,    *)
(* for the properties to catch.                                            *)

SeesNoLoss(v, after) == {}
TrustsTheFile(v, text, checked, base) == FALSE
NeverWrites(state) == state
RestartsWrite(state) == [state EXCEPT !.timer = TRUE, !.phase = "idle"]

-----------------------------------------------------------------------------
(* Deciding. *)

loadOurClients(v) == clients[v] \cup {Client(v)}

\* The entries of this vault's a remote change discarded without having seen
\* them: what replaced them was not made on top of them.
lostUnseen(v, after) ==
    {p \in Parts : LET before == doc[v][p].at IN
        /\ before # << >> /\ before[Len(before)] \in sync[v].ours \cup {Client(v)}
        /\ ~OnTopOf(after[p].at, before)}

\* TextViewGuard.viewsOf: open, and holding data.
HasView(v) == view[v].mode # "closed" /\ view[v].data # None

\* The base a save of an open view is read in against, when it cannot be our
\* last write.
baseFor(v) ==
    IF ~HasView(v) THEN None
    ELSE IF guard[v].repairing # None THEN guard[v].repairing
    ELSE IF guard[v].written # None /\ view[v].data # guard[v].written THEN guard[v].held
    ELSE None

\* A text brought into the document, diffed against its base: the assignments,
\* and whether there was a base to diff against.
NoRead == [done |-> FALSE, changes |-> {}]
readIn(v, text, lastAgreed) ==
    LET base == IF baseFor(v) # None THEN baseFor(v) ELSE lastAgreed IN
    IF text = Read(v) THEN [done |-> TRUE, changes |-> {}]
    ELSE IF base = None THEN NoRead
    ELSE [done |-> TRUE, changes |-> Differing(v, text, base)]
ingested(v, text) ==
    guard' = [guard EXCEPT ![v].repairing = None,
                           ![v].held = IF guard[v].written # None THEN text ELSE @]

\* Whether two changes to a text touch different things.
commutes(base, a, b) ==
    \A k \in Keys : a.keys[k] = base.keys[k] \/ b.keys[k] = base.keys[k] \/ a.keys[k] = b.keys[k]

\* The file is content the write would replace without its having been shared.
MustBackUp(v, text, checked, base) == text.is = "broken" \/ text # base

Agree(state, text) == [state EXCEPT !.base = text]
scheduleDiskWrite(state) == [state EXCEPT !.timer = TRUE]
checkHandOff(v, state, replica) == [state EXCEPT !.handedOff = @ \/ NewerThan(v, replica)]

\* A write is due, in a vault seen with its file; elsewhere the file follows.
Due(v, state) == IF v \in Here THEN scheduleDiskWrite(state) ELSE state
Follows(v, replica) ==
    IF v \in Here THEN disk
    ELSE [disk EXCEPT ![v] = Text([k \in Keys |-> replica[k].value])]

Values(text) == IF text.is = "text" THEN {text.keys[k] : k \in Keys} ELSE {}
Words(text) == Values(text) \ {0}
Keep(text) == kept' = kept \cup Words(text)

\* The file is replaced by something other than its view.
Put(v, text) ==
    /\ disk' = [disk EXCEPT ![v] = text]
    /\ told' = [told EXCEPT ![v] = TRUE]
    /\ view' = [view EXCEPT ![v].due = view[v].mode = "open"]

\* A bound view shows a text, and will save it.
Shows(v, text) ==
    [view EXCEPT ![v].data = text, ![v].holds = @ \cup {text}, ![v].dirty = TRUE]

\* A view saves over what another program wrote in the same vault.
OverwrittenByView(v) == {n \in Words(disk[v]) \ Words(view[v].data) : author[n] = v}

\* The view may hold something older than what file and document agreed on.
OlderBase(v) == sync[v].phase = "wrote" \/ guard[v].written # None \/ guard[v].repairing # None

\* A save no one has told of outlives what it was made on: the copy a bound view
\* carried its edits from, and the base kept for a view that missed a write.
LetsGo(v) ==
    unclear' = IF (view[v].mode = "bound" \/ OlderBase(v)) /\ (view[v].dirty \/ told[v])
               THEN unclear \cup Values(view[v].data) \cup Values(disk[v]) ELSE unclear

Trouble == troubles < MaxTroubles /\ troubles' = troubles + 1
SyncOnly(v, state) == sync' = [sync EXCEPT ![v] = state]

-----------------------------------------------------------------------------
(* A session of one vault. *)

\* IndexedDB has answered, and what earlier sessions kept is loaded.
Connect(v) ==
    /\ sync[v].up = "off"
    /\ SyncOnly(v, Due(v, checkHandOff(v,
           [Fresh EXCEPT !.up = "subscribed", !.ours = loadOurClients(v),
                         !.agreedAtConnect = agreed[v]], doc[v])))
    /\ UNCHANGED <<replicas, files, session, agreed, view, guard, ghosts, kept, troubles>>

seedIfEmpty(v) == ~Stamped(v) /\ disk[v].is = "text"
upgradeSchema(v) ==
    IF Stamped(v) /\ ~sync[v].handedOff /\ doc[v][Stamp].value < Version[v]
    THEN {Assignment(doc[v], Client(v), Stamp, Version[v])} ELSE {}

\* The first sync: fill an unfilled document from the file, then bring a
\* document of an older client up to this version.
FirstSync(v) ==
    LET fills == seedIfEmpty(v)
        filled == IF fills THEN Agree(sync[v], disk[v]) ELSE sync[v]
    IN
    /\ sync[v].up = "subscribed" /\ inbox[v] = << >>
    /\ Transact(v, IF fills THEN Filling(v, disk[v]) ELSE upgradeSchema(v))
    /\ agreed' = IF fills THEN [agreed EXCEPT ![v] = disk[v]] ELSE agreed
    /\ SyncOnly(v, Due(v, [filled EXCEPT !.up = "synced"]))
    /\ disk' = IF Stamped(v) THEN Follows(v, doc[v]) ELSE disk
    /\ UNCHANGED <<told, session, view, guard, ghosts, kept, troubles>>

\* A transaction of another vault arrives: what it discarded of this vault's
\* is copied, from the file or from the bound view, before anything replaces it.
Receive(v) ==
    LET after == Apply(doc[v], Head(inbox[v]))
        lost == lostUnseen(v, after)
        mine == IF view[v].mode = "bound" THEN view[v].data ELSE disk[v]
    IN
    /\ sync[v].up # "off" /\ inbox[v] # << >>
    /\ doc' = [doc EXCEPT ![v] = after]
    /\ inbox' = [inbox EXCEPT ![v] = Tail(@)]
    /\ IF lost # {} THEN Keep(mine) ELSE UNCHANGED kept
    /\ SyncOnly(v, Due(v, checkHandOff(v, sync[v], after)))
    /\ disk' = Follows(v, after)
    /\ view' = IF view[v].mode = "bound"
               THEN Shows(v, Text([k \in Keys |-> after[k].value])) ELSE view
    /\ UNCHANGED <<made, clients, told, session, agreed, guard, ghosts, troubles>>

\* The app stops, or is killed: a view's unsaved work may be saved as it goes.
Stop(v) ==
    /\ v \in Unsteady /\ sync[v].up # "off" /\ Trouble
    /\ session' = [session EXCEPT ![v] = @ + 1]
    /\ sync' = [sync EXCEPT ![v] = Fresh]
    /\ view' = [view EXCEPT ![v] = Closed]
    /\ guard' = [guard EXCEPT ![v] = Unguarded]
    /\ told' = [told EXCEPT ![v] = FALSE]
    /\ \/ disk' = [disk EXCEPT ![v] = IF view[v].dirty THEN view[v].data ELSE @]
       \/ view[v].dirty /\ UNCHANGED disk
    /\ excused' = excused \cup ((Words(view[v].data) \cup Words(disk[v])) \ Words(disk'[v]))
    /\ LetsGo(v)
    /\ UNCHANGED <<replicas, agreed, edits, author, kept>>

-----------------------------------------------------------------------------
(* VaultWatcher tells of a file that changed: onLocalModify. *)

Heard(v) == told[v] /\ sync[v].up # "off" /\ told' = [told EXCEPT ![v] = FALSE]

ForNothing(v, text) ==
    \/ sync[v].handedOff \/ NewerThan(v, doc[v])
    \/ text \in {sync[v].base, sync[v].writing, Broken, Blank}
    \/ ~Stamped(v) /\ sync[v].up # "synced"

HeardForNothing(v) ==
    /\ Heard(v) /\ ForNothing(v, disk[v])
    /\ SyncOnly(v, checkHandOff(v, sync[v], doc[v]))
    /\ UNCHANGED <<replicas, disk, session, agreed, view, guard, ghosts, kept, troubles>>

\* A save fills the document, is read in, or, for want of a base, waits for
\* the next write to keep it aside.
HeardSave(v) ==
    LET text == disk[v]
        read == IF Stamped(v) THEN readIn(v, text, sync[v].base)
                ELSE [done |-> TRUE, changes |-> Filling(v, text)]
        state == IF read.done THEN Agree(sync[v], text) ELSE sync[v]
    IN
    /\ Heard(v) /\ ~ForNothing(v, text) /\ view[v].mode # "bound"
    /\ Transact(v, read.changes)
    /\ agreed' = IF read.done THEN [agreed EXCEPT ![v] = text] ELSE agreed
    /\ SyncOnly(v, IF Stamped(v) THEN scheduleDiskWrite(state) ELSE state)
    /\ IF read.done /\ Stamped(v) THEN ingested(v, text) ELSE UNCHANGED guard
    /\ UNCHANGED <<disk, session, view, ghosts, kept, troubles>>

\* A bound view shows a change to the document it did not make, and will save it.
Drawn(v, changes, text) ==
    LET after == Apply(doc[v], changes)
        says == Text([k \in Keys |-> after[k].value])
    IN [view[v] EXCEPT !.data = IF changes = {} THEN @ ELSE says,
                       !.holds = @ \cup {text} \cup (IF changes = {} THEN {} ELSE {says}),
                       !.dirty = @ \/ changes # {}]

\* BoundView.baseFor: of what the view held, a text the save differs least from.
Nearest(v, text) ==
    LET distance(held) == Cardinality({k \in Keys : held.keys[k] # text.keys[k]}) IN
    {held \in view[v].holds : \A other \in view[v].holds : distance(held) <= distance(other)}

\* readInBoundSave: a bound view's save is an echo; another program's is merged.
HeardBound(v) ==
    LET text == disk[v] IN
    /\ Heard(v) /\ ~ForNothing(v, text) /\ view[v].mode = "bound"
    /\ \E base \in Nearest(v, text) :
        LET changes == IF text \in view[v].holds \cup {Read(v)} THEN {}
                       ELSE Differing(v, text, base)
        IN /\ Transact(v, changes)
           /\ view' = [view EXCEPT ![v] = Drawn(v, changes, text)]
    /\ agreed' = [agreed EXCEPT ![v] = text]
    /\ SyncOnly(v, Agree(sync[v], text))
    /\ UNCHANGED <<disk, session, guard, ghosts, kept, troubles>>

-----------------------------------------------------------------------------
(* Writing the file: writeToDiskOnce, one at a time. *)

\* The timer fires.  A view with work of its own saves first; one asked while it
\* saves answers once that save is over too.
BeginWrite(v) ==
    LET state == checkHandOff(v, [sync[v] EXCEPT !.timer = FALSE], doc[v])
        goes == ~state.handedOff /\ Stamped(v) /\ view[v].mode # "bound"
        pending == guard[v].written
        loaded == pending # None /\ view[v].data = pending
        saves == goes /\ HasView(v) /\ view[v].dirty
    IN
    /\ state.up # "off" /\ sync[v].timer /\ state.phase = "idle" /\ ~view[v].saving
    /\ SyncOnly(v, [state EXCEPT !.phase = IF goes THEN "asked" ELSE "idle"])
    /\ IF saves
       THEN /\ disk' = [disk EXCEPT ![v] = view[v].data]
            /\ told' = [told EXCEPT ![v] = TRUE]
            /\ view' = [view EXCEPT ![v].dirty = FALSE]
            /\ excused' = excused \cup OverwrittenByView(v)
       ELSE UNCHANGED <<files, view, excused>>
    /\ guard' = IF ~goes \/ (HasView(v) /\ pending # None /\ ~loaded) THEN guard
                ELSE [guard EXCEPT ![v].held = IF HasView(v) THEN view[v].data ELSE None,
                                   ![v].written = None]
    /\ UNCHANGED <<replicas, session, agreed, edits, author, unclear, kept, troubles>>

\* The file is read, what it holds read in, and what would be lost kept aside.
ReadBack(v) ==
    LET state == sync[v]
        text == disk[v]
        parsed == text.is = "text"
        \* The first write of a connect, knowing what was agreed on before.
        knows == ~state.checked /\ state.base = None /\ state.agreedAtConnect # None /\ parsed
        before == IF knows THEN state.agreedAtConnect ELSE state.base
        bothMoved == knows /\ text # before /\ Read(v) # before
        clash == bothMoved /\ ~commutes(before, Read(v), text)
        reads == parsed /\ text # before /\ ~clash /\ (knows \/ state.checked)
        read == IF reads THEN readIn(v, text, before) ELSE NoRead
        after == Apply(doc[v], read.changes)
        says == Text([k \in Keys |-> after[k].value])
        base == IF read.done \/ clash THEN text ELSE before
        checked == state.checked \/ knows
        equal == text = says
        backsUp == ~equal /\ text # Blank /\ MustBackUp(v, text, checked, base)
        next == [state EXCEPT !.base = base, !.checked = TRUE]
    IN
    /\ state.phase = "asked" /\ view[v].mode # "bound"
    /\ Transact(v, read.changes)
    /\ agreed' = IF read.done \/ equal THEN [agreed EXCEPT ![v] = text] ELSE agreed
    /\ SyncOnly(v, IF equal THEN [Agree(next, text) EXCEPT !.phase = "idle"]
                   ELSE IF text = Blank THEN [next EXCEPT !.phase = "wrote", !.writing = says,
                                                          !.checked = state.checked]
                   ELSE [next EXCEPT !.phase = "backed", !.seen = text])
    /\ IF ~equal /\ text = Blank THEN Put(v, says) ELSE UNCHANGED <<files, view>>
    /\ IF bothMoved \/ backsUp THEN Keep(text) ELSE UNCHANGED kept
    /\ IF read.done THEN ingested(v, text) ELSE UNCHANGED guard
    /\ UNCHANGED <<session, ghosts, troubles>>

\* A view was bound while the others were asked.
WriteYields(v) ==
    /\ sync[v].phase = "asked" /\ view[v].mode = "bound"
    /\ SyncOnly(v, [sync[v] EXCEPT !.phase = "idle"])
    /\ UNCHANGED <<replicas, files, session, agreed, view, guard, ghosts, kept, troubles>>

\* A backup is an await, and someone can save in it: then it all starts again.
WriteText(v) ==
    /\ sync[v].phase = "backed"
    /\ LET over == [sync[v] EXCEPT !.seen = None] IN
       IF disk[v] = sync[v].seen
       THEN /\ Put(v, Read(v))
            /\ SyncOnly(v, [over EXCEPT !.phase = "wrote", !.writing = Read(v)])
       ELSE /\ SyncOnly(v, scheduleDiskWrite([over EXCEPT !.phase = "idle"]))
            /\ UNCHANGED <<files, view>>
    /\ UNCHANGED <<replicas, session, agreed, guard, ghosts, kept, troubles>>

\* The write is over; the guard watches the view load it.  (A save heard of
\* before this is read in again later, against what the write records now.)
Wrote(v) ==
    LET text == sync[v].writing IN
    /\ sync[v].phase = "wrote"
    /\ SyncOnly(v, [Agree(sync[v], text) EXCEPT !.phase = "idle", !.writing = None,
                                                !.checked = TRUE])
    /\ agreed' = [agreed EXCEPT ![v] = text]
    /\ guard' = [guard EXCEPT ![v].written =
                     IF guard[v].held # None /\ HasView(v) THEN text ELSE None]
    /\ unclear' = IF told[v] \/ disk[v] = text THEN unclear ELSE unclear \cup Values(disk[v])
    /\ UNCHANGED <<replicas, files, session, view, edits, author, excused, kept, troubles>>

-----------------------------------------------------------------------------
(* An open view, which holds its own copy and saves it when it will, and    *)
(* what TextViewGuard does about it.                                        *)

\* Obsidian reloads a view some moments after its file changed, with no merge,
\* and not while the view saves.
Reload(v) ==
    /\ view[v].due /\ (view[v].mode = "bound" => view[v].saving)
    /\ view' = [view EXCEPT ![v] =
                    IF view[v].saving THEN [@ EXCEPT !.due = FALSE]
                    ELSE [@ EXCEPT !.due = FALSE, !.dirty = FALSE, !.data = disk[v]]]
    /\ UNCHANGED <<replicas, files, sync, session, agreed, guard, ghosts, kept, troubles>>

\* reloaded: what Obsidian would load into a bound view is merged instead, as made
\* on what file and document last agreed on; before they have, on what the view
\* holds, with edits the file never had.
ReloadBound(v) ==
    LET agrees == sync[v].base # None
        base == IF agrees THEN sync[v].base ELSE view[v].data
        changes == IF disk[v] \in view[v].holds THEN {} ELSE Differing(v, disk[v], base)
    IN
    /\ view[v].due /\ view[v].mode = "bound" /\ ~view[v].saving
    /\ Transact(v, changes)
    /\ view' = [view EXCEPT ![v] = [Drawn(v, changes, disk[v]) EXCEPT !.due = FALSE]]
    /\ unclear' = IF agrees \/ changes = {} THEN unclear ELSE unclear \cup Values(disk[v])
    /\ UNCHANGED <<files, sync, session, agreed, guard, edits, author, excused, kept, troubles>>

ViewSaves(v) ==
    /\ view[v].dirty /\ ~view[v].saving
    /\ disk' = [disk EXCEPT ![v] = view[v].data]
    /\ told' = [told EXCEPT ![v] = TRUE]
    /\ view' = [view EXCEPT ![v].saving = TRUE, ![v].dirty = FALSE]
    /\ excused' = excused \cup OverwrittenByView(v)
    /\ UNCHANGED <<replicas, sync, session, agreed, guard, edits, author, unclear, kept, troubles>>

SaveEnds(v) ==
    /\ view[v].saving
    /\ view' = [view EXCEPT ![v].saving = FALSE]
    /\ UNCHANGED <<replicas, files, sync, session, agreed, guard, ghosts, kept, troubles>>

\* The quick look: a view seen to have loaded the write is built on it now.
SeenLoaded(v) ==
    /\ guard[v].written # None /\ HasView(v) /\ view[v].data = guard[v].written
    /\ guard' = [guard EXCEPT ![v].held = guard[v].written, ![v].written = None]
    /\ UNCHANGED <<replicas, files, sync, session, agreed, view, ghosts, kept, troubles>>

\* A second later, long after any reload: a view that missed the write saves
\* what it holds, against what it held before, and is made to show the file.
CheckLoaded(v) ==
    LET missed == HasView(v) /\ view[v].data # guard[v].written
        saves == missed /\ view[v].dirty
    IN
    /\ guard[v].written # None /\ ~view[v].due /\ ~view[v].saving
    /\ guard' = [guard EXCEPT ![v].written = None,
                              ![v].repairing = IF missed THEN guard[v].held ELSE @]
    /\ IF saves
       THEN /\ disk' = [disk EXCEPT ![v] = view[v].data]
            /\ told' = [told EXCEPT ![v] = TRUE]
            /\ excused' = excused \cup OverwrittenByView(v)
       ELSE UNCHANGED <<files, excused>>
    /\ view' = IF missed THEN [view EXCEPT ![v].data = disk'[v], ![v].dirty = FALSE] ELSE view
    /\ UNCHANGED <<replicas, sync, session, agreed, edits, author, unclear, kept, troubles>>

\* A repair's base outlives its save's event, and no more.
RepairOver(v) ==
    /\ guard[v].repairing # None /\ ~told[v]
    /\ guard' = [guard EXCEPT ![v].repairing = None]
    /\ UNCHANGED <<replicas, files, sync, session, agreed, view, ghosts, kept, troubles>>

\* Not in the moments a write takes: the view saves seconds later at the soonest.
OpenView(v) ==
    /\ v \in Viewing /\ sync[v].up # "off" /\ sync[v].phase = "idle"
    /\ view[v].mode = "closed" /\ disk[v].is = "text" /\ Trouble
    /\ view' = [view EXCEPT ![v] = [Closed EXCEPT !.mode = "open", !.data = disk[v]]]
    /\ UNCHANGED <<replicas, files, sync, session, agreed, guard, ghosts, kept>>

\* Closing saves; a bound view lets go first.
CloseView(v) ==
    /\ view[v].mode # "closed" /\ ~view[v].saving /\ ~view[v].due
    /\ IF view[v].dirty
       THEN /\ disk' = [disk EXCEPT ![v] = view[v].data]
            /\ told' = [told EXCEPT ![v] = TRUE]
       ELSE UNCHANGED files
    /\ SyncOnly(v, IF view[v].mode = "bound" THEN scheduleDiskWrite(sync[v]) ELSE sync[v])
    /\ view' = [view EXCEPT ![v] = Closed]
    /\ excused' = IF view[v].dirty THEN excused \cup OverwrittenByView(v) ELSE excused
    /\ LetsGo(v)
    /\ UNCHANGED <<replicas, session, agreed, guard, edits, author, kept, troubles>>

\* bindView: what the view holds beyond the document is read in, against what
\* was agreed, though the view may have missed that; without a base it stays on
\* the disk path.
bindView(v) ==
    LET shown == view[v].data
        state == sync[v]
        changes == IF shown \in {Read(v), state.base} THEN {} ELSE Differing(v, shown, state.base)
        after == Apply(doc[v], changes)
        drawn == Text([k \in Keys |-> after[k].value])
    IN
    /\ Trouble /\ view[v].mode = "open" /\ shown \in {disk[v], Read(v)} /\ ~view[v].due
    /\ state.up = "synced" /\ Stamped(v) /\ ~state.handedOff /\ ~NewerThan(v, doc[v])
    /\ shown = Read(v) \/ state.base # None
    /\ Transact(v, changes)
    /\ unclear' = IF OlderBase(v) THEN unclear \cup Values(shown) ELSE unclear
    /\ view' = [view EXCEPT ![v].mode = "bound", ![v].data = drawn, ![v].holds = {shown, drawn},
                            ![v].dirty = @ \/ drawn # shown]
    /\ SyncOnly(v, [state EXCEPT !.timer = FALSE])
    /\ UNCHANGED <<files, session, agreed, guard, edits, author, excused, kept>>

unbindView(v) ==
    /\ view[v].mode = "bound"
    /\ view' = [view EXCEPT ![v].mode = "open", ![v].holds = {}]
    /\ SyncOnly(v, scheduleDiskWrite(sync[v]))
    /\ LetsGo(v)
    /\ UNCHANGED <<replicas, files, session, agreed, guard, edits, author, excused, kept, troubles>>

-----------------------------------------------------------------------------
(* People. *)

Edited(v, replaced) ==
    /\ edits < MaxEdits /\ edits' = edits + 1
    /\ author' = Append(author, v)
    /\ excused' = excused \cup (replaced \ {0})
    /\ UNCHANGED unclear

\* With another program, or before the app starts; not while a view of the
\* file saves, which Obsidian then does not reload.
SaveFile(v, k) ==
    /\ disk[v].is = "text" /\ ~view[v].saving
    /\ Edited(v, {disk[v].keys[k]} \cup (Words(view[v].data) \ Words(disk[v])))
    /\ disk' = [disk EXCEPT ![v].keys[k] = edits + 1]
    /\ told' = [told EXCEPT ![v] = sync[v].up # "off"]
    /\ view' = [view EXCEPT ![v].due = view[v].mode # "closed"]
    /\ UNCHANGED <<replicas, sync, session, agreed, guard, kept, troubles>>

\* A view asked to save, or about to reload, holds what it is given after that
\* nowhere else for those moments.
EditInView(v, k) ==
    /\ view[v].mode = "open"
    /\ Edited(v, {view[v].data.keys[k]} \cup
                 (IF sync[v].phase # "idle" \/ view[v].due THEN {edits + 1} ELSE {}))
    /\ view' = [view EXCEPT ![v].data.keys[k] = edits + 1, ![v].dirty = TRUE]
    /\ UNCHANGED <<replicas, files, sync, session, agreed, guard, kept, troubles>>

EditBound(v, k) ==
    /\ view[v].mode = "bound"
    /\ Edited(v, {view[v].data.keys[k]})
    /\ Transact(v, {Assignment(doc[v], Client(v), k, edits + 1)})
    /\ view' = Shows(v, Text([view[v].data.keys EXCEPT ![k] = edits + 1]))
    /\ UNCHANGED <<files, sync, session, agreed, guard, kept, troubles>>

EditElsewhere(v, k) ==
    /\ sync[v].up = "synced" /\ Stamped(v) /\ ~sync[v].handedOff
    /\ Edited(v, {doc[v][k].value})
    /\ Transact(v, {Assignment(doc[v], Client(v), k, edits + 1)})
    /\ disk' = [disk EXCEPT ![v].keys[k] = edits + 1]
    /\ UNCHANGED <<told, sync, session, agreed, view, guard, kept, troubles>>

\* A file left half written by another program.
BreakFile(v) ==
    /\ disk[v].is = "text" /\ view[v].mode = "closed" /\ Trouble
    /\ excused' = excused \cup Words(disk[v])
    /\ disk' = [disk EXCEPT ![v] = Broken]
    /\ told' = [told EXCEPT ![v] = sync[v].up # "off"]
    /\ UNCHANGED <<replicas, sync, session, agreed, view, guard, edits, author, unclear, kept>>

-----------------------------------------------------------------------------
\* The file begins in one vault, open in a view where there is one; the vaults
\* elsewhere are connected.
Init ==
    /\ doc = [v \in Vaults |-> [p \in Parts |-> Unset(0)]]
    /\ inbox = [v \in Vaults |-> << >>]
    /\ made = {}
    /\ clients = [v \in Vaults |-> {}]
    /\ \E v \in Vaults :
          disk = [w \in Vaults |-> IF w = v THEN Text(Starting) ELSE Blank]
    /\ told = [v \in Vaults |-> FALSE]
    /\ sync = [v \in Vaults |-> IF v \in Elsewhere
                              THEN [Fresh EXCEPT !.up = "subscribed", !.ours = {ClientId(v, 1)}]
                              ELSE Fresh]
    /\ session = [v \in Vaults |-> 1]
    /\ agreed = [v \in Vaults |-> None]
    /\ view = [v \in Vaults |->
                 IF v \in Viewing /\ disk[v].is = "text"
                 THEN [Closed EXCEPT !.mode = "open", !.data = disk[v]] ELSE Closed]
    /\ guard = [v \in Vaults |-> Unguarded]
    /\ edits = 0 /\ author = << >> /\ excused = {} /\ unclear = {} /\ kept = {} /\ troubles = 0

Next ==
    \/ \E v \in Vaults : Connect(v)
    \/ \E v \in Vaults : FirstSync(v)
    \/ \E v \in Vaults : Receive(v)
    \/ \E v \in Here : Stop(v)
    \/ \E v \in Here : HeardForNothing(v)
    \/ \E v \in Here : HeardSave(v)
    \/ \E v \in Here : HeardBound(v)
    \/ \E v \in Here : BeginWrite(v)
    \/ \E v \in Here : ReadBack(v)
    \/ \E v \in Here : WriteYields(v)
    \/ \E v \in Here : WriteText(v)
    \/ \E v \in Here : Wrote(v)
    \/ \E v \in Here : Reload(v)
    \/ \E v \in Here : ReloadBound(v)
    \/ \E v \in Here : ViewSaves(v)
    \/ \E v \in Here : SaveEnds(v)
    \/ \E v \in Here : SeenLoaded(v)
    \/ \E v \in Here : CheckLoaded(v)
    \/ \E v \in Here : RepairOver(v)
    \/ \E v \in Here : OpenView(v)
    \/ \E v \in Here : CloseView(v)
    \/ \E v \in Here : bindView(v)
    \/ \E v \in Here : unbindView(v)
    \/ \E v \in Here, k \in Keys : SaveFile(v, k)
    \/ \E v \in Here, k \in Keys : EditInView(v, k)
    \/ \E v \in Here, k \in Keys : EditBound(v, k)
    \/ \E v \in Elsewhere, k \in Keys : EditElsewhere(v, k)
    \/ \E v \in Here : BreakFile(v)

Spec == Init /\ [][Next]_vars

-----------------------------------------------------------------------------
(* Properties. *)

Items == [path : Keys, at : Seq(Nat), live : BOOLEAN, value : Contents]

TypeOK ==
    /\ \A v \in Vaults : \A p \in Parts : doc[v][p].value \in Nat
    /\ made \subseteq Items
    /\ disk \in [Vaults -> Texts \cup {Blank, Broken}]
    /\ told \in [Vaults -> BOOLEAN]
    /\ session \in [Vaults -> Sessions]
    /\ agreed \in [Vaults -> Texts \cup {None}]
    /\ \A v \in Vaults :
        /\ sync[v].phase \in {"idle", "asked", "backed", "wrote"}
        /\ sync[v].seen # None <=> sync[v].phase = "backed"
        /\ sync[v].writing # None <=> sync[v].phase = "wrote"
        /\ sync[v].base \in Texts \cup {None, Broken}
        /\ view[v].data \in Texts \cup {None}
        /\ guard[v].held \in Texts \cup {None}


\* An edit of this vault that a concurrent change discarded is in a conflict
\* copy (keepLostLocalVersion), unless the vault itself wrote on top of it.
LostIsKept ==
    \A c \in made : c.value # 0 /\ c.value \notin excused \cup unclear \cup kept =>
        LET v == author[c.value] IN
        \/ c.at[Len(c.at)] \notin {ClientId(v, n) : n \in Sessions}
        \/ OnTopOf(doc[v][c.path].at, c.at)
        \/ \E own \in made : /\ own.path = c.path /\ own.value \notin {0, c.value}
                            /\ author[own.value] = v /\ OnTopOf(own.at, c.at)

\* An edit is in the document, in its vault's file or view, in a copy, or its
\* own author has replaced it: no write and no reload took it.
EditsAreSomewhere ==
    \A n \in 1..edits :
        \/ n \in {c.value : c \in made} \cup kept \cup excused
        \/ n \in Words(disk[author[n]]) \cup Words(view[author[n]].data)

\* Nothing written is lost in silence, discarded by a change of another vault
\* or taken by a write of one's own.
NothingVanishes == LostIsKept /\ EditsAreSomewhere

Quiet(v) ==
    /\ sync[v].up = "synced" /\ ~sync[v].handedOff /\ sync[v].phase = "idle"
    /\ inbox[v] = << >> /\ ~told[v] /\ ~sync[v].timer /\ guard[v].written = None
    /\ ~view[v].dirty /\ ~view[v].saving /\ ~view[v].due

\* At rest a vault's file and its view say what the document says.
Settled ==
    \A v \in Here : Quiet(v) /\ Stamped(v) /\ disk[v] # Broken =>
        /\ disk[v] = Read(v)
        /\ HasView(v) => view[v].data = Read(v)
=============================================================================
