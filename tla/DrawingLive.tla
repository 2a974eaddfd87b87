------------------------------ MODULE DrawingLive ------------------------------
(***************************************************************************)
(* A shape of a drawing open in the Excalidraw plugin's view in several    *)
(* vaults: packages/plugin/src/excalidraw-live.ts, with the parts of       *)
(* structured-sync.ts that read a save in and write the file.              *)
(*                                                                         *)
(* While a view is bound, each change of its scene is carried into the     *)
(* document by version, and what the document has that the view lacks is   *)
(* drawn.  While it is not, the view saves the file and StructuredSync     *)
(* reads it in and writes it.  What a scene was seen to hold and to delete *)
(* is recorded beside both (DeleteWitness).                                *)
(*                                                                         *)
(* One view of the drawing at most in a vault.  Excalidraw draws by        *)
(* version, keeps an element being edited, and drops a deleted one from a  *)
(* scene it loads or builds again; its view merges a file that changed     *)
(* under unsaved work.                                                     *)
(***************************************************************************)
EXTENDS DrawingDoc

CONSTANTS
    Editors,    \* the clients whose user may leave an edit of the shape in progress
    Leavers,    \* the clients whose view may close, come back, or go unbound
    Breakers,   \* the clients whose app may be killed
    MaxEdits,   \* bound: what the users and Excalidraw change
    MaxFaults   \* bound: edits left in progress, let-gos, closings and kills

\* What a run's constants must be.
ASSUME LiveAssumption ==
    /\ Clients \subseteq Nat \ {0}
    /\ Editors \cup Leavers \cup Breakers \subseteq Clients
    /\ {MaxEdits, MaxFaults} \subseteq Nat

VARIABLES
    doc,        \* each vault's replica of the document
    inbox,      \* changes on their way to it
    view,       \* its view of the drawing, with the binding's state
    disk,       \* its file, and what StructuredSync keeps about it
    witness,    \* DeleteWitness
    edits, faults,
    story       \* observes: what the users did, and what became of it

vars == <<doc, inbox, view, disk, witness, edits, faults, story>>

IsVersion(e) ==
    /\ e.n \in Nat /\ e.nonce \in Nat /\ e.text \in Nat /\ e.place \in Nat /\ e.dead \in BOOLEAN
NotSaving == <<>>
NoBase == <<>>

IsView(w) ==
    /\ w.open \in BOOLEAN /\ w.bound \in BOOLEAN /\ w.capture \in BOOLEAN    \* captureTimer
    /\ w.editing \in BOOLEAN                        \* an edit of the shape in progress
    /\ w.dirty \in BOOLEAN /\ Len(w.saving) <= 1    \* unsaved work; a save in flight, of what
    /\ w.deferred \in BOOLEAN
    /\ IsVersion(w.scene)
IsDisk(f) ==
    /\ IsVersion(f.file) /\ IsVersion(f.agreed)     \* the file; lastSyncedText
    /\ f.write \in BOOLEAN /\ f.changed \in BOOLEAN \* a write scheduled; a change not read yet
    /\ f.first \in BOOLEAN                          \* ~firstWriteChecked
    /\ Len(f.missed) <= 1                           \* TextViewGuard: what the view held before our write

-----------------------------------------------------------------------------
(* A slip, for the properties to catch. *)

DrawnFirst(c, d, w, t) == [doc |-> d, view |-> w]

-----------------------------------------------------------------------------
(* DeleteWitness: what the scene was seen to hold. *)

\* The scene is e: shown, deleted, and the highest version with what it was made on.
note(t, e) ==
    IF e = Absent THEN t ELSE
    LET seen == [t EXCEPT !.shown = @ \cup {Key(e)},
                          !.history = IF @ # <<>> /\ @[Len(@)] = Key(e) THEN @ ELSE Append(@, Key(e))]
        gaveWay == t.restored /\ ~e.dead /\ e.n >= t.deletes.n /\ Key(e) # Key(t.deletes)
        drew == IF gaveWay THEN [seen EXCEPT !.drawn = e, !.done = FALSE]
                ELSE IF e.n > t.drawn.n
                THEN [seen EXCEPT !.drawn = e, !.on = Key(t.drawn), !.done = FALSE]
                ELSE seen
    IN
    CASE e.dead /\ e.n > t.deletes.n -> [drew EXCEPT !.deletes = e, !.restored = FALSE]
      [] gaveWay \/ (~e.dead /\ t.deletes # Absent /\ e.n > t.deletes.n) ->
            [drew EXCEPT !.deletes = Absent, !.restored = FALSE]
      [] OTHER -> drew

dropDelete(t) == [t EXCEPT !.deletes = Absent, !.restored = FALSE]

\* A recorded delete the elements lack, newer than all the document has.
withRecordedDeletes(e, t, d) ==
    IF e = Absent /\ t.deletes # Absent /\ t.deletes.n > Standing(d).n THEN t.deletes ELSE e
\* One the document has reached is forgotten.
Forgotten(e, t, d) ==
    IF e = Absent /\ t.deletes # Absent /\ t.deletes.n <= Standing(d).n THEN dropDelete(t) ELSE t

\* The same for a save that left the shape out.
withViewDeletes(e, t, d) ==
    IF e = Absent /\ ~Standing(d).dead /\ t.deletes.n > Standing(d).n THEN t.deletes ELSE e
Delivered(t, d) ==
    IF t.deletes # Absent /\ (Standing(d).dead \/ Standing(d).n >= t.deletes.n)
    THEN dropDelete(t) ELSE t

\* Whether the document has had the version a view held, or names it.
versionsKnown(d) == Keys(d) \cup {r.on : r \in revisions(d)}

\* What a view held that the document never had, or Absent.
recordedAhead(t, d) ==
    IF t.done \/ t.drawn = Absent \/ Key(t.drawn) \in versionsKnown(d) THEN Absent ELSE t.drawn

\* It goes in on what it was made on, where that stands; else beside it.
withRecordedAhead(c, t, d) ==
    LET e == recordedAhead(t, d)
        stands == Standing(d)
    IN IF e.n > stands.n THEN applyExcalidraw(d, c, e, stands, t.on # Key(stands))
       ELSE applyExcalidraw(d, c, e, Absent, FALSE)
Recorded(t) ==
    IF t.drawn.dead /\ t.deletes.n = t.drawn.n THEN dropDelete([t EXCEPT !.done = TRUE])
    ELSE [t EXCEPT !.done = TRUE]

\* Whether a save may have been built on a version: the view showed it, or it
\* is the delete read back from before a restart.
BuiltOn(t, was, fromRecord) ==
    \/ Key(was) \in t.shown
    \/ t.restored /\ t.on = Key(was)
    \/ t.shown = {} /\ ~fromRecord

-----------------------------------------------------------------------------
(* The binding. *)

\* What a newer version of the view was made on: what the view last held, while
\* the document has it.
baseOf(w, d) ==
    IF Has(d, w.seen) THEN d.revs[w.seen].value.e ELSE Absent

\* The elements that the document does not have, brought in by version.
newerThanDocument(c, d, w, e) ==
    LET stands == Standing(d)
    IN CASE e = Absent -> d
         [] e.n > stands.n -> applyExcalidraw(d, c, e, baseOf(w, d), FALSE)
         [] e.n = stands.n /\ e.nonce # stands.nonce -> applyExcalidraw(d, c, e, Absent, FALSE)
         [] OTHER -> d
DocumentLacks(d, e) == e # Absent /\ (e.n > Standing(d).n \/ (e.n = Standing(d).n /\ Key(e) # Key(Standing(d))))

CarriedIn(c, d, w, e) ==
    IF DocumentLacks(d, e)
    THEN [doc |-> newerThanDocument(c, d, w, e), view |-> [w EXCEPT !.seen = Key(e)]]
    ELSE [doc |-> d, view |-> w]
carryIn(c, d, w, t) == CarriedIn(c, d, w, withRecordedDeletes(w.scene, t, d))

\* What only the view holds is carried in before it is drawn over.
CarriedFirst(c, d, w, t) == carryIn(c, d, w, t)

Drawn(s, stands) ==
    CASE Key(s.view.scene) = Key(stands) \/ (stands.dead /\ s.view.scene = Absent) ->
            [s EXCEPT !.view.deferred = FALSE]
      [] s.view.editing -> [s EXCEPT !.view.deferred = TRUE]
      [] OTHER -> [s EXCEPT !.view.scene = stands, !.view.seen = Key(stands),
                            !.view.deferred = FALSE, !.view.capture = TRUE]
DrawnOver(s) == Drawn(s, Standing(s.doc))
draw(c, d, w, t) == DrawnOver(CarriedFirst(c, d, w, t))

\* A capture: the view's edits in, then what it lacks drawn.
capture(c, d, w, t) ==
    IF DocumentLacks(d, withRecordedDeletes(w.scene, t, d)) \/ w.deferred THEN draw(c, d, w, t)
    ELSE [doc |-> d, view |-> w]

\* After a transaction comes a settle, and a bound view draws what it changed.
AfterSettle(c, s, d, t) ==
    IF d = s.doc \/ ~s.view.bound THEN [s EXCEPT !.doc = d] ELSE draw(c, d, s.view, t)
Settle(c, s, t) == AfterSettle(c, s, settleExcalidraw(s.doc, c), t)

\* The runaway guard: settling that calls for settling again, without end.
Rounds == 3
AfterRounds(c, s, t) == LET after[k \in 0..Rounds] == IF k = 0 THEN s ELSE Settle(c, after[k - 1], t)
                        IN after[Rounds]
LetGo(w) == [w EXCEPT !.bound = FALSE, !.capture = FALSE, !.deferred = FALSE]
Guarded(c, last, next) ==
    IF next.doc = last.doc THEN [doc |-> last.doc, view |-> last.view, ran |-> {}]
    ELSE [doc |-> settleExcalidraw(last.doc, c), view |-> LetGo(last.view), ran |-> {c}]
SettledFrom(c, last, t) == Guarded(c, last, Settle(c, last, t))
Settled(c, s, t) == SettledFrom(c, AfterRounds(c, s, t), t)

-----------------------------------------------------------------------------
(* The document and the file. *)

Thing(e) == <<e.text, e.place>>

\* A record of a delete forgotten for a version of its own number, when the
\* document never had it.
GivenUp(c, t, d) ==
    LET was == witness[c].deletes
    IN IF was # Absent /\ t.deletes = Absent /\ Key(was) \notin DOMAIN d.revs THEN {Thing(was)} ELSE {}

\* A version of a bound view drawn over, older than the document's and never in it.
PassedOver(c, e) ==
    LET was == view[c].scene
    IN {x \in {was} : e.view.bound /\ was.n < Standing(e.doc).n /\ Key(was) \notin DOMAIN e.doc.revs
                      /\ was # e.view.scene}
Told(c, e, t, over) ==
    story' = [story EXCEPT !.ranAway = @ \cup e.ran,
                           !.deleted = @ \ (GivenUp(c, t, e.doc) \cup {Thing(x) : x \in over}),
                           !.passed = @ \cup {x.text : x \in over}]

\* Client c's document was `from`, and is e's now: the others hear of it, and
\* its view is noted.
Leaves(c, from, unread, e, t) ==
    /\ doc' = [doc EXCEPT ![c] = e.doc]
    /\ inbox' = [u \in Clients |->
                    IF u = c THEN unread
                    ELSE IF e.doc = from THEN inbox[u] ELSE Append(inbox[u], Changes(from, e.doc))]
    /\ view' = [view EXCEPT ![c] = e.view]
    /\ witness' = [witness EXCEPT ![c] = IF e.view.open THEN note(t, e.view.scene) ELSE t]
    /\ Told(c, e, t, PassedOver(c, e))

\* A transaction of client c is over: s is what it left.
Transacted(c, s, t) == Leaves(c, doc[c], inbox[c], Settled(c, s, t), t)

\* What differs from the file is written to it, unless a bound view will save.
Meaning(e) == IF e.dead THEN Unseen ELSE Key(e)
ScheduleWrite(f, w, d) == [f EXCEPT !.write = @ \/ (~w.bound /\ Meaning(Standing(d)) # Meaning(f.file))]

\* The text disk and document last agreed on, as the base of a save: what the
\* view held, if it missed the last write.
SaveBase(f, t) ==
    IF f.missed = NoBase \/ (~f.agreed.dead /\ Key(f.agreed) \in t.shown) THEN f.agreed
    ELSE f.missed[1]

\* A save read in while no view is bound.
readIn(c, d, f, t) ==
    LET e == withViewDeletes(f.file, t, d)
        was == SaveBase(f, t)
        unverified == e # Absent /\ e.n > was.n /\ was # Absent /\ ~BuiltOn(t, was, f.first)
    IN IF Meaning(e) = Meaning(Standing(d)) THEN d ELSE applyExcalidraw(d, c, e, was, unverified)
Agreed(f) == [f EXCEPT !.agreed = f.file, !.changed = FALSE, !.missed = NoBase, !.first = FALSE]

OnDisk(e) == IF e.dead THEN Absent ELSE e
Saved(f, w) == [f EXCEPT !.file = OnDisk(w.scene), !.changed = TRUE]

Start == Version(1, 1, 0, 0, FALSE)
Fresh == [shown |-> {}, history |-> <<>>, drawn |-> Absent, on |-> Unseen, done |-> FALSE,
          deletes |-> Absent, restored |-> FALSE]

Init ==
    /\ doc = [c \in Clients |->
                [kept |-> {}, revs |-> [k \in {Key(Start)} |->
                    [at |-> <<0>>, live |-> TRUE, value |-> Entry(Start, Unseen, NoText)]]]]
    /\ inbox = [c \in Clients |-> <<>>]
    /\ view = [c \in Clients |->
                [open |-> TRUE, bound |-> TRUE, capture |-> FALSE, deferred |-> FALSE,
                 editing |-> FALSE, dirty |-> FALSE, saving |-> NotSaving,
                 scene |-> Start, seen |-> Key(Start)]]
    /\ disk = [c \in Clients |-> [file |-> Start, agreed |-> Start, write |-> FALSE,
                                  changed |-> FALSE, first |-> FALSE, missed |-> NoBase]]
    /\ witness = [c \in Clients |-> note(Fresh, Start)]
    /\ edits = 0 /\ faults = 0
    /\ story = [written |-> {0},       \* texts the users wrote
                replaced |-> {},       \* texts they replaced themselves, or lost with the app
                passed |-> {},         \* texts drawn over before they were carried in, being older
                deleted |-> {},        \* what they deleted
                undone |-> {},         \* and brought back
                ranAway |-> {}]        \* clients whose drawing and settling answered each other without end

-----------------------------------------------------------------------------
(* What the user does, and Excalidraw by itself. *)

Changed(c, text, place, dead) ==
    LET w == view[c]
        e == Version(w.scene.n + 1, 100 * c + edits + 1, text, place, dead)
    IN
    /\ w.open /\ w.scene # Absent /\ edits < MaxEdits
    /\ edits' = edits + 1
    /\ view' = [view EXCEPT ![c].scene = e, ![c].dirty = TRUE, ![c].capture = w.bound]
    /\ witness' = [witness EXCEPT ![c] = note(@, e)]
    /\ UNCHANGED <<doc, inbox, disk, faults>>

\* An edit after a restart of what was deleted before it.
BroughtBack(c) == {Thing(x) : x \in {x \in {view[c].scene} : witness[c].restored}}

Write(c) ==
    /\ ~view[c].scene.dead
    /\ Changed(c, edits + 1, view[c].scene.place, FALSE)
    /\ story' = [story EXCEPT !.written = @ \cup {edits + 1}, !.replaced = @ \cup {view[c].scene.text},
                              !.undone = @ \cup BroughtBack(c)]

Move(c) ==
    /\ ~view[c].scene.dead
    /\ Changed(c, view[c].scene.text, edits + 1, FALSE)
    /\ story' = [story EXCEPT !.undone = @ \cup BroughtBack(c)]

Delete(c) ==
    /\ ~view[c].scene.dead /\ ~view[c].editing
    /\ Changed(c, view[c].scene.text, view[c].scene.place, TRUE)
    /\ story' = [story EXCEPT !.replaced = @ \cup {view[c].scene.text}, !.deleted = @ \cup {Thing(view[c].scene)}]

Undo(c) ==
    /\ view[c].scene.dead
    /\ Changed(c, view[c].scene.text, view[c].scene.place, FALSE)
    /\ story' = [story EXCEPT !.undone = @ \cup {Thing(view[c].scene)}]

\* Excalidraw raises a version itself as it draws.
Raise(c) ==
    /\ view[c].bound /\ view[c].capture /\ ~view[c].scene.dead
    /\ Changed(c, view[c].scene.text, view[c].scene.place, FALSE)
    /\ UNCHANGED story

BeginEdit(c) ==
    /\ c \in Editors /\ view[c].open /\ ~view[c].editing /\ ~view[c].scene.dead /\ faults < MaxFaults
    /\ faults' = faults + 1
    /\ view' = [view EXCEPT ![c].editing = TRUE]
    /\ UNCHANGED <<doc, inbox, disk, witness, edits, story>>

EndEdit(c) ==
    /\ view[c].editing
    /\ view' = [view EXCEPT ![c].editing = FALSE, ![c].capture = view[c].bound]
    /\ UNCHANGED <<doc, inbox, disk, witness, edits, faults, story>>

\* The scene is built again from what is live; not while a reload is due.
Rebuild(c) ==
    /\ view[c].open /\ view[c].scene.dead /\ view[c].scene # Absent
    /\ disk[c].missed = NoBase \/ view[c].bound
    /\ view' = [view EXCEPT ![c].scene = Absent, ![c].capture = view[c].bound]
    /\ UNCHANGED <<doc, inbox, disk, witness, edits, faults, story>>

-----------------------------------------------------------------------------
(* The bound view. *)

Capture(c) ==
    LET w == [view[c] EXCEPT !.capture = FALSE]
        t == Forgotten(w.scene, witness[c], doc[c])
    IN
    /\ w.bound /\ view[c].capture
    /\ Transacted(c, capture(c, doc[c], w, t), t)
    /\ UNCHANGED <<disk, edits, faults>>

Heeds(c, d, t) ==
    Leaves(c, d, Tail(inbox[c]), Settled(c, IF view[c].bound THEN draw(c, d, view[c], t)
                                            ELSE [doc |-> d, view |-> view[c]], t), t)
Receive(c) ==
    LET d == Heard(doc[c], Head(inbox[c]))
    IN
    /\ inbox[c] # <<>>
    /\ Heeds(c, d, Forgotten(view[c].scene, witness[c], d))
    /\ disk' = [disk EXCEPT ![c] = ScheduleWrite(@, view'[c], doc'[c])]
    /\ UNCHANGED <<edits, faults>>

\* A change the view cannot draw: the binding lets go, its edits carried in.
letGoFor(c) ==
    LET t == witness[c]
        s == capture(c, doc[c], view[c], t)
    IN
    /\ c \in Leavers /\ view[c].bound /\ faults < MaxFaults
    /\ faults' = faults + 1
    /\ Transacted(c, [s EXCEPT !.view = LetGo(@)], t)
    /\ disk' = [disk EXCEPT ![c].write = TRUE]
    /\ UNCHANGED <<edits>>

\* What the view held last of what the document has.
HeldBefore(w, t, d) ==
    LET had == {i \in DOMAIN t.history : Has(d, t.history[i])}
    IN CASE Has(d, Key(w.scene)) -> Key(w.scene)
         [] had # {} /\ w.scene # Absent -> t.history[CHOOSE i \in had : \A j \in had : j <= i]
         [] OTHER -> Unseen

attach(c) ==
    LET t == Forgotten(view[c].scene, witness[c], doc[c])
        w == [view[c] EXCEPT !.bound = TRUE, !.seen = HeldBefore(view[c], t, doc[c])]
        s == draw(c, doc[c], w, t)
    IN
    /\ view[c].open /\ ~view[c].bound /\ ~view[c].dirty /\ view[c].saving = NotSaving
    /\ ~disk[c].first
    /\ ~(c \in story.ranAway /\ view[c].editing)    \* else they run away again
    /\ Transacted(c, [s EXCEPT !.view.capture = TRUE], t)
    /\ disk' = [disk EXCEPT ![c].write = FALSE]
    /\ UNCHANGED <<edits, faults>>

-----------------------------------------------------------------------------
(* The file. *)

SaveBegins(c) ==
    /\ c \in Leavers \cup Breakers
    /\ view[c].dirty /\ view[c].saving = NotSaving
    /\ view' = [view EXCEPT ![c].saving = <<view[c].scene>>]
    /\ UNCHANGED <<doc, inbox, disk, witness, edits, faults, story>>

\* What changed meanwhile is marked clean with the rest.
SaveEnds(c) ==
    /\ view[c].saving # NotSaving
    /\ disk' = [disk EXCEPT ![c].file = OnDisk(view[c].saving[1]), ![c].changed = TRUE]
    /\ view' = [view EXCEPT ![c].saving = NotSaving, ![c].dirty = FALSE]
    /\ UNCHANGED <<doc, inbox, witness, edits, faults, story>>

readInSave(c) ==
    LET f == disk[c]
        t == Forgotten(f.file, witness[c], doc[c])
        e == withRecordedDeletes(f.file, t, doc[c])
        s == IF DocumentLacks(doc[c], e)
             THEN [doc |-> newerThanDocument(c, doc[c], view[c], e), view |-> [view[c] EXCEPT !.seen = Key(e)]]
             ELSE [doc |-> doc[c], view |-> view[c]]
    IN
    /\ f.changed /\ view[c].bound
    /\ Transacted(c, s, t)
    /\ disk' = [disk EXCEPT ![c] = Agreed(f)]
    /\ UNCHANGED <<edits, faults>>

\* Before the first write of a connect there is no base: the write reads it in.
onLocalModify(c) ==
    LET f == disk[c]
        t == Delivered(witness[c], doc[c])
        d == readIn(c, doc[c], f, t)
    IN
    /\ f.changed /\ ~view[c].bound
    /\ IF f.first
       THEN /\ disk' = [disk EXCEPT ![c].changed = FALSE, ![c].write = TRUE]
            /\ UNCHANGED <<doc, inbox, view, witness, story>>
       ELSE /\ Transacted(c, [doc |-> d, view |-> view[c]], t)
            /\ disk' = [disk EXCEPT ![c] = ScheduleWrite(Agreed(f), view[c], doc'[c])]
    /\ UNCHANGED <<edits, faults>>

\* A view with unsaved work, or ahead of the document, saves first.
SavesFirst(w, d) == w.open /\ (w.dirty \/ w.scene.n > Standing(d).n)

writeToDisk(c) ==
    LET w == view[c]
        saved == IF SavesFirst(w, doc[c]) THEN Saved(disk[c], w) ELSE disk[c]
        t == Delivered(witness[c], doc[c])
        d == IF saved.file = saved.agreed THEN doc[c] ELSE readIn(c, doc[c], saved, t)
        ahead == recordedAhead(t, d) # Absent
        e == IF ahead THEN withRecordedAhead(c, t, d) ELSE d
        stands == Standing(e)
        f == Agreed(saved)
    IN
    /\ disk[c].write /\ ~w.bound /\ ~w.editing /\ w.saving = NotSaving
    /\ Transacted(c, [doc |-> e, view |-> IF SavesFirst(w, doc[c]) THEN [w EXCEPT !.dirty = FALSE] ELSE w],
                  IF ahead THEN Recorded(t) ELSE t)
    /\ LET wrote == IF Meaning(stands) = Meaning(f.file) THEN f
                      ELSE [f EXCEPT !.file = stands, !.agreed = stands,
                                     !.missed = IF w.open THEN <<w.scene>> ELSE NoBase]
       IN disk' = [disk EXCEPT ![c] = ScheduleWrite([wrote EXCEPT !.write = FALSE], w, doc'[c])]
    /\ UNCHANGED <<edits, faults>>

\* The plugin loads a file that changed; unsaved work is merged by version.
Reload(c) ==
    LET w == view[c]
        file == OnDisk(disk[c].file)
        e == IF w.dirty /\ beats(w.scene, file) THEN w.scene ELSE file
    IN
    /\ disk[c].missed # NoBase /\ w.open /\ ~w.bound /\ ~w.editing /\ w.saving = NotSaving
    /\ e # w.scene
    /\ view' = [view EXCEPT ![c].scene = e]
    /\ witness' = [witness EXCEPT ![c] = note(@, e)]
    /\ LET lost == {x \in {w.scene} : w.dirty /\ Key(x) \notin DOMAIN doc[c].revs}
       IN story' = [story EXCEPT !.passed = @ \cup {x.text : x \in lost},
                                 !.deleted = @ \ {Thing(x) : x \in lost}]
    /\ UNCHANGED <<doc, inbox, disk, edits, faults>>

-----------------------------------------------------------------------------
(* A tab closes and opens again; the app is killed and starts again. *)

Gone(w) == [w EXCEPT !.open = FALSE, !.bound = FALSE, !.capture = FALSE, !.deferred = FALSE,
                     !.editing = FALSE, !.dirty = FALSE, !.saving = NotSaving, !.scene = Absent,
                     !.seen = Unseen]

\* A bound view's edits are carried in; unsaved work is saved; and for what no
\* save carried, a write is asked for.
Close(c) ==
    LET w == view[c]
        t == witness[c]
        s == IF w.bound THEN capture(c, doc[c], w, t) ELSE [doc |-> doc[c], view |-> w]
    IN
    /\ c \in Leavers /\ w.open /\ ~w.editing /\ w.saving = NotSaving /\ faults < MaxFaults
    /\ faults' = faults + 1
    /\ Transacted(c, [s EXCEPT !.view = Gone(@)], t)
    /\ LET f == IF w.dirty THEN Saved(disk[c], w) ELSE disk[c]
           ahead == recordedAhead(t, doc'[c]) # Absent
       IN disk' = [disk EXCEPT ![c] = [f EXCEPT !.write = @ \/ w.bound \/ ahead]]
    /\ UNCHANGED <<edits>>

Open(c) ==
    /\ ~view[c].open
    /\ view' = [view EXCEPT ![c].open = TRUE, ![c].scene = OnDisk(disk[c].file)]
    /\ witness' = [witness EXCEPT ![c] = note(@, OnDisk(disk[c].file))]
    /\ UNCHANGED <<doc, inbox, disk, edits, faults, story>>

\* A stored delete, taken for what the view held.
restore(t) ==
    [Fresh EXCEPT !.deletes = t.deletes, !.restored = t.deletes # Absent, !.drawn = t.deletes,
                  !.on = IF t.drawn = t.deletes THEN t.on ELSE Unseen]

Kill(c) ==
    LET had == {e.text : e \in VersionsOf(doc[c])}
    IN
    /\ c \in Breakers /\ faults < MaxFaults
    /\ faults' = faults + 1
    /\ view' = [view EXCEPT ![c] = Gone(@)]
    /\ witness' = [witness EXCEPT ![c] = restore(@)]
    /\ disk' = [disk EXCEPT ![c].write = TRUE, ![c].changed = FALSE, ![c].first = TRUE, ![c].missed = NoBase]
    /\ story' = [story EXCEPT !.replaced = @ \cup ({view[c].scene.text, witness[c].drawn.text} \ had)]
    /\ UNCHANGED <<doc, inbox, edits>>

Next == \E c \in Clients :
    \/ Write(c) \/ Move(c) \/ Delete(c) \/ Undo(c) \/ Raise(c) \/ BeginEdit(c) \/ EndEdit(c)
    \/ Rebuild(c) \/ Capture(c) \/ Receive(c) \/ letGoFor(c) \/ attach(c)
    \/ SaveBegins(c) \/ SaveEnds(c) \/ readInSave(c) \/ onLocalModify(c) \/ writeToDisk(c)
    \/ Reload(c) \/ Close(c) \/ Open(c) \/ Kill(c)

Spec == Init /\ [][Next]_vars

-----------------------------------------------------------------------------
(* Properties. *)

TypeOK ==
    /\ \A c \in Clients : IsView(view[c]) /\ IsDisk(disk[c])
    /\ edits \in 0..MaxEdits /\ faults \in 0..MaxFaults

\* Nothing more comes of what happened so far.
AtRest ==
    \A c \in Clients :
        /\ inbox[c] = <<>> /\ ~view[c].capture /\ ~view[c].editing /\ view[c].saving = NotSaving
        /\ ~disk[c].write /\ ~disk[c].changed
        /\ view[c].open => view[c].bound

Kept(c) == {k[2] : k \in doc[c].kept}
Texts(c) == {e.text : e \in {e \in {Standing(doc[c])} : ~e.dead}} \cup Kept(c)

\* What a view held and the document never had, which goes in when no view is
\* bound: a view opened again before that keeps it waiting.
Waiting == {witness[c].drawn : c \in {c \in Clients :
                recordedAhead(witness[c], doc[c]) # Absent /\ Key(witness[c].drawn) \notin DOMAIN doc[c].revs}}

\* What a user wrote stands, is kept as a copy, or was replaced by somebody who
\* saw it (excalidraw-merge.ts: a version that loses and was somebody's writing
\* is put back as a copy).
WritingIsKept ==
    AtRest => \A c \in Clients :
        story.written \subseteq story.replaced \cup story.passed \cup Texts(c) \cup {x.text : x \in Waiting}

\* A bound view shows what the document says.
ShowsTheDrawing ==
    AtRest => \A c \in Clients : view[c].bound =>
        IF Standing(doc[c]).dead THEN view[c].scene.dead
        ELSE Key(view[c].scene) = Key(Standing(doc[c]))

\* What a user deleted stays deleted, unless somebody changed it.
DeletesStand ==
    AtRest => \A c \in Clients : LET e == Standing(doc[c]) IN
        ~e.dead => <<e.text, e.place>> \notin story.deleted \ (story.undone \cup {Thing(x) : x \in Waiting})

\* Drawing and settling never answer each other without end.
NoLoop == story.ranAway = {}
=============================================================================
