----------------------------- MODULE EditorBinding ------------------------------
(***************************************************************************)
(* One note of one vault and the panes that show it: the bind and unbind   *)
(* of editor-bridge.ts, the one slot of editor-wiring.ts, the log of edits *)
(* made in an editor that is not bound (pending-edits.ts), and as much of  *)
(* content-sync.ts as a bind meets: the reconcile before it, who owns the  *)
(* note, the read-in of a save and the write of the file.                  *)
(*                                                                         *)
(* Obsidian (external) keeps two panes on one file alike: what changes in  *)
(* one is mirrored into the other, as a rewrite tagged "set", and a pane's *)
(* text is saved some time after it changed.  It announces the active pane *)
(* after it has changed, with keystrokes possible in between.              *)
(*                                                                         *)
(* A text counts its tokens: what a person types, what a peer wrote and    *)
(* what was there. Counting shows a keystroke replayed twice.              *)
(***************************************************************************)
EXTENDS Naturals, Sequences, SequencesExt, FiniteSets

CONSTANTS
    Panes,          \* the panes that may show the note
    Keys,           \* what the person may type, each once
    None,
    MaxMoves,       \* times the person goes to another pane or view
    MaxTroubles     \* settings changes, replaced editor states, closed panes

Old == "old"        \* what the note said before
Peer == "peer"      \* what a peer writes
Tokens == Keys \cup {Old, Peer}
Text == [Tokens -> 0..2]
Away == "away"      \* a view that does not show the note

VARIABLES
    active,     \* the active pane, or Away
    announced,  \* active-leaf-change has been heard for it
    text,       \* what each pane shows
    unsaved,    \* the panes Obsidian has yet to save
    mirrored,   \* the panes that have yet to be given the other's text
    outdated,   \* the panes that have yet to be given the file's text
    gone,       \* the panes that were closed
    logs,       \* PendingEdits.logs
    recorder,   \* PendingEdits.bound: the pane not logged
    wired,      \* EditorWiring.bound: the pane that carries yCollab
    bridge,     \* EditorBridge
    binds,      \* runs of runInstallCollab, each at an await
    note,       \* ContentSync's FileDocState
    file,       \* the file
    unheard,    \* the file's modify event has yet to be handled
    conn,       \* the document: not connected, connected, subscribed
    online, synced,
    backups,    \* the tokens kept in .nectenda-backups
    typed, erased, moves, troubles, peerWrote,
    misbased,   \* the note's diskBase is not what the file said
    harmed      \* the tokens changed by taking a file in on such grounds

obsidianVars == <<active, announced, text, unsaved, mirrored, outdated, gone>>
bridgeVars   == <<logs, recorder, wired, bridge, binds>>
netVars      == <<online, synced>>
ghostVars    == <<typed, erased, moves, troubles, peerWrote, misbased, harmed>>
vars == <<active, announced, text, unsaved, mirrored, outdated, gone, logs,
          recorder, wired, bridge, binds, note, file, unheard, conn, online,
          synced, backups, typed, erased, moves, troubles, peerWrote, misbased, harmed>>

OptText == {None} \cup Text
OptPane == {None} \cup Panes
Step == [tok : Keys, by : {"typed", "erased"}]

(***************************************************************************)
(* Texts.                                                                  *)
(***************************************************************************)
Empty == [x \in Tokens |-> 0]
Tokenful(t) == {x \in Tokens : t[x] > 0}
Capped(n) == IF n > 2 THEN 2 ELSE n

\* One edit made to a text. An erasure of what is no longer there is skipped.
Edited(t, step) ==
    [t EXCEPT ![step.tok] = IF step.by = "typed" THEN Capped(@ + 1)
                            ELSE IF @ > 0 THEN @ - 1 ELSE 0]

\* What was done to base to reach next, done to current.
Shifted(current, base, next) ==
    [x \in Tokens |-> IF current[x] + next[x] >= base[x]
                      THEN Capped((current[x] + next[x]) - base[x]) ELSE 0]

Within(t, u) == \A x \in Tokens : t[x] <= u[x]

Changed(t, u) == {x \in Tokens : t[x] # u[x]}

\* Slip: the save stands, whatever was added meanwhile.
TakenWhole(current, base, next) == next

\* mergeEdits: a save that holds all that others added was built on it.
Merged(current, base, next) ==
    IF ~Within(current, base) /\ Within(current, next) THEN next
    ELSE Shifted(current, base, next)

\* replayEdits: each step placed in the document as it is now.
ReplayEdits(doc, steps) == FoldLeft(Edited, doc, steps)

(***************************************************************************)
(* The recorder of an unbound editor's edits (pending-edits.ts).           *)
(***************************************************************************)
NewLog(t) == [base |-> t, steps |-> <<>>, interrupted |-> FALSE, lost |-> None]

\* What a log's editor held after its first i steps.
After(log, i) == FoldLeft(Edited, log.base, SubSeq(log.steps, 1, i))

\* Drop the steps up to the last one after which the editor read t.
Cut(log, t) ==
    LET at == {i \in 1..Len(log.steps) : After(log, i) = t}
    IN  IF log = None \/ at = {} THEN log
        ELSE LET last == CHOOSE i \in at : \A j \in at : j <= i
             IN  [log EXCEPT !.base = t,
                             !.steps = SubSeq(@, last + 1, Len(@))]

\* Slip: logs know nothing of saves.
NotCut(ls, t) == ls

\* adopted: the note has just taken t in from its file.
Adopted(ls, t) == [p \in Panes |-> IF ls[p] = None THEN None ELSE Cut(ls[p], t)]

\* What is worth keeping of an interrupted log: the text before the rewrite.
LogKept(log) == IF log.lost # None THEN log.lost ELSE After(log, Len(log.steps))

\* record, of an edit: logged unless yCollab carries this editor's edits.
Logged(p, step) ==
    IF recorder = p THEN logs
    ELSE [logs EXCEPT ![p] = LET log == IF @ = None THEN NewLog(text[p]) ELSE @
                             IN  [log EXCEPT !.steps = Append(@, step)]]

\* record, of a rewrite to t. The bound editor's own is a mirror, which the
\* document reads from now on; any other editor starts again from t.
Rewritten(p, t) ==
    IF recorder = p
    THEN [q \in Panes |-> IF q = p \/ logs[q] = None THEN logs[q] ELSE Cut(logs[q], t)]
    ELSE [logs EXCEPT ![p] =
            IF @ = None \/ (@.steps = <<>> /\ ~@.interrupted) THEN None
            ELSE [base |-> t, steps |-> <<>>, interrupted |-> TRUE,
                  lost |-> IF @.steps # <<>> /\ @.lost = None THEN text[p] ELSE @.lost]]

(***************************************************************************)
(* ContentSync, as far as a bind meets it.                                 *)
(***************************************************************************)
\* A change of the document: the observer has the file written, the bound
\* editor shows it.
SetDoc(n, t) == [n EXCEPT !.doc = t, !.timer = @ \/ (t # n.doc /\ ~n.editorActive)]

\* What the panes show once the document reads t: yCollab's doing.
Shown(t) ==
    IF wired = None \/ wired \in gone THEN text
    ELSE [text EXCEPT ![wired] = Shifted(@, note.doc, t)]

IgnoresEmpty(n, content) == content = Empty /\ n.doc # Empty /\ n.last = None

\* readIn.
ReadIn(n, content) ==
    IF content = n.doc THEN [n EXCEPT !.base = content]
    ELSE IF IgnoresEmpty(n, content) THEN n
    ELSE [SetDoc(n, IF n.base = None THEN content ELSE Merged(n.doc, n.base, content))
            EXCEPT !.base = content]

\* Whether readIn reports the text as taken in.
TakesIn(n, content) == content # n.doc /\ ~IgnoresEmpty(n, content)

\* What a file read in against no base, or one it does not start from, does to
\* the document is not held against it below. A base set anew is right again.
HarmedBy(doc, stale, rebased) ==
    /\ harmed' = IF misbased \/ stale \/ note.base = None THEN harmed \cup Changed(note.doc, doc) ELSE harmed
    /\ misbased' = (misbased /\ ~rebased)

\* releaseDoc. What disk and document agree on is taken to be the document's
\* text, also when the editor was never bound.
Release(n, connected) ==
    IF ~connected THEN n
    ELSE [n EXCEPT !.editorActive = FALSE, !.base = n.doc, !.timer = TRUE]

(***************************************************************************)
(* The bridge, as functions of its state and the note's.                   *)
(***************************************************************************)
Idle == [file |-> FALSE, cm |-> None, docName |-> FALSE, wait |-> "none",
         syncedWait |-> FALSE]

Here == [bridge |-> bridge, binds |-> binds, note |-> note, wired |-> wired,
         recorder |-> recorder, conn |-> conn, misbased |-> misbased]

\* Slip: a run is told from another by its path alone.
SamePath(bs) == bs

\* The generation has moved on: a run finds so when its await is over. Only one
\* that is reconciling still does something first.
Overtaken(bs) == {[b EXCEPT !.live = FALSE] : b \in {c \in bs : c.phase = "reconcile"}}

UnbindCollab(s) ==
    LET t == [s EXCEPT !.binds = Overtaken(@),
                       !.bridge.wait = "none", !.bridge.syncedWait = FALSE]
    IN  IF ~s.bridge.docName THEN t
        ELSE [t EXCEPT !.bridge = Idle, !.wired = None, !.recorder = None,
                       !.note = Release(@, s.conn # "none"),
                       !.misbased = @ \/ (s.conn # "none" /\ s.note.doc # file
                                            /\ \/ unheard \/ ~s.note.editorActive
                                               \/ s.wired \in gone)]

\* runInstallCollab up to its first await.
InstallCollab(s) ==
    IF s.conn = "subscribed"
    THEN [s EXCEPT !.binds = @ \cup {[pane |-> s.bridge.cm, phase |-> "reconcile",
                                      local |-> None, live |-> TRUE]}]
    ELSE [s EXCEPT !.bridge.wait = "install"]

\* onActiveLeafChange.
OnActiveLeafChange(s, pane) ==
    IF pane = Away THEN UnbindCollab(s)
    ELSE IF s.bridge.file /\ s.bridge.cm = pane THEN s
    ELSE LET t == [UnbindCollab(s) EXCEPT !.bridge =
                     [Idle EXCEPT !.file = TRUE, !.cm = pane, !.docName = TRUE]]
         IN  IF s.conn = "none" THEN [t EXCEPT !.bridge.wait = "leaf"]
             ELSE IF synced \/ ~online THEN InstallCollab(t)
             ELSE [t EXCEPT !.bridge.syncedWait = TRUE]

Becomes(s) ==
    /\ bridge' = s.bridge /\ binds' = s.binds /\ note' = s.note
    /\ wired' = s.wired /\ recorder' = s.recorder
    /\ conn' = s.conn /\ misbased' = s.misbased

(***************************************************************************)
(* The beginning: a note at rest, or one opened before sync reached it.    *)
(***************************************************************************)
Said(x) == [Empty EXCEPT ![Old] = x]

FreshNote(doc, stored, known) ==
    [doc |-> doc, stored |-> stored, editorActive |-> FALSE,
     base |-> IF known THEN doc ELSE None, last |-> IF known THEN doc ELSE None,
     checked |-> known, timer |-> FALSE, seeding |-> FALSE, confirmed |-> known]

Init ==
    /\ active = Away /\ announced = TRUE
    /\ text = [p \in Panes |-> Said(1)] /\ file = Said(1)
    /\ unsaved = {} /\ mirrored = {} /\ outdated = {} /\ gone = {}
    /\ unheard = FALSE /\ backups = {}
    /\ logs = [p \in Panes |-> None]
    /\ recorder = None /\ wired = None
    /\ bridge = Idle /\ binds = {}
    /\ online \in BOOLEAN
    /\ \/ /\ conn = "subscribed" /\ synced = online
          /\ note = FreshNote(Said(1), Said(1), TRUE)
       \/ /\ conn = "none" /\ synced = FALSE
          /\ \E n \in {0, 1} : note = FreshNote(Empty, Said(n), FALSE)
    /\ typed = {} /\ erased = {} /\ moves = 0 /\ troubles = 0
    /\ peerWrote = FALSE /\ misbased = FALSE /\ harmed = {}

(***************************************************************************)
(* The person and Obsidian (external).                                     *)
(***************************************************************************)
Others(p) == (Panes \ gone) \ {p}

\* An edit in the active pane. Nobody types in a pane that Obsidian has yet to
\* make equal to another one (an assumption).
Edit ==
    /\ active \in Panes \ (gone \cup mirrored \cup outdated)
    /\ \E step \in Step :
          /\ IF step.by = "typed" THEN step.tok \notin typed
             ELSE step.tok \notin erased /\ text[active][step.tok] > 0
          /\ text' = [text EXCEPT ![active] = Edited(@, step)]
          /\ note' = IF wired = active THEN SetDoc(note, Edited(note.doc, step)) ELSE note
          /\ logs' = Logged(active, step)
          /\ typed' = typed \cup {step.tok}
          /\ erased' = IF step.by = "erased" THEN erased \cup {step.tok} ELSE erased
    /\ unsaved' = unsaved \cup {active}
    /\ mirrored' = mirrored \cup Others(active)
    /\ UNCHANGED <<active, announced, outdated, gone, recorder, wired, bridge,
                   binds, file, unheard, conn, netVars, backups, moves, troubles,
                   peerWrote, misbased, harmed>>

\* A pane is rewritten with t, tagged "set". yCollab publishes what it changed.
Set(p, t) ==
    /\ text' = [text EXCEPT ![p] = t]
    /\ logs' = Rewritten(p, t)
    /\ note' = IF wired = p THEN SetDoc(note, Shifted(note.doc, text[p], t)) ELSE note

\* A pane is given what another one on the file holds. A pane that changes
\* while it waits for that is the newer one, and is not (an assumption).
Mirror ==
    /\ \E p \in mirrored :
          /\ \E q \in Others(p) : Set(p, text[q])
          /\ mirrored' = mirrored \ {p}
          /\ outdated' = outdated \ {p}
    /\ UNCHANGED <<active, announced, unsaved, gone, recorder, wired, bridge, binds,
                   file, unheard, conn, netVars, backups, ghostVars>>

\* Obsidian saves a pane, once the panes are alike and IndexedDB has loaded
\* (two assumptions).
Save ==
    /\ mirrored = {} /\ conn # "loading"
    /\ \E p \in unsaved :
          /\ file' = text[p]
          /\ unsaved' = unsaved \ {p}
          /\ outdated' = {q \in Others(p) \ unsaved : text[q] # text[p]}
    /\ unheard' = TRUE
    /\ UNCHANGED <<active, announced, text, mirrored, gone, bridgeVars, note,
                   conn, netVars, backups, ghostVars>>

\* A pane with nothing unsaved reloads a file that has changed.
Reload ==
    /\ \E p \in outdated :
          /\ outdated' = outdated \ {p}
          /\ IF p \in unsaved THEN UNCHANGED <<text, logs, note>> ELSE Set(p, file)
    /\ UNCHANGED <<active, announced, unsaved, mirrored, gone, recorder, wired,
                   bridge, binds, file, unheard, conn, netVars, backups, ghostVars>>

\* Another pane or another view is made active; the event comes later.
Activate ==
    /\ announced /\ moves < MaxMoves
    /\ active' \in ({Away} \cup (Panes \ gone)) \ {active}
    /\ announced' = FALSE
    /\ moves' = moves + 1
    /\ UNCHANGED <<text, unsaved, mirrored, outdated, gone, bridgeVars, note, file,
                   unheard, conn, netVars, backups, typed, erased, troubles, peerWrote,
                   misbased, harmed>>

\* A pane is closed: it is saved, and its log goes with it. Not in the moments
\* another pane is being bound (an assumption).
Close ==
    /\ troubles < MaxTroubles /\ mirrored = {} /\ conn # "loading"
    /\ \E p \in Panes \ gone :
          /\ \A b \in binds : b.pane = p
          /\ gone' = gone \cup {p}
          /\ file' = IF p \in unsaved THEN text[p] ELSE file
          /\ unheard' = (unheard \/ p \in unsaved)
          /\ unsaved' = unsaved \ {p}
          /\ outdated' = (outdated \cup (IF p \in unsaved
                               THEN {q \in Others(p) \ unsaved : text[q] # text[p]}
                               ELSE {})) \ {p}
          /\ logs' = [logs EXCEPT ![p] = None]
          /\ IF active # p THEN UNCHANGED <<active, announced>>
             ELSE active' = Away /\ announced' = FALSE
    /\ troubles' = troubles + 1
    /\ UNCHANGED <<text, mirrored, recorder, wired, bridge, binds, note, conn, netVars,
                   backups, typed, erased, moves, peerWrote, misbased, harmed>>

(***************************************************************************)
(* What the bridge hears.                                                  *)
(***************************************************************************)
LeafChange ==
    /\ ~announced
    /\ announced' = TRUE
    /\ Becomes(OnActiveLeafChange(Here, active))
    /\ UNCHANGED <<active, text, unsaved, mirrored, outdated, gone, logs, file,
                   unheard, netVars, backups, typed, erased, moves, troubles, peerWrote, harmed>>

\* reconnectActiveFile, after a change of mappings or connections.
ReconnectActiveFile ==
    /\ announced /\ active # Away /\ troubles < MaxTroubles
    /\ troubles' = troubles + 1
    /\ Becomes(OnActiveLeafChange(UnbindCollab(Here), active))
    /\ UNCHANGED <<obsidianVars, logs, file, unheard, netVars, backups, typed,
                   erased, moves, peerWrote, harmed>>

\* The bound editor's state was replaced: verify finds the slot empty, onLost
\* unbinds and binds again.
Replaced ==
    /\ wired # None /\ wired \notin gone /\ troubles < MaxTroubles
    /\ troubles' = troubles + 1
    /\ Becomes(OnActiveLeafChange(UnbindCollab([Here EXCEPT !.wired = None]), active))
    /\ UNCHANGED <<obsidianVars, logs, file, unheard, netVars, backups, typed,
                   erased, moves, peerWrote, harmed>>

\* The wait for a subscription ends: with it, or after ten tries.
Settled(s) ==
    IF s.bridge.wait = "leaf"
    THEN OnActiveLeafChange([s EXCEPT !.bridge.wait = "none", !.bridge.file = FALSE], active)
    ELSE InstallCollab([s EXCEPT !.bridge.wait = "none"])

GiveUp ==
    /\ bridge.wait # "none" /\ conn # "subscribed" /\ troubles < MaxTroubles
    /\ troubles' = troubles + 1
    /\ bridge' = [bridge EXCEPT !.wait = "none", !.file = FALSE]
    /\ UNCHANGED <<obsidianVars, logs, recorder, wired, binds, note, file, unheard,
                   conn, netVars, backups, typed, erased, moves, peerWrote, misbased,
                   harmed>>

(***************************************************************************)
(* A run of runInstallCollab, from await to await.                         *)
(***************************************************************************)
\* Every token of the document is in the file (disk.includes).
Includes(disk, doc) == Within(doc, disk)

\* reconcileFromDisk, with its read; then the bind looks whether it was overtaken.
\* Reads are answered in the order they were asked (an assumption).
ReconcileFromDisk ==
    \E b \in binds :
        LET adopts == \/ note.last # None /\ file # note.last
                      \/ /\ note.last = None /\ file # Empty
                         /\ note.doc = Empty \/ Includes(file, note.doc)
            differs == file # note.doc
        IN  /\ b.phase = "reconcile"
            /\ b.live => \A c \in binds : c.live
            /\ note' = IF differs /\ adopts THEN [SetDoc(note, file) EXCEPT !.last = file]
                       ELSE note
            /\ text' = Shown(note'.doc)
            /\ logs' = IF differs /\ adopts THEN Adopted(logs, file) ELSE logs
            /\ backups' = IF differs /\ ~adopts /\ note.last = None
                          THEN backups \cup Tokenful(file) ELSE backups
            /\ misbased' = (misbased \/ (differs /\ adopts /\ note.base \notin {None, file}))
            /\ harmed' = IF note.last # None /\ note.doc # note.last
                         THEN harmed \cup Changed(note.doc, note'.doc) ELSE harmed
            /\ binds' = (binds \ {b})
                          \cup (IF b.live THEN {[b EXCEPT !.phase = "read"]} ELSE {})
    /\ UNCHANGED <<active, announced, unsaved, mirrored, outdated, gone, recorder,
                   wired, bridge, file, unheard, conn, netVars, typed, erased, moves,
                   troubles, peerWrote>>

\* The file is read for a seed, and the seed is made.
ReadLocalContent ==
    \E b \in binds :
        /\ b.phase = "read"
        /\ binds' = (binds \ {b}) \cup {[b EXCEPT !.phase = "install", !.local = file]}
        /\ UNCHANGED <<obsidianVars, logs, recorder, wired, bridge, note, file,
                       unheard, conn, netVars, backups, ghostVars>>

\* Slip: only the log of the pane that is bound.
OwnLog(p, ls) == SelectSeq(<<ls[p]>>, LAMBDA log : log # None)

\* The logs handed over, the pane's own first (take).
Pending(p, ls) == SelectSeq(<<ls[p]>> \o SetToSeq({ls[q] : q \in Panes \ {p}}),
                            LAMBDA log : log # None)

\* The rest of the bind, in one block: seed, take, replay, set, install.
FinishInstall ==
    \E b \in binds :
        LET p       == b.pane
            seeds   == note.doc = Empty /\ b.local # Empty
            seeded  == IF seeds THEN b.local ELSE note.doc
            left    == IF seeds THEN Adopted(logs, b.local) ELSE logs
            pending == Pending(p, left)
            doc     == FoldLeft(LAMBDA t, log : ReplayEdits(t, log.steps), seeded, pending)
            kept    == UNION {Tokenful(LogKept(pending[i])) :
                                i \in {j \in 1..Len(pending) : pending[j].interrupted}}
        IN  /\ b.phase = "install"
            /\ logs' = [q \in Panes |-> None]
            /\ backups' = backups \cup kept
            /\ text' = [text EXCEPT ![p] = doc]
            /\ unsaved' = IF text[p] # doc /\ p \notin gone THEN unsaved \cup {p} ELSE unsaved
            /\ mirrored' = IF text[p] # doc THEN (mirrored \ {p}) \cup Others(p) ELSE mirrored
            /\ IF p \in gone
               THEN Becomes(UnbindCollab([Here EXCEPT !.note = SetDoc(@, doc),
                                                      !.binds = @ \ {b}]))
               ELSE /\ note' = [note EXCEPT !.doc = doc, !.editorActive = TRUE,
                                            !.base = None, !.timer = FALSE]
                    /\ wired' = p /\ recorder' = p
                    /\ binds' = binds \ {b}
                    /\ misbased' = FALSE
                    /\ UNCHANGED <<bridge, conn>>
    /\ UNCHANGED <<active, announced, outdated, gone, file, unheard, netVars, typed,
                   erased, moves, troubles, peerWrote, harmed>>

(***************************************************************************)
(* ContentSync at work beside the bridge.                                  *)
(***************************************************************************)
\* onLocalModify. While an editor is bound its save is only recorded.
OnLocalModify ==
    /\ unheard
    /\ unheard' = FALSE
    /\ IF conn = "none" \/ note.editorActive THEN UNCHANGED <<note, logs, misbased, harmed>>
       ELSE /\ note' = ReadIn(note, file)
            /\ logs' = IF TakesIn(note, file) THEN Adopted(logs, file) ELSE logs
            /\ HarmedBy(note'.doc, FALSE, ~IgnoresEmpty(note, file))
    /\ UNCHANGED <<obsidianVars, recorder, wired, bridge, binds, file, conn, netVars,
                   backups, typed, erased, moves, troubles, peerWrote>>

\* writeToDisk. The pane last left has been saved by then (an assumption).
WriteToDisk ==
    LET first == ~note.checked /\ file # Empty /\ file # note.doc
        moved == first /\ note.stored # Empty /\ file # note.stored
        \* What nobody has seen yet, against what the two last agreed on.
        n1 == IF moved THEN ReadIn([note EXCEPT !.checked = TRUE, !.base = note.stored], file)
              ELSE note
        unseen == /\ n1.checked /\ n1.base # None
                  /\ file # n1.base /\ file # n1.doc
        n2 == IF unseen THEN ReadIn(n1, file) ELSE n1
        unconfirmed == n2.doc = Empty /\ file # Empty /\ ~n2.confirmed
        conflict == \/ moved /\ note.doc # note.stored
                    \/ first /\ note.stored = Empty /\ n2.doc # Empty
    IN  /\ note.timer /\ unsaved = {} /\ conn = "subscribed"
        /\ IF note.editorActive
           THEN /\ note' = [note EXCEPT !.timer = FALSE]
                /\ UNCHANGED <<file, logs, backups, outdated, misbased, harmed>>
           ELSE /\ note' = IF unconfirmed THEN [n2 EXCEPT !.timer = FALSE]
                           ELSE [n2 EXCEPT !.timer = FALSE, !.checked = @ \/ n2.doc # file,
                                           !.base = n2.doc, !.last = n2.doc]
                /\ file' = IF unconfirmed THEN file ELSE n2.doc
                /\ logs' = IF moved \/ unseen THEN Adopted(logs, file) ELSE logs
                /\ backups' = IF conflict THEN backups \cup Tokenful(file) ELSE backups
                /\ outdated' = outdated \cup {p \in Panes \ gone : text[p] # file'}
                /\ HarmedBy(n2.doc, moved /\ note.base # note.stored, moved \/ unseen \/ ~unconfirmed)
    /\ UNCHANGED <<active, announced, text, unsaved, mirrored, gone, recorder, wired,
                   bridge, binds, unheard, conn, netVars, typed, erased, moves,
                   troubles, peerWrote>>

\* The file is connected, by its folder. No save is heard while IndexedDB
\* loads (an assumption: ContentSync has that case).
Connect ==
    /\ conn = "none" /\ ~unheard
    /\ conn' = "loading"
    /\ UNCHANGED <<obsidianVars, bridgeVars, note, file, unheard, online, synced,
                   backups, ghostVars>>

\* startSync: IndexedDB has loaded, the document is subscribed, and a bind that
\* waited for that goes on.
StartSync ==
    /\ conn = "loading"
    /\ LET s == [Here EXCEPT !.conn = "subscribed",
                             !.note.doc = Shifted(@, Empty, note.stored),
                             !.note.timer = @ \/ ~note.editorActive]
       IN  Becomes(IF s.bridge.wait = "none" THEN s ELSE Settled(s))
    /\ UNCHANGED <<obsidianVars, logs, file, unheard, online, synced, backups, typed,
                   erased, moves, troubles, peerWrote, harmed>>

\* The end of the first sync.
Confirmed(n) == [n EXCEPT !.seeding = FALSE, !.confirmed = TRUE, !.timer = @ \/ ~n.editorActive]

\* The server's catch-up has arrived: with a peer's edit, with nothing new, or
\* with nothing at all, and then the file is read for a seed. A bind that waited
\* for it starts.
Sync ==
    /\ online /\ conn = "subscribed" /\ ~synced
    /\ synced' = TRUE
    /\ \E peer \in BOOLEAN :
          LET doc == IF peer THEN [note.doc EXCEPT ![Old] = 1, ![Peer] = 1] ELSE note.doc
              s   == [Here EXCEPT !.note = IF doc = Empty THEN [@ EXCEPT !.seeding = TRUE]
                                         ELSE Confirmed(SetDoc(@, doc))]
          IN  /\ text' = Shown(doc)
              /\ peerWrote' = peer
              /\ IF ~s.bridge.syncedWait
                 THEN Becomes(s)
                 ELSE Becomes(InstallCollab([s EXCEPT !.bridge.syncedWait = FALSE]))
    /\ UNCHANGED <<active, announced, unsaved, mirrored, outdated, gone, logs, file,
                   unheard, online, backups, typed, erased, moves, troubles, harmed>>

\* seedIfEmpty, its file read: an empty document is filled from the file, and is then confirmed.
FirstSync ==
    /\ note.seeding
    /\ LET seeds == note.doc = Empty /\ file # Empty
           doc   == IF seeds THEN file ELSE note.doc
       IN  /\ note' = Confirmed(SetDoc(note, doc))
           /\ text' = Shown(doc)
           /\ logs' = IF seeds THEN Adopted(logs, file) ELSE logs
    /\ UNCHANGED <<active, announced, unsaved, mirrored, outdated, gone, recorder,
                   wired, bridge, binds, file, unheard, conn, netVars, backups,
                   ghostVars>>

\* A peer's edit arrives, and the pane that is bound shows it. Not while a pane
\* is owed another's text: what crosses there is Obsidian's (an assumption).
PeerEdit ==
    /\ synced /\ ~peerWrote /\ ~note.seeding /\ mirrored = {}
    /\ peerWrote' = TRUE
    /\ LET doc == [note.doc EXCEPT ![Peer] = 1]
       IN  /\ note' = SetDoc(note, doc)
           /\ text' = Shown(doc)
           /\ IF wired = None \/ wired \in gone THEN UNCHANGED <<unsaved, mirrored>>
              ELSE /\ unsaved' = unsaved \cup {wired}
                   /\ mirrored' = Others(wired)
    /\ UNCHANGED <<active, announced, outdated, gone, bridgeVars, file, unheard, conn,
                   netVars, backups, typed, erased, moves, troubles, misbased,
                   harmed>>

(***************************************************************************)
(* The specification.                                                      *)
(***************************************************************************)
Obsidian == Mirror \/ Save \/ Reload \/ Close
Person == Edit \/ Activate
Bind == ReconcileFromDisk \/ ReadLocalContent \/ FinishInstall
Content == OnLocalModify \/ WriteToDisk \/ Connect \/ StartSync \/ Sync \/ FirstSync \/ PeerEdit
Bridge == LeafChange \/ ReconnectActiveFile \/ Replaced \/ GiveUp

Next == Obsidian \/ Person \/ Bind \/ Content \/ Bridge

Spec == Init /\ [][Next]_vars

(***************************************************************************)
(* What must hold.                                                         *)
(***************************************************************************)
LogState == [base : Text, steps : Seq(Step), interrupted : BOOLEAN, lost : OptText]

TypeOK ==
    /\ active \in Panes \cup {Away}
    /\ text \in [Panes -> Text]
    /\ file \in Text /\ note.doc \in Text
    /\ \A p \in Panes : logs[p] # None => logs[p] \in LogState
    /\ recorder \in OptPane /\ wired \in OptPane /\ bridge.cm \in OptPane
    /\ conn \in {"none", "loading", "subscribed"}

\* Nothing under way: every save is read in, every write done, no bind waits.
AtRest ==
    /\ announced /\ unsaved = {} /\ mirrored = {} /\ outdated = {}
    /\ ~unheard /\ binds = {} /\ ~note.timer /\ ~note.seeding
    /\ bridge.wait = "none" /\ ~bridge.syncedWait
    /\ conn = "subscribed" /\ synced = online

\* What was typed is in the note, or in a copy that was kept, or in a file whose
\* document has nothing yet and waits to be filled from it.
Lost(k) == \E p \in Panes : /\ logs[p] # None /\ logs[p].interrupted
                             /\ LogKept(logs[p])[k] > 0
Waits(k) == ~note.confirmed /\ note.doc = Empty /\ file[k] > 0
TypedIsKept ==
    AtRest => \A k \in typed \ (erased \cup harmed) :
                 note.doc[k] > 0 \/ k \in backups \/ Lost(k) \/ Waits(k)

\* Nothing is in the note twice: what an editor's log replays, no save, seed,
\* mirror or reconcile has brought in as well.
TypedOnce == \A x \in Tokens \ harmed : note.doc[x] <= 1

\* What was typed is kept, and once.
TypedStandsOnce == TypedIsKept /\ TypedOnce

\* At rest the pane in front is the one bound.
ActiveIsBound ==
    AtRest /\ active # Away /\ bridge.file => wired = active

\* No step here removes what a peer wrote.
PeerStays == [][note.doc[Peer] > 0 => (note'.doc[Peer] > 0 \/ Peer \in harmed')]_vars

\* The first, with no exception made.
TypedAlwaysKept ==
    AtRest => \A k \in typed \ erased :
                 note.doc[k] > 0 \/ k \in backups \/ Lost(k) \/ Waits(k)
===============================================================================
