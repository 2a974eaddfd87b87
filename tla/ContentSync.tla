----------------------------- MODULE ContentSync -----------------------------
(***************************************************************************)
(* One note of packages/plugin/src/content-sync.ts: the file on disk, the  *)
(* document that follows it, what IndexedDB keeps between sessions, and    *)
(* the three parties that touch both: writeToDisk, the modify handler, and *)
(* the editor that binds the document.                                     *)
(*                                                                         *)
(* A text is a set of lines, each line the trace of one edit; where a line *)
(* stands in the text is left out.  A three-way merge keeps what either    *)
(* side added and drops what either side removed.                          *)
(*                                                                         *)
(* Every await of the code splits an operation in two actions.  A read of  *)
(* the file takes its text when it is issued, and the code continues with  *)
(* that text in a later step.  A note that was disconnected keeps its      *)
(* state, as the closures of the operations still under way do.            *)
(*                                                                         *)
(* No view of another plugin is open on the note (the surface saves at     *)
(* once and holds nothing); the file, once there, is not deleted.          *)
(***************************************************************************)
EXTENDS Naturals, FiniteSets

CONSTANTS
    StartLines,     \* what a file may hold before this vault ever synced it
    LocalLines,     \* lines people of this vault may write
    RemoteLines,    \* lines the other vaults may write
    None,           \* null
    Writers,        \* activations of writeToDisk under way at once
    Readers,        \* activations of onLocalModify under way at once
    MaxConnects,    \* connects of the note over a behaviour
    MaxBinds,       \* bindings of an editor over a behaviour
    MaxChanges,     \* changes and connections given up, over a behaviour
    MaxEvents,      \* modify events waiting, above which nobody writes more
    MaxWriteRetries,\* MAX_WRITE_RETRIES
    EarlySaves,     \* a file may change between connect and first agreement
    PromptSave,     \* an editor holds a note longer than an activation lasts,
                    \* and once released saves before its file is looked at
    OvertakenReads, \* the file may change again, or an editor take the note,
                    \* before onLocalModify has what it read, or writeToDisk the
                    \* answer that it has written
    Faults          \* "write": a write throws; "backup": a copy is not made;
                    \* "unplaced": the router has no connection to place it on

Lines == StartLines \cup LocalLines \cup RemoteLines
Text == SUBSET Lines
Epochs == 1..MaxConnects

ASSUME NoneAssumption == \A text \in Text : text # None
\* A line is one edit, made on one side.
ASSUME LinesAssumption == StartLines \cap (LocalLines \cup RemoteLines) = {}
ASSUME BoundsAssumption == /\ MaxConnects \in Nat \ {0}
                           /\ MaxBinds \in Nat
                           /\ MaxChanges \in Nat
                           /\ MaxEvents \in Nat \ {0}
                           /\ MaxWriteRetries \in Nat
                           /\ EarlySaves \in BOOLEAN
                           /\ PromptSave \in BOOLEAN
                           /\ OvertakenReads \in BOOLEAN
                           /\ Faults \subseteq {"write", "backup", "unplaced"}

VARIABLES
    exists,     \* the file is in the vault
    disk,       \* its text
    events,     \* modify events Obsidian has yet to deliver
    saving,     \* the text a released editor has yet to save
    kept,       \* every line some backup holds
    idb,        \* what IndexedDB holds: the document and the agreed text
    phase,      \* how far the connect of the current note has come
    seedText,   \* the file's text seedIfEmpty is authoring a seed of
    epoch,      \* which connect it is
    note,       \* the FileDocState of every connect
    diskBase,   \* the text file and document last agreed on, by document
    ownWrite,   \* our own last write until its event is seen
    writer,     \* activations of writeToDisk
    reader,     \* activations of onLocalModify
    bridge,     \* the editor bridge's bind of the note
    binds,      \* editor bindings so far
    inbox,      \* what the server holds that this vault has not received
    used,       \* every line written so far
    removed,    \* every line somebody deliberately removed
    raced,      \* lines saved between a write's last read and the write
    reverted,   \* lines taken out of the document with nothing to tell why
    doubled     \* the document holds one text twice

fileVars   == <<exists, disk, events, saving>>
connVars   == <<phase, seedText, epoch, inbox>>
bufferVars == <<diskBase, ownWrite>>
taskVars   == <<writer, reader, bridge, binds>>
ghostVars  == <<used, removed, raced, reverted, doubled>>
vars == <<exists, disk, events, saving, kept, idb, phase, seedText, epoch, inbox,
          note, diskBase, ownWrite, writer, reader, bridge, binds, used, removed,
          raced, reverted, doubled>>

OptText == {None} \cup Text

FileDocState ==
    [ytext : Text, seeds : SUBSET Text, editorActive : BOOLEAN,
     observer : BOOLEAN, writeTimer : BOOLEAN,
     writeRetries : 0..MaxWriteRetries,
     lastSyncedContent : OptText, idbHadData : BOOLEAN,
     firstSyncChecked : BOOLEAN, agreedAtConnect : OptText,
     hasSyncedOnce : BOOLEAN, ignoreNextModify : BOOLEAN]

WriterState ==
    [pc : {"idle", "saved", "read", "keepMerge", "keepOnly", "keptMerge",
           "keptOnly", "read2", "read3", "firstCopy", "blankCopy", "writing",
           "written"},
     ep : Epochs, got : Text, content : Text]

ReaderState == [pc : {"idle", "record", "read"}, ep : Epochs, got : Text,
                own : OptText]

Phases == {"closed", "unplaced", "addressing", "loading", "loaded", "waiting",
           "seeding", "synced"}

TypeOK ==
    /\ exists \in BOOLEAN
    /\ disk \in Text
    /\ events \in 0..MaxEvents
    /\ saving \in OptText
    /\ kept \in Text
    /\ idb \in [text : Text, seeds : SUBSET Text, agreed : OptText]
    /\ phase \in Phases
    /\ seedText \in Text
    /\ epoch \in 0..MaxConnects
    /\ note \in [Epochs -> FileDocState]
    /\ diskBase \in OptText
    /\ ownWrite \in OptText
    /\ writer \in [Writers -> WriterState]
    /\ reader \in [Readers -> ReaderState]
    /\ bridge \in [pc : {"idle", "reconcile", "seed", "binding"}, got : Text]
    /\ binds \in 0..MaxBinds
    /\ inbox \in [add : Text, del : Text, seeds : SUBSET Text]
    /\ used \in Text
    /\ removed \in Text
    /\ raced \in Text
    /\ reverted \in Text
    /\ doubled \in BOOLEAN

Connected == phase \in {"loading", "loaded", "waiting", "seeding", "synced"}
Live(e) == Connected /\ epoch = e

\* The bounds: lines written and removed so far, each connection that was given
\* up counted with them.
Changes == Cardinality(used \ StartLines) + Cardinality(removed)
             + (IF Connected THEN epoch - 1 ELSE epoch)
MayChange == Changes < MaxChanges
MayLeave == epoch < MaxConnects /\ MayChange
Subscribed == phase \in {"waiting", "seeding", "synced"}
Bound == Connected /\ note[epoch].editorActive

\* No activation is under way and no event waits.
Quiet == /\ events = 0
         /\ \A w \in Writers : writer[w].pc = "idle"
         /\ \A r \in Readers : reader[r].pc = "idle"

\* Past its last read of the file, with a write to come.
WriteUnderWay == \E w \in Writers :
    writer[w].pc \in {"read", "read2", "read3", "keptMerge", "keptOnly",
                      "firstCopy", "blankCopy", "writing"}

(***************************************************************************)
(* Helpers.                                                                *)
(***************************************************************************)
\* Mutants, each before what it stands in for: a merge that takes one side.
AdoptNext(current, base, next) == next

\* text-merge.ts: an edit from "base" to "next", brought into "current".
MergeEdits(current, base, next) ==
    (current \ (base \ next)) \cup (next \ base)

\* Mutant: no write follows a change.
SetTextOnly(n, text) == [n EXCEPT !.ytext = text]

\* A change of the document, with the observer that schedules a write.
SetText(n, text) ==
    [n EXCEPT !.ytext = text,
              !.writeTimer = @ \/ (n.observer /\ text # n.ytext /\ ~n.editorActive)]

\* Mutant: every seed an operation of its own.
SeedAnew(n, content) == SetText(n, n.ytext \cup content)

\* seed-update.ts: a seed is one operation, whoever runs it.
SeedDocument(n, content) ==
    IF content \in n.seeds
    THEN n
    ELSE [SetText(n, n.ytext \cup content) EXCEPT !.seeds = @ \cup {content}]

\* A text put into a document that has it, and not as that same operation.
Doubles(n, content) ==
    content # {} /\ content = n.ytext /\ content \notin n.seeds

\* Doubling counts while nobody has changed the note since it was first there.
DoublesIf(cond) ==
    doubled' = (doubled \/ (cond /\ used \subseteq StartLines /\ removed = {}))

\* recordAgreed: the record fails once the note's store is closed.
RecordAgreed(e, text) ==
    IF Live(e) THEN [idb EXCEPT !.agreed = text] ELSE idb

\* Mutant: an empty file always empties the document.
NoPlaceholder(n, content) == FALSE

\* An empty file that has never held the document: FileSync's placeholder.
IsPlaceholder(n, content) ==
    content = {} /\ n.ytext # {} /\ n.lastSyncedContent = None

ReadInText(n, content, base) ==
    CASE content = n.ytext         -> n.ytext
      [] IsPlaceholder(n, content) -> n.ytext
      [] OTHER -> IF base = None THEN content
                  ELSE MergeEdits(n.ytext, base, content)

\* readIn, for a note that "n" already stands for.
ReadIn(e, n, content, base) ==
    /\ note' = [note EXCEPT ![e] = SetText(n, ReadInText(n, content, base))]
    /\ reverted' = IF base # None \/ content = {} THEN reverted
                   ELSE reverted \cup (n.ytext \ ReadInText(n, content, base))
    /\ IF content # n.ytext /\ IsPlaceholder(n, content)
       THEN diskBase' = base /\ UNCHANGED idb
       ELSE diskBase' = content /\ idb' = RecordAgreed(e, content)

NewNote == [ytext |-> {}, seeds |-> {}, editorActive |-> FALSE,
            observer |-> FALSE, writeTimer |-> FALSE, writeRetries |-> 0,
            lastSyncedContent |-> None, idbHadData |-> FALSE,
            firstSyncChecked |-> FALSE, agreedAtConnect |-> None,
            hasSyncedOnce |-> FALSE, ignoreNextModify |-> FALSE]

IdleWriter == [pc |-> "idle", ep |-> 1, got |-> {}, content |-> {}]
IdleReader == [pc |-> "idle", ep |-> 1, got |-> {}, own |-> None]
IdleBridge == [pc |-> "idle", got |-> {}]

(***************************************************************************)
(* The vault before the plugin starts: a note never synced here, that      *)
(* other vaults may hold too; one synced by a version that recorded        *)
(* nothing; or one that was in agreement when the last session ended.      *)
(***************************************************************************)
Init ==
    /\ exists \in BOOLEAN
    /\ disk \in {{}, StartLines}
    /\ exists \/ disk = {}
    /\ \/ /\ idb = [text |-> {}, seeds |-> {}, agreed |-> None]
          /\ \/ inbox = [add |-> {}, del |-> {}, seeds |-> {}]
             \/ inbox = [add |-> StartLines, del |-> {}, seeds |-> {StartLines}]
       \/ /\ exists
          /\ disk = StartLines
          /\ idb \in [text : {StartLines}, seeds : {{StartLines}},
                      agreed : {None, StartLines}]
          /\ inbox = [add |-> {}, del |-> {}, seeds |-> {}]
    /\ used = disk \cup inbox.add \cup idb.text
    /\ events = 0 /\ saving = None /\ kept = {}
    /\ phase = "closed" /\ epoch = 0 /\ seedText = {}
    /\ note = [e \in Epochs |-> NewNote]
    /\ diskBase = None /\ ownWrite = None
    /\ writer = [w \in Writers |-> IdleWriter]
    /\ reader = [r \in Readers |-> IdleReader]
    /\ bridge = IdleBridge /\ binds = 0
    /\ removed = {} /\ raced = {} /\ reverted = {} /\ doubled = FALSE

(***************************************************************************)
(* Connecting and disconnecting.                                           *)
(***************************************************************************)
\* connectFile: gated on the path, before the document id is derived.
ConnectFile ==
    /\ phase = "closed"
    /\ epoch < MaxConnects
    /\ phase' = "addressing"
    /\ UNCHANGED <<fileVars, kept, idb, seedText, epoch, inbox, note,
                   bufferVars, taskVars, ghostVars>>

\* doConnectFile, up to the load of IndexedDB; without a key it gives up.
Address ==
    /\ phase = "addressing"
    /\ \/ /\ EarlySaves \/ (Quiet /\ saving = None)
          /\ phase' = "loading" /\ epoch' = epoch + 1
       \/ phase' = "closed" /\ UNCHANGED epoch
    /\ UNCHANGED <<fileVars, kept, idb, seedText, inbox, note, bufferVars,
                   taskVars, ghostVars>>

\* y-indexeddb's synced, and readAgreed after it.
LoadIndexedDb ==
    /\ phase = "loading"
    /\ phase' = "loaded"
    /\ note' = [note EXCEPT ![epoch].ytext = @ \cup idb.text,
                            ![epoch].seeds = @ \cup idb.seeds,
                            ![epoch].agreedAtConnect = idb.agreed]
    /\ DoublesIf(note[epoch].ytext \cap idb.text # {})
    /\ UNCHANGED <<fileVars, kept, idb, seedText, epoch, inbox, bufferVars,
                   taskVars, used, removed, raced,
                   reverted>>

\* startSync: subscribe, observe, and reconcile the file once.
StartSync ==
    /\ phase = "loaded"
    /\ phase' = "waiting"
    /\ note' = [note EXCEPT ![epoch].idbHadData = note[epoch].ytext # {},
                            ![epoch].observer = TRUE,
                            ![epoch].writeTimer = TRUE]
    /\ UNCHANGED <<fileVars, kept, idb, seedText, epoch, inbox, bufferVars,
                   taskVars, ghostVars>>

\* What y-indexeddb has stored of the current note by the time it is let go.
StoredIdb ==
    [idb EXCEPT !.text  = IF phase = "loading" THEN @ \cup note[epoch].ytext
                          ELSE note[epoch].ytext,
                !.seeds = IF phase = "loading" THEN @ ELSE note[epoch].seeds]

\* subscribe threw: abandonUnsubscribed leaves nothing to hand out.
AbandonUnsubscribed ==
    /\ phase = "loaded"
    /\ "unplaced" \in Faults
    /\ MayLeave
    /\ phase' = "unplaced"
    /\ idb' = StoredIdb
    /\ note' = [note EXCEPT ![epoch].writeTimer = FALSE]
    /\ diskBase' = None /\ ownWrite' = None
    /\ UNCHANGED <<fileVars, kept, seedText, epoch, inbox, taskVars,
                   ghostVars>>

\* retryUnplaced, when a connection appears.
RetryUnplaced ==
    /\ phase = "unplaced"
    /\ phase' = "addressing"
    /\ UNCHANGED <<fileVars, kept, idb, seedText, epoch, inbox, note,
                   bufferVars, taskVars, ghostVars>>

\* disconnectDoc.  A bound editor keeps its buffer, and saves it later.
DisconnectDoc ==
    /\ Connected
    /\ MayLeave
    /\ phase' = "closed"
    /\ idb' = StoredIdb
    /\ note' = [note EXCEPT ![epoch].writeTimer = FALSE,
                            ![epoch].observer = FALSE]
    /\ diskBase' = None /\ ownWrite' = None
    /\ bridge' = IdleBridge
    /\ saving' = IF Bound /\ note[epoch].ytext # disk THEN note[epoch].ytext
                 ELSE saving
    /\ raced' = IF WriteUnderWay THEN raced \cup (disk \ note[epoch].ytext) ELSE raced
    /\ UNCHANGED <<exists, disk, events, kept, seedText, epoch, inbox, writer,
                   reader, binds, used, removed, reverted, doubled>>

(***************************************************************************)
(* The first sync.                                                         *)
(***************************************************************************)
\* hasSyncedOnce, and the write that follows it.
Confirmed(n) ==
    [n EXCEPT !.hasSyncedOnce = TRUE, !.writeTimer = @ \/ ~n.editorActive]

\* The catch-up is applied and "synced" emitted: runFirstSync, which reads
\* the file first when the document is empty.
CatchUp ==
    /\ phase = "waiting"
    /\ LET caught == [SetText(note[epoch], (note[epoch].ytext \ inbox.del) \cup inbox.add)
                         EXCEPT !.seeds = @ \cup inbox.seeds]
       IN     IF caught.ytext = {} /\ exists /\ disk # {}
              THEN /\ phase' = "seeding"
                   /\ seedText' = disk
                   /\ note' = [note EXCEPT ![epoch] = caught]
              ELSE /\ phase' = "synced"
                   /\ UNCHANGED seedText
                   /\ note' = [note EXCEPT ![epoch] = Confirmed(caught)]
    /\ DoublesIf(\E text \in inbox.seeds : Doubles(note[epoch], text))
    /\ inbox' = [add |-> {}, del |-> {}, seeds |-> {}]
    /\ UNCHANGED <<fileVars, kept, idb, epoch, bufferVars, taskVars, used,
                   removed, raced, reverted>>

\* The seed's digest has been computed: the seed is applied, even to a document
\* that filled up meanwhile - unless it had before the file was read.
SeedIfEmpty ==
    /\ phase = "seeding"
    /\ phase' = "synced"
    /\ seedText' = {}
    /\ \/ /\ note' = [note EXCEPT ![epoch] = Confirmed(SeedDocument(@, seedText))]
          /\ DoublesIf(Doubles(note[epoch], seedText))
       \/ /\ note[epoch].ytext # {}
          /\ note' = [note EXCEPT ![epoch] = Confirmed(@)]
          /\ UNCHANGED doubled
    /\ UNCHANGED <<fileVars, kept, idb, epoch, inbox, bufferVars, taskVars,
                   used, removed, raced, reverted>>

(***************************************************************************)
(* writeToDisk.                                                            *)
(***************************************************************************)
\* Mutant: one look too many.
GivesUpLate(n) == n.writeRetries > MaxWriteRetries

GivesUp(n) == n.writeRetries >= MaxWriteRetries

\* The write timer fires.  A file not there yet is looked for again, a few
\* times; then the views are asked to save.
FireTimer(w) ==
    /\ writer[w].pc = "idle"
    /\ \E e \in Epochs :
        /\ note[e].writeTimer
        /\ PromptSave => saving = None
        /\ IF exists
           THEN /\ note' = [note EXCEPT ![e].writeTimer = FALSE,
                                        ![e].writeRetries = 0]
                /\ writer' = [writer EXCEPT ![w].pc = "saved", ![w].ep = e]
           ELSE /\ note' = [note EXCEPT
                      ![e].writeTimer = ~GivesUp(note[e]),
                      ![e].writeRetries = IF GivesUp(note[e]) THEN @ ELSE @ + 1]
                /\ UNCHANGED writer
    /\ UNCHANGED <<fileVars, kept, idb, connVars, bufferVars, reader, bridge,
                   binds, ghostVars>>

\* Asking took an await: the note may be gone, or an editor's, by now.
ReadFile(w) ==
    /\ writer[w].pc = "saved"
    /\ writer' =
        [writer EXCEPT ![w] =
            IF Live(@.ep) /\ ~note[@.ep].editorActive
            THEN [@ EXCEPT !.pc = "read", !.got = disk] ELSE IdleWriter]
    /\ UNCHANGED <<fileVars, kept, idb, connVars, note, bufferVars, reader,
                   bridge, binds, ghostVars>>

\* The first write of a connect meets a file that differs from the document.
FirstDiffers(n, got) ==
    ~n.firstSyncChecked /\ got # {} /\ got # n.ytext

\* Mutant: every such file a stale one.
TakenForStale(n, got) == FALSE

\* ... changed since they agreed: an edit nobody has seen.
UnseenEdit(n, got) ==
    /\ FirstDiffers(n, got)
    /\ n.agreedAtConnect # None
    /\ got # n.agreedAtConnect

\* ... with nothing recorded to tell a stale file from an edited one.
Unrecorded(n, got) ==
    FirstDiffers(n, got) /\ n.agreedAtConnect = None /\ n.idbHadData

\* Both sides moved, or nothing is recorded: the file is kept first.
KeepFirst(w) ==
    /\ writer[w].pc = "read"
    /\ LET n == note[writer[w].ep]
           got == writer[w].got
       IN  /\ \/ UnseenEdit(n, got) /\ n.ytext # n.agreedAtConnect
              \/ Unrecorded(n, got)
           /\ writer' = [writer EXCEPT ![w].pc = IF UnseenEdit(n, got)
                                                  THEN "keepMerge" ELSE "keepOnly"]
           /\ note' = [note EXCEPT ![writer[w].ep].firstSyncChecked = TRUE]
    /\ UNCHANGED <<fileVars, kept, idb, connVars, bufferVars, reader, bridge,
                   binds, ghostVars>>

\* Only the file moved: its change is taken in, and the file read again.
TakeUnseenIn(w) ==
    /\ writer[w].pc = "read"
    /\ LET n == note[writer[w].ep]
           got == writer[w].got
       IN  /\ UnseenEdit(n, got) /\ n.ytext = n.agreedAtConnect
           /\ ReadIn(writer[w].ep, [n EXCEPT !.firstSyncChecked = TRUE], got,
                     n.agreedAtConnect)
    /\ writer' = [writer EXCEPT ![w].pc = "read2", ![w].got = disk,
                                ![w].content = {}]
    /\ UNCHANGED <<fileVars, kept, connVars, ownWrite, reader, bridge, binds,
                   used, removed, raced, doubled>>

\* backupLocalFile: a failure is logged, and sync goes on.
BackedUp(text) ==
    \/ kept' = kept \cup text
    \/ "backup" \in Faults /\ UNCHANGED kept

\* The copy is made and the file read again, to see whether it still says so.
KeptFirst(w) ==
    /\ writer[w].pc \in {"keepMerge", "keepOnly"}
    /\ BackedUp(writer[w].got)
    /\ writer' = [writer EXCEPT ![w].pc = IF @ = "keepMerge" THEN "keptMerge"
                                          ELSE "keptOnly",
                                ![w].content = disk]
    /\ UNCHANGED <<fileVars, idb, connVars, note, bufferVars, reader, bridge,
                   binds, ghostVars>>

\* Saved during the backup: start again.
StartAgain(w) ==
    /\ writer[w].pc \in {"keptMerge", "keptOnly"}
    /\ writer[w].content # writer[w].got
    /\ writer' = [writer EXCEPT ![w] = IdleWriter]
    /\ note' = [note EXCEPT ![writer[w].ep].writeTimer = TRUE]
    /\ UNCHANGED <<fileVars, kept, idb, connVars, bufferVars, reader, bridge,
                   binds, ghostVars>>

MergeKeptIn(w) ==
    /\ writer[w].pc = "keptMerge"
    /\ writer[w].content = writer[w].got
    /\ ReadIn(writer[w].ep, note[writer[w].ep], writer[w].got,
              note[writer[w].ep].agreedAtConnect)
    /\ writer' = [writer EXCEPT ![w].pc = "read2", ![w].got = disk,
                                ![w].content = {}]
    /\ UNCHANGED <<fileVars, kept, connVars, ownWrite, reader, bridge, binds,
                   used, removed, raced, doubled>>

\* The first-difference checks are behind this activation.
PastFirst(w) ==
    LET n == note[writer[w].ep]
        got == writer[w].got
    IN  \/ writer[w].pc = "read" /\ ~UnseenEdit(n, got) /\ ~Unrecorded(n, got)
        \/ writer[w].pc = "keptOnly" /\ writer[w].content = got
        \/ writer[w].pc = "read2"

\* The file changed since it last agreed with the document, and the change has
\* not been read in.
ChangedOnDisk(w) ==
    LET n == note[writer[w].ep]
        got == writer[w].got
    IN  n.firstSyncChecked /\ diskBase # None /\ got # diskBase /\ got # n.ytext

ReadSaveIn(w) ==
    /\ PastFirst(w) /\ ChangedOnDisk(w)
    /\ ReadIn(writer[w].ep, note[writer[w].ep], writer[w].got, diskBase)
    /\ writer' = [writer EXCEPT ![w].pc = "read3", ![w].got = disk,
                                ![w].content = {}]
    /\ UNCHANGED <<fileVars, kept, connVars, ownWrite, reader, bridge, binds,
                   used, removed, raced, doubled>>

Settling(w) ==
    \/ PastFirst(w) /\ ~ChangedOnDisk(w)
    \/ writer[w].pc = "read3"

\* An empty document the server has not confirmed says nothing of the file.
Unconfirmed(n, got) == n.ytext = {} /\ got # {} /\ ~n.hasSyncedOnce

SkipUnconfirmed(w) ==
    /\ Settling(w)
    /\ Unconfirmed(note[writer[w].ep], writer[w].got)
    /\ writer' = [writer EXCEPT ![w] = IdleWriter]
    /\ UNCHANGED <<fileVars, kept, idb, connVars, note, bufferVars, reader,
                   bridge, binds, ghostVars>>

\* "agreed" once the write is done, or was not needed.
Agreed(e, text) ==
    /\ note' = [note EXCEPT ![e].lastSyncedContent = text]
    /\ diskBase' = text
    /\ idb' = RecordAgreed(e, text)

AlreadyOnDisk(w) ==
    /\ Settling(w)
    /\ note[writer[w].ep].ytext = writer[w].got
    /\ Agreed(writer[w].ep, writer[w].got)
    /\ writer' = [writer EXCEPT ![w] = IdleWriter]
    /\ UNCHANGED <<fileVars, kept, connVars, ownWrite, reader, bridge, binds,
                   ghostVars>>

\* Mutant: the first overwrite is silent.
FirstConflictNever(n, got) == FALSE

\* Two versions of one note meet for the first time.
FirstConflict(n, got) ==
    ~n.firstSyncChecked /\ ~n.idbHadData /\ got # {} /\ n.ytext # {}

\* Mutant: only a first sync keeps what it blanks.
BlanksFirst(n, got) == n.ytext = {} /\ got # {} /\ ~n.firstSyncChecked

\* The one write that syncing again cannot undo.
Blanks(n, got) == n.ytext = {} /\ got # {}

\* The write's own modify event is to be skipped.
Writing(w, n, content) ==
    /\ note' = [note EXCEPT ![writer[w].ep] =
                    [n EXCEPT !.firstSyncChecked = TRUE, !.ignoreNextModify = TRUE]]
    /\ ownWrite' = content
    /\ writer' = [writer EXCEPT ![w].pc = "writing", ![w].content = content]

\* The file differs from the document: it is written, after a copy of what a
\* first sync replaces or a deletion empties.
WriteOut(w) ==
    /\ Settling(w)
    /\ LET n == note[writer[w].ep]
           got == writer[w].got
       IN  /\ n.ytext # got /\ ~Unconfirmed(n, got)
           /\ CASE FirstConflict(n, got) ->
                     /\ note' = [note EXCEPT ![writer[w].ep].firstSyncChecked = TRUE]
                     /\ writer' = [writer EXCEPT ![w].pc = "firstCopy",
                                                 ![w].content = n.ytext]
                     /\ UNCHANGED ownWrite
                [] Blanks(n, got) ->
                     /\ note' = [note EXCEPT ![writer[w].ep].firstSyncChecked = TRUE]
                     /\ writer' = [writer EXCEPT ![w].pc = "blankCopy",
                                                 ![w].content = {}]
                     /\ UNCHANGED ownWrite
                [] OTHER -> Writing(w, n, n.ytext)
    /\ UNCHANGED <<fileVars, kept, idb, connVars, diskBase, reader, bridge,
                   binds, ghostVars>>

CopyMade(w) ==
    /\ writer[w].pc \in {"firstCopy", "blankCopy"}
    /\ BackedUp(writer[w].got)
    /\ Writing(w, note[writer[w].ep], writer[w].content)
    /\ UNCHANGED <<fileVars, idb, connVars, diskBase, reader, bridge, binds,
                   ghostVars>>

\* Nobody has yet to hear of what the file said before.
Heard == \/ OvertakenReads
         \/ /\ \A r \in Readers : reader[r].pc = "idle"
            /\ \A w \in Writers : writer[w].pc # "written"

\* The file can change: the event of the change has room.
FileFree == events < MaxEvents /\ Heard

\* The write lands; an editor's unsaved buffer takes the change in.
WriteFile(w) ==
    /\ writer[w].pc = "writing"
    /\ FileFree
    /\ disk' = writer[w].content
    /\ events' = events + 1
    /\ saving' = IF saving = None THEN None
                 ELSE MergeEdits(saving, disk, writer[w].content)
    /\ writer' = [writer EXCEPT ![w].pc = "written"]
    /\ UNCHANGED <<exists, kept, idb, connVars, note, bufferVars, reader,
                   bridge, binds, ghostVars>>

WriteFails(w) ==
    /\ writer[w].pc = "writing"
    /\ "write" \in Faults
    /\ writer' = [writer EXCEPT ![w] = IdleWriter]
    /\ UNCHANGED <<fileVars, kept, idb, connVars, note, bufferVars, reader,
                   bridge, binds, ghostVars>>

Written(w) ==
    /\ writer[w].pc = "written"
    /\ Agreed(writer[w].ep, writer[w].content)
    /\ writer' = [writer EXCEPT ![w] = IdleWriter]
    /\ UNCHANGED <<fileVars, kept, connVars, ownWrite, reader, bridge, binds,
                   ghostVars>>

(***************************************************************************)
(* onLocalModify.                                                          *)
(***************************************************************************)
\* An event is taken: one of our own write is checked against what we wrote,
\* one of a bound editor's save is only recorded.
ModifyEvent(r) ==
    /\ events > 0
    /\ reader[r].pc = "idle"
    /\ PromptSave => saving = None
    /\ events' = events - 1
    /\ IF ~Connected
       THEN UNCHANGED <<note, ownWrite, reader>>
       ELSE LET own == note[epoch].ignoreNextModify
            IN  /\ note' = [note EXCEPT ![epoch].ignoreNextModify = FALSE]
                /\ ownWrite' = IF own THEN None ELSE ownWrite
                /\ reader' = [reader EXCEPT ![r] =
                       IF own /\ ownWrite = None THEN @
                       ELSE [pc |-> IF Bound THEN "record" ELSE "read",
                             ep |-> epoch, got |-> disk,
                             own |-> IF own THEN ownWrite ELSE None]]
    /\ UNCHANGED <<exists, disk, saving, kept, idb, connVars, diskBase, writer,
                   bridge, binds, ghostVars>>

\* The file has been read.
FileRead(r) ==
    /\ LET e == reader[r].ep
           got == reader[r].got
       IN  \/ /\ reader[r].pc = "record"
              /\ idb' = IF got = note[e].ytext THEN RecordAgreed(e, got) ELSE idb
              /\ UNCHANGED <<note, diskBase, reverted>>
           \/ /\ reader[r].pc = "read" /\ reader[r].own = got
              /\ UNCHANGED <<note, diskBase, idb, reverted>>
           \/ /\ reader[r].pc = "read" /\ reader[r].own # got
              /\ ReadIn(e, note[e], got, diskBase)
    /\ reader' = [reader EXCEPT ![r] = IdleReader]
    /\ UNCHANGED <<fileVars, kept, connVars, ownWrite, writer, bridge, binds,
                   used, removed, raced, doubled>>

(***************************************************************************)
(* The editor: EditorBridge reconciles the file, then binds the document.  *)
(***************************************************************************)
StartBind ==
    /\ Subscribed /\ ~Bound /\ exists
    /\ saving = None
    /\ bridge.pc = "idle" /\ binds < MaxBinds
    /\ binds' = binds + 1
    /\ bridge' = [pc |-> "reconcile", got |-> disk]
    /\ UNCHANGED <<fileVars, kept, idb, connVars, note, bufferVars, writer,
                   reader, ghostVars>>

\* reconcileFromDisk, with the file read: what decides is the last text the
\* two were seen to share, or what can be lost when there is none.
Adopts(n, got) ==
    IF n.lastSyncedContent # None
    THEN got # n.lastSyncedContent
    ELSE n.ytext # {} /\ n.ytext \subseteq got

Seeds(n, got) == n.lastSyncedContent = None /\ got # {} /\ n.ytext = {}

Diverged(n, got) ==
    n.lastSyncedContent = None /\ got # {} /\ n.ytext # {} /\ ~(n.ytext \subseteq got)

ReconcileFromDisk ==
    /\ bridge.pc = "reconcile"
    /\ LET n == note[epoch]
           got == bridge.got
           differs == got # n.ytext
       IN  \/ /\ differs /\ Adopts(n, got)
              /\ note' = [note EXCEPT ![epoch] =
                             [SetText(n, got) EXCEPT !.lastSyncedContent = got]]
              /\ bridge' = [pc |-> "binding", got |-> disk]
              /\ reverted' = reverted \cup (n.ytext \ got)
              /\ UNCHANGED kept
           \/ /\ differs /\ Seeds(n, got)
              /\ bridge' = [bridge EXCEPT !.pc = "seed"]
              /\ UNCHANGED <<kept, note, reverted>>
           \/ /\ differs /\ Diverged(n, got)
              /\ BackedUp(got)
              /\ bridge' = [pc |-> "binding", got |-> disk]
              /\ UNCHANGED <<note, reverted>>
           \/ /\ ~differs \/ ~(Adopts(n, got) \/ Seeds(n, got) \/ Diverged(n, got))
              /\ bridge' = [pc |-> "binding", got |-> disk]
              /\ UNCHANGED <<kept, note, reverted>>
    /\ UNCHANGED <<fileVars, idb, connVars, bufferVars, writer, reader, binds,
                   used, removed, raced, doubled>>

ReconcileSeed ==
    /\ bridge.pc = "seed"
    /\ LET seeded == SeedDocument(note[epoch], bridge.got)
       IN  note' = [note EXCEPT ![epoch] =
               IF bridge.got \in @.seeds THEN @
               ELSE [seeded EXCEPT !.lastSyncedContent = bridge.got]]
    /\ DoublesIf(Doubles(note[epoch], bridge.got))
    /\ bridge' = [pc |-> "binding", got |-> disk]
    /\ UNCHANGED <<fileVars, kept, idb, connVars, bufferVars, writer, reader,
                   binds, used, removed, raced, reverted>>

\* installCollab and setEditorBound(true).
Bind ==
    /\ bridge.pc = "binding"
    /\ Heard
    /\ LET n == note[epoch]
           seeds == n.ytext = {} /\ bridge.got # {}
           full == IF seeds THEN SeedDocument(n, bridge.got) ELSE n
       IN  note' = [note EXCEPT ![epoch] =
                       [full EXCEPT !.editorActive = TRUE, !.writeTimer = FALSE]]
    /\ diskBase' = None
    /\ bridge' = IdleBridge
    /\ UNCHANGED <<fileVars, kept, idb, connVars, ownWrite, writer, reader,
                   binds, ghostVars>>

\* releaseDoc: setEditorBound(false).  What the editor has not saved yet is in
\* its buffer.
Release ==
    /\ Bound
    /\ PromptSave => Quiet
    /\ note' = [note EXCEPT ![epoch].editorActive = FALSE,
                            ![epoch].writeTimer = TRUE]
    /\ diskBase' = note[epoch].ytext
    /\ saving' = IF note[epoch].ytext # disk THEN note[epoch].ytext ELSE None
    /\ UNCHANGED <<exists, disk, events, kept, idb, connVars, ownWrite,
                   taskVars, ghostVars>>

\* Obsidian saves the editor's buffer, bound or released.
EditorSave ==
    /\ FileFree
    /\ \/ /\ Bound /\ (PromptSave => Quiet)
          /\ disk' = note[epoch].ytext
          /\ UNCHANGED saving
       \/ saving # None /\ disk' = saving /\ saving' = None
    /\ disk' # disk
    /\ events' = events + 1
    /\ raced' = IF WriteUnderWay THEN raced \cup (disk' \ disk) ELSE raced
    /\ UNCHANGED <<exists, kept, idb, connVars, note, bufferVars, taskVars,
                   used, removed,
                   reverted, doubled>>

\* Lines somebody may still write, or remove.
Writable(lines) == IF MayChange THEN lines \ used ELSE {}
Removable == IF MayChange THEN Lines \ removed ELSE {}

EditorEdit ==
    /\ Bound
    /\ \/ \E l \in Writable(LocalLines) :
             /\ note' = [note EXCEPT ![epoch] = SetText(@, @.ytext \cup {l})]
             /\ used' = used \cup {l}
             /\ UNCHANGED removed
       \/ \E l \in note[epoch].ytext \cap Removable :
             /\ note' = [note EXCEPT ![epoch] = SetText(@, @.ytext \ {l})]
             /\ removed' = removed \cup {l}
             /\ UNCHANGED used
    /\ UNCHANGED <<fileVars, kept, idb, connVars, bufferVars, taskVars, raced,
                   reverted, doubled>>

(***************************************************************************)
(* The file and the other vaults (external).                               *)
(***************************************************************************)
\* FileSync creates a file the listing names; Obsidian may say it modified.
CreatePlaceholder ==
    /\ ~exists
    /\ exists' = TRUE
    /\ events < MaxEvents
    /\ events' \in {events, events + 1}
    /\ UNCHANGED <<disk, saving, kept, idb, connVars, note, bufferVars,
                   taskVars, ghostVars>>

\* Another program, or an editor not bound yet, changes the file.  What an open
\* editor does with such a change while it binds is not modelled.
SaveFile ==
    /\ exists /\ ~Bound /\ bridge.pc = "idle" /\ saving = None
    /\ Connected /\ ~EarlySaves => note[epoch].lastSyncedContent # None
    /\ FileFree
    /\ events' = events + 1
    /\ \/ \E l \in Writable(LocalLines) :
             /\ disk' = disk \cup {l}
             /\ used' = used \cup {l}
             /\ raced' = IF WriteUnderWay THEN raced \cup {l} ELSE raced
             /\ UNCHANGED removed
       \/ \E l \in disk \cap Removable :
             /\ disk' = disk \ {l}
             /\ removed' = removed \cup {l}
             /\ UNCHANGED <<used, raced>>
    /\ UNCHANGED <<exists, saving, kept, idb, connVars, note, bufferVars,
                   taskVars, reverted, doubled>>

\* A collaborator's edit: live once the catch-up is in, else on the server.
RemoteEdit ==
    /\ \/ \E l \in Writable(RemoteLines) :
             /\ used' = used \cup {l}
             /\ UNCHANGED removed
             /\ IF phase \in {"seeding", "synced"}
                THEN /\ note' = [note EXCEPT ![epoch] = SetText(@, @.ytext \cup {l})]
                     /\ UNCHANGED inbox
                ELSE inbox' = [inbox EXCEPT !.add = @ \cup {l}] /\ UNCHANGED note
       \/ /\ phase \in {"seeding", "synced"}
          /\ \E l \in note[epoch].ytext \cap Removable :
                /\ note' = [note EXCEPT ![epoch] = SetText(@, @.ytext \ {l})]
                /\ removed' = removed \cup {l}
          /\ UNCHANGED <<inbox, used>>
       \/ /\ phase \in {"closed", "unplaced", "addressing"}
          /\ \E l \in idb.text \cap Removable :
                /\ inbox' = [inbox EXCEPT !.del = @ \cup {l}]
                /\ removed' = removed \cup {l}
          /\ UNCHANGED <<note, used>>
    /\ UNCHANGED <<fileVars, kept, idb, phase, seedText, epoch, bufferVars,
                   taskVars, raced, reverted, doubled>>

(***************************************************************************)
(* The specification.                                                      *)
(***************************************************************************)
WriteToDisk(w) ==
    \/ FireTimer(w) \/ ReadFile(w) \/ KeepFirst(w) \/ TakeUnseenIn(w)
    \/ KeptFirst(w) \/ StartAgain(w) \/ MergeKeptIn(w) \/ ReadSaveIn(w)
    \/ SkipUnconfirmed(w) \/ AlreadyOnDisk(w) \/ WriteOut(w) \/ CopyMade(w)
    \/ WriteFile(w) \/ Written(w)

OnLocalModify(r) == ModifyEvent(r) \/ FileRead(r)

Connecting == Address \/ LoadIndexedDb \/ StartSync \/ CatchUp \/ SeedIfEmpty

Binding == ReconcileFromDisk \/ ReconcileSeed \/ Bind

Next ==
    \/ ConnectFile \/ Connecting \/ AbandonUnsubscribed \/ RetryUnplaced
    \/ DisconnectDoc
    \/ \E w \in Writers : WriteToDisk(w) \/ WriteFails(w)
    \/ \E r \in Readers : OnLocalModify(r)
    \/ StartBind \/ Binding \/ Release \/ EditorSave \/ EditorEdit
    \/ CreatePlaceholder \/ SaveFile \/ RemoteEdit

Spec == Init /\ [][Next]_vars

\* Promises, timers and events come; what people do need not.
FairSpec ==
    /\ Spec
    /\ WF_vars(Connecting) /\ WF_vars(Binding) /\ WF_vars(CreatePlaceholder)
    /\ WF_vars(EditorSave)
    /\ \A w \in Writers : WF_vars(WriteToDisk(w))
    /\ \A r \in Readers : WF_vars(OnLocalModify(r))

(***************************************************************************)
(* Properties.                                                             *)
(***************************************************************************)
\* The note's text, open or stored.
Document ==
    CASE phase = "loading" -> note[epoch].ytext \cup idb.text
      [] phase # "loading" /\ Connected -> note[epoch].ytext
      [] OTHER -> idb.text

\* Copies of the file being written to the backups.
CopiesUnderWay == {writer[w].got : w \in {v \in Writers :
    writer[v].pc \in {"keepMerge", "keepOnly", "firstCopy", "blankCopy"}}}

\* SAFE-A30, SAFE-A19: a line somebody wrote is in the document, on its way to
\* it, in the file, in an editor's buffer or in a backup - unless somebody
\* removed it, it was saved after a write's last read of the file, or a file
\* was taken with nothing to merge it against.
NoWritingLost ==
    used \subseteq UNION {Document, disk, kept, UNION CopiesUnderWay, inbox.add,
                         removed, raced, reverted,
                         IF saving = None THEN {} ELSE saving}

\* A line leaves the document because somebody removed it, and never because a
\* file that had yet to receive it was read in against a known base.
DocumentKeepsWriting ==
    [][Document \ Document' \subseteq removed' \cup reverted' \cup raced' \cup kept']_vars

\* reconcileFromDisk: the document may hold remote edits not yet flushed, and
\* adopting the file would revert them - so nobody's writing is reverted.
NothingReverted == reverted \subseteq removed

\* Blanking a file never happens silently: a file about to be emptied says
\* nothing that is not kept - but for what was saved since it was read.
BlankedFileIsKept ==
    \A w \in Writers :
        writer[w].pc = "writing" /\ writer[w].content = {}
            => disk \subseteq kept \cup raced

\* Two vaults filling one document from identical files do not double it, so
\* long as nobody has changed the note meanwhile.
NeverDoubled == ~doubled

\* Once people stop, a note no editor holds says on disk what its document says,
\* unless its file appeared only after the write had been given up.
DiskFollowsDocument ==
    [](\A e \in Epochs : note[e].writeRetries < MaxWriteRetries)
        => <>[](phase = "synced" /\ ~Bound => disk = Document)
=============================================================================
