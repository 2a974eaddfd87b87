-------------------------- MODULE ContentSyncProofs --------------------------
(***************************************************************************)
(* That ContentSync is type correct, and that no route by which a file's   *)
(* text comes into its document brings it in twice: for any lines, edits,  *)
(* activations, bindings and connects of a note, and any faults, so long   *)
(* as no file changes between a connect and the first agreement            *)
(* (EarlySaves).                                                           *)
(*                                                                         *)
(* Doubling counts while nobody has changed the note.  Until then every    *)
(* text there is, is empty or the one text the vault began with.  What     *)
(* has to be shown is that a document with that text has it as the seed:   *)
(* the one operation that is the same whoever makes it.                    *)
(***************************************************************************)
EXTENDS ContentSync, TLAPS

\* Nobody has written or removed a line, and no file changes before its note
\* has been read.
Unchanged == ~EarlySaves /\ used \subseteq StartLines /\ removed = {}

\* The texts there are then.
Plain == {{}, StartLines}
OptPlain == {None, {}, StartLines}
Bare == {None, {}}

(***************************************************************************)
(* What is true of any state: connects not made yet have left no trace,    *)
(* and no editor binds a note that is not subscribed.                      *)
(***************************************************************************)
Order ==
    /\ Connected => epoch # 0
    /\ phase \in {"addressing", "unplaced"} => epoch < MaxConnects
    /\ \A e \in Epochs : e > epoch => note[e] = NewNote
    /\ \A w \in Writers : writer[w].pc # "idle" => writer[w].ep <= epoch
    /\ \A r \in Readers : reader[r].pc # "idle" => reader[r].ep <= epoch
    /\ bridge.pc # "idle" => Subscribed

Shape == TypeOK /\ Order

(***************************************************************************)
(* What is true while nobody has changed the note.                         *)
(***************************************************************************)
PlainNote(n) ==
    /\ n.ytext \in Plain
    /\ n.lastSyncedContent \in OptPlain /\ n.agreedAtConnect \in OptPlain

PlainTexts ==
    /\ disk \in Plain /\ saving \in OptPlain /\ seedText \in Plain
    /\ idb.text \in Plain /\ idb.agreed \in OptPlain
    /\ inbox.add \in Plain /\ inbox.del = {}
    /\ inbox.add # {} => StartLines \in inbox.seeds
    /\ diskBase \in OptPlain
    /\ \A e \in Epochs : PlainNote(note[e])
    /\ \A w \in Writers : writer[w].got \in Plain /\ writer[w].content \in Plain
    /\ \A r \in Readers : reader[r].got \in Plain
    /\ bridge.got \in Plain

\* IndexedDB loads into an empty document, with nothing under way to fill it.
LoadsAlone ==
    phase = "loading" =>
        /\ note[epoch].ytext = {} /\ ~note[epoch].editorActive /\ ~note[epoch].writeTimer
        /\ ~note[epoch].observer
        /\ saving = None
        /\ events > 0 => disk = {}
        /\ \A r \in Readers : reader[r].pc # "idle" => reader[r].got = {}
        /\ \A w \in Writers : writer[w].pc # "idle" =>
              writer[w].pc = "saved" /\ writer[w].ep # epoch

\* The seeds of the note, open or stored.
SeedsOf == IF Connected /\ phase # "loading" THEN note[epoch].seeds ELSE idb.seeds

\* No text is anywhere but on the server.
BareNote(n) ==
    /\ n.ytext = {}
    /\ n.lastSyncedContent \in Bare /\ n.agreedAtConnect \in Bare

NothingHere ==
    /\ disk = {} /\ saving \in Bare /\ seedText = {} /\ bridge.got = {}
    /\ diskBase \in Bare /\ idb.agreed \in Bare
    /\ \A w \in Writers : writer[w].got = {} /\ writer[w].content = {}
    /\ \A r \in Readers : reader[r].got = {}
    /\ \A e \in Epochs : BareNote(note[e])

\* The file has the text, and whoever has looked at it has only looked.
UnreadNote(n) ==
    /\ n.ytext = {}
    /\ n.lastSyncedContent = None /\ n.agreedAtConnect = None
    /\ ~n.idbHadData /\ ~n.hasSyncedOnce /\ ~n.firstSyncChecked /\ ~n.editorActive

Looks(x) == x.pc \in {"idle", "saved"} \/ (x.pc = "read" /\ x.got = StartLines)

FileUnread ==
    /\ exists /\ disk = StartLines /\ events = 0 /\ saving = None
    /\ diskBase = None /\ idb.agreed = None
    /\ phase = "seeding" => seedText = StartLines
    /\ bridge.pc # "idle" => bridge.got = StartLines
    /\ \A w \in Writers : Looks(writer[w])
    /\ \A r \in Readers : reader[r].pc = "idle"
    /\ \A e \in Epochs : UnreadNote(note[e])

Untouched == idb.text = {} /\ (NothingHere \/ FileUnread)

Seeded == StartLines = {} \/ StartLines \in SeedsOf \/ Untouched

Quietly == Unchanged => PlainTexts /\ LoadsAlone /\ Seeded /\ ~doubled

\* A step after which IndexedDB has this text on record.
Records(text) == idb' = [idb EXCEPT !.agreed = text]

(***************************************************************************)
(* Texts and notes.                                                        *)
(***************************************************************************)
LEMMA Texts ==
    /\ {} \in Text /\ StartLines \in Text /\ None \notin Text /\ Plain \subseteq Text
    /\ 1 \in Epochs
BY NoneAssumption, BoundsAssumption DEF Text, Lines, Plain, Epochs

LEMMA PlainMerge ==
    ASSUME NEW a \in Plain, NEW b \in Plain, NEW c \in Plain
    PROVE  /\ MergeEdits(a, b, c) \in Plain
           /\ a = {} /\ c = {} => MergeEdits(a, b, c) = {}
BY DEF MergeEdits, Plain

LEMMA MergeTyped ==
    ASSUME NEW a \in Text, NEW b \in Text, NEW c \in Text
    PROVE  MergeEdits(a, b, c) \in Text
BY DEF MergeEdits, Text

LEMMA Noted ==
    ASSUME TypeOK, NEW e \in Epochs
    PROVE  /\ note[e] \in FileDocState
           /\ note[e].ytext \in Text /\ note[e].seeds \in SUBSET Text
           /\ note[e].lastSyncedContent \in OptText /\ note[e].agreedAtConnect \in OptText
           /\ note[e].writeRetries \in 0..MaxWriteRetries
BY DEF TypeOK, FileDocState

LEMMA NewNoteTyped ==
    /\ NewNote \in FileDocState /\ IdleWriter \in WriterState
    /\ IdleReader \in ReaderState
BY Texts, BoundsAssumption DEF NewNote, FileDocState, OptText, IdleWriter, IdleReader,
   WriterState, ReaderState

\* A note that differs in nothing but its text, its seeds and its timer.
Kin(n, m) ==
    /\ m \in FileDocState
    /\ m.editorActive = n.editorActive /\ m.observer = n.observer
    /\ m.lastSyncedContent = n.lastSyncedContent /\ m.idbHadData = n.idbHadData
    /\ m.firstSyncChecked = n.firstSyncChecked /\ m.agreedAtConnect = n.agreedAtConnect
    /\ m.hasSyncedOnce = n.hasSyncedOnce /\ m.writeRetries = n.writeRetries

LEMMA SetTextKin ==
    ASSUME NEW n \in FileDocState, NEW text \in Text
    PROVE  /\ Kin(n, SetText(n, text))
           /\ SetText(n, text).ytext = text /\ SetText(n, text).seeds = n.seeds
BY DEF SetText, FileDocState, Kin

LEMMA SeedKin ==
    ASSUME NEW n \in FileDocState, NEW text \in Text
    PROVE  /\ Kin(n, SeedDocument(n, text))
           /\ SeedDocument(n, text).ytext \in {n.ytext, n.ytext \cup text}
           /\ SeedDocument(n, text).seeds = n.seeds \cup {text}
<1>1. CASE text \in n.seeds
  BY <1>1 DEF SeedDocument, Kin
<1>2. CASE text \notin n.seeds
  <2> DEFINE m == SetText(n, n.ytext \cup text)
             d == [m EXCEPT !.seeds = @ \cup {text}]
  <2>1. n.ytext \cup text \in Text /\ n.seeds \in SUBSET Text
    BY DEF FileDocState, Text
  <2>2. Kin(n, m) /\ m.ytext = n.ytext \cup text /\ m.seeds = n.seeds /\ m \in FileDocState
    BY <2>1, SetTextKin DEF Kin
  <2>3. SeedDocument(n, text) = d
    BY <1>2 DEF SeedDocument
  <2> HIDE DEF m
  <2>4. /\ d \in FileDocState /\ d.seeds = n.seeds \cup {text} /\ d.ytext = n.ytext \cup text
        /\ Kin(m, d)
    BY <2>1, <2>2 DEF FileDocState, Kin
  <2> HIDE DEF d
  <2> QED BY <2>2, <2>3, <2>4 DEF Kin
<1> QED BY <1>1, <1>2

LEMMA ConfirmedKin ==
    ASSUME NEW n \in FileDocState
    PROVE  LET m == Confirmed(n)
           IN  /\ m \in FileDocState /\ m.ytext = n.ytext /\ m.seeds = n.seeds
               /\ m.lastSyncedContent = n.lastSyncedContent
               /\ m.agreedAtConnect = n.agreedAtConnect /\ m.editorActive = n.editorActive
BY DEF Confirmed, FileDocState

\* What reading a file in makes of a document.
LEMMA ReadInTyped ==
    ASSUME NEW n \in FileDocState, NEW content \in Text, NEW base \in OptText
    PROVE  ReadInText(n, content, base) \in Text
BY MergeTyped DEF ReadInText, FileDocState, OptText

LEMMA ReadInPlain ==
    ASSUME NEW n, n.ytext \in Plain, NEW content \in Plain, NEW base \in OptPlain
    PROVE  /\ ReadInText(n, content, base) \in Plain
           /\ n.ytext = {} /\ content = {} => ReadInText(n, content, base) = {}
BY PlainMerge DEF ReadInText, OptPlain, Plain

(***************************************************************************)
(* Steps that leave the connection alone.                                  *)
(***************************************************************************)
\* The note of one connect changes, and keeps its seeds.
LEMMA OneNote ==
    ASSUME Shape, NEW e \in Epochs, e <= epoch, NEW n \in FileDocState,
           note' = [note EXCEPT ![e] = n]
    PROVE  /\ note' \in [Epochs -> FileDocState]
           /\ note'[e] = n /\ \A d \in Epochs : d # e => note'[d] = note[d]
           /\ \A d \in Epochs : d > epoch => note'[d] = NewNote
<1>1. note \in [Epochs -> FileDocState] /\ epoch \in Nat /\ \A d \in Epochs : d \in Nat
  BY BoundsAssumption DEF Shape, TypeOK, Epochs
<1>2. /\ note' \in [Epochs -> FileDocState]
      /\ note'[e] = n /\ \A d \in Epochs : d # e => note'[d] = note[d]
  BY <1>1
<1>3. \A d \in Epochs : d > epoch => note'[d] = NewNote
  BY <1>1, <1>2 DEF Shape, Order
<1> QED BY <1>2, <1>3

\* Neither the phase nor what IndexedDB holds of the document changes.
SameDocument ==
    /\ UNCHANGED <<phase, epoch, used, removed, doubled>>
    /\ idb'.text = idb.text /\ idb'.seeds = idb.seeds

LEMMA StaysQuiet ==
    ASSUME Shape, Quietly, SameDocument,
           Connected => note[epoch].seeds \subseteq note'[epoch].seeds,
           Unchanged => PlainTexts',
           Unchanged /\ phase = "loading" => LoadsAlone',
           Unchanged /\ NothingHere => NothingHere' \/ StartLines \in SeedsOf',
           Unchanged /\ FileUnread /\ StartLines # {} => FileUnread' \/ StartLines \in SeedsOf'
    PROVE  Quietly'
<1> SUFFICES ASSUME Unchanged PROVE PlainTexts' /\ LoadsAlone' /\ Seeded' /\ ~doubled'
  BY DEF Quietly, Unchanged, SameDocument
<1>1. PlainTexts /\ LoadsAlone /\ Seeded /\ ~doubled
  BY DEF Quietly
<1>2. LoadsAlone'
  BY DEF LoadsAlone, SameDocument
<1>3. SeedsOf \subseteq SeedsOf'
  BY DEF SeedsOf, SameDocument, Connected
<1>4. Seeded'
  BY <1>1, <1>3 DEF Seeded, Untouched, SameDocument
<1> QED BY <1>1, <1>2, <1>4 DEF SameDocument

\* A step of an activation of writeToDisk, on the note of connect e.
LEMMA WriterStep ==
    ASSUME Shape, Quietly,
           NEW w \in Writers, NEW e \in Epochs, e <= epoch,
           NEW x \in WriterState, NEW n \in FileDocState, NEW agreed \in OptText,
           UNCHANGED <<fileVars, connVars, reader, bridge, binds, used, removed, raced, doubled>>,
           writer' = [writer EXCEPT ![w] = x], note' = [note EXCEPT ![e] = n],
           Records(agreed),
           kept' \in Text, reverted' \in Text, diskBase' \in OptText, ownWrite' \in OptText,
           x.pc # "idle" => x.ep = e,
           n.seeds = note[e].seeds,
           Unchanged /\ PlainTexts =>
               /\ x.got \in Plain /\ x.content \in Plain /\ PlainNote(n)
               /\ diskBase' \in OptPlain /\ agreed \in OptPlain,
           Unchanged /\ phase = "loading" => e # epoch /\ x.pc \in {"idle", "saved"},
           Unchanged /\ NothingHere =>
               /\ x.got = {} /\ x.content = {} /\ BareNote(n)
               /\ diskBase' \in Bare /\ agreed \in Bare,
           Unchanged /\ FileUnread /\ StartLines # {} =>
               Looks(x) /\ UnreadNote(n) /\ diskBase' = None /\ agreed = None
    PROVE  Shape' /\ Quietly'
<1>1. /\ note' \in [Epochs -> FileDocState]
      /\ note'[e] = n /\ \A d \in Epochs : d # e => note'[d] = note[d]
      /\ \A d \in Epochs : d > epoch => note'[d] = NewNote
  BY OneNote
<1>2. /\ writer' \in [Writers -> WriterState]
      /\ writer'[w] = x /\ \A v \in Writers : v # w => writer'[v] = writer[v]
  BY DEF Shape, TypeOK
<1>3. /\ idb' \in [text : Text, seeds : SUBSET Text, agreed : OptText]
      /\ idb'.text = idb.text /\ idb'.seeds = idb.seeds /\ idb'.agreed = agreed
  BY DEF Records, Shape, TypeOK
<1>4. UNCHANGED <<exists, disk, events, saving, phase, seedText, epoch, inbox, reader, bridge,
                  binds, used, removed, raced, doubled>>
  BY DEF fileVars, connVars
<1>5. TypeOK'
  BY <1>1, <1>2, <1>3, <1>4 DEF Shape, TypeOK
<1>6. Order'
  BY <1>1, <1>2, <1>4 DEF Shape, Order, Connected, Subscribed
<1>7. SameDocument
  BY <1>3, <1>4 DEF SameDocument
<1>8. Connected => note[epoch].seeds \subseteq note'[epoch].seeds
  BY <1>1 DEF Shape, TypeOK, Order, Epochs
<1>9. ASSUME Unchanged PROVE PlainTexts'
  <2>1. PlainTexts
    BY <1>9 DEF Quietly
  <2> QED BY <1>1, <1>2, <1>3, <1>4, <1>9, <2>1 DEF PlainTexts
<1>10. ASSUME Unchanged, phase = "loading" PROVE LoadsAlone'
  <2>1. LoadsAlone /\ e # epoch /\ x.pc \in {"idle", "saved"}
    BY <1>10 DEF Quietly
  <2>2. epoch \in Epochs /\ note'[epoch] = note[epoch]
    BY <1>1, <1>10, <2>1 DEF Shape, TypeOK, Order, Connected, Epochs
  <2> QED BY <1>2, <1>4, <1>10, <2>1, <2>2 DEF LoadsAlone
<1>11. ASSUME Unchanged, NothingHere PROVE NothingHere'
  BY <1>1, <1>2, <1>3, <1>4, <1>11 DEF NothingHere
<1>12. ASSUME Unchanged, FileUnread, StartLines # {} PROVE FileUnread'
  BY <1>1, <1>2, <1>3, <1>4, <1>12 DEF FileUnread
<1> QED BY <1>5, <1>6, <1>7, <1>8, <1>9, <1>10, <1>11, <1>12, StaysQuiet DEF Shape

LEMMA Acting ==
    ASSUME Shape, NEW w \in Writers
    PROVE  /\ writer[w] \in WriterState /\ writer[w].ep \in Epochs
           /\ writer[w].got \in Text /\ writer[w].content \in Text
           /\ writer[w].pc # "idle" => writer[w].ep <= epoch
           /\ note[writer[w].ep] \in FileDocState
           /\ writer = [writer EXCEPT ![w] = writer[w]]
           /\ \A e \in Epochs : note = [note EXCEPT ![e] = note[e]] /\ note[e] \in FileDocState
           /\ (UNCHANGED idb => Records(idb.agreed)) /\ idb.agreed \in OptText
           /\ diskBase \in OptText /\ ownWrite \in OptText
           /\ kept \in Text /\ reverted \in Text /\ disk \in Text
<1>1. /\ writer[w] \in WriterState /\ writer[w].ep \in Epochs
      /\ writer[w].got \in Text /\ writer[w].content \in Text
      /\ note[writer[w].ep] \in FileDocState
      /\ \A e \in Epochs : note[e] \in FileDocState
  BY DEF Shape, TypeOK, WriterState
<1>2. writer = [writer EXCEPT ![w] = writer[w]]
  BY DEF Shape, TypeOK
<1>3. \A e \in Epochs : note = [note EXCEPT ![e] = note[e]]
  BY DEF Shape, TypeOK
<1>4. (UNCHANGED idb => Records(idb.agreed)) /\ idb.agreed \in OptText
  BY DEF Records, Shape, TypeOK
<1> QED BY <1>1, <1>2, <1>3, <1>4 DEF Shape, TypeOK, Order

\* What an activation may be at, while nobody has changed the note.
LEMMA Modes ==
    ASSUME Quietly, Unchanged, NEW w \in Writers, writer[w].pc \notin {"idle", "saved"}
    PROVE  /\ PlainTexts /\ phase # "loading"
           /\ FileUnread => writer[w].pc = "read" /\ writer[w].got = StartLines
BY DEF Quietly, LoadsAlone, FileUnread, Looks

LEMMA Agrees ==
    ASSUME Shape, NEW e, NEW text \in OptText, idb' = RecordAgreed(e, text)
    PROVE  \E a \in {text, idb.agreed} : Records(a)
<1>1. (UNCHANGED idb => Records(idb.agreed))
  BY DEF Records, Shape, TypeOK
<1> QED BY <1>1 DEF Records, RecordAgreed

LEMMA ReadsIn ==
    ASSUME Shape, NEW e \in Epochs, NEW n \in FileDocState, NEW content \in Text,
           NEW base \in OptText, ReadIn(e, n, content, base)
    PROVE  /\ \E m \in FileDocState :
                /\ note' = [note EXCEPT ![e] = m]
                /\ Kin(n, m) /\ m.seeds = n.seeds /\ m.ytext = ReadInText(n, content, base)
           /\ reverted' \in Text /\ diskBase' \in {base, content}
           /\ \E a \in {content, idb.agreed} : Records(a)
<1> DEFINE text == ReadInText(n, content, base)
           m == SetText(n, text)
<1>1. text \in Text
  BY ReadInTyped
<1>2. note' = [note EXCEPT ![e] = m]
  BY DEF ReadIn
<1>3. reverted' \in {reverted, reverted \cup (n.ytext \ text)}
  BY DEF ReadIn
<1>4. reverted' \in Text
  <2>1. n.ytext \in Text /\ reverted \in Text
    BY DEF FileDocState, Shape, TypeOK
  <2> HIDE DEF text
  <2> QED BY <1>3, <2>1 DEF Text
<1>5. diskBase' \in {base, content} /\ (idb' = idb \/ idb' = RecordAgreed(e, content))
  BY DEF ReadIn
<1>6. \E a \in {content, idb.agreed} : Records(a)
  <2>1. (UNCHANGED idb => Records(idb.agreed)) /\ content \in OptText
    BY DEF Records, Shape, TypeOK, OptText
  <2> QED BY <1>5, <2>1, Agrees
<1> HIDE DEF text
<1>7. Kin(n, m) /\ m.seeds = n.seeds /\ m.ytext = text
  BY <1>1, SetTextKin
<1> HIDE DEF m
<1>8. m \in FileDocState
  BY <1>7 DEF Kin
<1> QED BY <1>2, <1>4, <1>5, <1>6, <1>7, <1>8 DEF text

\* writeToDisk takes the file in and reads it again.
LEMMA TakesIn ==
    ASSUME Shape, Quietly, NEW w \in Writers, writer[w].pc \notin {"idle", "saved"},
           NEW n \in FileDocState, Kin([note[writer[w].ep] EXCEPT !.firstSyncChecked = n.firstSyncChecked], n),
           n.ytext = note[writer[w].ep].ytext, n.seeds = note[writer[w].ep].seeds,
           NEW base \in {note[writer[w].ep].agreedAtConnect, diskBase},
           ReadIn(writer[w].ep, n, writer[w].got, base),
           NEW pc \in {"read2", "read3"},
           writer' = [writer EXCEPT ![w].pc = pc, ![w].got = disk, ![w].content = {}],
           UNCHANGED <<fileVars, kept, connVars, ownWrite, reader, bridge, binds,
                       used, removed, raced, doubled>>,
           Unchanged => ~(FileUnread /\ StartLines # {})
    PROVE  Shape' /\ Quietly'
<1> DEFINE e == writer[w].ep
           x == [writer[w] EXCEPT !.pc = pc, !.got = disk, !.content = {}]
<1>1. /\ e \in Epochs /\ e <= epoch /\ note[e] \in FileDocState /\ writer[w] \in WriterState
      /\ writer[w].got \in Text /\ disk \in Text /\ diskBase \in OptText /\ ownWrite \in OptText
      /\ idb.agreed \in OptText /\ kept \in Text
  BY Acting
<1>2. base \in OptText /\ note[e].agreedAtConnect \in OptText
  BY <1>1, Noted DEF Shape
<1>3. PICK m \in FileDocState :
         /\ note' = [note EXCEPT ![e] = m]
         /\ Kin(n, m) /\ m.seeds = n.seeds /\ m.ytext = ReadInText(n, writer[w].got, base)
  BY <1>1, <1>2, ReadsIn
<1>4. PICK a \in {writer[w].got, idb.agreed} : Records(a)
  BY <1>1, <1>2, ReadsIn
<1>5. reverted' \in Text /\ diskBase' \in {base, writer[w].got}
  BY <1>1, <1>2, ReadsIn
<1>6. /\ x \in WriterState /\ x.ep = e /\ x.got = disk /\ x.content = {}
  BY <1>1, Texts DEF WriterState
<1>7. writer' = [writer EXCEPT ![w] = x]
  BY DEF Shape, TypeOK
<1> HIDE DEF x
<1>8. ASSUME Unchanged, PlainTexts
      PROVE  /\ x.got \in Plain /\ x.content \in Plain /\ PlainNote(m)
             /\ diskBase' \in OptPlain /\ a \in OptPlain
  <2>1. /\ PlainNote(note[e]) /\ writer[w].got \in Plain /\ disk \in Plain
        /\ diskBase \in OptPlain /\ idb.agreed \in OptPlain /\ {} \in Plain
        /\ Plain \subseteq OptPlain
    BY <1>1, <1>8 DEF PlainTexts, Plain, OptPlain
  <2>2. n.ytext \in Plain /\ base \in OptPlain
    BY <2>1 DEF PlainNote
  <2>3. m.ytext \in Plain
    <3>1. ReadInText(n, writer[w].got, base) \in Plain
      BY <2>1, <2>2, ReadInPlain
    <3> QED BY <1>3, <3>1
  <2>4. m.lastSyncedContent = note[e].lastSyncedContent /\ m.agreedAtConnect = note[e].agreedAtConnect
    BY <1>1, <1>3 DEF Kin, FileDocState
  <2> QED BY <1>4, <1>5, <1>6, <2>1, <2>2, <2>3, <2>4 DEF PlainNote
<1>9. ASSUME Unchanged, NothingHere
      PROVE  /\ x.got = {} /\ x.content = {} /\ BareNote(m)
             /\ diskBase' \in Bare /\ a \in Bare
  <2>1. /\ BareNote(note[e]) /\ writer[w].got = {} /\ disk = {}
        /\ diskBase \in Bare /\ idb.agreed \in Bare /\ {} \in Bare
    BY <1>1, <1>9 DEF NothingHere, Bare
  <2>2. n.ytext = {} /\ base \in Bare /\ {} \in Plain /\ base \in OptPlain
    BY <2>1 DEF BareNote, Bare, Plain, OptPlain
  <2>3. m.ytext = {}
    BY <1>3, <2>1, <2>2, ReadInPlain
  <2>4. m.lastSyncedContent = note[e].lastSyncedContent /\ m.agreedAtConnect = note[e].agreedAtConnect
    BY <1>1, <1>3 DEF Kin, FileDocState
  <2> QED BY <1>4, <1>5, <1>6, <2>1, <2>2, <2>3, <2>4 DEF BareNote
<1>10. a \in OptText /\ diskBase' \in OptText /\ m.seeds = note[e].seeds
  BY <1>1, <1>2, <1>3, <1>4, <1>5 DEF OptText
<1>11. Unchanged => phase # "loading"
  BY Modes
<1>12. kept' \in Text /\ ownWrite' \in OptText
  BY <1>1
<1> HIDE DEF e
<1> QED BY <1>1, <1>3, <1>4, <1>5, <1>6, <1>7, <1>8, <1>9, <1>10, <1>11, <1>12, WriterStep

(***************************************************************************)
(* writeToDisk.                                                            *)
(***************************************************************************)
LEMMA FireTimerKeeps ==
    ASSUME Shape, Quietly, NEW w \in Writers, FireTimer(w)
    PROVE  Shape' /\ Quietly'
<1>1. PICK e \in Epochs :
        /\ note[e].writeTimer
        /\ IF exists
           THEN /\ note' = [note EXCEPT ![e].writeTimer = FALSE, ![e].writeRetries = 0]
                /\ writer' = [writer EXCEPT ![w].pc = "saved", ![w].ep = e]
           ELSE /\ note' = [note EXCEPT
                      ![e].writeTimer = ~GivesUp(note[e]),
                      ![e].writeRetries = IF GivesUp(note[e]) THEN @ ELSE @ + 1]
                /\ UNCHANGED writer
  BY DEF FireTimer
<1>2. UNCHANGED <<fileVars, kept, idb, connVars, bufferVars, reader, bridge,
                  binds, ghostVars>> /\ writer[w].pc = "idle"
  BY DEF FireTimer
<1> DEFINE n == note[e]
           retries == IF exists THEN 0 ELSE IF GivesUp(n) THEN n.writeRetries ELSE n.writeRetries + 1
           timer == ~exists /\ ~GivesUp(n)
           m == [n EXCEPT !.writeTimer = timer, !.writeRetries = retries]
           x == IF exists THEN [writer[w] EXCEPT !.pc = "saved", !.ep = e] ELSE writer[w]
<1>3. /\ n \in FileDocState /\ n.writeRetries \in 0..MaxWriteRetries /\ writer[w] \in WriterState
      /\ (UNCHANGED idb => Records(idb.agreed)) /\ idb.agreed \in OptText
      /\ diskBase \in OptText /\ ownWrite \in OptText
      /\ kept \in Text /\ reverted \in Text
  BY Acting, Noted DEF Shape
<1>4. retries \in 0..MaxWriteRetries
  BY <1>3, BoundsAssumption DEF GivesUp
<1>5. e <= epoch
  <2>1. epoch \in Nat /\ e \in Nat /\ ~NewNote.writeTimer
    BY BoundsAssumption DEF Shape, TypeOK, Epochs, NewNote
  <2> QED BY <1>1, <2>1 DEF Shape, Order
<1>6. note' = [note EXCEPT ![e] = m] /\ writer' = [writer EXCEPT ![w] = x]
  BY <1>1, <1>3 DEF Shape, TypeOK
<1>7. x \in WriterState /\ x.got = writer[w].got /\ x.content = writer[w].content
      /\ x.pc \in {"idle", "saved"} /\ (x.pc # "idle" => x.ep = e)
  BY <1>2, <1>3 DEF WriterState
<1> HIDE DEF x, retries, timer
<1>8. timer \in BOOLEAN
  BY DEF timer
<1>9. m \in FileDocState /\ Kin([n EXCEPT !.writeRetries = retries], m)
      /\ m.ytext = n.ytext /\ m.seeds = n.seeds
      /\ m.lastSyncedContent = n.lastSyncedContent /\ m.agreedAtConnect = n.agreedAtConnect
      /\ m.idbHadData = n.idbHadData /\ m.hasSyncedOnce = n.hasSyncedOnce
      /\ m.firstSyncChecked = n.firstSyncChecked /\ m.editorActive = n.editorActive
  BY <1>3, <1>4, <1>8 DEF FileDocState, Kin
<1>10. ASSUME Unchanged, phase = "loading" PROVE e # epoch
  BY <1>1, <1>10 DEF Quietly, LoadsAlone
<1> HIDE DEF n, m
<1>11. ASSUME Unchanged, PlainTexts
       PROVE  /\ x.got \in Plain /\ x.content \in Plain /\ PlainNote(m)
              /\ diskBase \in OptPlain /\ idb.agreed \in OptPlain
  BY <1>7, <1>9, <1>11 DEF PlainTexts, PlainNote, n
<1>12. ASSUME Unchanged, NothingHere
       PROVE  /\ x.got = {} /\ x.content = {} /\ BareNote(m)
              /\ diskBase \in Bare /\ idb.agreed \in Bare
  BY <1>7, <1>9, <1>12 DEF NothingHere, BareNote, n
<1>13. ASSUME Unchanged, FileUnread
       PROVE  Looks(x) /\ UnreadNote(m) /\ diskBase = None /\ idb.agreed = None
  BY <1>7, <1>9, <1>13 DEF FileUnread, UnreadNote, Looks, n
<1>14. UNCHANGED <<fileVars, connVars, reader, bridge, binds, used, removed, raced, doubled,
                   idb, kept, reverted, diskBase, ownWrite>>
  BY <1>2 DEF bufferVars, ghostVars
<1> QED BY <1>3, <1>5, <1>6, <1>7, <1>9, <1>10, <1>11, <1>12, <1>13, <1>14, WriterStep DEF n

\* Steps that leave note and agreement as they are.
LEMMA Advances ==
    ASSUME Shape, Quietly, NEW w \in Writers, writer[w].pc # "idle",
           NEW x \in WriterState, writer' = [writer EXCEPT ![w] = x],
           UNCHANGED <<fileVars, connVars, reader, bridge, binds, used, removed, raced, doubled,
                       idb, reverted, diskBase, ownWrite, note>>,
           kept' \in Text,
           x.pc # "idle" => x.ep = writer[w].ep,
           Unchanged /\ PlainTexts => x.got \in Plain /\ x.content \in Plain,
           Unchanged /\ phase = "loading" => x.pc = "idle",
           Unchanged /\ NothingHere => x.got = {} /\ x.content = {},
           Unchanged /\ FileUnread /\ StartLines # {} => Looks(x)
    PROVE  Shape' /\ Quietly'
<1> DEFINE e == writer[w].ep
           n == note[e]
<1>1. /\ e \in Epochs /\ e <= epoch /\ n \in FileDocState
      /\ note = [note EXCEPT ![e] = n]
      /\ (UNCHANGED idb => Records(idb.agreed)) /\ idb.agreed \in OptText
      /\ diskBase \in OptText /\ ownWrite \in OptText /\ reverted \in Text
  BY Acting
<1>2. Unchanged /\ PlainTexts => PlainNote(n) /\ diskBase \in OptPlain /\ idb.agreed \in OptPlain
  BY <1>1 DEF PlainTexts
<1>3. Unchanged /\ NothingHere => BareNote(n) /\ diskBase \in Bare /\ idb.agreed \in Bare
  BY <1>1 DEF NothingHere
<1>4. Unchanged /\ FileUnread => UnreadNote(n) /\ diskBase = None /\ idb.agreed = None
  BY <1>1 DEF FileUnread
<1>5. Unchanged /\ phase = "loading" => e # epoch
  BY DEF Quietly, LoadsAlone
<1>6. /\ note' = [note EXCEPT ![e] = n] /\ Records(idb.agreed)
      /\ reverted' \in Text /\ diskBase' \in OptText /\ ownWrite' \in OptText
      /\ diskBase' = diskBase /\ n.seeds = note[e].seeds
  BY <1>1
<1>7. /\ x.pc # "idle" => x.ep = e
      /\ Unchanged /\ phase = "loading" => e # epoch /\ x.pc \in {"idle", "saved"}
  BY <1>5
<1>8. Unchanged /\ PlainTexts =>
        /\ x.got \in Plain /\ x.content \in Plain /\ PlainNote(n)
        /\ diskBase' \in OptPlain /\ idb.agreed \in OptPlain
  BY <1>2, <1>6
<1>9. Unchanged /\ NothingHere =>
        /\ x.got = {} /\ x.content = {} /\ BareNote(n)
        /\ diskBase' \in Bare /\ idb.agreed \in Bare
  BY <1>3, <1>6
<1>10. Unchanged /\ FileUnread /\ StartLines # {} =>
        Looks(x) /\ UnreadNote(n) /\ diskBase' = None /\ idb.agreed = None
  BY <1>4, <1>6
<1>11. UNCHANGED <<fileVars, connVars, reader, bridge, binds, used, removed, raced, doubled>>
  OBVIOUS
<1> HIDE DEF e, n
<1> QED BY <1>1, <1>6, <1>7, <1>8, <1>9, <1>10, <1>11, WriterStep

LEMMA GivenUp ==
    ASSUME Shape, Quietly, NEW w \in Writers, writer[w].pc # "idle",
           writer' = [writer EXCEPT ![w] = IdleWriter],
           UNCHANGED <<fileVars, connVars, reader, bridge, binds, used, removed, raced, doubled,
                       idb, kept, reverted, diskBase, ownWrite, note>>
    PROVE  Shape' /\ Quietly'
<1>1. /\ IdleWriter \in WriterState /\ IdleWriter.pc = "idle" /\ IdleWriter.got = {}
      /\ IdleWriter.content = {} /\ {} \in Plain /\ kept \in Text
  BY NewNoteTyped, Acting DEF IdleWriter, Plain
<1>2. Looks(IdleWriter)
  BY <1>1 DEF Looks
<1> QED BY <1>1, <1>2, Advances

LEMMA ReadFileKeeps ==
    ASSUME Shape, Quietly, NEW w \in Writers, ReadFile(w)
    PROVE  Shape' /\ Quietly'
<1> DEFINE x == [writer[w] EXCEPT !.pc = "read", !.got = disk]
<1>1. /\ writer[w].pc = "saved"
      /\ UNCHANGED <<fileVars, connVars, reader, bridge, binds, used, removed, raced, doubled,
                     idb, kept, reverted, diskBase, ownWrite, note>>
  BY DEF ReadFile, bufferVars, ghostVars
<1>2. CASE ~(Live(writer[w].ep) /\ ~note[writer[w].ep].editorActive)
  <2>1. writer' = [writer EXCEPT ![w] = IdleWriter]
    BY <1>2 DEF ReadFile
  <2> QED BY <1>1, <2>1, GivenUp
<1>3. CASE Live(writer[w].ep) /\ ~note[writer[w].ep].editorActive
  <2>1. writer' = [writer EXCEPT ![w] = x]
    BY <1>3 DEF ReadFile, Shape, TypeOK
  <2>2. /\ x \in WriterState /\ x.pc = "read" /\ x.ep = writer[w].ep /\ x.got = disk
        /\ x.content = writer[w].content /\ kept \in Text
    BY Acting DEF WriterState
  <2> HIDE DEF x
  <2>3. Unchanged => phase # "loading"
    BY <1>1, <1>3 DEF Quietly, LoadsAlone, Live
  <2>4. Unchanged /\ PlainTexts => x.got \in Plain /\ x.content \in Plain
    BY <2>2 DEF PlainTexts
  <2>5. Unchanged /\ NothingHere => x.got = {} /\ x.content = {}
    BY <2>2 DEF NothingHere
  <2>6. Unchanged /\ FileUnread => Looks(x)
    BY <2>2 DEF FileUnread, Looks
  <2>7. writer[w].pc # "idle"
    BY <1>1
  <2> QED BY <1>1, <2>1, <2>2, <2>3, <2>4, <2>5, <2>6, <2>7, Advances
<1> QED BY <1>2, <1>3

\* A file that has only been looked at gives an activation nothing to do.
LEMMA UnreadIsSkipped ==
    ASSUME Shape, NEW w \in Writers, FileUnread, StartLines # {},
           writer[w].pc = "read" /\ writer[w].got = StartLines
    PROVE  LET n == note[writer[w].ep]
           IN  /\ UnreadNote(n)
               /\ ~UnseenEdit(n, writer[w].got) /\ ~Unrecorded(n, writer[w].got)
               /\ ~ChangedOnDisk(w)
               /\ Unconfirmed(n, writer[w].got)
               /\ n.ytext # writer[w].got
<1>1. writer[w].ep \in Epochs
  BY Acting
<1>2. UnreadNote(note[writer[w].ep])
  BY <1>1 DEF FileUnread
<1> QED BY <1>2 DEF UnreadNote, UnseenEdit, Unrecorded, ChangedOnDisk, Unconfirmed

LEMMA Backups ==
    ASSUME Shape, NEW text \in Text, BackedUp(text)
    PROVE  kept' \in Text
BY DEF BackedUp, Shape, TypeOK, Text

\* Steps past the first look change flags of the note at most.
LEMMA Past ==
    ASSUME Shape, Quietly, NEW w \in Writers, writer[w].pc \notin {"idle", "saved"},
           NEW x \in WriterState, writer' = [writer EXCEPT ![w] = x],
           NEW n \in FileDocState, note' = [note EXCEPT ![writer[w].ep] = n],
           n.ytext = note[writer[w].ep].ytext, n.seeds = note[writer[w].ep].seeds,
           n.lastSyncedContent = note[writer[w].ep].lastSyncedContent,
           n.agreedAtConnect = note[writer[w].ep].agreedAtConnect,
           UNCHANGED <<fileVars, connVars, reader, bridge, binds, used, removed, raced, doubled,
                       idb, reverted, diskBase>>,
           kept' \in Text, ownWrite' \in OptText,
           x.pc # "idle" => x.ep = writer[w].ep,
           x.got \in {{}, writer[w].got},
           x.content \in {{}, writer[w].content, note[writer[w].ep].ytext, disk},
           Unchanged => ~(FileUnread /\ StartLines # {})
    PROVE  Shape' /\ Quietly'
<1> DEFINE e == writer[w].ep
<1>1. /\ e \in Epochs /\ e <= epoch
      /\ (UNCHANGED idb => Records(idb.agreed)) /\ idb.agreed \in OptText
      /\ diskBase \in OptText /\ reverted \in Text
  BY Acting
<1>2. ASSUME Unchanged, PlainTexts
      PROVE  /\ x.got \in Plain /\ x.content \in Plain /\ PlainNote(n)
             /\ diskBase \in OptPlain /\ idb.agreed \in OptPlain
  <2>1. {} \in Plain /\ PlainNote(note[e])
    BY <1>1, <1>2 DEF Plain, PlainTexts
  <2> QED BY <1>2, <2>1 DEF PlainTexts, PlainNote
<1>3. ASSUME Unchanged, NothingHere
      PROVE  /\ x.got = {} /\ x.content = {} /\ BareNote(n)
             /\ diskBase \in Bare /\ idb.agreed \in Bare
  <2>1. BareNote(note[e])
    BY <1>1, <1>3 DEF NothingHere
  <2> QED BY <1>3, <2>1 DEF NothingHere, BareNote
<1>4. Unchanged => phase # "loading"
  BY Modes
<1> HIDE DEF e
<1> QED BY <1>1, <1>2, <1>3, <1>4, WriterStep DEF e


LEMMA Late ==
    ASSUME Quietly, NEW w \in Writers, writer[w].pc \notin {"idle", "saved", "read"}
    PROVE  Unchanged => ~(FileUnread /\ StartLines # {})
BY Modes

\* An activation with something to do is not looking at a file nobody has read.
LEMMA Busy ==
    ASSUME Shape, Quietly, NEW w \in Writers, writer[w].pc \notin {"idle", "saved"},
           LET n == note[writer[w].ep]
               got == writer[w].got
           IN  writer[w].pc = "read" =>
                   \/ UnseenEdit(n, got) \/ Unrecorded(n, got) \/ ChangedOnDisk(w)
                   \/ ~Unconfirmed(n, got) \/ n.ytext = got
    PROVE  Unchanged => ~(FileUnread /\ StartLines # {})
BY Modes, UnreadIsSkipped

LEMMA KeepFirstKeeps ==
    ASSUME Shape, Quietly, NEW w \in Writers, KeepFirst(w)
    PROVE  Shape' /\ Quietly'
<1> DEFINE e == writer[w].ep
           n == note[e]
           m == [n EXCEPT !.firstSyncChecked = TRUE]
           x == [writer[w] EXCEPT !.pc = IF UnseenEdit(n, writer[w].got)
                                         THEN "keepMerge" ELSE "keepOnly"]
<1>1. /\ writer[w].pc = "read"
      /\ UnseenEdit(n, writer[w].got) \/ Unrecorded(n, writer[w].got)
      /\ UNCHANGED <<fileVars, connVars, reader, bridge, binds, used, removed, raced, doubled,
                     idb, kept, reverted, diskBase, ownWrite>>
  BY DEF KeepFirst, bufferVars, ghostVars
<1>2. e \in Epochs /\ n \in FileDocState /\ writer[w] \in WriterState
      /\ kept \in Text /\ ownWrite \in OptText
  BY Acting
<1>3. note' = [note EXCEPT ![e] = m] /\ writer' = [writer EXCEPT ![w] = x]
  BY <1>2 DEF KeepFirst, Shape, TypeOK
<1>4. Unchanged => ~(FileUnread /\ StartLines # {})
  BY <1>1, Busy
<1>5. /\ x \in WriterState /\ x.ep = e /\ x.got = writer[w].got /\ x.content = writer[w].content
  <2> HIDE DEF n
  <2> QED BY <1>2 DEF WriterState
<1>6. /\ m \in FileDocState /\ m.ytext = n.ytext /\ m.seeds = n.seeds
      /\ m.lastSyncedContent = n.lastSyncedContent /\ m.agreedAtConnect = n.agreedAtConnect
  BY <1>2 DEF FileDocState
<1>7. kept' \in Text /\ ownWrite' \in OptText
  BY <1>1, <1>2
<1> HIDE DEF m, x
<1> QED BY <1>1, <1>3, <1>4, <1>5, <1>6, <1>7, Past

LEMMA TakeUnseenInKeeps ==
    ASSUME Shape, Quietly, NEW w \in Writers, TakeUnseenIn(w)
    PROVE  Shape' /\ Quietly'
<1> DEFINE e == writer[w].ep
           n == note[e]
           m == [n EXCEPT !.firstSyncChecked = TRUE]
<1>1. /\ writer[w].pc = "read" /\ UnseenEdit(n, writer[w].got)
      /\ ReadIn(e, m, writer[w].got, n.agreedAtConnect)
      /\ writer' = [writer EXCEPT ![w].pc = "read2", ![w].got = disk, ![w].content = {}]
      /\ UNCHANGED <<fileVars, kept, connVars, ownWrite, reader, bridge, binds,
                     used, removed, raced, doubled>>
  BY Zenon DEF TakeUnseenIn
<1>2. e \in Epochs /\ n \in FileDocState
  BY Acting
<1>3. Unchanged => ~(FileUnread /\ StartLines # {})
  BY <1>1, Busy
<1>4. /\ m \in FileDocState /\ Kin([n EXCEPT !.firstSyncChecked = m.firstSyncChecked], m)
      /\ m.ytext = n.ytext /\ m.seeds = n.seeds
  BY <1>2 DEF FileDocState, Kin
<1> HIDE DEF m
<1> QED BY <1>1, <1>3, <1>4, TakesIn

LEMMA KeptFirstKeeps ==
    ASSUME Shape, Quietly, NEW w \in Writers, KeptFirst(w)
    PROVE  Shape' /\ Quietly'
<1> DEFINE e == writer[w].ep
           n == note[e]
           x == [writer[w] EXCEPT !.pc = IF @ = "keepMerge" THEN "keptMerge" ELSE "keptOnly",
                                  !.content = disk]
<1>1. /\ writer[w].pc \in {"keepMerge", "keepOnly"} /\ BackedUp(writer[w].got)
      /\ UNCHANGED <<fileVars, connVars, reader, bridge, binds, used, removed, raced, doubled,
                     idb, reverted, diskBase, ownWrite, note>>
  BY DEF KeptFirst, bufferVars, ghostVars
<1>2. /\ e \in Epochs /\ n \in FileDocState /\ writer[w] \in WriterState /\ disk \in Text
      /\ writer[w].got \in Text /\ ownWrite \in OptText /\ note = [note EXCEPT ![e] = n]
  BY Acting
<1>3. writer' = [writer EXCEPT ![w] = x]
  BY <1>2 DEF KeptFirst, Shape, TypeOK
<1>4. Unchanged => ~(FileUnread /\ StartLines # {})
  BY <1>1, Late
<1>5. /\ x \in WriterState /\ x.ep = e /\ x.got = writer[w].got /\ x.content = disk
  BY <1>2 DEF WriterState
<1>6. kept' \in Text /\ ownWrite' \in OptText /\ note' = [note EXCEPT ![e] = n]
  BY <1>1, <1>2, Backups
<1> HIDE DEF x
<1> QED BY <1>1, <1>2, <1>3, <1>4, <1>5, <1>6, Past

LEMMA StartAgainKeeps ==
    ASSUME Shape, Quietly, NEW w \in Writers, StartAgain(w)
    PROVE  Shape' /\ Quietly'
<1> DEFINE e == writer[w].ep
           n == note[e]
           m == [n EXCEPT !.writeTimer = TRUE]
<1>1. /\ writer[w].pc \in {"keptMerge", "keptOnly"}
      /\ writer' = [writer EXCEPT ![w] = IdleWriter]
      /\ UNCHANGED <<fileVars, connVars, reader, bridge, binds, used, removed, raced, doubled,
                     idb, kept, reverted, diskBase, ownWrite>>
  BY DEF StartAgain, bufferVars, ghostVars
<1>2. e \in Epochs /\ n \in FileDocState /\ kept \in Text /\ ownWrite \in OptText
  BY Acting
<1>3. note' = [note EXCEPT ![e] = m]
  BY <1>2 DEF StartAgain, Shape, TypeOK
<1>4. Unchanged => ~(FileUnread /\ StartLines # {})
  BY <1>1, Late
<1>5. /\ IdleWriter \in WriterState /\ IdleWriter.pc = "idle" /\ IdleWriter.got = {}
      /\ IdleWriter.content = {}
  BY NewNoteTyped DEF IdleWriter
<1>6. /\ m \in FileDocState /\ m.ytext = n.ytext /\ m.seeds = n.seeds
      /\ m.lastSyncedContent = n.lastSyncedContent /\ m.agreedAtConnect = n.agreedAtConnect
  BY <1>2 DEF FileDocState
<1>7. kept' \in Text /\ ownWrite' \in OptText
  BY <1>1, <1>2
<1> HIDE DEF m
<1> QED BY <1>1, <1>3, <1>4, <1>5, <1>6, <1>7, Past

LEMMA MergeKeptInKeeps ==
    ASSUME Shape, Quietly, NEW w \in Writers, MergeKeptIn(w)
    PROVE  Shape' /\ Quietly'
<1> DEFINE e == writer[w].ep
           n == note[e]
<1>1. /\ writer[w].pc = "keptMerge"
      /\ ReadIn(e, n, writer[w].got, n.agreedAtConnect)
      /\ writer' = [writer EXCEPT ![w].pc = "read2", ![w].got = disk, ![w].content = {}]
      /\ UNCHANGED <<fileVars, kept, connVars, ownWrite, reader, bridge, binds,
                     used, removed, raced, doubled>>
  BY Zenon DEF MergeKeptIn
<1>2. e \in Epochs /\ n \in FileDocState
  BY Acting
<1>3. Unchanged => ~(FileUnread /\ StartLines # {})
  BY <1>1, Late
<1>4. Kin([n EXCEPT !.firstSyncChecked = n.firstSyncChecked], n)
  BY <1>2 DEF FileDocState, Kin
<1> HIDE DEF n
<1> QED BY <1>1, <1>2, <1>3, <1>4, TakesIn DEF n

LEMMA ReadSaveInKeeps ==
    ASSUME Shape, Quietly, NEW w \in Writers, ReadSaveIn(w)
    PROVE  Shape' /\ Quietly'
<1> DEFINE e == writer[w].ep
           n == note[e]
<1>1. /\ writer[w].pc \in {"read", "keptOnly", "read2"} /\ ChangedOnDisk(w)
      /\ ReadIn(e, n, writer[w].got, diskBase)
      /\ writer' = [writer EXCEPT ![w].pc = "read3", ![w].got = disk, ![w].content = {}]
      /\ UNCHANGED <<fileVars, kept, connVars, ownWrite, reader, bridge, binds,
                     used, removed, raced, doubled>>
  BY Zenon DEF ReadSaveIn, PastFirst
<1>2. e \in Epochs /\ n \in FileDocState
  BY Acting
<1>3. Unchanged => ~(FileUnread /\ StartLines # {})
  BY <1>1, Busy
<1>4. Kin([n EXCEPT !.firstSyncChecked = n.firstSyncChecked], n)
  BY <1>2 DEF FileDocState, Kin
<1> HIDE DEF n
<1> QED BY <1>1, <1>2, <1>3, <1>4, TakesIn DEF n

LEMMA SkipUnconfirmedKeeps ==
    ASSUME Shape, Quietly, NEW w \in Writers, SkipUnconfirmed(w)
    PROVE  Shape' /\ Quietly'
BY GivenUp DEF SkipUnconfirmed, Settling, PastFirst, bufferVars, ghostVars

LEMMA WriteFailsKeeps ==
    ASSUME Shape, Quietly, NEW w \in Writers, WriteFails(w)
    PROVE  Shape' /\ Quietly'
BY GivenUp DEF WriteFails, bufferVars, ghostVars

\* The file says what the document says: that is on record.
LEMMA AgreedKeeps ==
    ASSUME Shape, Quietly, NEW w \in Writers, writer[w].pc \notin {"idle", "saved"},
           NEW text \in {writer[w].got, writer[w].content}, Agreed(writer[w].ep, text),
           writer' = [writer EXCEPT ![w] = IdleWriter],
           UNCHANGED <<fileVars, kept, connVars, ownWrite, reader, bridge, binds, ghostVars>>,
           Unchanged => ~(FileUnread /\ StartLines # {})
    PROVE  Shape' /\ Quietly'
<1> DEFINE e == writer[w].ep
           n == note[e]
           m == [n EXCEPT !.lastSyncedContent = text]
<1>1. /\ e \in Epochs /\ e <= epoch /\ n \in FileDocState /\ text \in Text
      /\ kept \in Text /\ reverted \in Text /\ ownWrite \in OptText /\ idb.agreed \in OptText
  BY Acting
<1>2. text \in OptText
  BY <1>1 DEF OptText
<1>3. note' = [note EXCEPT ![e] = m] /\ diskBase' = text
  BY <1>1 DEF Agreed, Shape, TypeOK
<1>4. PICK a \in {text, idb.agreed} : Records(a)
  BY <1>2, Agrees DEF Agreed
<1>5. /\ m \in FileDocState /\ m.ytext = n.ytext /\ m.seeds = n.seeds
      /\ m.lastSyncedContent = text /\ m.agreedAtConnect = n.agreedAtConnect
  BY <1>1, <1>2 DEF FileDocState
<1>6. /\ IdleWriter \in WriterState /\ IdleWriter.pc = "idle" /\ IdleWriter.got = {}
      /\ IdleWriter.content = {} /\ {} \in Plain
  BY NewNoteTyped DEF IdleWriter, Plain
<1>7. UNCHANGED <<fileVars, connVars, reader, bridge, binds, used, removed, raced, doubled>>
      /\ kept' \in Text /\ reverted' \in Text /\ ownWrite' \in OptText /\ diskBase' \in OptText
      /\ a \in OptText
  BY <1>1, <1>2, <1>3, <1>4 DEF ghostVars
<1>8. ASSUME Unchanged, PlainTexts
      PROVE  PlainNote(m) /\ diskBase' \in OptPlain /\ a \in OptPlain
  <2>1. PlainNote(n) /\ text \in Plain /\ idb.agreed \in OptPlain
    BY <1>1, <1>8 DEF PlainTexts
  <2> QED BY <1>3, <1>4, <1>5, <2>1 DEF PlainNote, Plain, OptPlain
<1>9. ASSUME Unchanged, NothingHere
      PROVE  BareNote(m) /\ diskBase' \in Bare /\ a \in Bare
  <2>1. BareNote(n) /\ text = {} /\ idb.agreed \in Bare
    BY <1>1, <1>9 DEF NothingHere
  <2> QED BY <1>3, <1>4, <1>5, <2>1 DEF BareNote, Bare
<1>10. Unchanged => phase # "loading"
  BY Modes
<1> HIDE DEF m, n, e
<1> QED BY <1>1, <1>3, <1>4, <1>5, <1>6, <1>7, <1>8, <1>9, <1>10, WriterStep DEF n

LEMMA AlreadyOnDiskKeeps ==
    ASSUME Shape, Quietly, NEW w \in Writers, AlreadyOnDisk(w)
    PROVE  Shape' /\ Quietly'
<1>1. writer[w].pc \notin {"idle", "saved"} /\ note[writer[w].ep].ytext = writer[w].got
  BY DEF AlreadyOnDisk, Settling, PastFirst
<1>2. Unchanged => ~(FileUnread /\ StartLines # {})
  BY <1>1, Busy
<1> QED BY <1>1, <1>2, AgreedKeeps DEF AlreadyOnDisk

LEMMA WrittenKeeps ==
    ASSUME Shape, Quietly, NEW w \in Writers, Written(w)
    PROVE  Shape' /\ Quietly'
<1>1. writer[w].pc = "written"
  BY DEF Written
<1> QED BY <1>1, Late, AgreedKeeps DEF Written

LEMMA WritingKeeps ==
    ASSUME Shape, Quietly, NEW w \in Writers, writer[w].pc \notin {"idle", "saved"},
           NEW content \in {note[writer[w].ep].ytext, writer[w].content},
           Writing(w, note[writer[w].ep], content),
           UNCHANGED <<fileVars, connVars, reader, bridge, binds, used, removed, raced, doubled,
                       idb, reverted, diskBase>>,
           kept' \in Text,
           Unchanged => ~(FileUnread /\ StartLines # {})
    PROVE  Shape' /\ Quietly'
<1> DEFINE e == writer[w].ep
           n == note[e]
           m == [n EXCEPT !.firstSyncChecked = TRUE, !.ignoreNextModify = TRUE]
           x == [writer[w] EXCEPT !.pc = "writing", !.content = content]
<1>1. /\ e \in Epochs /\ n \in FileDocState /\ writer[w] \in WriterState
      /\ writer[w].content \in Text /\ n.ytext \in Text
  BY Acting, Noted DEF Shape
<1>2. content \in Text /\ content \in OptText
  BY <1>1 DEF OptText
<1>3. note' = [note EXCEPT ![e] = m] /\ writer' = [writer EXCEPT ![w] = x]
      /\ ownWrite' \in OptText
  BY <1>1, <1>2 DEF Writing, Shape, TypeOK
<1>4. /\ x \in WriterState /\ x.ep = e /\ x.got = writer[w].got /\ x.content = content
  BY <1>1, <1>2 DEF WriterState
<1>5. /\ m \in FileDocState /\ m.ytext = n.ytext /\ m.seeds = n.seeds
      /\ m.lastSyncedContent = n.lastSyncedContent /\ m.agreedAtConnect = n.agreedAtConnect
  BY <1>1 DEF FileDocState
<1> HIDE DEF m, x
<1> QED BY <1>1, <1>3, <1>4, <1>5, Past

LEMMA CopyMadeKeeps ==
    ASSUME Shape, Quietly, NEW w \in Writers, CopyMade(w)
    PROVE  Shape' /\ Quietly'
<1>1. /\ writer[w].pc \in {"firstCopy", "blankCopy"} /\ BackedUp(writer[w].got)
      /\ Writing(w, note[writer[w].ep], writer[w].content)
      /\ UNCHANGED <<fileVars, connVars, reader, bridge, binds, used, removed, raced, doubled,
                     idb, reverted, diskBase>>
  BY DEF CopyMade, ghostVars
<1>2. kept' \in Text
  BY <1>1, Acting, Backups
<1> QED BY <1>1, <1>2, Late, WritingKeeps

LEMMA WriteOutKeeps ==
    ASSUME Shape, Quietly, NEW w \in Writers, WriteOut(w)
    PROVE  Shape' /\ Quietly'
<1> DEFINE e == writer[w].ep
           n == note[e]
           got == writer[w].got
           m == [n EXCEPT !.firstSyncChecked = TRUE]
<1>1. /\ writer[w].pc \notin {"idle", "saved"} /\ ~Unconfirmed(n, got)
      /\ UNCHANGED <<fileVars, connVars, reader, bridge, binds, used, removed, raced, doubled,
                     idb, kept, reverted, diskBase>>
  BY DEF WriteOut, Settling, PastFirst, ghostVars
<1>2. /\ e \in Epochs /\ n \in FileDocState /\ writer[w] \in WriterState
      /\ kept \in Text /\ ownWrite \in OptText /\ n.ytext \in Text
  BY Acting, Noted DEF Shape
<1>3. Unchanged => ~(FileUnread /\ StartLines # {})
  BY <1>1, Busy
<1>4. ASSUME NEW pc \in {"firstCopy", "blankCopy"}, NEW content \in {n.ytext, {}},
             note' = [note EXCEPT ![e].firstSyncChecked = TRUE],
             writer' = [writer EXCEPT ![w].pc = pc, ![w].content = content],
             UNCHANGED ownWrite
      PROVE  Shape' /\ Quietly'
  <2> DEFINE x == [writer[w] EXCEPT !.pc = pc, !.content = content]
  <2>1. note' = [note EXCEPT ![e] = m] /\ writer' = [writer EXCEPT ![w] = x]
    BY <1>2, <1>4 DEF Shape, TypeOK
  <2>2. /\ x \in WriterState /\ x.ep = e /\ x.got = got /\ x.content = content
    BY <1>2, Texts DEF WriterState
  <2>3. /\ m \in FileDocState /\ m.ytext = n.ytext /\ m.seeds = n.seeds
        /\ m.lastSyncedContent = n.lastSyncedContent /\ m.agreedAtConnect = n.agreedAtConnect
    BY <1>2 DEF FileDocState
  <2>4. kept' \in Text /\ ownWrite' \in OptText
    BY <1>1, <1>2, <1>4
  <2> HIDE DEF m, x
  <2> QED BY <1>1, <1>3, <2>1, <2>2, <2>3, <2>4, Past
<1>5. CASE FirstConflict(n, got)
  BY <1>4, <1>5 DEF WriteOut
<1>6. CASE ~FirstConflict(n, got) /\ Blanks(n, got)
  BY <1>4, <1>6 DEF WriteOut
<1>7. CASE ~FirstConflict(n, got) /\ ~Blanks(n, got)
  <2>1. Writing(w, n, n.ytext)
    BY <1>7 DEF WriteOut
  <2>2. kept' \in Text
    BY <1>1, <1>2
  <2> QED BY <1>1, <1>3, <2>1, <2>2, WritingKeeps
<1> QED BY <1>5, <1>6, <1>7

(***************************************************************************)
(* The file, its events and the editor's saves.                            *)
(***************************************************************************)
\* A step that leaves notes and stored document alone.
LEMMA FileStep ==
    ASSUME Shape, Quietly,
           UNCHANGED <<idb, phase, seedText, epoch, inbox, note, diskBase, reader, bridge,
                       used, removed, doubled>>,
           Shape',
           Unchanged /\ PlainTexts =>
               /\ disk' \in Plain /\ saving' \in OptPlain
               /\ \A w \in Writers : writer'[w].got \in Plain /\ writer'[w].content \in Plain,
           Unchanged /\ phase = "loading" => LoadsAlone',
           Unchanged /\ NothingHere =>
               /\ disk' = {} /\ saving' \in Bare
               /\ \A w \in Writers : writer'[w].got = {} /\ writer'[w].content = {},
           Unchanged => ~(FileUnread /\ StartLines # {})
    PROVE  Quietly'
<1>1. SameDocument
  BY DEF SameDocument
<1>2. ASSUME Unchanged PROVE PlainTexts'
  <2>1. PlainTexts
    BY <1>2 DEF Quietly
  <2> QED BY <1>2, <2>1 DEF PlainTexts
<1>3. ASSUME Unchanged, NothingHere PROVE NothingHere'
  BY <1>3 DEF NothingHere
<1> QED BY <1>1, <1>2, <1>3, StaysQuiet

LEMMA WriteFileKeeps ==
    ASSUME Shape, Quietly, NEW w \in Writers, WriteFile(w)
    PROVE  Shape' /\ Quietly'
<1> DEFINE x == [writer[w] EXCEPT !.pc = "written"]
<1>1. /\ writer[w].pc = "writing" /\ events < MaxEvents
      /\ disk' = writer[w].content /\ events' = events + 1
      /\ saving' = IF saving = None THEN None ELSE MergeEdits(saving, disk, writer[w].content)
      /\ UNCHANGED <<exists, kept, idb, phase, seedText, epoch, inbox, note, diskBase, ownWrite,
                     reader, bridge, binds, used, removed, raced, reverted, doubled>>
  BY DEF WriteFile, FileFree, connVars, bufferVars, ghostVars
<1>2. /\ writer[w] \in WriterState /\ writer[w].content \in Text /\ disk \in Text
      /\ writer[w].ep <= epoch
  BY <1>1, Acting
<1>3. writer' = [writer EXCEPT ![w] = x]
  BY DEF WriteFile, Shape, TypeOK
<1>4. /\ x \in WriterState /\ x.ep = writer[w].ep /\ x.got = writer[w].got
      /\ x.content = writer[w].content
  BY <1>2 DEF WriterState
<1> HIDE DEF x
<1>5. /\ writer' \in [Writers -> WriterState] /\ writer'[w] = x
      /\ \A v \in Writers : v # w => writer'[v] = writer[v]
  BY <1>3, <1>4 DEF Shape, TypeOK
<1>6. Shape'
  <2>1. events' \in 0..MaxEvents
    BY <1>1, BoundsAssumption DEF Shape, TypeOK
  <2>2. saving' \in OptText
    BY <1>1, <1>2, MergeTyped DEF Shape, TypeOK, OptText
  <2>3. TypeOK'
    BY <1>1, <1>2, <1>5, <2>1, <2>2 DEF Shape, TypeOK
  <2>4. Order'
    BY <1>1, <1>2, <1>4, <1>5 DEF Shape, Order, Connected, Subscribed
  <2> QED BY <2>3, <2>4 DEF Shape
<1>7. ASSUME Unchanged, PlainTexts
      PROVE  /\ disk' \in Plain /\ saving' \in OptPlain
             /\ \A v \in Writers : writer'[v].got \in Plain /\ writer'[v].content \in Plain
  <2>1. /\ disk \in Plain /\ writer[w].content \in Plain
        /\ \A v \in Writers : writer[v].got \in Plain /\ writer[v].content \in Plain
    BY <1>7 DEF PlainTexts
  <2>2. saving' \in OptPlain
    BY <1>1, <1>7, <2>1, PlainMerge DEF PlainTexts, OptPlain, Plain
  <2> QED BY <1>1, <1>4, <1>5, <2>1, <2>2
<1>8. ASSUME Unchanged, NothingHere
      PROVE  /\ disk' = {} /\ saving' \in Bare
             /\ \A v \in Writers : writer'[v].got = {} /\ writer'[v].content = {}
  <2>1. /\ disk = {} /\ writer[w].content = {} /\ saving \in Bare
        /\ \A v \in Writers : writer[v].got = {} /\ writer[v].content = {}
    BY <1>8 DEF NothingHere
  <2>2. saving' \in Bare
    BY <1>1, <2>1, PlainMerge DEF Plain, Bare
  <2> QED BY <1>1, <1>4, <1>5, <2>1, <2>2
<1>9. Unchanged => phase # "loading" /\ ~(FileUnread /\ StartLines # {})
  BY <1>1, Modes, Late
<1> QED BY <1>1, <1>6, <1>7, <1>8, <1>9, FileStep

\* The connection's note is one there is.
LEMMA Current ==
    ASSUME Shape, Connected
    PROVE  /\ epoch \in Epochs /\ note[epoch] \in FileDocState
           /\ note[epoch].ytext \in Text /\ note[epoch].seeds \in SUBSET Text
<1>1. epoch \in Epochs
  BY BoundsAssumption DEF Shape, TypeOK, Order, Epochs
<1> QED BY <1>1, Noted DEF Shape

LEMMA EditorSaveKeeps ==
    ASSUME Shape, Quietly, EditorSave
    PROVE  Shape' /\ Quietly'
<1>1. /\ events < MaxEvents /\ events' = events + 1
      /\ UNCHANGED <<exists, kept, idb, phase, seedText, epoch, inbox, note, diskBase, ownWrite,
                     writer, reader, bridge, binds, used, removed, reverted, doubled>>
      /\ raced' \in {raced, raced \cup (disk' \ disk)}
  BY DEF EditorSave, FileFree, connVars, bufferVars, taskVars
<1>2. \/ Bound /\ disk' = note[epoch].ytext /\ saving' = saving
      \/ saving # None /\ disk' = saving /\ saving' = None
  BY DEF EditorSave
<1>3. Bound => epoch \in Epochs /\ note[epoch].ytext \in Text
  BY Current DEF Bound
<1>4. disk' \in Text /\ saving' \in OptText
  BY <1>2, <1>3 DEF Shape, TypeOK, OptText
<1>5. Shape'
  <2>1. raced' \in Text
    BY <1>1, <1>4 DEF Shape, TypeOK, Text
  <2>2. events' \in 0..MaxEvents
    BY <1>1, BoundsAssumption DEF Shape, TypeOK
  <2>3. TypeOK'
    BY <1>1, <1>4, <2>1, <2>2 DEF Shape, TypeOK
  <2>4. Order'
    BY <1>1 DEF Shape, Order, Connected, Subscribed
  <2> QED BY <2>3, <2>4 DEF Shape
<1>6. Unchanged /\ PlainTexts =>
         /\ disk' \in Plain /\ saving' \in OptPlain
         /\ \A w \in Writers : writer'[w].got \in Plain /\ writer'[w].content \in Plain
  BY <1>1, <1>2, <1>3 DEF PlainTexts, PlainNote, OptPlain, Plain
<1>7. Unchanged => phase # "loading"
  BY <1>2 DEF Quietly, LoadsAlone, Bound
<1>8. Unchanged /\ NothingHere =>
         /\ disk' = {} /\ saving' \in Bare
         /\ \A w \in Writers : writer'[w].got = {} /\ writer'[w].content = {}
  BY <1>1, <1>2, <1>3 DEF NothingHere, BareNote, Bare
<1>9. ~FileUnread
  BY <1>2, <1>3 DEF FileUnread, UnreadNote, Bound
<1> QED BY <1>1, <1>5, <1>6, <1>7, <1>8, <1>9, FileStep

\* Until there is a file nothing writes to it, and no editor has it.
Absent ==
    ~exists => /\ disk = {} /\ saving = None /\ bridge.pc = "idle"
               /\ \A w \in Writers : writer[w].pc = "idle"
               /\ \A e \in Epochs : ~note[e].editorActive

LEMMA CreatePlaceholderKeeps ==
    ASSUME Shape, Quietly, Absent, CreatePlaceholder
    PROVE  Shape' /\ Quietly'
<1>1. /\ ~exists /\ exists' = TRUE /\ events < MaxEvents /\ events' \in {events, events + 1}
      /\ UNCHANGED <<disk, saving, kept, idb, phase, seedText, epoch, inbox, note, diskBase,
                     ownWrite, writer, reader, bridge, binds, used, removed, raced, reverted,
                     doubled>>
  BY DEF CreatePlaceholder, connVars, bufferVars, taskVars, ghostVars
<1>2. Shape'
  <2>1. events' \in 0..MaxEvents
    BY <1>1, BoundsAssumption DEF Shape, TypeOK
  <2>2. TypeOK'
    BY <1>1, <2>1 DEF Shape, TypeOK
  <2>3. Order'
    BY <1>1 DEF Shape, Order, Connected, Subscribed
  <2> QED BY <2>2, <2>3 DEF Shape
<1>3. Unchanged /\ PlainTexts =>
         /\ disk' \in Plain /\ saving' \in OptPlain
         /\ \A w \in Writers : writer'[w].got \in Plain /\ writer'[w].content \in Plain
  BY <1>1 DEF PlainTexts
<1>4. Unchanged /\ phase = "loading" => LoadsAlone'
  BY <1>1 DEF Quietly, LoadsAlone, Absent
<1>5. Unchanged /\ NothingHere =>
         /\ disk' = {} /\ saving' \in Bare
         /\ \A w \in Writers : writer'[w].got = {} /\ writer'[w].content = {}
  BY <1>1 DEF NothingHere
<1>6. ~FileUnread
  BY <1>1 DEF FileUnread
<1> QED BY <1>1, <1>2, <1>3, <1>4, <1>5, <1>6, FileStep

(***************************************************************************)
(* onLocalModify.                                                          *)
(***************************************************************************)
LEMMA Listening ==
    ASSUME Shape, NEW r \in Readers
    PROVE  /\ reader[r] \in ReaderState /\ reader[r].ep \in Epochs /\ reader[r].got \in Text
           /\ note[reader[r].ep] \in FileDocState
           /\ reader[r].pc # "idle" => reader[r].ep <= epoch
BY DEF Shape, TypeOK, ReaderState, Order

\* A step of an activation of onLocalModify, on the note of connect e.
LEMMA ReaderStep ==
    ASSUME Shape, Quietly, NEW r \in Readers, NEW x \in ReaderState,
           NEW e \in Epochs, e <= epoch, NEW n \in FileDocState, NEW agreed \in OptText,
           UNCHANGED <<exists, disk, saving, kept, connVars, writer, bridge, binds,
                       used, removed, raced, doubled>>,
           events' \in 0..MaxEvents, events' <= events,
           ownWrite' \in OptText, reverted' \in Text, diskBase' \in OptText,
           Records(agreed),
           reader' = [reader EXCEPT ![r] = x], note' = [note EXCEPT ![e] = n],
           x.pc # "idle" => x.ep <= epoch,
           n.seeds = note[e].seeds,
           Unchanged /\ PlainTexts =>
               /\ x.got \in Plain /\ PlainNote(n)
               /\ diskBase' \in OptPlain /\ agreed \in OptPlain,
           Unchanged /\ phase = "loading" =>
               /\ x.pc # "idle" => x.got = {}
               /\ e = epoch => n.ytext = {} /\ ~n.editorActive /\ ~n.writeTimer /\ ~n.observer,
           Unchanged /\ NothingHere =>
               x.got = {} /\ BareNote(n) /\ diskBase' \in Bare /\ agreed \in Bare,
           ~FileUnread
    PROVE  Shape' /\ Quietly'
<1>1. /\ note' \in [Epochs -> FileDocState]
      /\ note'[e] = n /\ \A d \in Epochs : d # e => note'[d] = note[d]
      /\ \A d \in Epochs : d > epoch => note'[d] = NewNote
  BY OneNote
<1>2. /\ reader' \in [Readers -> ReaderState]
      /\ reader'[r] = x /\ \A v \in Readers : v # r => reader'[v] = reader[v]
  BY DEF Shape, TypeOK
<1>3. /\ idb' \in [text : Text, seeds : SUBSET Text, agreed : OptText]
      /\ idb'.text = idb.text /\ idb'.seeds = idb.seeds /\ idb'.agreed = agreed
  BY DEF Records, Shape, TypeOK
<1>4. UNCHANGED <<exists, disk, saving, kept, phase, seedText, epoch, inbox, writer, bridge,
                  binds, used, removed, raced, doubled>>
  BY DEF connVars
<1>5. TypeOK'
  BY <1>1, <1>2, <1>3, <1>4 DEF Shape, TypeOK
<1>6. Order'
  BY <1>1, <1>2, <1>4 DEF Shape, Order, Connected, Subscribed
<1>7. SameDocument
  BY <1>3, <1>4 DEF SameDocument
<1>8. Connected => note[epoch].seeds \subseteq note'[epoch].seeds
  BY <1>1, Current
<1>9. ASSUME Unchanged PROVE PlainTexts'
  <2>1. PlainTexts
    BY <1>9 DEF Quietly
  <2> QED BY <1>1, <1>2, <1>3, <1>4, <1>9, <2>1 DEF PlainTexts
<1>10. ASSUME Unchanged, phase = "loading" PROVE LoadsAlone'
  <2>1. LoadsAlone
    BY <1>10 DEF Quietly
  <2>2. epoch \in Epochs
    BY <1>10, Current DEF Connected
  <2>3. events' > 0 => events > 0
    BY DEF Shape, TypeOK
  <2>4. \A v \in Readers : reader'[v].pc # "idle" => reader'[v].got = {}
    BY <1>2, <1>10, <2>1 DEF LoadsAlone
  <2>5. /\ note'[epoch].ytext = {} /\ ~note'[epoch].editorActive /\ ~note'[epoch].writeTimer
        /\ ~note'[epoch].observer
    BY <1>1, <1>10, <2>1, <2>2 DEF LoadsAlone
  <2> QED BY <1>4, <1>10, <2>1, <2>3, <2>4, <2>5 DEF LoadsAlone
<1>11. ASSUME Unchanged, NothingHere PROVE NothingHere'
  BY <1>1, <1>2, <1>3, <1>4, <1>11 DEF NothingHere
<1> QED BY <1>5, <1>6, <1>7, <1>8, <1>9, <1>10, <1>11, StaysQuiet DEF Shape

LEMMA ModifyEventKeeps ==
    ASSUME Shape, Quietly, NEW r \in Readers, ModifyEvent(r)
    PROVE  Shape' /\ Quietly'
<1> DEFINE own == note[epoch].ignoreNextModify
           x == IF own /\ ownWrite = None THEN reader[r]
                ELSE [pc |-> IF Bound THEN "record" ELSE "read", ep |-> epoch, got |-> disk,
                      own |-> IF own THEN ownWrite ELSE None]
           n == [note[epoch] EXCEPT !.ignoreNextModify = FALSE]
<1>1. /\ events > 0 /\ events' = events - 1 /\ reader[r].pc = "idle"
      /\ UNCHANGED <<exists, disk, saving, kept, idb, connVars, diskBase, writer, bridge, binds,
                     used, removed, raced, reverted, doubled>>
  BY DEF ModifyEvent, ghostVars
<1>2. ~FileUnread /\ events' \in 0..MaxEvents /\ events' <= events
  BY <1>1, BoundsAssumption DEF FileUnread, Shape, TypeOK
<1>3. CASE ~Connected
  <2>1. UNCHANGED <<note, ownWrite, reader>>
    BY <1>3 DEF ModifyEvent
  <2>2. UNCHANGED <<exists, disk, saving, kept, idb, phase, seedText, epoch, inbox, note,
                    diskBase, ownWrite, writer, reader, bridge, binds, used, removed, raced,
                    reverted, doubled>>
    BY <1>1, <2>1 DEF connVars
  <2>3. Shape'
    <3>1. TypeOK'
      BY <1>2, <2>2 DEF Shape, TypeOK
    <3>2. Order'
      BY <2>2 DEF Shape, Order, Connected, Subscribed
    <3> QED BY <3>1, <3>2 DEF Shape
  <2>4. phase # "loading"
    BY <1>3 DEF Connected
  <2>5. /\ Unchanged /\ PlainTexts =>
             /\ disk' \in Plain /\ saving' \in OptPlain
             /\ \A w \in Writers : writer'[w].got \in Plain /\ writer'[w].content \in Plain
        /\ Unchanged /\ NothingHere =>
             /\ disk' = {} /\ saving' \in Bare
             /\ \A w \in Writers : writer'[w].got = {} /\ writer'[w].content = {}
    BY <2>2 DEF PlainTexts, NothingHere
  <2> QED BY <1>2, <2>2, <2>3, <2>4, <2>5, FileStep
<1>4. CASE Connected
  <2>1. epoch \in Epochs /\ note[epoch] \in FileDocState
    BY <1>4, Current
  <2>2. note' = [note EXCEPT ![epoch] = n] /\ reader' = [reader EXCEPT ![r] = x]
        /\ ownWrite' \in {None, ownWrite}
    BY <1>4, <2>1 DEF ModifyEvent, Shape, TypeOK
  <2>3. /\ reader[r] \in ReaderState /\ disk \in Text /\ ownWrite \in OptText /\ None \in OptText
        /\ epoch <= epoch
    BY Listening DEF Shape, TypeOK, OptText
  <2>4. /\ x \in ReaderState /\ x.got \in {reader[r].got, disk} /\ (x.pc # "idle" => x.ep = epoch)
        /\ x.pc # "idle" => x.got = disk
    BY <1>1, <2>1, <2>3 DEF ReaderState
  <2>5. /\ n \in FileDocState /\ n.ytext = note[epoch].ytext /\ n.seeds = note[epoch].seeds
        /\ n.lastSyncedContent = note[epoch].lastSyncedContent
        /\ n.agreedAtConnect = note[epoch].agreedAtConnect
        /\ n.editorActive = note[epoch].editorActive /\ n.observer = note[epoch].observer
        /\ n.writeTimer = note[epoch].writeTimer
    BY <2>1 DEF FileDocState
  <2> HIDE DEF x, n
  <2>6. /\ ownWrite' \in OptText /\ reverted' \in Text /\ diskBase' \in OptText
        /\ idb.agreed \in OptText /\ Records(idb.agreed) /\ diskBase' = diskBase
    BY <1>1, <2>2, <2>3 DEF Records, Shape, TypeOK
  <2>7. ASSUME Unchanged, PlainTexts
        PROVE  x.got \in Plain /\ PlainNote(n) /\ diskBase' \in OptPlain /\ idb.agreed \in OptPlain
    BY <2>1, <2>4, <2>5, <2>6, <2>7 DEF PlainTexts, PlainNote
  <2>8. ASSUME Unchanged, phase = "loading"
        PROVE  /\ x.pc # "idle" => x.got = {}
               /\ n.ytext = {} /\ ~n.editorActive /\ ~n.writeTimer /\ ~n.observer
    BY <1>1, <2>4, <2>5, <2>8 DEF Quietly, LoadsAlone
  <2>9. ASSUME Unchanged, NothingHere
        PROVE  x.got = {} /\ BareNote(n) /\ diskBase' \in Bare /\ idb.agreed \in Bare
    BY <2>1, <2>4, <2>5, <2>6, <2>9 DEF NothingHere, BareNote
  <2>10. UNCHANGED <<exists, disk, saving, kept, connVars, writer, bridge, binds,
                     used, removed, raced, doubled>>
    BY <1>1
  <2>11. x.pc # "idle" => x.ep <= epoch
    BY <2>3, <2>4
  <2> QED BY <1>2, <2>1, <2>2, <2>3, <2>4, <2>5, <2>6, <2>7, <2>8, <2>9, <2>10, <2>11, ReaderStep
<1> QED BY <1>3, <1>4

LEMMA FileReadKeeps ==
    ASSUME Shape, Quietly, NEW r \in Readers, FileRead(r)
    PROVE  Shape' /\ Quietly'
<1> DEFINE e == reader[r].ep
           got == reader[r].got
           n == note[e]
<1>1. /\ reader[r].pc # "idle" /\ reader' = [reader EXCEPT ![r] = IdleReader]
      /\ UNCHANGED <<fileVars, kept, connVars, ownWrite, writer, bridge, binds,
                     used, removed, raced, doubled>>
  BY DEF FileRead
<1>2. /\ e \in Epochs /\ e <= epoch /\ n \in FileDocState /\ got \in Text
      /\ diskBase \in OptText /\ idb.agreed \in OptText /\ reverted \in Text
      /\ ownWrite \in OptText /\ note = [note EXCEPT ![e] = n]
  BY <1>1, Listening DEF Shape, TypeOK
<1>3. ~FileUnread
  BY <1>1 DEF FileUnread
<1>4. \E m \in FileDocState, a \in {got, idb.agreed} :
        /\ note' = [note EXCEPT ![e] = m] /\ Records(a) /\ m.seeds = n.seeds /\ Kin(n, m)
        /\ \/ m = n
           \/ reader[r].pc = "read" /\ m.ytext = ReadInText(n, got, diskBase)
        /\ diskBase' \in {diskBase, got} /\ reverted' \in Text
  <2>1. Kin(n, n) /\ (UNCHANGED idb => Records(idb.agreed))
    BY <1>2 DEF Kin, Records, Shape, TypeOK
  <2>2. CASE UNCHANGED <<note, diskBase, reverted>> /\ idb' \in {idb, RecordAgreed(e, got)}
    <3>1. PICK a \in {got, idb.agreed} : Records(a)
      <4>1. got \in OptText
        BY <1>2 DEF OptText
      <4> QED BY <2>1, <2>2, <4>1, Agrees
    <3> HIDE DEF n
    <3> QED BY <1>2, <2>1, <2>2, <3>1
  <2>3. CASE reader[r].pc = "read" /\ ReadIn(e, n, got, diskBase)
    <3> HIDE DEF n, got, e
    <3>1. PICK m \in FileDocState : /\ note' = [note EXCEPT ![e] = m] /\ Kin(n, m)
                                    /\ m.seeds = n.seeds /\ m.ytext = ReadInText(n, got, diskBase)
      BY <1>2, <2>3, ReadsIn
    <3>2. PICK a \in {got, idb.agreed} : Records(a)
      BY <1>2, <2>3, ReadsIn
    <3>3. reverted' \in Text /\ diskBase' \in {diskBase, got}
      BY <1>2, <2>3, ReadsIn
    <3> QED BY <2>3, <3>1, <3>2, <3>3
  <2> QED BY <2>2, <2>3 DEF FileRead
<1>5. PICK m \in FileDocState, a \in {got, idb.agreed} :
        /\ note' = [note EXCEPT ![e] = m] /\ Records(a) /\ m.seeds = n.seeds /\ Kin(n, m)
        /\ \/ m = n
           \/ reader[r].pc = "read" /\ m.ytext = ReadInText(n, got, diskBase)
        /\ diskBase' \in {diskBase, got} /\ reverted' \in Text
  BY <1>4
<1>6. /\ a \in OptText /\ diskBase' \in OptText /\ ownWrite' \in OptText
      /\ IdleReader \in ReaderState /\ IdleReader.pc = "idle" /\ IdleReader.got = {} /\ {} \in Plain
  BY <1>1, <1>2, <1>5, NewNoteTyped DEF OptText, IdleReader, Plain
<1>7. m.lastSyncedContent = n.lastSyncedContent /\ m.agreedAtConnect = n.agreedAtConnect
      /\ m.editorActive = n.editorActive /\ m.observer = n.observer
  BY <1>5 DEF Kin
<1>8. ASSUME Unchanged, PlainTexts
      PROVE  PlainNote(m) /\ diskBase' \in OptPlain /\ a \in OptPlain
  <2>1. PlainNote(n) /\ got \in Plain /\ diskBase \in OptPlain /\ idb.agreed \in OptPlain
    BY <1>2, <1>8 DEF PlainTexts
  <2>2. m.ytext \in Plain
    BY <1>5, <2>1, ReadInPlain DEF PlainNote
  <2> HIDE DEF n, got, e
  <2> QED BY <1>5, <1>7, <2>1, <2>2 DEF PlainNote, Plain, OptPlain
<1>9. ASSUME Unchanged, NothingHere
      PROVE  BareNote(m) /\ diskBase' \in Bare /\ a \in Bare
  <2>1. BareNote(n) /\ got = {} /\ diskBase \in Bare /\ idb.agreed \in Bare
    BY <1>2, <1>9 DEF NothingHere
  <2>2. diskBase \in OptPlain /\ {} \in Plain
    BY <2>1 DEF Bare, OptPlain, Plain
  <2>3. m.ytext = {}
    BY <1>5, <2>1, <2>2, ReadInPlain DEF BareNote
  <2> HIDE DEF n, got, e
  <2> QED BY <1>5, <1>7, <2>1, <2>3 DEF BareNote, Bare
<1>10. ASSUME Unchanged, phase = "loading", e = epoch
       PROVE  m.ytext = {} /\ ~m.editorActive /\ ~m.writeTimer /\ ~m.observer
  <2>1. n.ytext = {} /\ ~n.editorActive /\ ~n.writeTimer /\ ~n.observer /\ got = {}
    BY <1>1, <1>10 DEF Quietly, LoadsAlone
  <2>2. m = n \/ m = SetText(n, n.ytext)
    <3>1. CASE FileRead(r) /\ reader[r].pc = "read" /\ reader[r].own # got
      <4>1. ReadIn(e, n, got, diskBase)
        BY <3>1 DEF FileRead
      <4>2. ReadInText(n, got, diskBase) = n.ytext
        BY <2>1 DEF ReadInText
      <4> QED BY <1>2, <1>5, <4>1, <4>2 DEF ReadIn, Shape, TypeOK
    <3>2. CASE ~(reader[r].pc = "read" /\ reader[r].own # got)
      <4>1. note' = note
        BY <3>2 DEF FileRead
      <4> QED BY <1>2, <1>5, <4>1 DEF Shape, TypeOK
    <3> QED BY <3>1, <3>2
  <2> HIDE DEF e
  <2> QED BY <1>2, <2>1, <2>2 DEF SetText, FileDocState
<1>11. events' \in 0..MaxEvents /\ events' <= events
       /\ UNCHANGED <<exists, disk, saving, kept, connVars, writer, bridge, binds,
                      used, removed, raced, doubled>>
  BY <1>1 DEF fileVars, Shape, TypeOK
<1>12. e \in Epochs /\ e <= epoch /\ m.seeds = note[e].seeds /\ note' = [note EXCEPT ![e] = m]
       /\ Records(a) /\ reverted' \in Text
  BY <1>2, <1>5
<1> HIDE DEF n, got, e
<1> QED BY <1>1, <1>3, <1>6, <1>8, <1>9, <1>10, <1>11, <1>12, ReaderStep

(***************************************************************************)
(* The note of the present connection: its first sync, and its editor.     *)
(***************************************************************************)
LEMMA QuietStill ==
    ASSUME Quietly, UNCHANGED <<used, removed>>,
           Unchanged => PlainTexts' /\ LoadsAlone' /\ ~doubled',
           Unchanged => SeedsOf \subseteq SeedsOf',
           Unchanged /\ Untouched /\ StartLines # {} => Untouched' \/ StartLines \in SeedsOf'
    PROVE  Quietly'
<1> SUFFICES ASSUME Unchanged PROVE PlainTexts' /\ LoadsAlone' /\ Seeded' /\ ~doubled'
  BY DEF Quietly, Unchanged
<1>1. Seeded
  BY DEF Quietly
<1> QED BY <1>1 DEF Seeded

BridgeState == [pc : {"idle", "reconcile", "seed", "binding"}, got : Text]
InboxState == [add : Text, del : Text, seeds : SUBSET Text]

\* A step of the connection's note: n is what becomes of it.
LEMMA NoteStep ==
    ASSUME Shape, Quietly, Connected, NEW n \in FileDocState,
           note' = [note EXCEPT ![epoch] = n],
           UNCHANGED <<exists, disk, events, idb, epoch, writer, reader, used, removed, raced,
                       ownWrite>>,
           phase' \in {"loading", "loaded", "waiting", "seeding", "synced"},
           seedText' \in Text, inbox' \in InboxState, saving' \in OptText, kept' \in Text,
           diskBase' \in OptText, bridge' \in BridgeState, binds' \in 0..MaxBinds,
           reverted' \in Text, doubled' \in BOOLEAN,
           bridge'.pc # "idle" => phase' \in {"waiting", "seeding", "synced"},
           note[epoch].seeds \subseteq n.seeds,
           Unchanged => phase # "loading" /\ phase' # "loading" /\ ~doubled',
           Unchanged /\ PlainTexts =>
               /\ PlainNote(n) /\ seedText' \in Plain /\ saving' \in OptPlain
               /\ inbox'.add \in Plain /\ inbox'.del = {}
               /\ inbox'.add # {} => StartLines \in inbox'.seeds
               /\ diskBase' \in OptPlain /\ bridge'.got \in Plain,
           Unchanged /\ NothingHere =>
               StartLines \in n.seeds
               \/ /\ BareNote(n) /\ seedText' = {} /\ saving' \in Bare
                  /\ diskBase' \in Bare /\ bridge'.got = {},
           Unchanged /\ FileUnread /\ StartLines # {} =>
               StartLines \in n.seeds
               \/ /\ UnreadNote(n) /\ saving' = None /\ diskBase' = None
                  /\ phase' = "seeding" => seedText' = StartLines
                  /\ bridge'.pc # "idle" => bridge'.got = StartLines
    PROVE  Shape' /\ Quietly'
<1>1. epoch \in Epochs /\ epoch <= epoch
  BY Current DEF Shape, TypeOK
<1>2. /\ note' \in [Epochs -> FileDocState]
      /\ note'[epoch] = n /\ \A d \in Epochs : d # epoch => note'[d] = note[d]
      /\ \A d \in Epochs : d > epoch => note'[d] = NewNote
  BY <1>1, OneNote
<1>3. Connected'
  BY DEF Connected
<1>4. TypeOK'
  BY <1>2 DEF Shape, TypeOK, Phases, BridgeState, InboxState
<1>5. Order'
  BY <1>2, <1>3 DEF Shape, Order, Subscribed, Connected
<1>6. ASSUME Unchanged PROVE PlainTexts'
  <2>1. PlainTexts
    BY <1>6 DEF Quietly
  <2> QED BY <1>2, <1>6, <2>1 DEF PlainTexts
<1>7. Unchanged => LoadsAlone'
  BY DEF LoadsAlone
<1>8. Unchanged => SeedsOf = note[epoch].seeds /\ SeedsOf' = n.seeds
  BY <1>2, <1>3 DEF SeedsOf
<1>9. ASSUME Unchanged, NothingHere, StartLines \notin n.seeds PROVE NothingHere'
  BY <1>2, <1>9 DEF NothingHere
<1>10. ASSUME Unchanged, FileUnread, StartLines # {}, StartLines \notin n.seeds
       PROVE  FileUnread'
  BY <1>2, <1>10 DEF FileUnread
<1>11. Unchanged /\ Untouched /\ StartLines # {} => Untouched' \/ StartLines \in SeedsOf'
  BY <1>8, <1>9, <1>10 DEF Untouched
<1> QED BY <1>4, <1>5, <1>6, <1>7, <1>8, <1>11, QuietStill DEF Shape

\* A text the document has is there as its seed.
LEMMA NotTwice ==
    ASSUME Shape, Quietly, Unchanged, Connected, phase # "loading", NEW text
    PROVE  ~Doubles(note[epoch], text)
<1> SUFFICES ASSUME Doubles(note[epoch], text) PROVE FALSE
  OBVIOUS
<1>1. epoch \in Epochs
  BY Current
<1>2. text # {} /\ text = note[epoch].ytext /\ text \notin note[epoch].seeds
  BY DEF Doubles
<1>3. text = StartLines
  BY <1>1, <1>2 DEF Quietly, PlainTexts, PlainNote, Plain
<1>4. SeedsOf = note[epoch].seeds
  BY DEF SeedsOf
<1>5. note[epoch].ytext = {}
  BY <1>1, <1>2, <1>3, <1>4 DEF Quietly, Seeded, Untouched, NothingHere, FileUnread, BareNote,
     UnreadNote
<1> QED BY <1>2, <1>5

LEMMA StartSyncKeeps ==
    ASSUME Shape, Quietly, StartSync
    PROVE  Shape' /\ Quietly'
<1> DEFINE o == note[epoch]
           n == [o EXCEPT !.idbHadData = o.ytext # {}, !.observer = TRUE, !.writeTimer = TRUE]
<1>1. /\ phase = "loaded" /\ phase' = "waiting"
      /\ UNCHANGED <<exists, disk, events, saving, kept, idb, seedText, epoch, inbox, diskBase,
                     ownWrite, writer, reader, bridge, binds, used, removed, raced, reverted,
                     doubled>>
  BY DEF StartSync, fileVars, bufferVars, taskVars, ghostVars
<1>2. Connected /\ epoch \in Epochs /\ o \in FileDocState
  BY <1>1, Current DEF Connected
<1>3. note' = [note EXCEPT ![epoch] = n]
  BY <1>2 DEF StartSync, Shape, TypeOK
<1>4. /\ n \in FileDocState /\ n.ytext = o.ytext /\ n.seeds = o.seeds
      /\ n.lastSyncedContent = o.lastSyncedContent /\ n.agreedAtConnect = o.agreedAtConnect
      /\ n.hasSyncedOnce = o.hasSyncedOnce /\ n.firstSyncChecked = o.firstSyncChecked
      /\ n.editorActive = o.editorActive /\ n.idbHadData = (o.ytext # {})
  BY <1>2 DEF FileDocState
<1>5. /\ seedText' \in Text /\ inbox' \in InboxState /\ saving' \in OptText /\ kept' \in Text
      /\ diskBase' \in OptText /\ bridge' \in BridgeState /\ binds' \in 0..MaxBinds
      /\ reverted' \in Text /\ doubled' \in BOOLEAN
  BY <1>1 DEF Shape, TypeOK, InboxState, BridgeState
<1>6. Unchanged => ~doubled' /\ phase # "loading" /\ phase' # "loading"
  BY <1>1 DEF Quietly
<1> HIDE DEF n
<1>7. ASSUME Unchanged, PlainTexts
      PROVE  /\ PlainNote(n) /\ seedText' \in Plain /\ saving' \in OptPlain
             /\ inbox'.add \in Plain /\ inbox'.del = {}
             /\ inbox'.add # {} => StartLines \in inbox'.seeds
             /\ diskBase' \in OptPlain /\ bridge'.got \in Plain
  BY <1>1, <1>2, <1>4, <1>7 DEF PlainTexts, PlainNote
<1>8. ASSUME Unchanged, NothingHere
      PROVE  /\ BareNote(n) /\ seedText' = {} /\ saving' \in Bare
             /\ diskBase' \in Bare /\ bridge'.got = {}
  BY <1>1, <1>2, <1>4, <1>8 DEF NothingHere, BareNote
<1>9. ASSUME Unchanged, FileUnread
      PROVE  /\ UnreadNote(n) /\ saving' = None /\ diskBase' = None
             /\ bridge'.pc # "idle" => bridge'.got = StartLines
  BY <1>1, <1>2, <1>4, <1>9 DEF FileUnread, UnreadNote
<1>10. bridge'.pc # "idle" => phase' \in {"waiting", "seeding", "synced"}
  BY <1>1
<1> QED BY <1>1, <1>2, <1>3, <1>4, <1>5, <1>6, <1>7, <1>8, <1>9, <1>10, NoteStep

LEMMA CatchUpKeeps ==
    ASSUME Shape, Quietly, CatchUp
    PROVE  Shape' /\ Quietly'
<1> DEFINE o == note[epoch]
           text == (o.ytext \ inbox.del) \cup inbox.add
           t == SetText(o, text)
           caught == [t EXCEPT !.seeds = @ \cup inbox.seeds]
           reads == caught.ytext = {} /\ exists /\ disk # {}
           n == IF reads THEN caught ELSE Confirmed(caught)
<1>1. /\ phase = "waiting" /\ phase' = (IF reads THEN "seeding" ELSE "synced")
      /\ seedText' = (IF reads THEN disk ELSE seedText)
      /\ note' = [note EXCEPT ![epoch] = n]
      /\ inbox' = [add |-> {}, del |-> {}, seeds |-> {}]
      /\ DoublesIf(\E s \in inbox.seeds : Doubles(o, s))
      /\ UNCHANGED <<exists, disk, events, saving, kept, idb, epoch, diskBase,
                     ownWrite, writer, reader, bridge, binds, used, removed, raced, reverted>>
  BY DEF CatchUp, fileVars, bufferVars, taskVars
<1>2. Connected /\ epoch \in Epochs /\ o \in FileDocState /\ o.seeds \in SUBSET Text
  BY <1>1, Current DEF Connected
<1>3. text \in Text /\ inbox.seeds \in SUBSET Text
  BY <1>2 DEF Shape, TypeOK, FileDocState, Text
<1>4. Kin(o, t) /\ t.ytext = text /\ t.seeds = o.seeds /\ t \in FileDocState
  <2> HIDE DEF o, text
  <2> QED BY <1>2, <1>3, SetTextKin DEF Kin
<1>5. /\ caught \in FileDocState /\ caught.ytext = text /\ caught.seeds = o.seeds \cup inbox.seeds
      /\ Kin(t, caught)
  <2> HIDE DEF t, text
  <2> QED BY <1>2, <1>3, <1>4 DEF FileDocState, Kin
<1> HIDE DEF caught, text
<1>6. /\ n \in FileDocState /\ n.ytext = text /\ n.seeds = o.seeds \cup inbox.seeds
      /\ n.lastSyncedContent = o.lastSyncedContent /\ n.agreedAtConnect = o.agreedAtConnect
  <2> HIDE DEF o, t, reads
  <2> QED BY <1>4, <1>5, ConfirmedKin DEF Kin
<1>7. /\ seedText' \in Text /\ inbox' \in InboxState /\ saving' \in OptText /\ kept' \in Text
      /\ diskBase' \in OptText /\ bridge' \in BridgeState /\ binds' \in 0..MaxBinds
      /\ reverted' \in Text /\ doubled' \in BOOLEAN
  BY <1>1, Texts DEF Shape, TypeOK, InboxState, BridgeState, DoublesIf
<1>8. Unchanged => ~doubled' /\ phase # "loading" /\ phase' # "loading"
  BY <1>1, <1>2, NotTwice DEF Quietly, DoublesIf
<1>9. ASSUME Unchanged, PlainTexts
      PROVE  /\ text \in {o.ytext, StartLines}
             /\ text = o.ytext \/ StartLines \in n.seeds
             /\ o.ytext \in Plain
  BY <1>2, <1>6, <1>9 DEF text, PlainTexts, PlainNote, Plain
<1> HIDE DEF n
<1>10. ASSUME Unchanged, PlainTexts
       PROVE  /\ PlainNote(n) /\ seedText' \in Plain /\ saving' \in OptPlain
              /\ inbox'.add \in Plain /\ inbox'.del = {}
              /\ inbox'.add # {} => StartLines \in inbox'.seeds
              /\ diskBase' \in OptPlain /\ bridge'.got \in Plain
  BY <1>1, <1>2, <1>6, <1>9, <1>10 DEF PlainTexts, PlainNote, Plain
<1>11. ASSUME Unchanged, PlainTexts, NothingHere, StartLines \notin n.seeds
       PROVE  /\ BareNote(n) /\ seedText' = {} /\ saving' \in Bare
              /\ diskBase' \in Bare /\ bridge'.got = {}
  BY <1>1, <1>2, <1>6, <1>9, <1>11 DEF NothingHere, BareNote
<1>12. ASSUME Unchanged, PlainTexts, FileUnread, StartLines # {}, StartLines \notin n.seeds
       PROVE  /\ UnreadNote(n) /\ saving' = None /\ diskBase' = None
              /\ phase' = "seeding" => seedText' = StartLines
              /\ bridge'.pc # "idle" => bridge'.got = StartLines
  <2>1. UnreadNote(o) /\ text = {} /\ exists /\ disk = StartLines
    BY <1>2, <1>9, <1>12 DEF FileUnread, UnreadNote
  <2>2. n = caught /\ seedText' = StartLines
    BY <1>1, <1>5, <1>12, <2>1 DEF n
  <2>3. UnreadNote(n)
    BY <1>4, <1>5, <2>1, <2>2 DEF Kin, UnreadNote
  <2> QED BY <1>1, <1>12, <2>2, <2>3 DEF FileUnread
<1>13. bridge'.pc # "idle" => phase' \in {"waiting", "seeding", "synced"}
  BY <1>1
<1>14. Unchanged => PlainTexts
  BY DEF Quietly
<1>15. phase' \in {"loading", "loaded", "waiting", "seeding", "synced"} /\ o.seeds \subseteq n.seeds
  BY <1>1, <1>6
<1> HIDE DEF reads
<1> QED BY <1>1, <1>2, <1>6, <1>7, <1>8, <1>10, <1>11, <1>12, <1>13, <1>14, <1>15, NoteStep

LEMMA SeedIfEmptyKeeps ==
    ASSUME Shape, Quietly, SeedIfEmpty
    PROVE  Shape' /\ Quietly'
<1> DEFINE o == note[epoch]
<1>1. /\ phase = "seeding" /\ phase' = "synced" /\ seedText' = {}
      /\ UNCHANGED <<exists, disk, events, saving, kept, idb, epoch, inbox, diskBase, ownWrite,
                     writer, reader, bridge, binds, used, removed, raced, reverted>>
  BY DEF SeedIfEmpty, fileVars, bufferVars, taskVars
<1>2. Connected /\ epoch \in Epochs /\ o \in FileDocState /\ seedText \in Text /\ {} \in Text
  BY <1>1, Current, Texts DEF Connected, Shape, TypeOK
<1>3. \E m \in FileDocState :
        /\ note' = [note EXCEPT ![epoch] = Confirmed(m)] /\ Kin(o, m)
        /\ \/ m.ytext \in {o.ytext, o.ytext \cup seedText} /\ m.seeds = o.seeds \cup {seedText}
           \/ m = o /\ o.ytext # {}
        /\ DoublesIf(Doubles(o, seedText)) \/ doubled' = doubled
  <2>1. CASE /\ note' = [note EXCEPT ![epoch] = Confirmed(SeedDocument(o, seedText))]
             /\ DoublesIf(Doubles(o, seedText))
    <3> DEFINE m == SeedDocument(o, seedText)
    <3>1. /\ Kin(o, m) /\ m.ytext \in {o.ytext, o.ytext \cup seedText}
          /\ m.seeds = o.seeds \cup {seedText}
      <4> HIDE DEF o
      <4> QED BY <1>2, SeedKin
    <3>2. m \in FileDocState
      BY <3>1 DEF Kin
    <3> HIDE DEF m, o
    <3> QED BY <2>1, <3>1, <3>2 DEF m
  <2>2. CASE o.ytext # {} /\ note' = [note EXCEPT ![epoch] = Confirmed(o)] /\ UNCHANGED doubled
    <3>1. Kin(o, o)
      BY <1>2 DEF Kin
    <3> HIDE DEF o
    <3> QED BY <1>2, <2>2, <3>1
  <2>3. \/ /\ note' = [note EXCEPT ![epoch] = Confirmed(SeedDocument(o, seedText))]
           /\ DoublesIf(Doubles(o, seedText))
        \/ o.ytext # {} /\ note' = [note EXCEPT ![epoch] = Confirmed(o)] /\ UNCHANGED doubled
    BY <1>2 DEF SeedIfEmpty, Shape, TypeOK
  <2> QED BY <2>1, <2>2, <2>3
<1>4. PICK m \in FileDocState :
        /\ note' = [note EXCEPT ![epoch] = Confirmed(m)] /\ Kin(o, m)
        /\ \/ m.ytext \in {o.ytext, o.ytext \cup seedText} /\ m.seeds = o.seeds \cup {seedText}
           \/ m = o /\ o.ytext # {}
        /\ DoublesIf(Doubles(o, seedText)) \/ doubled' = doubled
  BY <1>3
<1> DEFINE n == Confirmed(m)
<1>5. /\ n \in FileDocState /\ n.ytext = m.ytext /\ n.seeds = m.seeds
      /\ n.lastSyncedContent = o.lastSyncedContent /\ n.agreedAtConnect = o.agreedAtConnect
  BY <1>4, ConfirmedKin DEF Kin
<1>6. /\ seedText' \in Text /\ inbox' \in InboxState /\ saving' \in OptText /\ kept' \in Text
      /\ diskBase' \in OptText /\ bridge' \in BridgeState /\ binds' \in 0..MaxBinds
      /\ reverted' \in Text /\ doubled' \in BOOLEAN
  BY <1>1, <1>2, <1>4 DEF Shape, TypeOK, InboxState, BridgeState, DoublesIf
<1>7. Unchanged => ~doubled' /\ phase # "loading" /\ phase' # "loading"
  BY <1>1, <1>2, <1>4, NotTwice DEF Quietly, DoublesIf
<1>8. note' = [note EXCEPT ![epoch] = n] /\ o.seeds \subseteq n.seeds
  BY <1>4, <1>5
<1> HIDE DEF n
<1>9. ASSUME Unchanged, PlainTexts
      PROVE  /\ PlainNote(n) /\ seedText' \in Plain /\ saving' \in OptPlain
             /\ inbox'.add \in Plain /\ inbox'.del = {}
             /\ inbox'.add # {} => StartLines \in inbox'.seeds
             /\ diskBase' \in OptPlain /\ bridge'.got \in Plain
  <2>1. PlainNote(o) /\ seedText \in Plain
    BY <1>2, <1>9 DEF PlainTexts
  <2>2. PlainNote(n)
    BY <1>4, <1>5, <2>1 DEF PlainNote, Plain
  <2> QED BY <1>1, <1>9, <2>2 DEF PlainTexts, Plain
<1>10. ASSUME Unchanged, NothingHere
       PROVE  /\ BareNote(n) /\ seedText' = {} /\ saving' \in Bare
              /\ diskBase' \in Bare /\ bridge'.got = {}
  <2>1. BareNote(o) /\ seedText = {}
    BY <1>2, <1>10 DEF NothingHere
  <2>2. BareNote(n)
    BY <1>4, <1>5, <2>1 DEF BareNote
  <2> QED BY <1>1, <1>10, <2>2 DEF NothingHere
<1>11. ASSUME Unchanged, FileUnread PROVE StartLines \in n.seeds
  BY <1>1, <1>2, <1>4, <1>5, <1>11 DEF FileUnread, UnreadNote
<1>12. bridge'.pc # "idle" => phase' \in {"waiting", "seeding", "synced"}
  BY <1>1
<1> QED BY <1>1, <1>2, <1>5, <1>6, <1>7, <1>8, <1>9, <1>10, <1>11, <1>12, NoteStep

LEMMA StartBindKeeps ==
    ASSUME Shape, Quietly, StartBind
    PROVE  Shape' /\ Quietly'
<1> DEFINE o == note[epoch]
<1>1. /\ Subscribed /\ saving = None /\ binds < MaxBinds /\ binds' = binds + 1
      /\ bridge' = [pc |-> "reconcile", got |-> disk]
      /\ UNCHANGED <<exists, disk, events, saving, kept, idb, phase, seedText, epoch, inbox,
                     note, diskBase, ownWrite, writer, reader, used, removed, raced, reverted,
                     doubled>>
  BY DEF StartBind, fileVars, connVars, bufferVars, ghostVars
<1>2. Connected /\ phase \in {"waiting", "seeding", "synced"}
  BY <1>1 DEF Connected, Subscribed
<1>3. epoch \in Epochs /\ o \in FileDocState /\ note' = [note EXCEPT ![epoch] = o]
  BY <1>1, <1>2, Current DEF Shape, TypeOK
<1>4. /\ seedText' \in Text /\ inbox' \in InboxState /\ saving' \in OptText /\ kept' \in Text
      /\ diskBase' \in OptText /\ bridge' \in BridgeState /\ binds' \in 0..MaxBinds
      /\ reverted' \in Text /\ doubled' \in BOOLEAN
  BY <1>1, BoundsAssumption DEF Shape, TypeOK, InboxState, BridgeState
<1>5. Unchanged => ~doubled' /\ phase # "loading" /\ phase' # "loading"
  BY <1>1, <1>2 DEF Quietly
<1>6. ASSUME Unchanged, PlainTexts
      PROVE  /\ PlainNote(o) /\ seedText' \in Plain /\ saving' \in OptPlain
             /\ inbox'.add \in Plain /\ inbox'.del = {}
             /\ inbox'.add # {} => StartLines \in inbox'.seeds
             /\ diskBase' \in OptPlain /\ bridge'.got \in Plain
  BY <1>1, <1>3, <1>6 DEF PlainTexts
<1>7. ASSUME Unchanged, NothingHere
      PROVE  /\ BareNote(o) /\ seedText' = {} /\ saving' \in Bare
             /\ diskBase' \in Bare /\ bridge'.got = {}
  BY <1>1, <1>3, <1>7 DEF NothingHere
<1>8. ASSUME Unchanged, FileUnread
      PROVE  /\ UnreadNote(o) /\ saving' = None /\ diskBase' = None
             /\ phase' = "seeding" => seedText' = StartLines
             /\ bridge'.pc # "idle" => bridge'.got = StartLines
  BY <1>1, <1>3, <1>8 DEF FileUnread
<1> HIDE DEF o
<1> QED BY <1>1, <1>2, <1>3, <1>4, <1>5, <1>6, <1>7, <1>8, NoteStep DEF o

LEMMA Bridging ==
    ASSUME Shape, bridge.pc # "idle"
    PROVE  /\ Connected /\ phase \in {"waiting", "seeding", "synced"} /\ phase # "loading"
           /\ epoch \in Epochs /\ note[epoch] \in FileDocState /\ bridge.got \in Text
<1>1. Subscribed
  BY DEF Shape, Order
<1>2. Connected /\ phase \in {"waiting", "seeding", "synced"}
  BY <1>1 DEF Subscribed, Connected
<1> QED BY <1>2, Current DEF Shape, TypeOK

LEMMA ReconcileFromDiskKeeps ==
    ASSUME Shape, Quietly, ReconcileFromDisk
    PROVE  Shape' /\ Quietly'
<1> DEFINE o == note[epoch]
           got == bridge.got
           m == [SetText(o, got) EXCEPT !.lastSyncedContent = got]
<1>1. /\ bridge.pc = "reconcile"
      /\ UNCHANGED <<exists, disk, events, saving, idb, phase, seedText, epoch, inbox, diskBase,
                     ownWrite, writer, reader, binds, used, removed, raced, doubled>>
  BY DEF ReconcileFromDisk, fileVars, connVars, bufferVars
<1>2. /\ Connected /\ phase \in {"waiting", "seeding", "synced"} /\ phase # "loading"
      /\ epoch \in Epochs /\ o \in FileDocState /\ got \in Text
  BY <1>1, Bridging
<1>3. /\ m \in FileDocState /\ m.ytext = got /\ m.seeds = o.seeds
      /\ m.lastSyncedContent = got /\ m.agreedAtConnect = o.agreedAtConnect
  <2> DEFINE t == SetText(o, got)
  <2>1. Kin(o, t) /\ t.ytext = got /\ t.seeds = o.seeds /\ t \in FileDocState
    <3> HIDE DEF o, got
    <3> QED BY <1>2, SetTextKin DEF Kin
  <2> HIDE DEF t
  <2>2. [t EXCEPT !.lastSyncedContent = got] = m
    BY DEF t
  <2>3. got \in OptText
    BY <1>2 DEF OptText
  <2> HIDE DEF m, o
  <2> QED BY <2>1, <2>2, <2>3 DEF Kin, FileDocState
<1>4. \/ /\ note' = [note EXCEPT ![epoch] = m] /\ got # o.ytext /\ Adopts(o, got)
         /\ bridge' = [pc |-> "binding", got |-> disk]
         /\ reverted' = reverted \cup (o.ytext \ got) /\ UNCHANGED kept
      \/ /\ note' = [note EXCEPT ![epoch] = o] /\ UNCHANGED reverted
         /\ \/ bridge' = [bridge EXCEPT !.pc = "seed"] /\ UNCHANGED kept
            \/ bridge' = [pc |-> "binding", got |-> disk] /\ (BackedUp(got) \/ UNCHANGED kept)
  BY <1>2 DEF ReconcileFromDisk, Shape, TypeOK
<1> HIDE DEF m
<1>5. PICK n \in {m, o} :
        /\ note' = [note EXCEPT ![epoch] = n]
        /\ n = o \/ (got # o.ytext /\ Adopts(o, got))
  BY <1>4
<1>6. /\ n \in FileDocState /\ n.seeds = o.seeds
      /\ n.agreedAtConnect = o.agreedAtConnect
      /\ n = o \/ (n.ytext = got /\ n.lastSyncedContent = got)
  BY <1>2, <1>3, <1>5
<1>7. /\ kept' \in Text /\ reverted' \in Text /\ bridge' \in BridgeState
      /\ bridge'.got \in {got, disk}
  <2>1. BackedUp(got) => kept' \in Text
    BY <1>2, Backups
  <2>2. o.ytext \in Text /\ disk \in Text /\ kept \in Text /\ reverted \in Text
    BY <1>2, Noted DEF Shape, TypeOK
  <2>3. reverted \cup (o.ytext \ got) \in Text
    BY <2>2 DEF Text
  <2>4. bridge' \in BridgeState /\ bridge'.got \in {got, disk}
    <3>1. bridge' = [bridge EXCEPT !.pc = "seed"] \/ bridge' = [pc |-> "binding", got |-> disk]
      BY <1>4
    <3> QED BY <2>2, <3>1 DEF BridgeState, Shape, TypeOK
  <2>5. kept' \in Text /\ reverted' \in Text
    BY <1>4, <2>1, <2>2, <2>3
  <2> QED BY <2>4, <2>5
<1>8. /\ seedText' \in Text /\ inbox' \in InboxState /\ saving' \in OptText
      /\ diskBase' \in OptText /\ binds' \in 0..MaxBinds /\ doubled' \in BOOLEAN
  BY <1>1 DEF Shape, TypeOK, InboxState
<1>9. Unchanged => ~doubled' /\ phase # "loading" /\ phase' # "loading"
  BY <1>1, <1>2 DEF Quietly
<1>10. ASSUME Unchanged, PlainTexts
       PROVE  /\ PlainNote(n) /\ seedText' \in Plain /\ saving' \in OptPlain
              /\ inbox'.add \in Plain /\ inbox'.del = {}
              /\ inbox'.add # {} => StartLines \in inbox'.seeds
              /\ diskBase' \in OptPlain /\ bridge'.got \in Plain
  <2>1. PlainNote(o) /\ got \in Plain /\ disk \in Plain
    BY <1>2, <1>10 DEF PlainTexts
  <2>2. PlainNote(n)
    BY <1>6, <2>1 DEF PlainNote, Plain, OptPlain
  <2> QED BY <1>1, <1>7, <1>10, <2>1, <2>2 DEF PlainTexts
<1>11. ASSUME Unchanged, NothingHere
       PROVE  /\ BareNote(n) /\ seedText' = {} /\ saving' \in Bare
              /\ diskBase' \in Bare /\ bridge'.got = {}
  <2>1. BareNote(o) /\ got = {} /\ disk = {}
    BY <1>2, <1>11 DEF NothingHere
  <2>2. n = o
    BY <1>5, <2>1 DEF BareNote
  <2> QED BY <1>1, <1>7, <1>11, <2>1, <2>2 DEF NothingHere
<1>12. ASSUME Unchanged, FileUnread, StartLines # {}
       PROVE  /\ UnreadNote(n) /\ saving' = None /\ diskBase' = None
              /\ phase' = "seeding" => seedText' = StartLines
              /\ bridge'.pc # "idle" => bridge'.got = StartLines
  <2>1. UnreadNote(o) /\ got = StartLines /\ disk = StartLines
    BY <1>1, <1>2, <1>12 DEF FileUnread
  <2>2. n = o
    BY <1>5, <2>1 DEF UnreadNote, Adopts
  <2> QED BY <1>1, <1>7, <1>12, <2>1, <2>2 DEF FileUnread
<1>13. bridge'.pc # "idle" => phase' \in {"waiting", "seeding", "synced"}
  BY <1>1, <1>2
<1>14. phase' \in {"loading", "loaded", "waiting", "seeding", "synced"} /\ o.seeds \subseteq n.seeds
  BY <1>1, <1>2, <1>6
<1> HIDE DEF o, got
<1> QED BY <1>1, <1>2, <1>5, <1>6, <1>7, <1>8, <1>9, <1>10, <1>11, <1>12, <1>13, <1>14,
           NoteStep DEF o

LEMMA ReconcileSeedKeeps ==
    ASSUME Shape, Quietly, ReconcileSeed
    PROVE  Shape' /\ Quietly'
<1> DEFINE o == note[epoch]
           got == bridge.got
           s == SeedDocument(o, got)
           n == IF got \in o.seeds THEN o ELSE [s EXCEPT !.lastSyncedContent = got]
<1>1. /\ bridge.pc = "seed" /\ bridge' = [pc |-> "binding", got |-> disk]
      /\ DoublesIf(Doubles(o, got))
      /\ UNCHANGED <<exists, disk, events, saving, kept, idb, phase, seedText, epoch, inbox,
                     diskBase, ownWrite, writer, reader, binds, used, removed, raced, reverted>>
  BY DEF ReconcileSeed, fileVars, connVars, bufferVars
<1>2. /\ Connected /\ phase \in {"waiting", "seeding", "synced"} /\ phase # "loading"
      /\ epoch \in Epochs /\ o \in FileDocState /\ got \in Text
  BY <1>1, Bridging
<1>3. note' = [note EXCEPT ![epoch] = n]
  BY <1>2 DEF ReconcileSeed, Shape, TypeOK
<1>4. /\ n \in FileDocState /\ n.ytext \in {o.ytext, o.ytext \cup got}
      /\ n.seeds = o.seeds \cup {got}
      /\ n.lastSyncedContent \in {o.lastSyncedContent, got}
      /\ n.agreedAtConnect = o.agreedAtConnect
  <2>1. /\ Kin(o, s) /\ s.ytext \in {o.ytext, o.ytext \cup got} /\ s.seeds = o.seeds \cup {got}
        /\ s \in FileDocState
    <3> HIDE DEF o, got
    <3> QED BY <1>2, SeedKin DEF Kin
  <2>2. got \in OptText
    BY <1>2 DEF OptText
  <2> HIDE DEF s, o, got
  <2> QED BY <1>2, <2>1, <2>2 DEF Kin, FileDocState
<1>5. /\ seedText' \in Text /\ inbox' \in InboxState /\ saving' \in OptText /\ kept' \in Text
      /\ diskBase' \in OptText /\ bridge' \in BridgeState /\ binds' \in 0..MaxBinds
      /\ reverted' \in Text /\ doubled' \in BOOLEAN
  BY <1>1 DEF Shape, TypeOK, InboxState, BridgeState, DoublesIf
<1>6. Unchanged => ~doubled' /\ phase # "loading" /\ phase' # "loading"
  BY <1>1, <1>2, NotTwice DEF Quietly, DoublesIf
<1> HIDE DEF n
<1>7. ASSUME Unchanged, PlainTexts
      PROVE  /\ PlainNote(n) /\ seedText' \in Plain /\ saving' \in OptPlain
             /\ inbox'.add \in Plain /\ inbox'.del = {}
             /\ inbox'.add # {} => StartLines \in inbox'.seeds
             /\ diskBase' \in OptPlain /\ bridge'.got \in Plain
  <2>1. PlainNote(o) /\ got \in Plain
    BY <1>2, <1>7 DEF PlainTexts
  <2>2. PlainNote(n)
    BY <1>4, <2>1 DEF PlainNote, Plain, OptPlain
  <2> QED BY <1>1, <1>7, <2>2 DEF PlainTexts
<1>8. ASSUME Unchanged, NothingHere
      PROVE  /\ BareNote(n) /\ seedText' = {} /\ saving' \in Bare
             /\ diskBase' \in Bare /\ bridge'.got = {}
  <2>1. BareNote(o) /\ got = {}
    BY <1>2, <1>8 DEF NothingHere
  <2>2. BareNote(n)
    BY <1>4, <2>1 DEF BareNote, Bare
  <2> QED BY <1>1, <1>8, <2>2 DEF NothingHere
<1>9. ASSUME Unchanged, FileUnread PROVE StartLines \in n.seeds
  BY <1>1, <1>4, <1>9 DEF FileUnread
<1>10. o.seeds \subseteq n.seeds
  BY <1>4
<1> HIDE DEF o, got
<1> QED BY <1>1, <1>2, <1>3, <1>4, <1>5, <1>6, <1>7, <1>8, <1>9, <1>10, NoteStep DEF o

LEMMA BindKeeps ==
    ASSUME Shape, Quietly, Bind
    PROVE  Shape' /\ Quietly'
<1> DEFINE o == note[epoch]
           got == bridge.got
           seeds == o.ytext = {} /\ got # {}
           full == IF seeds THEN SeedDocument(o, got) ELSE o
           n == [full EXCEPT !.editorActive = TRUE, !.writeTimer = FALSE]
<1>1. /\ bridge.pc = "binding" /\ bridge' = IdleBridge /\ diskBase' = None
      /\ note' = [note EXCEPT ![epoch] = n]
      /\ UNCHANGED <<exists, disk, events, saving, kept, idb, phase, seedText, epoch, inbox,
                     ownWrite, writer, reader, binds, used, removed, raced, reverted, doubled>>
  BY DEF Bind, fileVars, connVars, ghostVars
<1>2. /\ Connected /\ phase \in {"waiting", "seeding", "synced"} /\ phase # "loading"
      /\ epoch \in Epochs /\ o \in FileDocState /\ got \in Text
  BY <1>1, Bridging
<1>3. /\ full \in FileDocState /\ Kin(o, full) /\ full.ytext \in {o.ytext, o.ytext \cup got}
      /\ full = o \/ (seeds /\ full.seeds = o.seeds \cup {got})
  <2>1. CASE seeds
    <3> DEFINE s == SeedDocument(o, got)
    <3>1. /\ Kin(o, s) /\ s.ytext \in {o.ytext, o.ytext \cup got} /\ s.seeds = o.seeds \cup {got}
          /\ s \in FileDocState
      <4> HIDE DEF o, got
      <4> QED BY <1>2, SeedKin DEF Kin
    <3>2. full = s
      BY <2>1
    <3> HIDE DEF s, full, o, got, seeds
    <3> QED BY <2>1, <3>1, <3>2
  <2>2. CASE ~seeds
    <3>1. full = o /\ Kin(o, o)
      BY <1>2, <2>2 DEF Kin
    <3> HIDE DEF full, o
    <3> QED BY <1>2, <3>1
  <2> QED BY <2>1, <2>2
<1> HIDE DEF full
<1>4. /\ n \in FileDocState /\ n.ytext = full.ytext /\ n.seeds = full.seeds
      /\ n.lastSyncedContent = full.lastSyncedContent
      /\ n.agreedAtConnect = full.agreedAtConnect
  BY <1>3 DEF FileDocState
<1> HIDE DEF n
<1>5. /\ n.lastSyncedContent = o.lastSyncedContent /\ n.agreedAtConnect = o.agreedAtConnect
      /\ o.seeds \subseteq n.seeds /\ n.ytext \in {o.ytext, o.ytext \cup got}
  BY <1>3, <1>4 DEF Kin
<1>6. /\ seedText' \in Text /\ inbox' \in InboxState /\ saving' \in OptText /\ kept' \in Text
      /\ diskBase' \in OptText /\ bridge' \in BridgeState /\ binds' \in 0..MaxBinds
      /\ reverted' \in Text /\ doubled' \in BOOLEAN /\ bridge'.pc = "idle" /\ bridge'.got = {}
  BY <1>1, Texts DEF Shape, TypeOK, InboxState, BridgeState, IdleBridge, OptText
<1>7. Unchanged => ~doubled' /\ phase # "loading" /\ phase' # "loading"
  BY <1>1, <1>2 DEF Quietly
<1>8. ASSUME Unchanged, PlainTexts
      PROVE  /\ PlainNote(n) /\ seedText' \in Plain /\ saving' \in OptPlain
             /\ inbox'.add \in Plain /\ inbox'.del = {}
             /\ inbox'.add # {} => StartLines \in inbox'.seeds
             /\ diskBase' \in OptPlain /\ bridge'.got \in Plain
  <2>1. PlainNote(o) /\ got \in Plain
    BY <1>2, <1>8 DEF PlainTexts
  <2>2. PlainNote(n)
    BY <1>5, <2>1 DEF PlainNote, Plain, OptPlain
  <2> QED BY <1>1, <1>6, <1>8, <2>2 DEF PlainTexts, Plain, OptPlain
<1>9. ASSUME Unchanged, NothingHere
      PROVE  /\ BareNote(n) /\ seedText' = {} /\ saving' \in Bare
             /\ diskBase' \in Bare /\ bridge'.got = {}
  <2>1. BareNote(o) /\ got = {}
    BY <1>2, <1>9 DEF NothingHere
  <2>2. BareNote(n)
    BY <1>5, <2>1 DEF BareNote, Bare
  <2> QED BY <1>1, <1>6, <1>9, <2>2 DEF NothingHere, Bare
<1>10. ASSUME Unchanged, FileUnread, StartLines # {} PROVE StartLines \in n.seeds
  <2>1. seeds /\ got = StartLines
    BY <1>1, <1>2, <1>10 DEF FileUnread, UnreadNote
  <2>2. full = SeedDocument(o, got)
    BY <2>1 DEF full
  <2>3. SeedDocument(o, got).seeds = o.seeds \cup {got}
    <3> HIDE DEF o, got
    <3> QED BY <1>2, SeedKin
  <2> HIDE DEF o, got
  <2> QED BY <1>4, <2>1, <2>2, <2>3
<1>11. bridge'.pc # "idle" => phase' \in {"waiting", "seeding", "synced"}
  BY <1>6
<1>12. o.seeds \subseteq n.seeds /\ phase' \in {"loading", "loaded", "waiting", "seeding", "synced"}
  BY <1>1, <1>2, <1>5
<1> HIDE DEF o, got, seeds
<1> QED BY <1>1, <1>2, <1>4, <1>6, <1>7, <1>8, <1>9, <1>10, <1>11, <1>12, NoteStep DEF o

LEMMA ReleaseKeeps ==
    ASSUME Shape, Quietly, Release
    PROVE  Shape' /\ Quietly'
<1> DEFINE o == note[epoch]
           n == [o EXCEPT !.editorActive = FALSE, !.writeTimer = TRUE]
<1>1. /\ Connected /\ o.editorActive /\ diskBase' = o.ytext
      /\ saving' = IF o.ytext # disk THEN o.ytext ELSE None
      /\ UNCHANGED <<exists, disk, events, kept, idb, phase, seedText, epoch, inbox,
                     ownWrite, writer, reader, bridge, binds, used, removed, raced, reverted,
                     doubled>>
  BY DEF Release, Bound, connVars, taskVars, ghostVars
<1>2. epoch \in Epochs /\ o \in FileDocState /\ o.ytext \in Text
  BY <1>1, Current
<1>3. note' = [note EXCEPT ![epoch] = n]
  BY <1>2 DEF Release, Shape, TypeOK
<1>4. /\ n \in FileDocState /\ n.ytext = o.ytext /\ n.seeds = o.seeds
      /\ n.lastSyncedContent = o.lastSyncedContent /\ n.agreedAtConnect = o.agreedAtConnect
  BY <1>2 DEF FileDocState
<1> HIDE DEF n
<1>5. /\ seedText' \in Text /\ inbox' \in InboxState /\ saving' \in OptText /\ kept' \in Text
      /\ diskBase' \in OptText /\ bridge' \in BridgeState /\ binds' \in 0..MaxBinds
      /\ reverted' \in Text /\ doubled' \in BOOLEAN
  BY <1>1, <1>2 DEF Shape, TypeOK, InboxState, BridgeState, OptText
<1>6. Unchanged => ~doubled' /\ phase # "loading" /\ phase' # "loading"
  BY <1>1 DEF Quietly, LoadsAlone
<1>7. ASSUME Unchanged, PlainTexts
      PROVE  /\ PlainNote(n) /\ seedText' \in Plain /\ saving' \in OptPlain
             /\ inbox'.add \in Plain /\ inbox'.del = {}
             /\ inbox'.add # {} => StartLines \in inbox'.seeds
             /\ diskBase' \in OptPlain /\ bridge'.got \in Plain
  BY <1>1, <1>2, <1>4, <1>7 DEF PlainTexts, PlainNote, Plain, OptPlain
<1>8. ASSUME Unchanged, NothingHere
      PROVE  /\ BareNote(n) /\ seedText' = {} /\ saving' \in Bare
             /\ diskBase' \in Bare /\ bridge'.got = {}
  BY <1>1, <1>2, <1>4, <1>8 DEF NothingHere, BareNote, Bare
<1>9. ~FileUnread
  BY <1>1, <1>2 DEF FileUnread, UnreadNote
<1>10. bridge'.pc # "idle" => phase' \in {"waiting", "seeding", "synced"}
  BY <1>1 DEF Shape, Order, Subscribed
<1>11. o.seeds \subseteq n.seeds /\ phase' \in {"loading", "loaded", "waiting", "seeding", "synced"}
  BY <1>1, <1>4 DEF Connected
<1> HIDE DEF o
<1> QED BY <1>1, <1>3, <1>4, <1>5, <1>6, <1>7, <1>8, <1>9, <1>10, <1>11, NoteStep DEF o

(***************************************************************************)
(* Edits: once there is one, nothing more is claimed.                      *)
(***************************************************************************)
LEMMA EditsEnd ==
    ASSUME NEW l,
           \/ l \in LocalLines \cup RemoteLines /\ used' = used \cup {l}
           \/ removed' = removed \cup {l}
    PROVE  Quietly'
BY LinesAssumption DEF Quietly, Unchanged

LEMMA MayWrite ==
    /\ Writable(LocalLines) \subseteq LocalLines /\ LocalLines \subseteq Lines
    /\ Writable(RemoteLines) \subseteq RemoteLines /\ RemoteLines \subseteq Lines
    /\ Removable \subseteq Lines
BY DEF Writable, Removable, Lines

\* A line enters or leaves the document.
LEMMA LineStep ==
    ASSUME Shape, Connected, NEW text \in Text,
           note' = [note EXCEPT ![epoch] = SetText(@, text)],
           UNCHANGED <<exists, disk, events, saving, kept, idb, phase, seedText, epoch, inbox,
                       diskBase, ownWrite, writer, reader, bridge, binds, raced, reverted,
                       doubled>>,
           used' \in Text, removed' \in Text
    PROVE  Shape'
<1> DEFINE n == SetText(note[epoch], text)
<1>1. epoch \in Epochs /\ epoch <= epoch /\ note[epoch] \in FileDocState
  BY Current DEF Shape, TypeOK
<1>2. n \in FileDocState
  BY <1>1, SetTextKin DEF Kin
<1>3. note' = [note EXCEPT ![epoch] = n]
  BY <1>1 DEF Shape, TypeOK
<1> HIDE DEF n
<1>4. /\ note' \in [Epochs -> FileDocState]
      /\ \A d \in Epochs : d > epoch => note'[d] = NewNote
  BY <1>1, <1>2, <1>3, OneNote
<1>5. TypeOK'
  BY <1>4 DEF Shape, TypeOK
<1>6. Order'
  BY <1>4 DEF Shape, Order, Connected, Subscribed
<1> QED BY <1>5, <1>6 DEF Shape

LEMMA EditorEditKeeps ==
    ASSUME Shape, Quietly, EditorEdit
    PROVE  Shape' /\ Quietly'
<1>1. /\ Connected
      /\ UNCHANGED <<exists, disk, events, saving, kept, idb, phase, seedText, epoch, inbox,
                     diskBase, ownWrite, writer, reader, bridge, binds, raced, reverted,
                     doubled>>
  BY DEF EditorEdit, Bound, fileVars, connVars, bufferVars, taskVars
<1>2. epoch \in Epochs /\ note[epoch].ytext \in Text /\ used \in Text /\ removed \in Text
  BY <1>1, Current DEF Shape, TypeOK
<1>3. ASSUME NEW l \in Writable(LocalLines),
             note' = [note EXCEPT ![epoch] = SetText(@, @.ytext \cup {l})],
             used' = used \cup {l}, UNCHANGED removed
      PROVE  Shape' /\ Quietly'
  <2> DEFINE text == note[epoch].ytext \cup {l}
  <2>1. l \in LocalLines /\ l \in Lines
    BY MayWrite
  <2>2. text \in Text /\ used' \in Text /\ removed' \in Text
    BY <1>2, <1>3, <2>1 DEF Text
  <2>3. note' = [note EXCEPT ![epoch] = SetText(@, text)]
    BY <1>2, <1>3 DEF Shape, TypeOK
  <2> HIDE DEF text
  <2> QED BY <1>1, <1>3, <2>1, <2>2, <2>3, LineStep, EditsEnd
<1>4. ASSUME NEW l \in note[epoch].ytext \cap Removable,
             note' = [note EXCEPT ![epoch] = SetText(@, @.ytext \ {l})],
             removed' = removed \cup {l}, UNCHANGED used
      PROVE  Shape' /\ Quietly'
  <2> DEFINE text == note[epoch].ytext \ {l}
  <2>1. l \in Lines
    BY MayWrite
  <2>2. text \in Text /\ used' \in Text /\ removed' \in Text
    BY <1>2, <1>4, <2>1 DEF Text
  <2>3. note' = [note EXCEPT ![epoch] = SetText(@, text)]
    BY <1>2, <1>4 DEF Shape, TypeOK
  <2> HIDE DEF text
  <2> QED BY <1>1, <1>4, <2>2, <2>3, LineStep, EditsEnd
<1> QED BY <1>3, <1>4 DEF EditorEdit

LEMMA SaveFileKeeps ==
    ASSUME Shape, Quietly, SaveFile
    PROVE  Shape' /\ Quietly'
<1>1. /\ events < MaxEvents /\ events' = events + 1
      /\ UNCHANGED <<exists, saving, kept, idb, phase, seedText, epoch, inbox, note,
                     diskBase, ownWrite, writer, reader, bridge, binds, reverted, doubled>>
  BY DEF SaveFile, FileFree, connVars, bufferVars, taskVars
<1>2. PICK l \in Lines :
        \/ /\ l \in LocalLines /\ disk' = disk \cup {l} /\ used' = used \cup {l}
           /\ raced' \in {raced, raced \cup {l}} /\ UNCHANGED removed
        \/ /\ disk' = disk \ {l} /\ removed' = removed \cup {l} /\ UNCHANGED <<used, raced>>
  BY MayWrite DEF SaveFile
<1>3. disk' \in Text /\ used' \in Text /\ removed' \in Text /\ raced' \in Text
  BY <1>2 DEF Shape, TypeOK, Text
<1>4. Shape'
  <2>1. events' \in 0..MaxEvents
    BY <1>1, BoundsAssumption DEF Shape, TypeOK
  <2>2. TypeOK'
    BY <1>1, <1>3, <2>1 DEF Shape, TypeOK
  <2>3. Order'
    BY <1>1 DEF Shape, Order, Connected, Subscribed
  <2> QED BY <2>2, <2>3 DEF Shape
<1> QED BY <1>2, <1>4, EditsEnd

LEMMA RemoteEditKeeps ==
    ASSUME Shape, Quietly, RemoteEdit
    PROVE  Shape' /\ Quietly'
<1>1. UNCHANGED <<exists, disk, events, saving, kept, idb, phase, seedText, epoch,
                  diskBase, ownWrite, writer, reader, bridge, binds, raced, reverted, doubled>>
  BY DEF RemoteEdit, fileVars, bufferVars, taskVars
<1>2. /\ phase \in {"seeding", "synced"} =>
             Connected /\ epoch \in Epochs /\ note[epoch].ytext \in Text
      /\ used \in Text /\ removed \in Text
  BY Current DEF Connected, Shape, TypeOK
<1>3. ASSUME NEW l \in Lines, phase \in {"seeding", "synced"},
             NEW text \in {note[epoch].ytext \cup {l}, note[epoch].ytext \ {l}},
             note' = [note EXCEPT ![epoch] = SetText(@, text)], UNCHANGED inbox,
             used' \in {used, used \cup {l}}, removed' \in {removed, removed \cup {l}}
      PROVE  Shape'
  <2>1. text \in Text /\ used' \in Text /\ removed' \in Text
    BY <1>2, <1>3 DEF Text
  <2> QED BY <1>1, <1>2, <1>3, <2>1, LineStep
<1>4. ASSUME NEW l \in Lines, UNCHANGED note,
             inbox' \in {[inbox EXCEPT !.add = @ \cup {l}], [inbox EXCEPT !.del = @ \cup {l}]},
             used' \in {used, used \cup {l}}, removed' \in {removed, removed \cup {l}}
      PROVE  Shape'
  <2>1. /\ used' \in Text /\ removed' \in Text
        /\ inbox' \in [add : Text, del : Text, seeds : SUBSET Text]
    BY <1>4 DEF Shape, TypeOK, Text
  <2>2. TypeOK'
    BY <1>1, <1>4, <2>1 DEF Shape, TypeOK
  <2>3. Order'
    BY <1>1, <1>4 DEF Shape, Order, Connected, Subscribed
  <2> QED BY <2>2, <2>3 DEF Shape
<1>5. CASE \E l \in Writable(RemoteLines) :
             /\ used' = used \cup {l}
             /\ UNCHANGED removed
             /\ IF phase \in {"seeding", "synced"}
                THEN /\ note' = [note EXCEPT ![epoch] = SetText(@, @.ytext \cup {l})]
                     /\ UNCHANGED inbox
                ELSE inbox' = [inbox EXCEPT !.add = @ \cup {l}] /\ UNCHANGED note
  <2>1. PICK l \in Writable(RemoteLines) :
             /\ used' = used \cup {l}
             /\ UNCHANGED removed
             /\ IF phase \in {"seeding", "synced"}
                THEN /\ note' = [note EXCEPT ![epoch] = SetText(@, @.ytext \cup {l})]
                     /\ UNCHANGED inbox
                ELSE inbox' = [inbox EXCEPT !.add = @ \cup {l}] /\ UNCHANGED note
    BY <1>5
  <2>2. l \in RemoteLines /\ l \in Lines
    BY MayWrite
  <2>3. CASE phase \in {"seeding", "synced"}
    <3> DEFINE text == note[epoch].ytext \cup {l}
    <3>1. note' = [note EXCEPT ![epoch] = SetText(@, text)] /\ UNCHANGED inbox
      BY <1>2, <2>1, <2>3 DEF Shape, TypeOK
    <3>2. text \in {note[epoch].ytext \cup {l}, note[epoch].ytext \ {l}}
      OBVIOUS
    <3> HIDE DEF text
    <3> QED BY <1>3, <2>1, <2>2, <2>3, <3>1, <3>2, EditsEnd
  <2> QED BY <1>4, <2>1, <2>2, <2>3, EditsEnd
<1>6. CASE /\ phase \in {"seeding", "synced"}
           /\ \E l \in note[epoch].ytext \cap Removable :
                 /\ note' = [note EXCEPT ![epoch] = SetText(@, @.ytext \ {l})]
                 /\ removed' = removed \cup {l}
           /\ UNCHANGED <<inbox, used>>
  <2>1. PICK l \in note[epoch].ytext \cap Removable :
                 /\ note' = [note EXCEPT ![epoch] = SetText(@, @.ytext \ {l})]
                 /\ removed' = removed \cup {l}
    BY <1>6
  <2> DEFINE text == note[epoch].ytext \ {l}
  <2>2. l \in Lines
    BY MayWrite
  <2>3. note' = [note EXCEPT ![epoch] = SetText(@, text)]
    BY <1>2, <1>6, <2>1 DEF Shape, TypeOK
  <2>4. text \in {note[epoch].ytext \cup {l}, note[epoch].ytext \ {l}}
    OBVIOUS
  <2> HIDE DEF text
  <2> QED BY <1>3, <1>6, <2>1, <2>2, <2>3, <2>4, EditsEnd
<1>7. CASE /\ \E l \in idb.text \cap Removable :
                 /\ inbox' = [inbox EXCEPT !.del = @ \cup {l}]
                 /\ removed' = removed \cup {l}
           /\ UNCHANGED <<note, used>>
  <2>1. PICK l \in idb.text \cap Removable :
                 /\ inbox' = [inbox EXCEPT !.del = @ \cup {l}]
                 /\ removed' = removed \cup {l}
    BY <1>7
  <2>2. l \in Lines
    BY MayWrite
  <2> QED BY <1>4, <1>7, <2>1, <2>2, EditsEnd
<1> QED BY <1>5, <1>6, <1>7 DEF RemoteEdit

(***************************************************************************)
(* Connecting and letting go.                                              *)
(***************************************************************************)
LEMMA ComesUp ==
    ASSUME Shape, Quietly, ~Connected, phase' \in {"closed", "unplaced", "addressing"},
           phase' # "closed" => epoch < MaxConnects,
           UNCHANGED <<fileVars, kept, idb, seedText, epoch, inbox, note, bufferVars, taskVars,
                       ghostVars>>
    PROVE  Shape' /\ Quietly'
<1>1. UNCHANGED <<exists, disk, events, saving, kept, idb, seedText, epoch, inbox, note,
                  diskBase, ownWrite, writer, reader, bridge, binds, used, removed, raced,
                  reverted, doubled>>
  BY DEF fileVars, bufferVars, taskVars, ghostVars
<1>2. bridge.pc = "idle" /\ ~Connected' /\ phase # "loading" /\ phase' \in Phases
  BY DEF Shape, Order, Subscribed, Connected, Phases
<1>3. Shape'
  <2>1. TypeOK'
    BY <1>1, <1>2 DEF Shape, TypeOK
  <2>2. Order'
    BY <1>1, <1>2 DEF Shape, Order, Subscribed
  <2> QED BY <2>1, <2>2 DEF Shape
<1>4. ASSUME Unchanged PROVE PlainTexts'
  <2>1. PlainTexts
    BY <1>4 DEF Quietly
  <2> QED BY <1>1, <2>1 DEF PlainTexts
<1>5. Unchanged => LoadsAlone' /\ ~doubled'
  BY <1>1 DEF Quietly, LoadsAlone
<1>6. SeedsOf' = SeedsOf
  BY <1>1, <1>2 DEF SeedsOf
<1>7. Untouched => Untouched'
  BY <1>1 DEF Untouched, NothingHere, FileUnread
<1> QED BY <1>1, <1>3, <1>4, <1>5, <1>6, <1>7, QuietStill

LEMMA ConnectFileKeeps ==
    ASSUME Shape, Quietly, ConnectFile
    PROVE  Shape' /\ Quietly'
BY ComesUp DEF ConnectFile, Connected

LEMMA RetryUnplacedKeeps ==
    ASSUME Shape, Quietly, RetryUnplaced
    PROVE  Shape' /\ Quietly'
BY ComesUp DEF RetryUnplaced, Connected, Shape, Order

LEMMA AddressKeeps ==
    ASSUME Shape, Quietly, Address
    PROVE  Shape' /\ Quietly'
<1>1. CASE phase' = "closed" /\ UNCHANGED epoch
  BY <1>1, ComesUp DEF Address, Connected
<1>2. CASE /\ EarlySaves \/ (Quiet /\ saving = None)
           /\ phase' = "loading" /\ epoch' = epoch + 1
  <2>1. /\ phase = "addressing"
        /\ UNCHANGED <<exists, disk, events, saving, kept, idb, seedText, inbox, note,
                       diskBase, ownWrite, writer, reader, bridge, binds, used, removed, raced,
                       reverted, doubled>>
    BY DEF Address, fileVars, bufferVars, taskVars, ghostVars
  <2>2. /\ epoch \in Nat /\ epoch < MaxConnects /\ epoch' \in Epochs /\ epoch' \in 0..MaxConnects
        /\ note[epoch'] = NewNote /\ bridge.pc = "idle"
    BY <1>2, <2>1, BoundsAssumption DEF Shape, TypeOK, Order, Epochs, Subscribed
  <2>3. Shape'
    <3>1. TypeOK'
      BY <1>2, <2>1, <2>2 DEF Shape, TypeOK, Phases
    <3>2. /\ \A e \in Epochs : e > epoch' => note[e] = NewNote
          /\ \A w \in Writers : writer[w].pc # "idle" => writer[w].ep <= epoch'
          /\ \A r \in Readers : reader[r].pc # "idle" => reader[r].ep <= epoch'
      <4>1. /\ \A e \in Epochs : e \in Nat
            /\ \A w \in Writers : writer[w].ep \in Nat
            /\ \A r \in Readers : reader[r].ep \in Nat
        BY BoundsAssumption DEF Shape, TypeOK, WriterState, ReaderState, Epochs
      <4> QED BY <1>2, <2>2, <4>1 DEF Shape, Order
    <3>3. Order'
      BY <1>2, <2>1, <2>2, <3>2 DEF Order, Connected, Subscribed
    <3> QED BY <3>1, <3>3 DEF Shape
  <2>4. ASSUME Unchanged PROVE PlainTexts'
    <3>1. PlainTexts
      BY <2>4 DEF Quietly
    <3> QED BY <2>1, <3>1 DEF PlainTexts
  <2>5. ASSUME Unchanged PROVE LoadsAlone' /\ ~doubled'
    <3>1. Quiet /\ saving = None /\ ~doubled
      BY <1>2, <2>5 DEF Quietly, Unchanged
    <3> QED BY <2>1, <2>2, <3>1 DEF LoadsAlone, Quiet, NewNote
  <2>6. SeedsOf' = SeedsOf
    BY <1>2, <2>1 DEF SeedsOf, Connected
  <2>7. Untouched => Untouched'
    BY <1>2, <2>1 DEF Untouched, NothingHere, FileUnread
  <2> QED BY <2>1, <2>3, <2>4, <2>5, <2>6, <2>7, QuietStill
<1> QED BY <1>1, <1>2 DEF Address

LEMMA LoadIndexedDbKeeps ==
    ASSUME Shape, Quietly, LoadIndexedDb
    PROVE  Shape' /\ Quietly'
<1> DEFINE o == note[epoch]
           n == [o EXCEPT !.ytext = o.ytext \cup idb.text, !.seeds = o.seeds \cup idb.seeds,
                          !.agreedAtConnect = idb.agreed]
<1>1. /\ phase = "loading" /\ phase' = "loaded" /\ DoublesIf(o.ytext \cap idb.text # {})
      /\ UNCHANGED <<exists, disk, events, saving, kept, idb, seedText, epoch, inbox, diskBase,
                     ownWrite, writer, reader, bridge, binds, used, removed, raced, reverted>>
  BY DEF LoadIndexedDb, fileVars, bufferVars, taskVars
<1>2. /\ Connected /\ epoch \in Epochs /\ epoch <= epoch /\ o \in FileDocState
      /\ idb.text \in Text /\ idb.seeds \in SUBSET Text /\ idb.agreed \in OptText
  BY <1>1, Current DEF Connected, Shape, TypeOK
<1>3. note' = [note EXCEPT ![epoch] = n]
  BY <1>2 DEF LoadIndexedDb, Shape, TypeOK
<1>4. /\ n \in FileDocState /\ n.ytext = o.ytext \cup idb.text
      /\ n.seeds = o.seeds \cup idb.seeds
      /\ n.lastSyncedContent = o.lastSyncedContent /\ n.agreedAtConnect = idb.agreed
      /\ n.idbHadData = o.idbHadData /\ n.hasSyncedOnce = o.hasSyncedOnce
      /\ n.firstSyncChecked = o.firstSyncChecked /\ n.editorActive = o.editorActive
  <2>1. o.ytext \cup idb.text \in Text /\ o.seeds \cup idb.seeds \in SUBSET Text
    BY <1>2 DEF FileDocState, Text
  <2> HIDE DEF o
  <2> QED BY <1>2, <2>1 DEF FileDocState
<1> HIDE DEF n
<1>5. /\ note' \in [Epochs -> FileDocState]
      /\ note'[epoch] = n /\ \A d \in Epochs : d # epoch => note'[d] = note[d]
      /\ \A d \in Epochs : d > epoch => note'[d] = NewNote
  BY <1>2, <1>3, <1>4, OneNote
<1>6. Shape'
  <2>1. TypeOK'
    BY <1>1, <1>5 DEF Shape, TypeOK, Phases, DoublesIf
  <2>2. Order'
    BY <1>1, <1>5 DEF Shape, Order, Subscribed, Connected
  <2> QED BY <2>1, <2>2 DEF Shape
<1>7. Unchanged => PlainTexts /\ o.ytext = {} /\ ~doubled
  BY <1>1 DEF Quietly, LoadsAlone
<1>8. ASSUME Unchanged PROVE PlainTexts'
  <2>1. PlainNote(n)
    BY <1>2, <1>4, <1>7, <1>8 DEF PlainTexts, PlainNote
  <2> QED BY <1>1, <1>5, <1>7, <1>8, <2>1 DEF PlainTexts
<1>9. Unchanged => LoadsAlone' /\ ~doubled'
  BY <1>1, <1>7 DEF LoadsAlone, DoublesIf
<1>10. SeedsOf \subseteq SeedsOf'
  BY <1>1, <1>4, <1>5 DEF SeedsOf, Connected
<1>11. ASSUME Unchanged, idb.text = {}, NothingHere PROVE NothingHere'
  <2>1. BareNote(n)
    BY <1>2, <1>4, <1>7, <1>11 DEF NothingHere, BareNote
  <2> QED BY <1>1, <1>5, <1>11, <2>1 DEF NothingHere
<1>12. ASSUME Unchanged, idb.text = {}, FileUnread PROVE FileUnread'
  <2>1. UnreadNote(n)
    BY <1>2, <1>4, <1>7, <1>12 DEF FileUnread, UnreadNote
  <2> QED BY <1>1, <1>5, <1>12, <2>1 DEF FileUnread
<1>13. Unchanged /\ Untouched => Untouched'
  BY <1>1, <1>11, <1>12 DEF Untouched
<1> QED BY <1>1, <1>6, <1>8, <1>9, <1>10, <1>13, QuietStill

\* The connection goes, and IndexedDB has what its document held.
LEMMA LetsGo ==
    ASSUME Shape, Quietly, Connected, phase' \in {"closed", "unplaced"}, epoch < MaxConnects,
           idb' = StoredIdb,
           NEW n \in FileDocState, note' = [note EXCEPT ![epoch] = n],
           n.ytext = note[epoch].ytext, n.lastSyncedContent = note[epoch].lastSyncedContent,
           n.agreedAtConnect = note[epoch].agreedAtConnect,
           n.idbHadData = note[epoch].idbHadData, n.hasSyncedOnce = note[epoch].hasSyncedOnce,
           n.firstSyncChecked = note[epoch].firstSyncChecked,
           n.editorActive = note[epoch].editorActive,
           diskBase' = None /\ ownWrite' = None,
           bridge' \in {bridge, IdleBridge}, bridge'.pc = "idle",
           saving' = saving \/ (Bound /\ saving' = note[epoch].ytext),
           raced' \in Text,
           UNCHANGED <<exists, disk, events, kept, seedText, epoch, inbox, writer, reader, binds,
                       used, removed, reverted, doubled>>
    PROVE  Shape' /\ Quietly'
<1> DEFINE o == note[epoch]
<1>1. epoch \in Epochs /\ epoch <= epoch /\ o \in FileDocState /\ o.ytext \in Text
      /\ o.seeds \in SUBSET Text
  BY Current DEF Shape, TypeOK
<1>2. /\ note' \in [Epochs -> FileDocState]
      /\ note'[epoch] = n /\ \A d \in Epochs : d # epoch => note'[d] = note[d]
      /\ \A d \in Epochs : d > epoch => note'[d] = NewNote
  BY <1>1, OneNote
<1>3. /\ idb' \in [text : Text, seeds : SUBSET Text, agreed : OptText]
      /\ idb'.agreed = idb.agreed
      /\ idb'.text = IF phase = "loading" THEN idb.text \cup o.ytext ELSE o.ytext
      /\ idb'.seeds = IF phase = "loading" THEN idb.seeds ELSE o.seeds
  <2>1. idb.text \cup o.ytext \in Text
    BY <1>1 DEF Shape, TypeOK, Text
  <2> HIDE DEF o
  <2> QED BY <1>1, <2>1 DEF StoredIdb, Shape, TypeOK, o
<1>4. ~Connected' /\ ~Subscribed' /\ phase' \in Phases /\ phase' # "loading"
  BY DEF Connected, Subscribed, Phases
<1>5. saving' \in OptText /\ bridge' \in BridgeState /\ None \in OptText
  <2>1. saving' \in OptText /\ None \in OptText
    BY <1>1 DEF Shape, TypeOK, OptText
  <2>2. bridge' \in BridgeState
    <3>1. IdleBridge \in BridgeState
      BY Texts DEF BridgeState, IdleBridge
    <3>2. bridge \in BridgeState
      BY DEF Shape, TypeOK, BridgeState
    <3> QED BY <3>1, <3>2
  <2> QED BY <2>1, <2>2
<1>6. Shape'
  <2>1. TypeOK'
    BY <1>2, <1>3, <1>4, <1>5 DEF Shape, TypeOK, BridgeState
  <2>2. Order'
    BY <1>2, <1>4 DEF Shape, Order
  <2> QED BY <2>1, <2>2 DEF Shape
<1>7. ASSUME Unchanged PROVE PlainTexts'
  <2>1. PlainTexts
    BY <1>7 DEF Quietly
  <2>2. PlainNote(n) /\ o.ytext \in Plain /\ idb.text \in Plain
    BY <1>1, <2>1 DEF PlainTexts, PlainNote
  <2>3. phase = "loading" => o.ytext = {}
    BY <1>7 DEF Quietly, LoadsAlone
  <2>4. idb'.text \in Plain
    BY <1>3, <2>2, <2>3 DEF Plain
  <2>5. saving' \in OptPlain /\ diskBase' \in OptPlain /\ bridge'.got \in Plain
    BY <2>1, <2>2 DEF PlainTexts, Plain, OptPlain, IdleBridge
  <2> QED BY <1>2, <1>3, <2>1, <2>2, <2>4, <2>5 DEF PlainTexts
<1>8. Unchanged => LoadsAlone' /\ ~doubled'
  BY <1>4 DEF LoadsAlone, Quietly
<1>9. SeedsOf \subseteq SeedsOf'
  BY <1>3, <1>4 DEF SeedsOf
<1>10. ASSUME NothingHere, idb.text = {} PROVE NothingHere' /\ idb'.text = {}
  <2>1. BareNote(o)
    BY <1>1, <1>10 DEF NothingHere
  <2>2. BareNote(n) /\ saving' \in Bare /\ diskBase' \in Bare /\ bridge'.got = {}
    BY <1>10, <2>1 DEF NothingHere, BareNote, Bare, IdleBridge
  <2>3. idb'.text = {}
    BY <1>3, <1>10, <2>1 DEF BareNote
  <2> QED BY <1>2, <1>3, <1>10, <2>2, <2>3 DEF NothingHere
<1>11. ASSUME FileUnread, idb.text = {} PROVE FileUnread' /\ idb'.text = {}
  <2>1. UnreadNote(o)
    BY <1>1, <1>11 DEF FileUnread
  <2>2. UnreadNote(n) /\ saving' = None
    BY <1>11, <2>1 DEF FileUnread, UnreadNote, Bound
  <2>3. idb'.text = {}
    BY <1>3, <1>11, <2>1 DEF UnreadNote
  <2> QED BY <1>2, <1>3, <1>11, <2>2, <2>3 DEF FileUnread
<1>12. Untouched => Untouched'
  BY <1>10, <1>11 DEF Untouched
<1> QED BY <1>6, <1>7, <1>8, <1>9, <1>12, QuietStill

LEMMA AbandonUnsubscribedKeeps ==
    ASSUME Shape, Quietly, AbandonUnsubscribed
    PROVE  Shape' /\ Quietly'
<1> DEFINE o == note[epoch]
           n == [o EXCEPT !.writeTimer = FALSE]
<1>1. /\ phase = "loaded" /\ phase' = "unplaced" /\ epoch < MaxConnects /\ idb' = StoredIdb
      /\ diskBase' = None /\ ownWrite' = None
      /\ UNCHANGED <<exists, disk, events, saving, kept, seedText, epoch, inbox, writer, reader,
                     bridge, binds, used, removed, raced, reverted, doubled>>
  BY DEF AbandonUnsubscribed, MayLeave, fileVars, taskVars, ghostVars
<1>2. Connected /\ epoch \in Epochs /\ o \in FileDocState
  BY <1>1, Current DEF Connected
<1>3. note' = [note EXCEPT ![epoch] = n]
  BY <1>2 DEF AbandonUnsubscribed, Shape, TypeOK
<1>4. /\ n \in FileDocState /\ n.ytext = o.ytext /\ n.lastSyncedContent = o.lastSyncedContent
      /\ n.agreedAtConnect = o.agreedAtConnect /\ n.idbHadData = o.idbHadData
      /\ n.hasSyncedOnce = o.hasSyncedOnce /\ n.firstSyncChecked = o.firstSyncChecked
      /\ n.editorActive = o.editorActive
  BY <1>2 DEF FileDocState
<1>5. bridge'.pc = "idle" /\ raced' \in Text
  BY <1>1 DEF Shape, TypeOK, Order, Subscribed
<1> HIDE DEF n
<1> QED BY <1>1, <1>2, <1>3, <1>4, <1>5, LetsGo

LEMMA DisconnectDocKeeps ==
    ASSUME Shape, Quietly, DisconnectDoc
    PROVE  Shape' /\ Quietly'
<1> DEFINE o == note[epoch]
           n == [o EXCEPT !.writeTimer = FALSE, !.observer = FALSE]
<1>1. /\ Connected /\ phase' = "closed" /\ epoch < MaxConnects /\ idb' = StoredIdb
      /\ diskBase' = None /\ ownWrite' = None /\ bridge' = IdleBridge
      /\ saving' = saving \/ (Bound /\ saving' = o.ytext)
      /\ UNCHANGED <<exists, disk, events, kept, seedText, epoch, inbox, writer, reader,
                     binds, used, removed, reverted, doubled>>
  BY DEF DisconnectDoc, MayLeave
<1>2. epoch \in Epochs /\ o \in FileDocState
  BY <1>1, Current
<1>3. note' = [note EXCEPT ![epoch] = n]
  BY <1>2 DEF DisconnectDoc, Shape, TypeOK
<1>4. /\ n \in FileDocState /\ n.ytext = o.ytext /\ n.lastSyncedContent = o.lastSyncedContent
      /\ n.agreedAtConnect = o.agreedAtConnect /\ n.idbHadData = o.idbHadData
      /\ n.hasSyncedOnce = o.hasSyncedOnce /\ n.firstSyncChecked = o.firstSyncChecked
      /\ n.editorActive = o.editorActive
  BY <1>2 DEF FileDocState
<1>5. bridge'.pc = "idle" /\ raced' \in Text
  <2>1. raced' \in {raced, raced \cup (disk \ o.ytext)}
    BY DEF DisconnectDoc
  <2> QED BY <1>1, <2>1 DEF IdleBridge, Shape, TypeOK, Text
<1> HIDE DEF n
<1> QED BY <1>1, <1>2, <1>3, <1>4, <1>5, LetsGo

(***************************************************************************)
(* A file that is not there yet.                                           *)
(***************************************************************************)
LEMMA AbsentStill ==
    ASSUME Shape, Absent, NEW e \in Epochs, NEW n, note' = [note EXCEPT ![e] = n],
           n.editorActive = note[e].editorActive,
           UNCHANGED <<exists, disk, saving, writer>>,
           bridge' = bridge \/ bridge' = IdleBridge
    PROVE  Absent'
<1>1. \A d \in Epochs : note'[d].editorActive = note[d].editorActive
  BY DEF Shape, TypeOK
<1> QED BY <1>1 DEF Absent, IdleBridge

\* What the actions that change a note do to the one flag that matters here.
LEMMA Flags ==
    ASSUME NEW n \in FileDocState
    PROVE  /\ \A text \in Text : SetText(n, text).editorActive = n.editorActive
           /\ \A text \in Text : SeedDocument(n, text).editorActive = n.editorActive
           /\ Confirmed(n).editorActive = n.editorActive
BY SetTextKin, SeedKin, ConfirmedKin DEF Kin

LEMMA ExistsStays ==
    ASSUME Next, exists
    PROVE  exists'
<1>1. ASSUME NEW w \in Writers, WriteToDisk(w) \/ WriteFails(w) PROVE exists'
  BY <1>1 DEF WriteToDisk, FireTimer, ReadFile, KeepFirst, TakeUnseenIn, KeptFirst, StartAgain,
     MergeKeptIn, ReadSaveIn, SkipUnconfirmed, AlreadyOnDisk, WriteOut, CopyMade, WriteFile,
     Written, WriteFails, fileVars
<1>2. ASSUME NEW r \in Readers, OnLocalModify(r) PROVE exists'
  BY <1>2 DEF OnLocalModify, ModifyEvent, FileRead, fileVars
<1>3. CASE ConnectFile \/ Connecting \/ AbandonUnsubscribed \/ RetryUnplaced \/ DisconnectDoc
  BY <1>3 DEF ConnectFile, Connecting, Address, LoadIndexedDb, StartSync, CatchUp, SeedIfEmpty,
     AbandonUnsubscribed, RetryUnplaced, DisconnectDoc, fileVars
<1>4. CASE \/ StartBind \/ Binding \/ Release \/ EditorSave \/ EditorEdit
           \/ CreatePlaceholder \/ SaveFile \/ RemoteEdit
  BY <1>4 DEF StartBind, Binding, ReconcileFromDisk, ReconcileSeed, Bind, Release, EditorSave,
     EditorEdit, CreatePlaceholder, SaveFile, RemoteEdit, fileVars
<1> QED BY <1>1, <1>2, <1>3, <1>4 DEF Next

LEMMA AbsentKeeps ==
    ASSUME Shape, Absent, Next
    PROVE  Absent'
<1> SUFFICES ASSUME ~exists PROVE Absent'
  BY ExistsStays DEF Absent
<1>1. /\ disk = {} /\ saving = None /\ bridge.pc = "idle"
      /\ \A w \in Writers : writer[w].pc = "idle"
      /\ \A e \in Epochs : ~note[e].editorActive
  BY DEF Absent
<1>2. Connected => epoch \in Epochs /\ note[epoch] \in FileDocState
  BY Current
<1>3. ~Bound
  BY <1>1, <1>2 DEF Bound
<1>4. CASE ConnectFile \/ Address \/ RetryUnplaced
  BY <1>4 DEF Absent, ConnectFile, Address, RetryUnplaced, fileVars, taskVars
<1>5. CASE LoadIndexedDb
  <2>1. Connected
    BY <1>5 DEF LoadIndexedDb, Connected
  <2> DEFINE o == note[epoch]
             n == [o EXCEPT !.ytext = @ \cup idb.text, !.seeds = @ \cup idb.seeds,
                            !.agreedAtConnect = idb.agreed]
  <2>2. note' = [note EXCEPT ![epoch] = n] /\ n.editorActive = o.editorActive
    BY <1>2, <1>5, <2>1 DEF LoadIndexedDb, Shape, TypeOK, FileDocState
  <2> HIDE DEF n
  <2> QED BY <1>2, <1>5, <2>1, <2>2, AbsentStill DEF LoadIndexedDb, fileVars, taskVars
<1>6. CASE StartSync
  <2>1. Connected
    BY <1>6 DEF StartSync, Connected
  <2> DEFINE o == note[epoch]
             n == [o EXCEPT !.idbHadData = o.ytext # {}, !.observer = TRUE, !.writeTimer = TRUE]
  <2>2. note' = [note EXCEPT ![epoch] = n] /\ n.editorActive = o.editorActive
    BY <1>2, <1>6, <2>1 DEF StartSync, Shape, TypeOK, FileDocState
  <2> HIDE DEF n
  <2> QED BY <1>2, <1>6, <2>1, <2>2, AbsentStill DEF StartSync, fileVars, taskVars
<1>7. CASE CatchUp
  <2>1. Connected
    BY <1>7 DEF CatchUp, Connected
  <2> DEFINE o == note[epoch]
             t == SetText(o, (o.ytext \ inbox.del) \cup inbox.add)
             caught == [t EXCEPT !.seeds = @ \cup inbox.seeds]
  <2>2. (o.ytext \ inbox.del) \cup inbox.add \in Text
    BY <1>2, <2>1, Noted DEF Shape, TypeOK, Text
  <2>3. t \in FileDocState /\ t.editorActive = o.editorActive
    <3> HIDE DEF o
    <3> QED BY <1>2, <2>1, <2>2, SetTextKin DEF Kin, o
  <2> HIDE DEF t
  <2>4. caught \in FileDocState /\ caught.editorActive = o.editorActive
    BY <2>3 DEF FileDocState, Shape, TypeOK
  <2> HIDE DEF caught
  <2>5. PICK n \in {caught, Confirmed(caught)} : note' = [note EXCEPT ![epoch] = n]
    BY <1>7 DEF CatchUp, caught, t
  <2>6. n.editorActive = o.editorActive
    BY <2>4, <2>5, Flags
  <2> QED BY <1>2, <1>7, <2>1, <2>5, <2>6, AbsentStill DEF CatchUp, fileVars, taskVars
<1>8. CASE SeedIfEmpty
  <2>1. Connected
    BY <1>8 DEF SeedIfEmpty, Connected
  <2> DEFINE o == note[epoch]
  <2>2. PICK n \in {Confirmed(SeedDocument(o, seedText)), Confirmed(o)} :
            note' = [note EXCEPT ![epoch] = n]
    BY <1>2, <1>8, <2>1 DEF SeedIfEmpty, Shape, TypeOK
  <2>3. o \in FileDocState /\ seedText \in Text
    BY <1>2, <2>1 DEF Shape, TypeOK
  <2>4. n.editorActive = o.editorActive
    <3> HIDE DEF o
    <3>1. SeedDocument(o, seedText) \in FileDocState
          /\ SeedDocument(o, seedText).editorActive = o.editorActive
      BY <2>3, SeedKin DEF Kin
    <3> QED BY <2>2, <2>3, <3>1, Flags
  <2> QED BY <1>2, <1>8, <2>1, <2>2, <2>4, AbsentStill DEF SeedIfEmpty, fileVars, taskVars
<1>9. CASE AbandonUnsubscribed \/ DisconnectDoc
  <2>1. Connected
    BY <1>9 DEF AbandonUnsubscribed, DisconnectDoc, Connected
  <2> DEFINE o == note[epoch]
  <2>2. PICK n \in {[o EXCEPT !.writeTimer = FALSE],
                    [o EXCEPT !.writeTimer = FALSE, !.observer = FALSE]} :
            note' = [note EXCEPT ![epoch] = n]
    BY <1>2, <1>9, <2>1 DEF AbandonUnsubscribed, DisconnectDoc, Shape, TypeOK
  <2>3. n.editorActive = o.editorActive
    BY <1>2, <2>1, <2>2 DEF FileDocState
  <2>4. UNCHANGED <<exists, disk, writer, saving>> /\ (bridge' = bridge \/ bridge' = IdleBridge)
    BY <1>3, <1>9 DEF AbandonUnsubscribed, DisconnectDoc, fileVars, taskVars
  <2> QED BY <1>2, <2>1, <2>2, <2>3, <2>4, AbsentStill
<1>10. ASSUME NEW w \in Writers, WriteToDisk(w) \/ WriteFails(w) PROVE Absent'
  <2>1. FireTimer(w)
    BY <1>1, <1>10 DEF WriteToDisk, WriteFails, ReadFile, KeepFirst, TakeUnseenIn, KeptFirst,
       StartAgain, MergeKeptIn, ReadSaveIn, SkipUnconfirmed, AlreadyOnDisk, WriteOut, CopyMade,
       WriteFile, Written, Settling, PastFirst
  <2>2. PICK e \in Epochs :
          /\ note' = [note EXCEPT ![e].writeTimer = ~GivesUp(note[e]),
                                  ![e].writeRetries = IF GivesUp(note[e]) THEN @ ELSE @ + 1]
          /\ UNCHANGED writer
    BY <2>1 DEF FireTimer
  <2>3. \A d \in Epochs : note'[d].editorActive = note[d].editorActive
    BY <2>2 DEF Shape, TypeOK, FileDocState
  <2>4. UNCHANGED <<exists, disk, saving, bridge>>
    BY <2>1 DEF FireTimer, fileVars
  <2> QED BY <1>1, <2>2, <2>3, <2>4 DEF Absent
<1>11. ASSUME NEW r \in Readers, ModifyEvent(r) PROVE Absent'
  <2>1. UNCHANGED <<exists, disk, saving, writer, bridge>>
    BY <1>11 DEF ModifyEvent
  <2>2. \A d \in Epochs : note'[d].editorActive = note[d].editorActive
    BY <1>2, <1>11 DEF ModifyEvent, Shape, TypeOK, FileDocState
  <2> QED BY <1>1, <2>1, <2>2 DEF Absent
<1>12. ASSUME NEW r \in Readers, FileRead(r) PROVE Absent'
  <2> DEFINE e == reader[r].ep
             got == reader[r].got
             n == note[e]
  <2>1. UNCHANGED <<exists, disk, saving, writer, bridge>>
    BY <1>12 DEF FileRead, fileVars
  <2>2. e \in Epochs /\ n \in FileDocState /\ got \in Text /\ diskBase \in OptText
    BY Listening DEF Shape, TypeOK
  <2>3. note' = note \/ note' = [note EXCEPT ![e] = SetText(n, ReadInText(n, got, diskBase))]
    BY <1>12 DEF FileRead, ReadIn
  <2>4. ReadInText(n, got, diskBase) \in Text
    BY <2>2, ReadInTyped
  <2>5. SetText(n, ReadInText(n, got, diskBase)).editorActive = n.editorActive
    <3> HIDE DEF n, got
    <3> QED BY <2>2, <2>4, Flags
  <2>6. note' = note => Absent'
    BY <2>1 DEF Absent
  <2> HIDE DEF e, got
  <2> QED BY <2>1, <2>2, <2>3, <2>5, <2>6, AbsentStill
<1>13. CASE StartBind \/ Binding \/ Release \/ EditorSave \/ EditorEdit \/ SaveFile
  BY <1>1, <1>3, <1>13 DEF StartBind, Binding, ReconcileFromDisk, ReconcileSeed, Bind, Release,
     EditorSave, EditorEdit, SaveFile
<1>14. CASE CreatePlaceholder
  BY <1>14 DEF CreatePlaceholder, Absent
<1>15. CASE RemoteEdit
  <2>1. UNCHANGED <<exists, disk, saving, writer, bridge>>
    BY <1>15 DEF RemoteEdit, fileVars, taskVars
  <2>2. \/ note' = note
        \/ phase \in {"seeding", "synced"}
           /\ \E l \in Lines : \E text \in {note[epoch].ytext \cup {l}, note[epoch].ytext \ {l}} :
                 note' = [note EXCEPT ![epoch] = SetText(note[epoch], text)]
    <3>1. phase \in {"seeding", "synced"} => epoch \in Epochs
      BY <1>2 DEF Connected
    <3> QED BY <1>15, <3>1, MayWrite DEF RemoteEdit, Shape, TypeOK
  <2>3. CASE note' = note
    BY <2>1, <2>3 DEF Absent
  <2>4. CASE note' # note
    <3>1. epoch \in Epochs /\ note[epoch] \in FileDocState /\ note[epoch].ytext \in Text
      BY <1>2, <2>2, <2>4, Noted DEF Connected, Shape
    <3>2. PICK text \in Text : note' = [note EXCEPT ![epoch] = SetText(note[epoch], text)]
      <4>1. \A l \in Lines : \A text \in {note[epoch].ytext \cup {l}, note[epoch].ytext \ {l}} :
               text \in Text
        BY <3>1 DEF Text
      <4> QED BY <2>2, <2>4, <4>1
    <3>3. text \in Text
      OBVIOUS
    <3>4. SetText(note[epoch], text).editorActive = note[epoch].editorActive
      BY <3>1, <3>3, Flags
    <3> QED BY <2>1, <3>1, <3>2, <3>4, AbsentStill
  <2> QED BY <2>3, <2>4
<1> QED BY <1>4, <1>5, <1>6, <1>7, <1>8, <1>9, <1>10, <1>11, <1>12, <1>13, <1>14, <1>15
        DEF Next, Connecting, OnLocalModify

(***************************************************************************)
(* The theorems.                                                           *)
(***************************************************************************)
\* Two texts in one only while nobody has changed the note.
Single == ~EarlySaves => ~doubled

ContentInv == Shape /\ Absent /\ Quietly /\ Single

LEMMA InitShape == Init => Shape /\ Absent
<1> SUFFICES ASSUME Init PROVE Shape /\ Absent
  OBVIOUS
<1>1. /\ note = [e \in Epochs |-> NewNote] /\ writer = [w \in Writers |-> IdleWriter]
      /\ reader = [r \in Readers |-> IdleReader] /\ bridge = IdleBridge
  BY DEF Init
<1>2. /\ note \in [Epochs -> FileDocState] /\ writer \in [Writers -> WriterState]
      /\ reader \in [Readers -> ReaderState]
  BY <1>1, NewNoteTyped
<1>3. bridge \in BridgeState
  BY <1>1, Texts DEF BridgeState, IdleBridge
<1>4. /\ idb \in [text : Text, seeds : SUBSET Text, agreed : OptText]
      /\ inbox \in InboxState /\ used \in Text /\ disk \in Text
  <2>1. None \in OptText /\ StartLines \in OptText /\ {} \in Text /\ StartLines \in Text
    BY Texts DEF OptText
  <2>2. disk \in Text
    BY <2>1 DEF Init
  <2>3. inbox \in InboxState
    BY <2>1 DEF Init, InboxState
  <2>4. idb \in [text : Text, seeds : SUBSET Text, agreed : OptText]
    <3>1. \/ idb = [text |-> {}, seeds |-> {}, agreed |-> None]
          \/ idb \in [text : {StartLines}, seeds : {{StartLines}}, agreed : {None, StartLines}]
      BY DEF Init
    <3> QED BY <2>1, <3>1
  <2>5. used = disk \cup inbox.add \cup idb.text
    BY DEF Init
  <2> QED BY <2>2, <2>3, <2>4, <2>5 DEF InboxState, Text
<1>5. TypeOK
  <2>1. /\ exists \in BOOLEAN /\ events \in 0..MaxEvents /\ saving \in OptText /\ kept \in Text
        /\ phase \in Phases /\ seedText \in Text /\ epoch \in 0..MaxConnects
        /\ diskBase \in OptText /\ ownWrite \in OptText /\ binds \in 0..MaxBinds
        /\ removed \in Text /\ raced \in Text /\ reverted \in Text /\ doubled \in BOOLEAN
    <3>1. /\ exists \in BOOLEAN /\ saving = None /\ kept = {} /\ phase = "closed"
          /\ seedText = {} /\ epoch = 0 /\ events = 0 /\ diskBase = None /\ ownWrite = None
          /\ binds = 0 /\ removed = {} /\ raced = {} /\ reverted = {} /\ doubled = FALSE
      BY DEF Init
    <3>2. events \in 0..MaxEvents /\ epoch \in 0..MaxConnects /\ binds \in 0..MaxBinds
      BY <3>1, BoundsAssumption
    <3>3. /\ saving \in OptText /\ kept \in Text /\ seedText \in Text /\ diskBase \in OptText
          /\ ownWrite \in OptText /\ removed \in Text /\ raced \in Text /\ reverted \in Text
      BY <3>1, Texts DEF OptText
    <3>4. phase \in Phases /\ doubled \in BOOLEAN
      BY <3>1 DEF Phases
    <3> QED BY <3>1, <3>2, <3>3, <3>4
  <2> QED BY <1>2, <1>3, <1>4, <2>1 DEF TypeOK, BridgeState, InboxState
<1>6. Order /\ Absent
  BY <1>1 DEF Init, Order, Absent, Connected, Subscribed, IdleWriter, IdleReader, IdleBridge,
     NewNote
<1> QED BY <1>5, <1>6 DEF Shape

LEMMA InitQuiet == Init => Quietly /\ Single
<1> SUFFICES ASSUME Init PROVE Quietly /\ Single
  OBVIOUS
<1>1. /\ note = [e \in Epochs |-> NewNote] /\ writer = [w \in Writers |-> IdleWriter]
      /\ reader = [r \in Readers |-> IdleReader] /\ bridge = IdleBridge
      /\ saving = None /\ seedText = {} /\ diskBase = None /\ events = 0 /\ phase = "closed"
      /\ disk \in Plain /\ ~doubled /\ (exists \/ disk = {})
  BY DEF Init, Plain
<1>2. /\ \A e \in Epochs : note[e] = NewNote
      /\ \A w \in Writers : writer[w] = IdleWriter
      /\ \A r \in Readers : reader[r] = IdleReader
  BY <1>1
<1>3. PlainNote(NewNote) /\ BareNote(NewNote) /\ UnreadNote(NewNote)
  BY DEF NewNote, PlainNote, BareNote, UnreadNote, Plain, OptPlain, Bare
<1>4. /\ inbox.add \in Plain /\ inbox.del = {}
      /\ inbox.add # {} => StartLines \in inbox.seeds
  BY DEF Init, Plain
<1>5. \/ idb.text = {} /\ idb.agreed = None
      \/ idb.text = StartLines /\ StartLines \in idb.seeds /\ idb.agreed \in OptPlain
  BY DEF Init, OptPlain
<1>6. PlainTexts
  <2>1. idb.text \in Plain /\ idb.agreed \in OptPlain /\ None \in OptPlain /\ {} \in Plain
    BY <1>5 DEF Plain, OptPlain
  <2>2. bridge.got = {} /\ IdleWriter.got = {} /\ IdleWriter.content = {} /\ IdleReader.got = {}
    BY <1>1 DEF IdleBridge, IdleWriter, IdleReader
  <2>3. disk \in Plain /\ saving \in OptPlain /\ seedText \in Plain /\ diskBase \in OptPlain
        /\ bridge.got \in Plain
    BY <1>1, <2>1, <2>2
  <2>4. /\ \A e \in Epochs : PlainNote(note[e])
        /\ \A w \in Writers : writer[w].got \in Plain /\ writer[w].content \in Plain
        /\ \A x \in Readers : reader[x].got \in Plain
    BY <1>2, <1>3, <2>1, <2>2
  <2> QED BY <1>4, <2>1, <2>3, <2>4 DEF PlainTexts
<1>7. LoadsAlone
  BY <1>1 DEF LoadsAlone
<1>8. ASSUME idb.text = {}, idb.agreed = None, disk = {} PROVE NothingHere
  <2>1. bridge.got = {} /\ IdleWriter.got = {} /\ IdleWriter.content = {} /\ IdleReader.got = {}
    BY <1>1 DEF IdleBridge, IdleWriter, IdleReader
  <2> QED BY <1>1, <1>2, <1>3, <1>8, <2>1 DEF NothingHere, Bare
<1>9. ASSUME idb.agreed = None, disk # {} PROVE FileUnread
  <2>1. bridge.pc = "idle" /\ IdleWriter.pc = "idle" /\ IdleReader.pc = "idle"
    BY <1>1 DEF IdleBridge, IdleWriter, IdleReader
  <2> QED BY <1>1, <1>2, <1>3, <1>9, <2>1 DEF FileUnread, Plain, Looks
<1>10. Seeded
  BY <1>1, <1>5, <1>8, <1>9 DEF Seeded, SeedsOf, Untouched, Connected
<1> QED BY <1>1, <1>6, <1>7, <1>10 DEF Quietly, Single

LEMMA StepQuiet ==
    ASSUME Shape, Absent, Quietly, Next
    PROVE  Shape' /\ Quietly'
<1>1. ASSUME NEW w \in Writers, WriteToDisk(w) \/ WriteFails(w) PROVE Shape' /\ Quietly'
  BY <1>1, FireTimerKeeps, ReadFileKeeps, KeepFirstKeeps, TakeUnseenInKeeps, KeptFirstKeeps,
     StartAgainKeeps, MergeKeptInKeeps, ReadSaveInKeeps, SkipUnconfirmedKeeps,
     AlreadyOnDiskKeeps, WriteOutKeeps, CopyMadeKeeps, WriteFileKeeps, WrittenKeeps,
     WriteFailsKeeps DEF WriteToDisk
<1>2. ASSUME NEW r \in Readers, OnLocalModify(r) PROVE Shape' /\ Quietly'
  BY <1>2, ModifyEventKeeps, FileReadKeeps DEF OnLocalModify
<1>3. CASE ConnectFile \/ Connecting \/ AbandonUnsubscribed \/ RetryUnplaced \/ DisconnectDoc
  BY <1>3, ConnectFileKeeps, AddressKeeps, LoadIndexedDbKeeps, StartSyncKeeps, CatchUpKeeps,
     SeedIfEmptyKeeps, AbandonUnsubscribedKeeps, RetryUnplacedKeeps, DisconnectDocKeeps
     DEF Connecting
<1>4. CASE \/ StartBind \/ Binding \/ Release \/ EditorSave \/ EditorEdit
           \/ CreatePlaceholder \/ SaveFile \/ RemoteEdit
  BY <1>4, StartBindKeeps, ReconcileFromDiskKeeps, ReconcileSeedKeeps, BindKeeps, ReleaseKeeps,
     EditorSaveKeeps, EditorEditKeeps, CreatePlaceholderKeeps, SaveFileKeeps, RemoteEditKeeps
     DEF Binding
<1> QED BY <1>1, <1>2, <1>3, <1>4 DEF Next

\* A document is doubled by a step that leaves everybody's writing alone, or
\* not at all.
LEMMA DoubledBy ==
    ASSUME Shape, Next
    PROVE  \/ UNCHANGED doubled
           \/ UNCHANGED <<used, removed>> /\ (Unchanged \/ EarlySaves \/ UNCHANGED doubled)
<1>1. ASSUME NEW w \in Writers, WriteToDisk(w) \/ WriteFails(w) PROVE UNCHANGED doubled
  BY <1>1 DEF WriteToDisk, FireTimer, ReadFile, KeepFirst, TakeUnseenIn, KeptFirst, StartAgain,
     MergeKeptIn, ReadSaveIn, SkipUnconfirmed, AlreadyOnDisk, WriteOut, CopyMade, WriteFile,
     Written, WriteFails, ghostVars
<1>2. ASSUME NEW r \in Readers, OnLocalModify(r) PROVE UNCHANGED doubled
  BY <1>2 DEF OnLocalModify, ModifyEvent, FileRead, ghostVars
<1>3. CASE ConnectFile \/ Address \/ StartSync \/ AbandonUnsubscribed \/ RetryUnplaced
           \/ DisconnectDoc
  BY <1>3 DEF ConnectFile, Address, StartSync, AbandonUnsubscribed, RetryUnplaced,
     DisconnectDoc, ghostVars
<1>4. CASE LoadIndexedDb \/ CatchUp \/ SeedIfEmpty \/ ReconcileSeed
  <2>1. UNCHANGED <<used, removed>>
    BY <1>4 DEF LoadIndexedDb, CatchUp, SeedIfEmpty, ReconcileSeed
  <2>2. UNCHANGED doubled \/ \E cond \in BOOLEAN : DoublesIf(cond)
    <3>1. \A cond : DoublesIf(cond) => UNCHANGED doubled \/ \E c \in BOOLEAN : DoublesIf(c)
      BY DEF DoublesIf, Shape, TypeOK
    <3> QED BY <1>4, <3>1 DEF LoadIndexedDb, CatchUp, SeedIfEmpty, ReconcileSeed
  <2> QED BY <2>1, <2>2 DEF DoublesIf, Unchanged, Shape, TypeOK
<1>5. CASE \/ StartBind \/ ReconcileFromDisk \/ Bind \/ Release \/ EditorSave \/ EditorEdit
           \/ CreatePlaceholder \/ SaveFile \/ RemoteEdit
  BY <1>5 DEF StartBind, ReconcileFromDisk, Bind, Release, EditorSave, EditorEdit,
     CreatePlaceholder, SaveFile, RemoteEdit, ghostVars
<1> QED BY <1>1, <1>2, <1>3, <1>4, <1>5 DEF Next, Connecting, Binding

LEMMA StepInv == ContentInv /\ [Next]_vars => ContentInv'
<1> SUFFICES ASSUME ContentInv, [Next]_vars PROVE ContentInv'
  OBVIOUS
<1>1. CASE Next
  <2>1. Shape' /\ Quietly' /\ Absent'
    BY <1>1, StepQuiet, AbsentKeeps DEF ContentInv
  <2>2. Single'
    BY <1>1, <2>1, DoubledBy DEF ContentInv, Single, Quietly, Unchanged
  <2> QED BY <2>1, <2>2 DEF ContentInv
<1>2. CASE UNCHANGED vars
  <2>1. UNCHANGED <<exists, disk, events, saving, kept, idb, phase, seedText, epoch, inbox,
                    note, diskBase, ownWrite, writer, reader, bridge, binds, used, removed,
                    raced, reverted, doubled>>
    BY <1>2 DEF vars
  <2>2. Shape' /\ Absent' /\ Single'
    BY <2>1 DEF ContentInv, Shape, TypeOK, Order, Connected, Subscribed, Absent, Single
  <2>3. ASSUME Unchanged PROVE PlainTexts' /\ LoadsAlone' /\ Untouched' = Untouched
    <3>1. PlainTexts /\ LoadsAlone
      BY <2>3 DEF ContentInv, Quietly
    <3>2. PlainTexts'
      BY <2>1, <3>1 DEF PlainTexts
    <3>3. LoadsAlone'
      BY <2>1, <3>1 DEF LoadsAlone
    <3>4. NothingHere' = NothingHere /\ FileUnread' = FileUnread
      BY <2>1 DEF NothingHere, FileUnread
    <3> QED BY <2>1, <3>2, <3>3, <3>4 DEF Untouched
  <2>4. Quietly'
    BY <2>1, <2>3 DEF ContentInv, Quietly, Unchanged, Seeded, SeedsOf, Connected
  <2> QED BY <2>2, <2>4 DEF ContentInv
<1> QED BY <1>1, <1>2

LEMMA ContentInvAlways == Spec => []ContentInv
<1>1. Init => ContentInv
  BY InitShape, InitQuiet DEF ContentInv
<1> QED BY <1>1, StepInv, PTL DEF Spec

\* ContentSync keeps its types, for any lines, activations, edits and faults.
THEOREM ContentTyped == Spec => []TypeOK
<1>1. ContentInv => TypeOK
  BY DEF ContentInv, Shape
<1> QED BY <1>1, ContentInvAlways, PTL

\* No route by which a file's text comes into its document - IndexedDB, the
\* catch-up, the first sync's seed, the editor's reconcile and its bind - brings
\* it in twice, so long as no file changes between a connect and its note's
\* first agreement (seedDocument, seedIfEmpty, reconcileFromDisk, bindDoc).
THEOREM SeedsStandOnce ==
    ASSUME ~EarlySaves
    PROVE  Spec => []NeverDoubled
<1>1. ContentInv => NeverDoubled
  BY DEF ContentInv, Single, NeverDoubled
<1> QED BY <1>1, ContentInvAlways, PTL
=============================================================================
