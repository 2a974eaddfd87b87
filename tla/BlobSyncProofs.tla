--------------------------- MODULE BlobSyncProofs ---------------------------
(***************************************************************************)
(* The attachments of a shared folder, for any vaults, names, renames and  *)
(* bounds: nothing a person saved is gone before it was shared, outside    *)
(* the ways BlobSync names, and only a kill is blamed for a skip.          *)
(*                                                                         *)
(* Both rest on what is listed, and on what is under way for it.  A blob   *)
(* that is listed, on its way to a vault or being downloaded holds what    *)
(* somebody shared; what counts as synced was shared, or is accounted for; *)
(* and so what a download may write over was accounted for when it was     *)
(* compared.  A path a download has put on record stays the path of that   *)
(* download until the record is cleared, or is a suspect.                  *)
(***************************************************************************)
EXTENDS BlobSync, TLAPS

-----------------------------------------------------------------------------
(* The invariant, by what it is about. *)

Item == [at : Seq(Nat), live : BOOLEAN, value : Nat]
Change == [path : Paths, at : Seq(Nat), live : BOOLEAN, value : Nat]
SavedState == [state : DeviceRecord, awaits : Paths \cup {NoPath}]
Connection == [on : BOOLEAN, open : BOOLEAN, catchup : Nat, reconciled : BOOLEAN,
               has : BOOLEAN, moved : BOOLEAN]
FolderState == [echo : SUBSET Paths, synced : [Paths -> Nat], timers : SUBSET Paths]
Flush == [uploads : SUBSET Paths, purges : SUBSET Nat, attests : BOOLEAN]
Kept == [pending : SUBSET Paths, purges : SUBSET Nat, refused : SUBSET Paths, flush : Flush]

Fair(contents) == contents \subseteq accounted \cup {0}
Shared(blob) == blob \in DOMAIN sealed /\ Fair({sealed[blob]})

\* A record of these fields, whatever its turn.
IsUpload(u) ==
    /\ u = [vault |-> u.vault, path |-> u.path, n |-> u.n, flushed |-> u.flushed, at |-> u.at,
            hash |-> u.hash, blob |-> u.blob]
    /\ u.vault \in Vaults /\ u.path \in Paths /\ u.hash \in Nat
IsWork(w) ==
    /\ w = [vault |-> w.vault, path |-> w.path, turn |-> w.turn, kind |-> w.kind,
            blob |-> w.blob, seen |-> w.seen, at |-> w.at]
    /\ w.vault \in Vaults /\ w.path \in Paths

DeviceOK ==
    /\ device \in [Vaults -> DeviceRecord]
    /\ saves \in [Vaults -> Seq(SavedState)]
    /\ stateFile \in [Vaults -> Seq(DeviceRecord)]
    /\ \A v \in Vaults : Len(stateFile[v]) \in {0, 1}

ListingOK ==
    /\ entry \in [Vaults -> [Paths -> Item]]
    /\ inbox \in [Vaults -> Seq(SUBSET Change)]
    /\ \A v \in Vaults, p \in Paths : entry[v][p].live => Shared(entry[v][p].value)
    /\ \A v \in Vaults : \A i \in DOMAIN inbox[v] : \A c \in inbox[v][i] :
           c.live => Shared(c.value)

DiskOK ==
    /\ changes \in Nat
    /\ disk \in [Vaults -> [Paths -> Nat]]
    /\ stray \in [Vaults -> [Paths -> Nat]]
    /\ UnsharedKept

SealedOK == sealed \in Seq(Nat)

ConnOK ==
    /\ conn \in [Vaults -> Connection]
    /\ \A v \in Vaults : conn[v].open => conn[v].on

FolderOK ==
    /\ folder \in [Vaults -> FolderState]
    /\ \A v \in Vaults, p \in Paths : Fair({folder[v].synced[p]})

QueueOK == queue \in [Vaults -> Kept]

UploadsOK ==
    \A u \in uploads : IsUpload(u) /\ (u.at = "putting" => u.blob \in DOMAIN sealed)

WorkOK ==
    \A w \in work :
        /\ IsWork(w) /\ conn[w.vault].on
        /\ w.kind = "download" => Shared(w.blob)
        /\ w.kind = "download" \/ w.at \in {"waiting", "trashing"}
        /\ w.at = "writing" => Fair({w.seen})

Parts == DeviceOK /\ ListingOK /\ DiskOK /\ SealedOK /\ ConnOK /\ FolderOK /\ QueueOK
         /\ UploadsOK /\ WorkOK

\* A download that may have put itself on record, and the paths of those.
Contributes(w) == w.at = "recording" \/ (w.at = "fetching" /\ sealed[w.blob] \in Large)
OnRecord(v) == {w.path : w \in {x \in work : x.vault = v /\ Contributes(x)}}

Blamed(state) == {p \in Paths : state.skipped[p] = "crashed"}

BlameOK ==
    /\ suspects \in [Vaults -> SUBSET Paths]
    /\ \A w \in work : w.at = "recording" => sealed[w.blob] \in Large
    /\ \A v \in Vaults :
         /\ Blamed(device[v]) \subseteq suspects[v]
         /\ device[v].attempt \subseteq suspects[v] \cup OnRecord(v)
         /\ \A i \in DOMAIN saves[v] : Blamed(saves[v][i].state) \subseteq suspects[v]
         /\ \A i \in DOMAIN stateFile[v] : Blamed(stateFile[v][i]) \subseteq suspects[v]
         /\ saves[v] # << >> => saves[v][Len(saves[v])].state = device[v] /\ conn[v].on
         /\ conn[v].on /\ saves[v] = << >> =>
                \A i \in DOMAIN stateFile[v] : stateFile[v][i] = device[v]
         /\ ~conn[v].on => \A i \in DOMAIN stateFile[v] : stateFile[v][i].attempt \subseteq suspects[v]

Inv == Parts /\ BlameOK

-----------------------------------------------------------------------------
(* What a step leaves alone. *)

\* A step adds to what is accounted for, and at most one blob to the sealed.
Grows ==
    /\ accounted \subseteq accounted'
    /\ sealed' = sealed \/ \E content \in Nat : sealed' = Append(sealed, content)

\* Shared after the step.
Later(blob) == blob \in DOMAIN sealed' /\ sealed'[blob] \in accounted' \cup {0}

LEMMA SharedStays ==
    ASSUME SealedOK, Grows
    PROVE  /\ SealedOK'
           /\ \A blob \in DOMAIN sealed : blob \in DOMAIN sealed' /\ sealed'[blob] = sealed[blob]
           /\ \A contents : Fair(contents) => Fair(contents)'
           /\ \A blob : Shared(blob) => Later(blob)
<1>1. \A contents : Fair(contents) => Fair(contents)'
  BY DEF Fair, Grows
<1>2. SealedOK' /\ \A blob \in DOMAIN sealed : blob \in DOMAIN sealed' /\ sealed'[blob] = sealed[blob]
  BY DEF SealedOK, Grows
<1>3. \A blob : Shared(blob) => Later(blob)
  BY <1>2 DEF Shared, Fair, Grows, Later
<1> QED BY <1>1, <1>2, <1>3

LEMMA Frames ==
    ASSUME SealedOK, Grows
    PROVE  /\ ListingOK /\ UNCHANGED listing => ListingOK'
           /\ DiskOK /\ UNCHANGED <<disk, stray, changes>> => DiskOK'
           /\ FolderOK /\ UNCHANGED folder => FolderOK'
           /\ UploadsOK /\ UNCHANGED uploads => UploadsOK'
           /\ WorkOK /\ UNCHANGED <<work, conn>> => WorkOK'
           /\ DeviceOK /\ UNCHANGED deviceVars => DeviceOK'
           /\ ConnOK /\ UNCHANGED conn => ConnOK'
           /\ QueueOK /\ UNCHANGED queue => QueueOK'
<1>1. /\ \A blob \in DOMAIN sealed : blob \in DOMAIN sealed'
      /\ \A contents : Fair(contents) => Fair(contents)'
      /\ \A blob : Shared(blob) => Later(blob)
  BY SharedStays
<1>2. ListingOK /\ UNCHANGED listing => ListingOK'
  BY <1>1 DEF ListingOK, listing, Later, Shared, Fair
<1>3. DiskOK /\ UNCHANGED <<disk, stray, changes>> => DiskOK'
  BY DEF DiskOK, UnsharedKept, Grows
<1>4. FolderOK /\ UNCHANGED folder => FolderOK'
  BY <1>1 DEF FolderOK
<1>5. UploadsOK /\ UNCHANGED uploads => UploadsOK'
  BY <1>1 DEF UploadsOK, IsUpload
<1>6. WorkOK /\ UNCHANGED <<work, conn>> => WorkOK'
  BY <1>1 DEF WorkOK, IsWork, Later, Shared, Fair
<1>7. /\ DeviceOK /\ UNCHANGED deviceVars => DeviceOK'
      /\ ConnOK /\ UNCHANGED conn => ConnOK'
      /\ QueueOK /\ UNCHANGED queue => QueueOK'
  BY DEF DeviceOK, ConnOK, QueueOK, deviceVars
<1> QED BY <1>2, <1>3, <1>4, <1>5, <1>6, <1>7

-----------------------------------------------------------------------------
(* The listing. *)

LEMMA Applied ==
    ASSUME NEW R \in [Paths -> Item], NEW T \in SUBSET Change
    PROVE  /\ Apply(R, T) \in [Paths -> Item]
           /\ \A p \in Paths :
                \/ Apply(R, T)[p] = R[p]
                \/ \E c \in T : Apply(R, T)[p].live = c.live /\ Apply(R, T)[p].value = c.value
<1>1. CASE T = {}
  BY <1>1 DEF Apply
<1>2. CASE T # {}
  <2>1. Apply(R, T) = [p \in Paths |-> IF \E c \in T : c.path = p
                                       THEN Integrate(R[p], CHOOSE c \in T : c.path = p)
                                       ELSE R[p]]
    BY <1>2 DEF Apply
  <2>2. ASSUME NEW p \in Paths
        PROVE  /\ Apply(R, T)[p] \in Item
               /\ \/ Apply(R, T)[p] = R[p]
                  \/ \E c \in T : Apply(R, T)[p].live = c.live /\ Apply(R, T)[p].value = c.value
    <3>1. CASE \E c \in T : c.path = p
      <4> DEFINE c == CHOOSE d \in T : d.path = p
      <4>1. c \in T /\ c \in Change
        BY <3>1
      <4>2. Apply(R, T)[p] = Integrate(R[p], c)
        BY <2>1, <3>1
      <4> HIDE DEF c
      <4>3. \/ Integrate(R[p], c) = R[p]
            \/ Integrate(R[p], c) = [at |-> c.at, live |-> c.live, value |-> c.value]
        BY DEF Integrate
      <4>4. c.at \in Seq(Nat) /\ c.live \in BOOLEAN /\ c.value \in Nat
        BY <4>1 DEF Change
      <4>5. R[p] \in Item
        OBVIOUS
      <4>6. CASE Integrate(R[p], c) = R[p]
        BY <4>2, <4>5, <4>6
      <4>7. CASE Integrate(R[p], c) = [at |-> c.at, live |-> c.live, value |-> c.value]
        <5>1. Apply(R, T)[p] \in Item
          BY <4>2, <4>4, <4>7 DEF Item
        <5>2. Apply(R, T)[p].live = c.live /\ Apply(R, T)[p].value = c.value
          BY <4>2, <4>7
        <5> QED BY <4>1, <5>1, <5>2
      <4> QED BY <4>3, <4>6, <4>7
    <3>2. CASE ~\E c \in T : c.path = p
      BY <2>1, <3>2
    <3> QED BY <3>1, <3>2
  <2> QED BY <2>1, <2>2
<1> QED BY <1>1, <1>2

LEMMA Transacted ==
    ASSUME SealedOK, ListingOK, Grows, NEW v \in Vaults, NEW T \in SUBSET Change,
           \A c \in T : c.live => Later(c.value), Transact(v, T)
    PROVE  ListingOK'
<1>0. \A blob : Shared(blob) => Later(blob)
  BY SharedStays
<1>1. /\ entry' \in [Vaults -> [Paths -> Item]]
      /\ \A w \in Vaults : entry'[w] = IF w = v THEN Apply(entry[v], T) ELSE entry[w]
  BY Applied DEF Transact, ListingOK
<1>2. \A w \in Vaults, p \in Paths : entry'[w][p].live => Later(entry'[w][p].value)
  <2> TAKE w \in Vaults, p \in Paths
  <2>0. entry[w] \in [Paths -> Item] /\ (entry[w][p].live => Later(entry[w][p].value))
    BY <1>0 DEF ListingOK
  <2>1. CASE w = v
    <3>1. \/ entry'[w][p] = entry[w][p]
          \/ \E c \in T : entry'[w][p].live = c.live /\ entry'[w][p].value = c.value
      BY <1>1, <2>0, <2>1, Applied
    <3> QED BY <2>0, <3>1
  <2>2. CASE w # v
    BY <1>1, <2>0, <2>2
  <2> QED BY <2>1, <2>2
<1>3. /\ inbox' \in [Vaults -> Seq(SUBSET Change)]
      /\ \A w \in Vaults : inbox'[w] = inbox[w] \/ inbox'[w] = Append(inbox[w], T)
  BY DEF Transact, ListingOK
<1>4. \A w \in Vaults : \A i \in DOMAIN inbox'[w] : \A c \in inbox'[w][i] :
          c.live => Later(c.value)
  <2> TAKE w \in Vaults
  <2>1. inbox[w] \in Seq(SUBSET Change)
    BY DEF ListingOK
  <2>2. \A i \in DOMAIN inbox[w] : \A c \in inbox[w][i] : c.live => Later(c.value)
    BY <1>0 DEF ListingOK
  <2>3. \A i \in DOMAIN inbox'[w] :
            (i \in DOMAIN inbox[w] /\ inbox'[w][i] = inbox[w][i]) \/ inbox'[w][i] = T
    <3>1. CASE inbox'[w] = inbox[w]
      BY <3>1
    <3>2. CASE inbox'[w] = Append(inbox[w], T)
      BY <2>1, <3>2
    <3> QED BY <1>3, <3>1, <3>2
  <2> QED BY <2>2, <2>3
<1> QED BY <1>1, <1>2, <1>3, <1>4 DEF ListingOK, Later, Shared, Fair

LEMMA Named ==
    ASSUME ListingOK, NEW v \in Vaults, NEW p \in Paths
    PROVE  /\ Listed(v, p) \in Nat
           /\ Listed(v, p) # 0 => Shared(Listed(v, p)) /\ conn[v].open
           /\ Deletion(entry[v], p) \in Change /\ ~Deletion(entry[v], p).live
           /\ \A blob \in Nat : /\ Assignment(entry[v], v, p, blob) \in Change
                                /\ Assignment(entry[v], v, p, blob).value = blob
<1>1. entry[v][p] \in Item /\ v \in Nat
  BY VaultsAssumption DEF ListingOK
<1>2. entry[v][p].value \in Nat /\ entry[v][p].at \in Seq(Nat)
  BY <1>1 DEF Item
<1>3. Listed(v, p) \in Nat /\ (Listed(v, p) # 0 => Shared(Listed(v, p)) /\ conn[v].open)
  BY <1>2 DEF Listed, ListingOK
<1>4. Deletion(entry[v], p) \in Change /\ ~Deletion(entry[v], p).live
  BY <1>2 DEF Deletion, Change
<1>5. ASSUME NEW blob \in Nat
      PROVE  /\ Assignment(entry[v], v, p, blob) \in Change
             /\ Assignment(entry[v], v, p, blob).value = blob
  <2>1. Append(entry[v][p].at, v) \in Seq(Nat)
    BY <1>1, <1>2
  <2> QED BY <2>1 DEF Assignment, Change
<1> QED BY <1>3, <1>4, <1>5

LEMMA EntrySet ==
    ASSUME SealedOK, ListingOK, Grows, NEW v \in Vaults, NEW p \in Paths, NEW blob \in Nat,
           conn[v].open => Later(blob), setBlobEntry(v, p, blob)
    PROVE  ListingOK'
<1> DEFINE T == IF conn[v].open THEN {Assignment(entry[v], v, p, blob)} ELSE {}
<1>1. T \in SUBSET Change /\ \A c \in T : c.live => Later(c.value)
  BY Named
<1>2. Transact(v, T)
  BY DEF setBlobEntry
<1> QED BY <1>1, <1>2, Transacted

LEMMA EntryRemoved ==
    ASSUME SealedOK, ListingOK, Grows, NEW v \in Vaults, NEW p \in Paths, removeBlobEntry(v, p)
    PROVE  ListingOK'
<1> DEFINE T == IF Listed(v, p) # 0 THEN {Deletion(entry[v], p)} ELSE {}
<1>1. T \in SUBSET Change /\ \A c \in T : c.live => Later(c.value)
  BY Named
<1>2. Transact(v, T)
  BY DEF removeBlobEntry
<1> QED BY <1>1, <1>2, Transacted

LEMMA EntryRenamed ==
    ASSUME SealedOK, ListingOK, Grows, NEW v \in Vaults, NEW p \in Paths, NEW q \in Paths,
           Listed(v, p) # 0, renameBlobEntry(v, p, q)
    PROVE  ListingOK'
<1> DEFINE T == {Deletion(entry[v], p), Assignment(entry[v], v, q, Listed(v, p))}
<1>0. Listed(v, p) \in Nat /\ Later(Listed(v, p))
  BY Named, SharedStays
<1>1. T \in SUBSET Change /\ \A c \in T : c.live => Later(c.value)
  BY <1>0, Named
<1>2. Transact(v, T)
  BY DEF renameBlobEntry
<1> QED BY <1>1, <1>2, Transacted

-----------------------------------------------------------------------------
(* The folder's own state, the queue, and what is under way. *)

LEMMA FolderKept ==
    ASSUME FolderOK, SealedOK, Grows, folder' \in [Vaults -> FolderState],
           \A v \in Vaults, p \in Paths :
               folder'[v].synced[p] \in {folder[v].synced[p], 0} \cup accounted'
    PROVE  FolderOK'
<1>1. \A v \in Vaults, p \in Paths : folder[v].synced[p] \in accounted' \cup {0}
  BY DEF FolderOK, Fair, Grows
<1>2. \A v \in Vaults, p \in Paths : folder'[v].synced[p] \in accounted' \cup {0}
  BY <1>1
<1> QED BY <1>2 DEF FolderOK, Fair

LEMMA SyncedSet ==
    ASSUME FolderOK, SealedOK, Grows, NEW v \in Vaults, NEW p \in Paths, NEW content \in Nat,
           content \in accounted' \cup {0}, Synced(v, p, content)
    PROVE  FolderOK'
<1>1. folder' \in [Vaults -> FolderState]
  BY DEF Synced, FolderOK, FolderState
<1>2. \A w \in Vaults, q \in Paths : folder'[w].synced[q] \in {folder[w].synced[q], content}
  BY DEF Synced, FolderOK, FolderState
<1> QED BY <1>1, <1>2, FolderKept

LEMMA AfterSaved ==
    ASSUME NEW v \in Vaults, NEW p \in Paths, NEW f \in FolderState
    PROVE  AfterSave(v, p, f) \in FolderState /\ AfterSave(v, p, f).synced = f.synced
  BY DEF AfterSave, FolderState

LEMMA QueueEdits ==
    ASSUME QueueOK, NEW v \in Vaults
    PROVE  /\ \A p \in Paths : /\ rememberPending(v, p) => QueueOK'
                               /\ forgetPending(v, p) => QueueOK'
                               /\ refusePermanently(v, p) => QueueOK'
           /\ \A blob \in Nat : deleteRemote(v, blob) => QueueOK'
<1>1. \A p \in Paths : rememberPending(v, p) => QueueOK'
  BY DEF QueueOK, Kept, rememberPending
<1>2. \A p \in Paths : forgetPending(v, p) => QueueOK'
  BY DEF QueueOK, Kept, forgetPending
<1>3. ASSUME NEW p \in Paths, refusePermanently(v, p) PROVE QueueOK'
  <2> DEFINE k == [queue[v] EXCEPT !.pending = @ \ {p}, !.refused = @ \cup {p}]
  <2>1. queue[v] \in Kept
    BY DEF QueueOK
  <2>2. k \in Kept
    BY <2>1 DEF Kept
  <2>3. queue' = [queue EXCEPT ![v] = k]
    BY <1>3 DEF refusePermanently
  <2> HIDE DEF k
  <2> QED BY <2>2, <2>3 DEF QueueOK
<1>4. \A blob \in Nat : deleteRemote(v, blob) => QueueOK'
  BY DEF QueueOK, Kept, deleteRemote
<1> QED BY <1>1, <1>2, <1>3, <1>4

LEMMA UploadsKept ==
    ASSUME UploadsOK, SealedOK, Grows,
           \A u \in uploads' : \/ u \in uploads
                               \/ IsUpload(u) /\ (u.at = "putting" => u.blob \in DOMAIN sealed')
    PROVE  UploadsOK'
<1>1. \A blob \in DOMAIN sealed : blob \in DOMAIN sealed'
  BY SharedStays
<1> QED BY <1>1 DEF UploadsOK, IsUpload

\* What is under way after the step.
LaterWork(w) ==
    /\ IsWork(w) /\ conn'[w.vault].on
    /\ w.kind = "download" => Later(w.blob)
    /\ w.kind = "download" \/ w.at \in {"waiting", "trashing"}
    /\ w.at = "writing" => w.seen \in accounted' \cup {0}

LEMMA WorkStays ==
    ASSUME WorkOK, SealedOK, Grows, NEW w \in work, conn[w.vault].on => conn'[w.vault].on
    PROVE  LaterWork(w)
<1>1. /\ \A blob : Shared(blob) => Later(blob)
      /\ accounted \subseteq accounted'
  BY SharedStays DEF Grows
<1>2. Fair({w.seen}) => w.seen \in accounted' \cup {0}
  BY <1>1 DEF Fair
<1> QED BY <1>1, <1>2 DEF WorkOK, LaterWork

LEMMA WorkKept ==
    ASSUME WorkOK, SealedOK, Grows,
           \A w \in work' : LaterWork(w) \/ (w \in work /\ (conn[w.vault].on => conn'[w.vault].on))
    PROVE  WorkOK'
<1>1. \A w \in work' : LaterWork(w)
  BY WorkStays
<1> QED BY <1>1 DEF WorkOK, LaterWork, IsWork, Later, Shared, Fair

LEMMA WorkDone ==
    ASSUME WorkOK, SealedOK, Grows, UNCHANGED conn, NEW w, Done(w)
    PROVE  WorkOK'
<1>1. \A x \in work' : x \in work /\ (conn[x.vault].on => conn'[x.vault].on)
  BY DEF Done
<1> QED BY <1>1, WorkKept

LEMMA WorkGoes ==
    ASSUME WorkOK, SealedOK, Grows, UNCHANGED conn, NEW w \in work, NEW at, Goes(w, at),
           at # "writing", w.kind = "download" \/ at \in {"waiting", "trashing"}
    PROVE  WorkOK'
<1> DEFINE x == [w EXCEPT !.at = at]
<1>1. LaterWork(w) /\ IsWork(w)
  BY WorkStays DEF LaterWork
<1>2. x = [vault |-> w.vault, path |-> w.path, turn |-> w.turn, kind |-> w.kind,
           blob |-> w.blob, seen |-> w.seen, at |-> at]
  BY <1>1 DEF IsWork
<1> HIDE DEF x
<1>3. /\ x.vault = w.vault /\ x.path = w.path /\ x.turn = w.turn /\ x.kind = w.kind
      /\ x.blob = w.blob /\ x.seen = w.seen /\ x.at = at
  BY <1>2
<1>4. IsWork(x)
  BY <1>1, <1>2, <1>3 DEF IsWork
<1>5. LaterWork(x)
  BY <1>1, <1>3, <1>4 DEF LaterWork
<1>6. \A y \in work' : y = x \/ (y \in work /\ (conn[y.vault].on => conn'[y.vault].on))
  BY DEF Goes, x
<1> QED BY <1>5, <1>6, WorkKept

-----------------------------------------------------------------------------
(* The files. *)

Survives(content) ==
    \/ content = 0 \/ content \in accounted'
    \/ \E v \in Vaults, p \in Paths : content \in {disk'[v][p], stray'[v][p]}

LEMMA DiskRewritten ==
    ASSUME DiskOK, Grows, changes' \in {changes, changes + 1},
           disk' \in [Vaults -> [Paths -> Nat]], stray' \in [Vaults -> [Paths -> Nat]],
           \A v \in Vaults, p \in Paths : Survives(disk[v][p]) /\ Survives(stray[v][p]),
           changes' # changes => Survives(changes')
    PROVE  DiskOK'
<1>1. changes \in Nat /\ changes' \in Nat
  BY DEF DiskOK
<1>2. ASSUME NEW c \in 1..changes'
      PROVE  c \in accounted' \/ \E v \in Vaults, p \in Paths : c \in {disk'[v][p], stray'[v][p]}
  <2>1. c # 0
    BY <1>1
  <2>2. CASE c \in 1..changes
    <3>1. c \in accounted \/ \E v \in Vaults, p \in Paths : c \in {disk[v][p], stray[v][p]}
      BY <2>2 DEF DiskOK, UnsharedKept
    <3>2. c \in accounted' \/ Survives(c)
      BY <3>1 DEF Grows
    <3> QED BY <2>1, <3>2 DEF Survives
  <2>3. CASE c \notin 1..changes
    <3>1. c = changes' /\ changes' # changes
      BY <1>1, <2>3
    <3> QED BY <2>1, <3>1 DEF Survives
  <2> QED BY <2>2, <2>3
<1> QED BY <1>1, <1>2 DEF DiskOK, UnsharedKept

LEMMA PutDown ==
    ASSUME DiskOK, Grows, UNCHANGED changes, NEW v \in Vaults, NEW p \in Paths,
           NEW content \in Nat, Put(v, p, content), Seen(v)[p] \in accounted' \cup {0}
    PROVE  DiskOK'
<1>1. disk' \in [Vaults -> [Paths -> Nat]] /\ stray' \in [Vaults -> [Paths -> Nat]]
  <2>1. \A F \in [Vaults -> [Paths -> Nat]] :
            [F EXCEPT ![v][p] = content] \in [Vaults -> [Paths -> Nat]]
    OBVIOUS
  <2> QED BY <2>1 DEF DiskOK, Put
<1>2. ASSUME NEW w \in Vaults, NEW q \in Paths PROVE Survives(disk[w][q]) /\ Survives(stray[w][q])
  <2>1. CASE conn[v].moved
    <3>1. disk' = disk /\ Survives(disk[w][q])
      BY <2>1 DEF Put, Survives
    <3>2. \/ stray'[w][q] = stray[w][q]
          \/ stray[w][q] = Seen(v)[p]
      BY <2>1 DEF Put, DiskOK, Seen
    <3>3. Survives(stray[w][q])
      BY <3>2 DEF Survives
    <3> QED BY <3>1, <3>3
  <2>2. CASE ~conn[v].moved
    <3>1. stray' = stray /\ Survives(stray[w][q])
      BY <2>2 DEF Put, Survives
    <3>2. \/ disk'[w][q] = disk[w][q]
          \/ disk[w][q] = Seen(v)[p]
      BY <2>2 DEF Put, DiskOK, Seen
    <3>3. Survives(disk[w][q])
      BY <3>2 DEF Survives
    <3> QED BY <3>1, <3>3
  <2> QED BY <2>1, <2>2
<1> QED BY <1>1, <1>2, DiskRewritten

LEMMA SeenIs ==
    ASSUME DiskOK, NEW v \in Vaults, NEW p \in Paths PROVE Seen(v)[p] \in Nat
  BY DEF DiskOK, Seen

-----------------------------------------------------------------------------
(* What people do. *)

LEMMA UserSaves ==
    ASSUME Parts, NEW v \in Vaults, NEW p \in Paths, UserSave(v, p)
    PROVE  Parts'
<1> USE DEF Parts
<1>1. Grows
  BY DEF UserSave, server, Account, Grows
<1>2. ListingOK' /\ UploadsOK' /\ WorkOK' /\ DeviceOK' /\ ConnOK' /\ QueueOK' /\ SealedOK'
  BY <1>1, Frames, SharedStays DEF UserSave
<1>3. DiskOK'
  <2>1. changes \in Nat /\ changes' = changes + 1
    BY DEF UserSave, MayChange, DiskOK
  <2>2. disk' = [disk EXCEPT ![v][p] = changes'] /\ stray' = stray /\ disk[v][p] \in accounted' \cup {0}
    BY DEF UserSave, Account
  <2>3. /\ disk' \in [Vaults -> [Paths -> Nat]] /\ stray' \in [Vaults -> [Paths -> Nat]]
        /\ disk'[v][p] = changes'
    BY <2>1, <2>2 DEF DiskOK
  <2>4. ASSUME NEW w \in Vaults, NEW q \in Paths PROVE Survives(disk[w][q]) /\ Survives(stray[w][q])
    <3>1. disk'[w][q] = disk[w][q] \/ disk[w][q] = disk[v][p]
      BY <2>2 DEF DiskOK
    <3> QED BY <2>2, <3>1 DEF Survives
  <2>5. Survives(changes')
    BY <2>3 DEF Survives
  <2> QED BY <1>1, <2>1, <2>3, <2>4, <2>5, DiskRewritten
<1>4. FolderOK'
  <2>1. folder' = [folder EXCEPT ![v] = AfterSave(v, p, folder[v])] /\ folder \in [Vaults -> FolderState]
    BY DEF UserSave, FolderOK
  <2>2. AfterSave(v, p, folder[v]) \in FolderState
        /\ AfterSave(v, p, folder[v]).synced = folder[v].synced
    BY <2>1, AfterSaved
  <2>3. /\ folder' \in [Vaults -> FolderState]
        /\ \A w \in Vaults : folder'[w].synced = folder[w].synced
    BY <2>1, <2>2
  <2> QED BY <1>1, <2>3, FolderKept
<1> QED BY <1>2, <1>3, <1>4

\* A deletion the watcher hears, of a person's or of the plugin's own.
LEMMA DeletionHandled ==
    ASSUME ListingOK, SealedOK, QueueOK, Grows, NEW v \in Vaults, NEW p \in Paths,
           handleDelete(v, p)
    PROVE  ListingOK' /\ QueueOK'
<1>1. ListingOK'
  BY EntryRemoved DEF handleDelete
<1>2. QueueOK'
  <2>1. Listed(v, p) \in Nat
    BY Named
  <2>2. deleteRemote(v, Listed(v, p)) \/ UNCHANGED queue
    BY DEF handleDelete
  <2> QED BY <2>1, <2>2, QueueEdits DEF QueueOK
<1> QED BY <1>1, <1>2

LEMMA UserDeletes ==
    ASSUME Parts, NEW v \in Vaults, NEW p \in Paths, UserDelete(v, p)
    PROVE  Parts'
<1> USE DEF Parts
<1>1. Grows
  BY DEF UserDelete, Account, Grows
<1>2. FolderOK' /\ UploadsOK' /\ WorkOK' /\ DeviceOK' /\ ConnOK' /\ SealedOK'
  BY <1>1, Frames, SharedStays DEF UserDelete
<1>3. DiskOK'
  <2>1. changes \in Nat /\ changes' = changes + 1
    BY DEF UserDelete, MayChange, DiskOK
  <2>2. /\ disk' = [disk EXCEPT ![v][p] = 0] /\ stray' = stray
        /\ disk[v][p] \in accounted' \cup {0} /\ changes' \in accounted' \cup {0}
    BY DEF UserDelete, Account
  <2>3. disk' \in [Vaults -> [Paths -> Nat]] /\ stray' \in [Vaults -> [Paths -> Nat]]
    BY <2>1, <2>2 DEF DiskOK
  <2>4. ASSUME NEW w \in Vaults, NEW q \in Paths PROVE Survives(disk[w][q]) /\ Survives(stray[w][q])
    <3>1. disk'[w][q] = disk[w][q] \/ disk[w][q] = disk[v][p]
      BY <2>2 DEF DiskOK
    <3> QED BY <2>2, <3>1 DEF Survives
  <2>5. Survives(changes')
    BY <2>2 DEF Survives
  <2> QED BY <1>1, <2>1, <2>3, <2>4, <2>5, DiskRewritten
<1>4. ListingOK' /\ QueueOK'
  <2>1. handleDelete(v, p) \/ UNCHANGED <<listing, queue>>
    BY DEF UserDelete
  <2> QED BY <1>1, <2>1, DeletionHandled, Frames
<1> QED BY <1>2, <1>3, <1>4

LEMMA UserRenames ==
    ASSUME Parts, NEW v \in Vaults, NEW p \in Paths, NEW q \in Paths, UserRename(v, p, q)
    PROVE  Parts'
<1> USE DEF Parts
<1>1. Grows
  BY DEF UserRename, server, Account, Grows
<1>2. UploadsOK' /\ WorkOK' /\ DeviceOK' /\ ConnOK' /\ QueueOK' /\ SealedOK'
  BY <1>1, Frames, SharedStays DEF UserRename
<1>3. DiskOK'
  <2>1. changes \in Nat /\ changes' = changes + 1
    BY DEF UserRename, MayChange, DiskOK
  <2>2. /\ disk' = [disk EXCEPT ![v] = [@ EXCEPT ![q] = disk[v][p], ![p] = 0]] /\ stray' = stray
        /\ disk[v][p] # 0 /\ disk[v][q] = 0 /\ changes' \in accounted' \cup {0}
    BY DEF UserRename, Account
  <2>3. /\ disk' \in [Vaults -> [Paths -> Nat]] /\ stray' \in [Vaults -> [Paths -> Nat]]
        /\ p # q /\ disk'[v][q] = disk[v][p]
    BY <2>1, <2>2 DEF DiskOK
  <2>4. ASSUME NEW w \in Vaults, NEW r \in Paths PROVE Survives(disk[w][r]) /\ Survives(stray[w][r])
    <3>1. disk'[w][r] = disk[w][r] \/ disk[w][r] = disk'[v][q] \/ disk[w][r] = 0
      BY <2>2, <2>3 DEF DiskOK
    <3> QED BY <2>2, <3>1 DEF Survives
  <2>5. Survives(changes')
    BY <2>2 DEF Survives
  <2> QED BY <1>1, <2>1, <2>3, <2>4, <2>5, DiskRewritten
<1>4. ListingOK' /\ FolderOK'
  <2>1. CASE conn[v].on /\ Listed(v, p) # 0
    BY <1>1, <2>1, EntryRenamed, Frames DEF UserRename
  <2>2. CASE ~(conn[v].on /\ Listed(v, p) # 0)
    <3>1. /\ folder' \in [Vaults -> FolderState]
          /\ \A w \in Vaults : folder'[w].synced = folder[w].synced
      <4>1. \/ folder' = [folder EXCEPT ![v].timers = @ \cup {q}]
            \/ folder' = [folder EXCEPT ![v].timers = @]
        BY <2>2 DEF UserRename
      <4>2. CASE folder' = [folder EXCEPT ![v].timers = @ \cup {q}]
        BY <4>2 DEF FolderOK, FolderState
      <4>3. CASE folder' = [folder EXCEPT ![v].timers = @]
        BY <4>3 DEF FolderOK, FolderState
      <4> QED BY <4>1, <4>2, <4>3
    <3>2. UNCHANGED listing
      BY <2>2 DEF UserRename
    <3> QED BY <1>1, <3>1, <3>2, FolderKept, Frames
  <2> QED BY <2>1, <2>2
<1> QED BY <1>2, <1>3, <1>4

-----------------------------------------------------------------------------
(* Uploads. *)

LEMMA UploadBegins ==
    ASSUME Parts, Grows, NEW v \in Vaults, NEW p \in Paths, NEW flushed, NEW settled \in BOOLEAN,
           upload(v, p, flushed, settled)
    PROVE  FolderOK' /\ QueueOK' /\ UploadsOK'
<1> USE DEF Parts
<1> DEFINE content == Seen(v)[p]
           before == IF settled THEN [folder EXCEPT ![v].timers = @ \ {p}] ELSE folder
           entered == IF flushed THEN [queue EXCEPT ![v].flush.uploads = @ \ {p}] ELSE queue
<1>1. content \in Nat
  BY SeenIs
<1>2. before \in [Vaults -> FolderState] /\ \A w \in Vaults : before[w].synced = folder[w].synced
  BY DEF FolderOK, FolderState
<1>3. entered \in [Vaults -> Kept]
  BY DEF QueueOK, Kept, Flush
<1>4. CASE folder' = before /\ queue' = entered /\ UNCHANGED uploads
  <2>1. FolderOK' /\ QueueOK'
    BY <1>2, <1>3, <1>4, FolderKept DEF QueueOK
  <2> QED BY <1>4, <2>1, Frames
<1>5. CASE /\ queue' = [entered EXCEPT ![v].pending = @ \ {p}, ![v].refused = @ \cup {p}]
           /\ folder' = before /\ UNCHANGED uploads
  <2> DEFINE k == [entered[v] EXCEPT !.pending = @ \ {p}, !.refused = @ \cup {p}]
  <2>1. k \in Kept
    BY <1>3 DEF Kept
  <2>2. queue' = [entered EXCEPT ![v] = k]
    BY <1>3, <1>5
  <2> HIDE DEF k, entered
  <2>3. QueueOK'
    BY <1>3, <2>1, <2>2 DEF QueueOK
  <2>4. FolderOK'
    BY <1>2, <1>5, FolderKept
  <2> QED BY <1>5, <2>3, <2>4, Frames
<1>6. CASE /\ Listed(v, p) # 0 /\ sealed[Listed(v, p)] = content
           /\ folder' = [before EXCEPT ![v].synced[p] = content]
           /\ queue' = entered /\ UNCHANGED uploads
  <2>0. content \in accounted' \cup {0}
    BY <1>6, Named DEF Shared, Fair, Grows
  <2>1. folder' \in [Vaults -> FolderState]
    BY <1>1, <1>2, <1>6 DEF FolderState
  <2>2. ASSUME NEW w \in Vaults, NEW q \in Paths
        PROVE  folder'[w].synced[q] \in {folder[w].synced[q], content}
    <3>1. before[w].synced \in [Paths -> Nat] /\ before[w].synced = folder[w].synced
      BY <1>2 DEF FolderState
    <3>2. folder'[w].synced = IF w = v THEN [before[w].synced EXCEPT ![p] = content]
                              ELSE before[w].synced
      BY <1>2, <1>6 DEF FolderState
    <3> HIDE DEF content, before
    <3> QED BY <3>1, <3>2
  <2>3. FolderOK'
    <3> HIDE DEF content, before
    <3> QED BY <2>0, <2>1, <2>2, FolderKept
  <2> QED BY <1>3, <1>6, <2>3, Frames DEF QueueOK
<1>7. CASE /\ FreeSlots(v, p) # {}
           /\ uploads' = uploads \cup
                {[vault |-> v, path |-> p, n |-> CHOOSE n \in FreeSlots(v, p) : TRUE,
                  flushed |-> flushed, at |-> "sealing", hash |-> content, blob |-> 0]}
           /\ folder' = before /\ queue' = entered
  <2> DEFINE u == [vault |-> v, path |-> p, n |-> CHOOSE n \in FreeSlots(v, p) : TRUE,
                   flushed |-> flushed, at |-> "sealing", hash |-> content, blob |-> 0]
  <2>1. IsUpload(u) /\ u.at # "putting"
    BY <1>1 DEF IsUpload
  <2>2. uploads' = uploads \cup {u}
    BY <1>7
  <2> HIDE DEF u
  <2>3. UploadsOK'
    BY <2>1, <2>2, UploadsKept
  <2>4. FolderOK' /\ QueueOK'
    BY <1>2, <1>3, <1>7, FolderKept DEF QueueOK
  <2> QED BY <2>3, <2>4
<1> QED BY <1>4, <1>5, <1>6, <1>7 DEF upload

LEMMA UploadSettles ==
    ASSUME Parts, NEW v \in Vaults, NEW p \in Paths, Settles(v, p)
    PROVE  Parts'
<1> USE DEF Parts
<1>1. Grows
  BY DEF Settles, server, Grows
<1>2. FolderOK' /\ QueueOK' /\ UploadsOK'
  BY <1>1, UploadBegins DEF Settles
<1>3. ListingOK' /\ DiskOK' /\ WorkOK' /\ DeviceOK' /\ ConnOK' /\ SealedOK'
  BY <1>1, Frames, SharedStays DEF Settles
<1> QED BY <1>2, <1>3

LEMMA FlushUploads ==
    ASSUME Parts, NEW v \in Vaults, FlushUpload(v)
    PROVE  Parts'
<1> USE DEF Parts
<1>1. Grows
  BY DEF FlushUpload, server, Grows
<1>2. PICK p \in queue[v].flush.uploads : upload(v, p, TRUE, FALSE)
  BY DEF FlushUpload
<1>3. p \in Paths
  BY DEF QueueOK, Kept, Flush
<1>4. FolderOK' /\ QueueOK' /\ UploadsOK'
  BY <1>1, <1>2, <1>3, UploadBegins
<1>5. ListingOK' /\ DiskOK' /\ WorkOK' /\ DeviceOK' /\ ConnOK' /\ SealedOK'
  BY <1>1, Frames, SharedStays DEF FlushUpload
<1> QED BY <1>4, <1>5

LEMMA Sealing ==
    ASSUME Parts, NEW u \in uploads, SealPass(u)
    PROVE  Parts'
<1> USE DEF Parts
<1>0. IsUpload(u) /\ u.vault \in Vaults /\ u.path \in Paths
  BY DEF UploadsOK, IsUpload
<1> DEFINE content == Seen(u.vault)[u.path]
<1>1. content \in Nat
  BY <1>0, SeenIs
<1>2. Grows
  BY <1>1 DEF SealPass, ghosts, Grows
<1>3. ListingOK' /\ DiskOK' /\ WorkOK' /\ DeviceOK' /\ ConnOK' /\ FolderOK' /\ SealedOK'
  BY <1>2, Frames, SharedStays DEF SealPass, ghosts
<1>4. CASE content = 0
  <2>1. QueueOK' /\ uploads' \subseteq uploads
    BY <1>0, <1>4, QueueEdits DEF SealPass
  <2>2. UploadsOK'
    BY <1>2, <2>1, SharedStays DEF UploadsOK, IsUpload
  <2> QED BY <1>3, <2>1, <2>2
<1>5. CASE content # 0
  <2> DEFINE x == [u EXCEPT !.at = "putting", !.blob = Len(sealed')]
  <2>1. /\ uploads' = (uploads \ {u}) \cup {x} /\ UNCHANGED queue
        /\ sealed' = Append(sealed, content)
    BY <1>5 DEF SealPass
  <2>2. Len(sealed') \in DOMAIN sealed'
    BY <1>1, <2>1 DEF SealedOK
  <2>3. x = [vault |-> u.vault, path |-> u.path, n |-> u.n, flushed |-> u.flushed, at |-> "putting",
             hash |-> u.hash, blob |-> Len(sealed')]
    <3> DEFINE y == [u EXCEPT !.at = "putting"]
    <3>1. y = [vault |-> u.vault, path |-> u.path, n |-> u.n, flushed |-> u.flushed,
               at |-> "putting", hash |-> u.hash, blob |-> u.blob]
      BY <1>0 DEF IsUpload
    <3>2. x = [y EXCEPT !.blob = Len(sealed')]
      OBVIOUS
    <3> HIDE DEF x, y
    <3>3. y = [vault |-> y.vault, path |-> y.path, n |-> y.n, flushed |-> y.flushed,
               at |-> y.at, hash |-> y.hash, blob |-> y.blob]
      BY <3>1
    <3>4. x = [vault |-> y.vault, path |-> y.path, n |-> y.n, flushed |-> y.flushed,
               at |-> y.at, hash |-> y.hash, blob |-> Len(sealed')]
      BY <3>2, <3>3
    <3> QED BY <3>1, <3>4
  <2>4. IsUpload(x) /\ x.blob \in DOMAIN sealed'
    BY <1>0, <2>2, <2>3 DEF IsUpload
  <2> HIDE DEF x
  <2>5. UploadsOK'
    BY <1>2, <2>1, <2>4, UploadsKept
  <2> QED BY <1>3, <2>1, <2>5, Frames, <1>2
<1> QED BY <1>4, <1>5

LEMMA UploadEnds ==
    ASSUME Parts, NEW u \in uploads, Uploaded(u)
    PROVE  Parts'
<1> USE DEF Parts
<1> DEFINE v == u.vault
           p == u.path
<1>0. /\ v \in Vaults /\ p \in Paths /\ u.hash \in Nat /\ u.blob \in DOMAIN sealed
      /\ u.blob \in Nat
  BY DEF UploadsOK, IsUpload, Uploaded, SealedOK
<1>1. Grows
  BY DEF Uploaded, Account, Grows
<1>2. DiskOK' /\ WorkOK' /\ DeviceOK' /\ ConnOK' /\ SealedOK'
  BY <1>1, Frames, SharedStays DEF Uploaded
<1>3. UploadsOK'
  BY <1>1, SharedStays DEF UploadsOK, IsUpload, Uploaded
<1>4. QueueOK'
  BY <1>0, QueueEdits DEF Uploaded
<1>5. ListingOK'
  <2>1. conn[v].open => Later(u.blob)
    BY <1>0 DEF Uploaded, Account, Later
  <2>2. setBlobEntry(v, p, u.blob)
    BY DEF Uploaded
  <2> HIDE DEF v, p
  <2> QED BY <1>0, <1>1, <2>1, <2>2, EntrySet
<1>6. FolderOK'
  <2>1. u.hash \in accounted' \cup {0} /\ Synced(v, p, u.hash)
    BY DEF Uploaded, Account
  <2> HIDE DEF v, p
  <2> QED BY <1>0, <1>1, <2>1, SyncedSet
<1> QED BY <1>2, <1>3, <1>4, <1>5, <1>6

LEMMA UploadGivesUp ==
    ASSUME Parts, NEW u \in uploads, UploadFails(u) \/ UploadRefused(u)
    PROVE  Parts'
<1> USE DEF Parts
<1>0. u.vault \in Vaults /\ u.path \in Paths
  BY DEF UploadsOK, IsUpload
<1>1. Grows
  BY DEF UploadFails, UploadRefused, server, ghosts, Grows
<1>2. ListingOK' /\ DiskOK' /\ WorkOK' /\ DeviceOK' /\ ConnOK' /\ FolderOK' /\ SealedOK'
  BY <1>1, Frames, SharedStays DEF UploadFails, UploadRefused, ghosts
<1>3. UploadsOK'
  BY <1>1, SharedStays DEF UploadsOK, IsUpload, UploadFails, UploadRefused
<1>4. QueueOK'
  BY <1>0, QueueEdits DEF UploadFails, UploadRefused
<1> QED BY <1>2, <1>3, <1>4

-----------------------------------------------------------------------------
(* Downloads and removals. *)

LEMMA Saved ==
    ASSUME DeviceOK, NEW v \in Vaults, NEW p \in Paths, NEW state \in DeviceRecord,
           Save(v, state, p)
    PROVE  DeviceOK'
<1>1. [state |-> state, awaits |-> p] \in SavedState
  BY DEF SavedState
<1>2. saves' \in [Vaults -> Seq(SavedState)]
  BY <1>1 DEF DeviceOK, Save
<1> QED BY <1>2 DEF DeviceOK, Save

\* What is saved is a state, and changes one or two of its fields.
LEMMA DeviceEdits ==
    ASSUME DeviceOK, NEW v \in Vaults, NEW p \in Paths
    PROVE  /\ [device[v] EXCEPT !.attempt = {p}] \in DeviceRecord
           /\ [device[v] EXCEPT !.attempt = {}] \in DeviceRecord
           /\ [device[v] EXCEPT !.lowered = FALSE] \in DeviceRecord
           /\ [device[v] EXCEPT !.skipped[p] = "declined"] \in DeviceRecord
           /\ [device[v] EXCEPT !.skipped[p] = "no", !.lowered = FALSE] \in DeviceRecord
<1>0. device[v] \in DeviceRecord
  BY DEF DeviceOK
<1>1. /\ [device[v] EXCEPT !.attempt = {p}] \in DeviceRecord
      /\ [device[v] EXCEPT !.attempt = {}] \in DeviceRecord
      /\ [device[v] EXCEPT !.lowered = FALSE] \in DeviceRecord
  BY <1>0 DEF DeviceRecord
<1>2. \A how \in {"declined", "no"} : [device[v] EXCEPT !.skipped[p] = how] \in DeviceRecord
  BY <1>0 DEF DeviceRecord
<1>3. [device[v] EXCEPT !.skipped[p] = "no", !.lowered = FALSE] \in DeviceRecord
  <2> DEFINE d == [device[v] EXCEPT !.skipped[p] = "no"]
  <2>1. d \in DeviceRecord
    BY <1>2
  <2>2. [device[v] EXCEPT !.skipped[p] = "no", !.lowered = FALSE] = [d EXCEPT !.lowered = FALSE]
    OBVIOUS
  <2> HIDE DEF d
  <2>3. [d EXCEPT !.lowered = FALSE] \in DeviceRecord
    BY <2>1 DEF DeviceRecord
  <2> QED BY <2>2, <2>3
<1> QED BY <1>1, <1>2, <1>3

LEMMA DeviceSteps ==
    ASSUME DeviceOK, NEW v \in Vaults, NEW p \in Paths,
           \/ beginAttempt(v, p) \/ endAttempt(v, p) \/ recordSuccess(v, p)
           \/ decline(v, p) \/ retry(v, p)
    PROVE  DeviceOK'
<1>1. CASE UNCHANGED deviceVars
  BY <1>1 DEF DeviceOK, deviceVars
<1>2. CASE ~UNCHANGED deviceVars
  BY <1>2, Saved, DeviceEdits DEF beginAttempt, endAttempt, recordSuccess, decline, retry
<1> QED BY <1>1, <1>2

\* What a download may write over was accounted for when it was compared.
LEMMA CopyKept ==
    ASSUME Parts, Grows, NEW v \in Vaults, NEW p \in Paths, NEW wanted,
           wanted \in accounted' \cup {0}, KeepsCopy(v, p, wanted)
    PROVE  Seen(v)[p] \in accounted' \cup {0}
<1>1. CASE MustKeep(v, p, wanted)
  BY <1>1 DEF KeepsCopy, Account
<1>2. CASE ~MustKeep(v, p, wanted)
  <2>1. folder[v].synced[p] \in accounted' \cup {0}
    BY DEF Parts, FolderOK, Fair, Grows
  <2> QED BY <1>2, <2>1 DEF MustKeep
<1> QED BY <1>1, <1>2

LEMMA WorkIs ==
    ASSUME WorkOK, NEW w \in work
    PROVE  /\ w.vault \in Vaults /\ w.path \in Paths /\ IsWork(w) /\ conn[w.vault].on
           /\ w.at \notin {"waiting", "trashing"} => w.kind = "download"
           /\ w.kind = "download" =>
                w.blob \in DOMAIN sealed /\ sealed[w.blob] \in accounted \cup {0}
  BY DEF WorkOK, IsWork, Shared, Fair

LEMMA LandsGrows ==
    ASSUME NEW w, Lands(w) PROVE accounted \subseteq accounted'
  BY DEF Lands, KeepsCopy, Account

LEMMA Landed ==
    ASSUME Parts, Grows, UNCHANGED conn, NEW w \in work, w.kind = "download", Lands(w)
    PROVE  WorkOK'
<1> USE DEF Parts
<1> DEFINE v == w.vault
           p == w.path
<1>0. /\ v \in Vaults /\ p \in Paths /\ IsWork(w) /\ conn[v].on
      /\ sealed[w.blob] \in accounted' \cup {0}
  BY WorkIs DEF Grows
<1>1. CASE Done(w)
  BY <1>1, WorkDone
<1>2. CASE Goes(w, "making")
  BY <1>2, WorkGoes
<1>3. CASE /\ KeepsCopy(v, p, sealed[w.blob])
           /\ work' = (work \ {w}) \cup {[w EXCEPT !.at = "writing", !.seen = Seen(v)[p]]}
  <2> DEFINE seen == Seen(v)[p]
             y == [w EXCEPT !.at = "writing"]
             x == [w EXCEPT !.at = "writing", !.seen = seen]
  <2>1. seen \in accounted' \cup {0}
    BY <1>0, <1>3, CopyKept
  <2>2. work' = (work \ {w}) \cup {x}
    BY <1>3
  <2>3. x = [y EXCEPT !.seen = seen]
    OBVIOUS
  <2>4. y = [vault |-> w.vault, path |-> w.path, turn |-> w.turn, kind |-> w.kind,
             blob |-> w.blob, seen |-> w.seen, at |-> "writing"]
    BY <1>0 DEF IsWork
  <2> HIDE DEF x, y, seen
  <2>5. y = [vault |-> y.vault, path |-> y.path, turn |-> y.turn, kind |-> y.kind,
             blob |-> y.blob, seen |-> y.seen, at |-> y.at]
    BY <2>4
  <2>6. x = [vault |-> y.vault, path |-> y.path, turn |-> y.turn, kind |-> y.kind,
             blob |-> y.blob, seen |-> seen, at |-> y.at]
    BY <2>3, <2>5
  <2>7. /\ x.vault = v /\ x.path = p /\ x.kind = "download" /\ x.blob = w.blob
        /\ x.seen = seen /\ x.at = "writing" /\ x.turn = w.turn
    BY <2>4, <2>6
  <2>8. IsWork(x)
    BY <1>0, <2>4, <2>6, <2>7 DEF IsWork
  <2>9. LaterWork(x)
    <3>1. LaterWork(w)
      BY <1>0, WorkStays
    <3> QED BY <1>0, <2>1, <2>7, <2>8, <3>1 DEF LaterWork
  <2>10. \A z \in work' : z = x \/ (z \in work /\ (conn[z.vault].on => conn'[z.vault].on))
    BY <2>2
  <2> QED BY <2>9, <2>10, WorkKept
<1> QED BY <1>1, <1>2, <1>3 DEF Lands

LEMMA DownloadBegins ==
    ASSUME Parts, NEW w \in work, BeginDownload(w)
    PROVE  Parts'
<1> USE DEF Parts
<1> DEFINE v == w.vault
           p == w.path
           wanted == sealed[w.blob]
<1>0. /\ v \in Vaults /\ p \in Paths /\ w.kind = "download"
      /\ w.blob \in DOMAIN sealed /\ wanted \in accounted \cup {0} /\ wanted \in Nat
  BY WorkIs DEF BeginDownload, SealedOK
<1>1. Grows
  BY DEF BeginDownload, server, Grows
<1>2. ListingOK' /\ DiskOK' /\ UploadsOK' /\ ConnOK' /\ QueueOK' /\ SealedOK'
  BY <1>1, Frames, SharedStays DEF BeginDownload
<1>3. DeviceOK'
  <2>1. decline(v, p) \/ beginAttempt(v, p) \/ UNCHANGED deviceVars
    BY DEF BeginDownload
  <2> HIDE DEF v, p
  <2> QED BY <1>0, <1>1, <2>1, DeviceSteps, Frames
<1>4. FolderOK'
  <2>1. Synced(v, p, wanted) \/ UNCHANGED folder
    BY DEF BeginDownload
  <2>2. wanted \in accounted' \cup {0}
    BY <1>0, <1>1 DEF Grows
  <2> HIDE DEF v, p, wanted
  <2> QED BY <1>0, <1>1, <2>1, <2>2, SyncedSet, Frames
<1>5. WorkOK'
  <2>1. Done(w) \/ Goes(w, "recording") \/ Goes(w, "fetching")
    BY DEF BeginDownload
  <2>2. UNCHANGED conn
    BY DEF BeginDownload
  <2> QED BY <1>0, <1>1, <2>1, <2>2, WorkDone, WorkGoes
<1> QED BY <1>2, <1>3, <1>4, <1>5

LEMMA DownloadRecorded ==
    ASSUME Parts, NEW w \in work, Recorded(w)
    PROVE  Parts'
<1> USE DEF Parts
<1>1. Grows /\ UNCHANGED conn
  BY DEF Recorded, server, ghosts, Grows
<1>2. /\ ListingOK' /\ DiskOK' /\ UploadsOK' /\ DeviceOK' /\ ConnOK' /\ QueueOK' /\ FolderOK'
      /\ SealedOK'
  BY <1>1, Frames, SharedStays DEF Recorded, ghosts
<1>3. WorkOK'
  <2>1. w.kind = "download" /\ Goes(w, "fetching")
    BY WorkIs DEF Recorded
  <2> QED BY <1>1, <2>1, WorkGoes
<1> QED BY <1>2, <1>3

LEMMA DownloadFetched ==
    ASSUME Parts, NEW w \in work, Fetched(w) \/ Survived(w)
    PROVE  Parts'
<1> USE DEF Parts
<1> DEFINE v == w.vault
           p == w.path
<1>0. v \in Vaults /\ p \in Paths /\ w.kind = "download"
  BY WorkIs DEF Fetched, Survived
<1>1. Grows /\ UNCHANGED conn
  BY LandsGrows DEF Fetched, Survived, server, Grows
<1>2. ListingOK' /\ DiskOK' /\ UploadsOK' /\ ConnOK' /\ QueueOK' /\ FolderOK' /\ SealedOK'
  BY <1>1, Frames, SharedStays DEF Fetched, Survived
<1>3. DeviceOK'
  <2>1. endAttempt(v, p) \/ recordSuccess(v, p) \/ UNCHANGED deviceVars
    BY DEF Fetched, Survived
  <2> HIDE DEF v, p
  <2> QED BY <1>0, <1>1, <2>1, DeviceSteps, Frames
<1>4. WorkOK'
  <2>1. Goes(w, "ending") \/ Goes(w, "raising") \/ Lands(w)
    BY DEF Fetched, Survived
  <2> QED BY <1>0, <1>1, <2>1, WorkGoes, Landed
<1> QED BY <1>2, <1>3, <1>4

LEMMA DownloadFails ==
    ASSUME Parts, NEW w \in work, FetchFails(w) \/ FetchUnkeyed(w)
    PROVE  Parts'
<1> USE DEF Parts
<1> DEFINE v == w.vault
           p == w.path
<1>0. v \in Vaults /\ p \in Paths
  BY WorkIs
<1>1. Grows /\ UNCHANGED conn /\ Done(w)
  BY DEF FetchFails, FetchUnkeyed, server, Grows
<1>2. ListingOK' /\ DiskOK' /\ UploadsOK' /\ ConnOK' /\ QueueOK' /\ FolderOK' /\ SealedOK'
  BY <1>1, Frames, SharedStays DEF FetchFails, FetchUnkeyed
<1>3. DeviceOK'
  <2>1. endAttempt(v, p) \/ UNCHANGED deviceVars
    BY DEF FetchFails, FetchUnkeyed
  <2> HIDE DEF v, p
  <2> QED BY <1>0, <1>1, <2>1, DeviceSteps, Frames
<1>4. WorkOK'
  BY <1>1, WorkDone
<1> QED BY <1>2, <1>3, <1>4

LEMMA Marked ==
    ASSUME FolderOK, SealedOK, Grows, NEW v \in Vaults, NEW p \in Paths, LeavesMark(v, p)
    PROVE  FolderOK'
<1>1. /\ folder' \in [Vaults -> FolderState]
      /\ \A w \in Vaults : folder'[w].synced = folder[w].synced
  BY DEF LeavesMark, FolderOK, FolderState
<1> QED BY <1>1, FolderKept

LEMMA Written ==
    ASSUME Parts, Grows, UNCHANGED changes, NEW w \in work, w.kind = "download", Writes(w),
           Seen(w.vault)[w.path] \in accounted' \cup {0}
    PROVE  DiskOK' /\ FolderOK'
<1> USE DEF Parts
<1> DEFINE v == w.vault
           p == w.path
           content == sealed[w.blob]
           mark == IF conn[v].moved THEN folder[v].echo \cup {p} ELSE folder[v].echo \ {p}
<1>0. /\ v \in Vaults /\ p \in Paths
      /\ content \in Nat /\ content \in accounted' \cup {0}
  BY WorkIs DEF SealedOK, Grows
<1>1. /\ Put(v, p, content) /\ Seen(v)[p] \in accounted' \cup {0}
      /\ folder' = [folder EXCEPT ![v].synced[p] = content, ![v].echo = mark]
  BY DEF Writes
<1>2. folder \in [Vaults -> FolderState] /\ mark \in SUBSET Paths
  BY <1>0 DEF FolderOK, FolderState
<1> HIDE DEF v, p, content, mark
<1>3. DiskOK'
  BY <1>0, <1>1, PutDown
<1>4. FolderOK'
  <2> DEFINE F == [folder EXCEPT ![v].synced[p] = content]
  <2>1. F \in [Vaults -> FolderState]
    BY <1>0, <1>2 DEF FolderState
  <2>2. \A x \in Vaults, q \in Paths : F[x].synced[q] \in {folder[x].synced[q], content}
    BY <1>0, <1>2 DEF FolderState
  <2>3. folder' = [F EXCEPT ![v].echo = mark]
    BY <1>0, <1>1, <1>2 DEF FolderState
  <2> HIDE DEF F
  <2>4. /\ folder' \in [Vaults -> FolderState]
        /\ \A x \in Vaults : folder'[x].synced = F[x].synced
    <3> DEFINE k == [F[v] EXCEPT !.echo = mark]
    <3>1. F[v] \in FolderState
      BY <1>0, <2>1
    <3>2. k \in FolderState /\ k.synced = F[v].synced
      BY <1>2, <3>1 DEF FolderState
    <3>3. folder' = [F EXCEPT ![v] = k]
      BY <2>3
    <3> HIDE DEF k
    <3> QED BY <1>0, <2>1, <3>2, <3>3
  <2>5. \A x \in Vaults, q \in Paths :
            folder'[x].synced[q] \in {folder[x].synced[q], 0} \cup accounted'
    BY <1>0, <2>2, <2>4
  <2> QED BY <2>4, <2>5, FolderKept
<1> QED BY <1>3, <1>4

LEMMA DownloadWrites ==
    ASSUME Parts, NEW w \in work, WriteOver(w) \/ MakeFile(w)
    PROVE  Parts'
<1> USE DEF Parts
<1> DEFINE v == w.vault
           p == w.path
<1>0. v \in Vaults /\ p \in Paths /\ w.kind = "download" /\ Seen(v)[p] \in Nat
  BY WorkIs, SeenIs DEF WriteOver, MakeFile
<1>1. Grows /\ UNCHANGED <<conn, changes>> /\ Done(w)
  BY DEF WriteOver, MakeFile, server, Account, Grows
<1>2. ListingOK' /\ UploadsOK' /\ DeviceOK' /\ ConnOK' /\ QueueOK' /\ SealedOK'
  BY <1>1, Frames, SharedStays DEF WriteOver, MakeFile
<1>3. WorkOK'
  BY <1>1, WorkDone
<1>4. DiskOK' /\ FolderOK'
  <2>1. CASE LeavesMark(v, p)
    <3>1. UNCHANGED <<disk, stray, changes>>
      BY <1>1, <2>1 DEF LeavesMark
    <3> HIDE DEF v, p
    <3> QED BY <1>0, <1>1, <2>1, <3>1, Marked, Frames
  <2>2. CASE ~LeavesMark(v, p)
    <3>1. Writes(w)
      BY <2>2 DEF WriteOver, MakeFile
    <3>2. Seen(v)[p] \in accounted' \cup {0}
      <4>1. CASE WriteOver(w)
        <5>1. Seen(v)[p] = w.seen \/ Seen(v)[p] \in accounted' \cup {0}
          BY <2>2, <4>1 DEF WriteOver, Account
        <5>2. w.seen \in accounted' \cup {0}
          BY <1>1, <4>1 DEF WriteOver, WorkOK, Fair, Grows
        <5> QED BY <5>1, <5>2
      <4>2. CASE MakeFile(w)
        BY <2>2, <4>2 DEF MakeFile
      <4> QED BY <4>1, <4>2
    <3> QED BY <1>0, <1>1, <3>1, <3>2, Written
  <2> QED BY <2>1, <2>2
<1> QED BY <1>2, <1>3, <1>4

LEMMA RemovalBegins ==
    ASSUME Parts, NEW w \in work, BeginRemoval(w)
    PROVE  Parts'
<1> USE DEF Parts
<1>1. Grows /\ UNCHANGED conn
  BY DEF BeginRemoval, KeepsCopy, Account, server, Grows
<1>2. /\ ListingOK' /\ DiskOK' /\ UploadsOK' /\ DeviceOK' /\ ConnOK' /\ QueueOK' /\ FolderOK'
      /\ SealedOK'
  BY <1>1, Frames, SharedStays DEF BeginRemoval
<1>3. WorkOK'
  <2>1. Done(w) \/ Goes(w, "trashing")
    BY DEF BeginRemoval
  <2> QED BY <1>1, <2>1, WorkDone, WorkGoes
<1> QED BY <1>2, <1>3

LEMMA RemovalTrashes ==
    ASSUME Parts, NEW w \in work, TrashFile(w)
    PROVE  Parts'
<1> USE DEF Parts
<1> DEFINE v == w.vault
           p == w.path
<1>0. v \in Vaults /\ p \in Paths
  BY WorkIs
<1>1. Grows /\ UNCHANGED <<conn, changes>> /\ Done(w)
  BY DEF TrashFile, Account, Grows
<1>2. UploadsOK' /\ DeviceOK' /\ ConnOK' /\ SealedOK'
  BY <1>1, Frames, SharedStays DEF TrashFile
<1>3. WorkOK'
  BY <1>1, WorkDone
<1>4. /\ Put(v, p, 0) /\ Seen(v)[p] \in accounted' \cup {0} /\ Synced(v, p, 0)
      /\ handleDelete(v, p) \/ UNCHANGED <<listing, queue>>
  BY DEF TrashFile, Account
<1> HIDE DEF v, p
<1>5. DiskOK' /\ FolderOK'
  BY <1>0, <1>1, <1>4, PutDown, SyncedSet
<1>6. ListingOK' /\ QueueOK'
  BY <1>0, <1>1, <1>4, DeletionHandled, Frames
<1> QED BY <1>2, <1>3, <1>5, <1>6

LEMMA Retries ==
    ASSUME Parts, NEW v \in Vaults, NEW p \in Paths, Retry(v, p)
    PROVE  Parts'
<1> USE DEF Parts
<1>1. Grows /\ UNCHANGED conn
  BY DEF Retry, server, ghosts, Grows
<1>2. ListingOK' /\ DiskOK' /\ UploadsOK' /\ ConnOK' /\ QueueOK' /\ FolderOK' /\ SealedOK'
  BY <1>1, Frames, SharedStays DEF Retry, ghosts
<1>3. DeviceOK'
  BY DeviceSteps DEF Retry
<1>4. WorkOK'
  <2> DEFINE x == [Task(v, p, "download", Listed(v, p)) EXCEPT !.turn = 0]
  <2>1. /\ Shared(Listed(v, p)) /\ conn[v].on
    BY Named DEF Retry, ConnOK
  <2>2. x = [vault |-> v, path |-> p, turn |-> 0, kind |-> "download", blob |-> Listed(v, p),
             seen |-> 0, at |-> "waiting"]
    BY DEF Task
  <2>3. work' = work \cup {x}
    BY DEF Retry
  <2> HIDE DEF x
  <2>4. LaterWork(x)
    <3>1. /\ x.vault = v /\ x.path = p /\ x.turn = 0 /\ x.kind = "download"
          /\ x.blob = Listed(v, p) /\ x.seen = 0 /\ x.at = "waiting"
      BY <2>2
    <3>2. IsWork(x)
      BY <2>2, <3>1 DEF IsWork
    <3>3. Later(x.blob)
      <4>1. \A blob : Shared(blob) => Later(blob)
        BY <1>1, SharedStays
      <4> QED BY <2>1, <3>1, <4>1
    <3> QED BY <1>1, <2>1, <3>1, <3>2, <3>3 DEF LaterWork
  <2>5. \A z \in work' : z = x \/ (z \in work /\ (conn[z.vault].on => conn'[z.vault].on))
    BY <1>1, <2>3
  <2> QED BY <1>1, <2>4, <2>5, WorkKept
<1> QED BY <1>2, <1>3, <1>4

-----------------------------------------------------------------------------
(* The listing's changes, the connections, the flush and the app. *)

\* A task the listing gives a path.
LEMMA Tasks ==
    ASSUME NEW v \in Vaults, NEW p \in Paths, NEW kind \in {"download", "remove"}, NEW blob,
           conn'[v].on, kind = "download" => Later(blob)
    PROVE  LaterWork(Task(v, p, kind, blob))
<1> DEFINE x == Task(v, p, kind, blob)
<1>1. x = [vault |-> v, path |-> p, turn |-> LastTurn(v, p) + 1, kind |-> kind, blob |-> blob,
           seen |-> 0, at |-> "waiting"]
  BY DEF Task
<1> HIDE DEF x
<1>2. /\ x.vault = v /\ x.path = p /\ x.turn = LastTurn(v, p) + 1 /\ x.kind = kind
      /\ x.blob = blob /\ x.seen = 0 /\ x.at = "waiting"
  BY <1>1
<1>3. IsWork(x)
  BY <1>1, <1>2 DEF IsWork
<1>4. LaterWork(x)
  BY <1>2, <1>3 DEF LaterWork
<1> QED BY <1>4 DEF x

LEMMA Receives ==
    ASSUME Parts, NEW v \in Vaults, Receive(v)
    PROVE  Parts'
<1> USE DEF Parts
<1> DEFINE T == Head(inbox[v])
           new == Apply(entry[v], T)
           changed == {p \in Paths : new[p] # entry[v][p] /\ (new[p].live \/ entry[v][p].live)}
           task(p) == Task(v, p, IF new[p].live THEN "download" ELSE "remove",
                           IF new[p].live THEN new[p].value ELSE 0)
<1>0. conn[v].on /\ conn[v].open /\ inbox[v] # << >>
  BY DEF Receive, ConnOK
<1>1. Grows
  BY DEF Receive, server, ghosts, Grows
<1>2. DiskOK' /\ UploadsOK' /\ DeviceOK' /\ QueueOK' /\ FolderOK' /\ SealedOK'
  BY <1>1, Frames, SharedStays DEF Receive, ghosts
<1>3. /\ ConnOK'
      /\ \A w \in Vaults : conn'[w].on = conn[w].on
  <2>1. conn' = [conn EXCEPT ![v].catchup = IF @ = 0 THEN 0 ELSE @ - 1] /\ conn \in [Vaults -> Connection]
    BY DEF Receive, ConnOK
  <2>2. (IF conn[v].catchup = 0 THEN 0 ELSE conn[v].catchup - 1) \in Nat
    BY <2>1 DEF Connection
  <2> QED BY <2>1, <2>2 DEF ConnOK, Connection
<1>4. /\ inbox[v] \in Seq(SUBSET Change) /\ T \in SUBSET Change
      /\ \A c \in T : c.live => Shared(c.value)
      /\ Tail(inbox[v]) \in Seq(SUBSET Change)
      /\ \A i \in DOMAIN Tail(inbox[v]) : i + 1 \in DOMAIN inbox[v] /\ Tail(inbox[v])[i] = inbox[v][i + 1]
  <2>1. inbox[v] \in Seq(SUBSET Change)
    BY DEF ListingOK
  <2>2. /\ T = inbox[v][1] /\ 1 \in DOMAIN inbox[v] /\ T \in SUBSET Change
        /\ Tail(inbox[v]) \in Seq(SUBSET Change)
        /\ \A i \in DOMAIN Tail(inbox[v]) : i + 1 \in DOMAIN inbox[v] /\ Tail(inbox[v])[i] = inbox[v][i + 1]
    BY <1>0, <2>1
  <2>3. \A c \in T : c.live => Shared(c.value)
    BY <2>2 DEF ListingOK
  <2> QED BY <2>1, <2>2, <2>3
<1>5. /\ entry' = [entry EXCEPT ![v] = new] /\ inbox' = [inbox EXCEPT ![v] = Tail(inbox[v])]
      /\ work' = work \cup {task(p) : p \in changed}
  BY DEF Receive
<1>6. /\ new \in [Paths -> Item]
      /\ \A p \in Paths : new[p].live => Shared(new[p].value)
  <2>1. entry[v] \in [Paths -> Item] /\ \A p \in Paths : entry[v][p].live => Shared(entry[v][p].value)
    BY DEF ListingOK
  <2>2. /\ new \in [Paths -> Item]
        /\ \A p \in Paths :
             \/ new[p] = entry[v][p]
             \/ \E c \in T : new[p].live = c.live /\ new[p].value = c.value
    BY <1>4, <2>1, Applied
  <2> HIDE DEF new, T
  <2> QED BY <1>4, <2>1, <2>2
<1> HIDE DEF new, T
<1>7. \A blob : Shared(blob) => Later(blob)
  BY <1>1, SharedStays
<1>8. ListingOK'
  <2>1. entry' \in [Vaults -> [Paths -> Item]] /\ inbox' \in [Vaults -> Seq(SUBSET Change)]
    BY <1>4, <1>5, <1>6 DEF ListingOK
  <2>2. ASSUME NEW w \in Vaults, NEW p \in Paths, entry'[w][p].live PROVE Later(entry'[w][p].value)
    BY <1>5, <1>6, <1>7, <2>2 DEF ListingOK
  <2>3. ASSUME NEW w \in Vaults, NEW i \in DOMAIN inbox'[w], NEW c \in inbox'[w][i], c.live
        PROVE  Later(c.value)
    <3>1. \E j \in DOMAIN inbox[w] : inbox'[w][i] = inbox[w][j]
      BY <1>4, <1>5 DEF ListingOK
    <3> QED BY <1>7, <2>3, <3>1 DEF ListingOK
  <2> QED BY <2>1, <2>2, <2>3 DEF ListingOK, Later, Shared, Fair
<1>9. WorkOK'
  <2>1. ASSUME NEW p \in Paths PROVE LaterWork(task(p))
    BY <1>0, <1>3, <1>6, <1>7, Tasks
  <2> HIDE DEF task
  <2>2. ASSUME NEW z \in work'
        PROVE  LaterWork(z) \/ (z \in work /\ (conn[z.vault].on => conn'[z.vault].on))
    <3>1. CASE z \in work
      BY <1>3, <3>1, WorkIs
    <3>2. CASE z \notin work
      BY <1>5, <2>1, <3>2
    <3> QED BY <3>1, <3>2
  <2> QED BY <1>1, <2>2, WorkKept
<1> QED BY <1>2, <1>3, <1>8, <1>9

LEMMA Reconciles ==
    ASSUME Parts, NEW v \in Vaults, InitialBlobSync(v)
    PROVE  Parts'
<1> USE DEF Parts
<1> DEFINE task(p) == Task(v, p, "download", Listed(v, p))
<1>0. conn[v].on
  BY DEF InitialBlobSync, ConnOK
<1>1. Grows
  BY DEF InitialBlobSync, server, ghosts, Grows
<1>2. ListingOK' /\ DiskOK' /\ UploadsOK' /\ DeviceOK' /\ QueueOK' /\ SealedOK'
  BY <1>1, Frames, SharedStays DEF InitialBlobSync, ghosts
<1>3. /\ ConnOK'
      /\ \A w \in Vaults : conn'[w].on = conn[w].on
  BY DEF InitialBlobSync, ConnOK, Connection
<1>4. FolderOK'
  <2>1. /\ folder' \in [Vaults -> FolderState]
        /\ \A w \in Vaults : folder'[w].synced = folder[w].synced
    BY DEF InitialBlobSync, FolderOK, FolderState
  <2> QED BY <1>1, <2>1, FolderKept
<1>5. WorkOK'
  <2>0. work' = work \cup {task(p) : p \in {q \in Paths : Listed(v, q) # 0}}
    BY DEF InitialBlobSync
  <2>1. ASSUME NEW p \in Paths, Listed(v, p) # 0 PROVE LaterWork(task(p))
    <3>1. \A blob : Shared(blob) => Later(blob)
      BY <1>1, SharedStays
    <3>2. Shared(Listed(v, p))
      BY <2>1, Named
    <3> QED BY <1>0, <1>3, <3>1, <3>2, Tasks
  <2> HIDE DEF task
  <2>2. ASSUME NEW z \in work'
        PROVE  LaterWork(z) \/ (z \in work /\ (conn[z.vault].on => conn'[z.vault].on))
    <3>1. CASE z \in work
      BY <1>3, <3>1, WorkIs
    <3>2. CASE z \notin work
      BY <2>0, <2>1, <3>2
    <3> QED BY <3>1, <3>2
  <2> QED BY <1>1, <2>2, WorkKept
<1> QED BY <1>2, <1>3, <1>4, <1>5

LEMMA ConnectionEdits ==
    ASSUME NEW c \in Connection, NEW b \in BOOLEAN
    PROVE  /\ [c EXCEPT !.on = b] \in Connection /\ [c EXCEPT !.on = b].on = b
           /\ [c EXCEPT !.on = b].open = c.open
           /\ [c EXCEPT !.open = b] \in Connection /\ [c EXCEPT !.open = b].open = b
           /\ [c EXCEPT !.open = b].on = c.on
           /\ [c EXCEPT !.reconciled = b] \in Connection /\ [c EXCEPT !.reconciled = b].open = c.open
           /\ [c EXCEPT !.reconciled = b].on = c.on
           /\ [c EXCEPT !.has = b] \in Connection /\ [c EXCEPT !.has = b].open = c.open
           /\ [c EXCEPT !.has = b].on = c.on
           /\ [c EXCEPT !.moved = b] \in Connection /\ [c EXCEPT !.moved = b].open = c.open
           /\ [c EXCEPT !.moved = b].on = c.on
  BY DEF Connection

LEMMA CatchupEdit ==
    ASSUME NEW c \in Connection, NEW n \in Nat
    PROVE  /\ [c EXCEPT !.catchup = n] \in Connection /\ [c EXCEPT !.catchup = n].open = c.open
           /\ [c EXCEPT !.catchup = n].on = c.on
  BY DEF Connection

LEMMA Reopens ==
    ASSUME Parts, NEW v \in Vaults, NEW moves \in BOOLEAN,
           OpenListing(v) \/ Refresh(v, moves) \/ FolderGone(v)
    PROVE  Parts'
<1> USE DEF Parts
<1>1. Grows
  BY DEF OpenListing, Refresh, FolderGone, server, ghosts, Grows
<1>2. ListingOK' /\ DiskOK' /\ UploadsOK' /\ DeviceOK' /\ QueueOK' /\ SealedOK'
  BY <1>1, Frames, SharedStays DEF OpenListing, Refresh, FolderGone, ghosts
<1>3. /\ ConnOK'
      /\ \A w \in Vaults : conn'[w].on = conn[w].on
  <2>0. conn \in [Vaults -> Connection] /\ \A w \in Vaults : conn[w].open => conn[w].on
    BY DEF ConnOK
  <2>1. CASE OpenListing(v)
    <3> DEFINE k1 == [conn[v] EXCEPT !.open = TRUE]
               k2 == [k1 EXCEPT !.catchup = Len(inbox[v])]
               k == [k2 EXCEPT !.reconciled = FALSE]
    <3>1. conn[v] \in Connection /\ Len(inbox[v]) \in Nat /\ conn[v].on
      BY <2>0, <2>1 DEF ListingOK, OpenListing
    <3>2. conn' = [conn EXCEPT ![v] = k]
      BY <2>1 DEF OpenListing
    <3>3. k1 \in Connection /\ k1.on = conn[v].on
      BY <3>1, ConnectionEdits
    <3> HIDE DEF k1
    <3>4. k2 \in Connection /\ k2.on = conn[v].on
      BY <3>1, <3>3, CatchupEdit
    <3> HIDE DEF k2
    <3>5. k \in Connection /\ k.on = conn[v].on
      BY <3>4, ConnectionEdits
    <3> HIDE DEF k
    <3> QED BY <2>0, <3>1, <3>2, <3>5 DEF ConnOK
  <2>2. CASE Refresh(v, moves)
    <3> DEFINE k1 == [conn[v] EXCEPT !.open = FALSE]
               k2 == [k1 EXCEPT !.catchup = 0]
               k == [k2 EXCEPT !.moved = @ \/ moves]
    <3>1. conn[v] \in Connection
      BY <2>0
    <3>2. conn' = [conn EXCEPT ![v] = k]
      BY <2>2 DEF Refresh
    <3>3. k1 \in Connection /\ k1.on = conn[v].on /\ ~k1.open
      BY <3>1, ConnectionEdits
    <3> HIDE DEF k1
    <3>4. k2 \in Connection /\ k2.on = conn[v].on /\ ~k2.open
      BY <3>3, CatchupEdit
    <3> HIDE DEF k2
    <3>5. k \in Connection /\ k.on = conn[v].on /\ ~k.open
      <4>1. (k2.moved \/ moves) \in BOOLEAN
        BY Zenon
      <4>2. [k2 EXCEPT !.moved = (k2.moved \/ moves)] \in Connection
        BY <3>4, <4>1, ConnectionEdits, Zenon
      <4>3. /\ [k2 EXCEPT !.moved = (k2.moved \/ moves)].on = k2.on
            /\ [k2 EXCEPT !.moved = (k2.moved \/ moves)].open = k2.open
        BY <3>4 DEF Connection
      <4> QED BY <3>4, <4>2, <4>3, Zenon
    <3> HIDE DEF k
    <3> QED BY <2>0, <3>2, <3>5 DEF ConnOK
  <2>3. CASE FolderGone(v)
    <3> DEFINE k1 == [conn[v] EXCEPT !.open = FALSE]
               k2 == [k1 EXCEPT !.catchup = 0]
               k == [k2 EXCEPT !.has = FALSE]
    <3>1. conn[v] \in Connection
      BY <2>0
    <3>2. conn' = [conn EXCEPT ![v] = k]
      BY <2>3 DEF FolderGone
    <3>3. k1 \in Connection /\ k1.on = conn[v].on /\ ~k1.open
      BY <3>1, ConnectionEdits
    <3> HIDE DEF k1
    <3>4. k2 \in Connection /\ k2.on = conn[v].on /\ ~k2.open
      BY <3>3, CatchupEdit
    <3> HIDE DEF k2
    <3>5. k \in Connection /\ k.on = conn[v].on /\ ~k.open
      BY <3>4, ConnectionEdits
    <3> HIDE DEF k
    <3> QED BY <2>0, <3>2, <3>5 DEF ConnOK
  <2> QED BY <2>1, <2>2, <2>3
<1>4. FolderOK'
  <2>1. /\ folder' \in [Vaults -> FolderState]
        /\ \A w \in Vaults : folder'[w].synced = folder[w].synced
    <3>1. folder' = folder \/ folder' = [folder EXCEPT ![v].timers = {}]
      BY DEF OpenListing, Refresh, FolderGone
    <3>2. CASE folder' = [folder EXCEPT ![v].timers = {}]
      BY <3>2 DEF FolderOK, FolderState
    <3> QED BY <3>1, <3>2 DEF FolderOK
  <2> QED BY <1>1, <2>1, FolderKept
<1>5. WorkOK'
  <2>1. UNCHANGED work
    BY DEF OpenListing, Refresh, FolderGone
  <2>2. \A z \in work' : z \in work /\ (conn[z.vault].on => conn'[z.vault].on)
    BY <1>3, <2>1, WorkIs
  <2> QED BY <1>1, <2>2, WorkKept
<1> QED BY <1>2, <1>3, <1>4, <1>5

LEMMA Flushes ==
    ASSUME Parts, NEW v \in Vaults, Reconnected(v) \/ FlushPurge(v) \/ Attest(v)
    PROVE  Parts'
<1> USE DEF Parts
<1>1. Grows
  BY DEF Reconnected, FlushPurge, Attest, server, ghosts, Grows
<1>2. /\ ListingOK' /\ DiskOK' /\ UploadsOK' /\ WorkOK' /\ DeviceOK' /\ ConnOK' /\ FolderOK'
      /\ SealedOK'
  BY <1>1, Frames, SharedStays DEF Reconnected, FlushPurge, Attest, ghosts
<1>3. QueueOK'
  <2>0. queue \in [Vaults -> Kept] /\ queue[v] \in Kept
    BY DEF QueueOK
  <2>1. CASE Reconnected(v)
    <3>1. [uploads |-> queue[v].pending, purges |-> queue[v].purges, attests |-> TRUE] \in Flush
      BY <2>0 DEF Kept, Flush
    <3>2. queue' = [queue EXCEPT ![v].flush =
              [uploads |-> queue[v].pending, purges |-> queue[v].purges, attests |-> TRUE]]
      BY <2>1 DEF Reconnected
    <3> QED BY <2>0, <3>1, <3>2 DEF QueueOK, Kept
  <2>2. CASE FlushPurge(v)
    <3>1. PICK blob \in queue[v].flush.purges :
              \/ queue' = [queue EXCEPT ![v].purges = @ \ {blob}, ![v].flush.purges = @ \ {blob}]
              \/ queue' = [queue EXCEPT ![v].flush.purges = @ \ {blob}]
      BY <2>2 DEF FlushPurge
    <3> DEFINE Q == [queue EXCEPT ![v].purges = @ \ {blob}]
    <3>2. Q \in [Vaults -> Kept]
      BY <2>0 DEF Kept
    <3>3. \A R \in [Vaults -> Kept] : [R EXCEPT ![v].flush.purges = @ \ {blob}] \in [Vaults -> Kept]
      BY DEF Kept, Flush
    <3>4. CASE queue' = [queue EXCEPT ![v].purges = @ \ {blob}, ![v].flush.purges = @ \ {blob}]
      <4>1. queue' = [Q EXCEPT ![v].flush.purges = @ \ {blob}]
        BY <3>4
      <4> HIDE DEF Q
      <4> QED BY <3>2, <3>3, <4>1 DEF QueueOK
    <3> QED BY <2>0, <3>1, <3>3, <3>4 DEF QueueOK
  <2>3. CASE Attest(v)
    <3>1. [NoFlush EXCEPT !.uploads = Missing(v)] \in Flush
      BY DEF NoFlush, Flush, Missing
    <3>2. queue' = [queue EXCEPT ![v].flush = [NoFlush EXCEPT !.uploads = Missing(v)]]
      BY <2>3 DEF Attest
    <3> QED BY <2>0, <3>1, <3>2 DEF QueueOK, Kept
  <2> QED BY <2>1, <2>2, <2>3
<1> QED BY <1>2, <1>3

LEMMA AppStops ==
    ASSUME Parts, NEW v \in Vaults, Kill(v) \/ Close(v)
    PROVE  Parts'
<1> USE DEF Parts
<1>0. Stops(v)
  BY DEF Kill, Close
<1>1. Grows
  BY DEF Kill, Close, Stops, server, Grows
<1>2. ListingOK' /\ DiskOK' /\ SealedOK'
  BY <1>0, <1>1, Frames, SharedStays DEF Stops
<1>3. /\ ConnOK'
      /\ \A w \in Vaults : w # v => conn'[w] = conn[w]
  <2> DEFINE k1 == [conn[v] EXCEPT !.on = FALSE]
             k2 == [k1 EXCEPT !.open = FALSE]
             k3 == [k2 EXCEPT !.catchup = 0]
             k == [k3 EXCEPT !.moved = FALSE]
  <2>0. conn \in [Vaults -> Connection] /\ \A w \in Vaults : conn[w].open => conn[w].on
    BY DEF ConnOK
  <2>1. conn[v] \in Connection
    BY <2>0
  <2>2. conn' = [conn EXCEPT ![v] = k]
    BY <1>0 DEF Stops
  <2>3. k1 \in Connection
    BY <2>1, ConnectionEdits
  <2> HIDE DEF k1
  <2>4. k2 \in Connection /\ ~k2.open
    BY <2>3, ConnectionEdits
  <2> HIDE DEF k2
  <2>5. k3 \in Connection /\ ~k3.open
    BY <2>4, CatchupEdit
  <2> HIDE DEF k3
  <2>6. k \in Connection /\ ~k.open
    BY <2>5, ConnectionEdits
  <2> HIDE DEF k
  <2> QED BY <2>0, <2>2, <2>6 DEF ConnOK
<1>4. FolderOK'
  <2>1. FreshFolder \in FolderState /\ \A p \in Paths : FreshFolder.synced[p] = 0
    BY DEF FreshFolder, FolderState, Nothing
  <2>2. folder' = [folder EXCEPT ![v] = FreshFolder] /\ folder \in [Vaults -> FolderState]
    BY <1>0 DEF Stops, FolderOK
  <2>3. folder' \in [Vaults -> FolderState]
    BY <2>1, <2>2
  <2>4. \A w \in Vaults, p \in Paths :
            folder'[w].synced[p] \in {folder[w].synced[p], 0} \cup accounted'
    BY <2>1, <2>2
  <2> QED BY <1>1, <2>3, <2>4, FolderKept
<1>5. QueueOK'
  <2>1. NoFlush \in Flush
    BY DEF NoFlush, Flush
  <2>2. queue' = [queue EXCEPT ![v].flush = NoFlush]
    BY <1>0 DEF Stops
  <2> QED BY <2>1, <2>2 DEF QueueOK, Kept
<1>6. UploadsOK'
  BY <1>0, <1>1, UploadsKept DEF Stops
<1>7. WorkOK'
  <2>1. \A z \in work' : z \in work /\ (conn[z.vault].on => conn'[z.vault].on)
    BY <1>0, <1>3, WorkIs DEF Stops
  <2> QED BY <1>1, <2>1, WorkKept
<1>8. DeviceOK'
  <2>0. emptyState \in DeviceRecord
    BY DEF emptyState, DeviceRecord
  <2>1. device' \in [Vaults -> DeviceRecord] /\ saves' \in [Vaults -> Seq(SavedState)]
    <3>1. device' = [device EXCEPT ![v] = emptyState] /\ saves' = [saves EXCEPT ![v] = << >>]
      BY DEF Kill, Close, Killed, Closed
    <3>2. << >> \in Seq(SavedState)
      OBVIOUS
    <3> QED BY <2>0, <3>1, <3>2 DEF DeviceOK
  <2>2. [device[v] EXCEPT !.attempt = {}] \in DeviceRecord
    BY DEF DeviceOK, DeviceRecord
  <2>3. \/ stateFile' = stateFile
        \/ stateFile' = [stateFile EXCEPT ![v] = << >>]
        \/ stateFile' = [stateFile EXCEPT ![v] = @]
        \/ stateFile' = [stateFile EXCEPT ![v] = <<[device[v] EXCEPT !.attempt = {}]>>]
    BY DEF Kill, Close, Killed, Closed
  <2>4. /\ << >> \in Seq(DeviceRecord) /\ Len(<< >>) = 0
        /\ \A d \in DeviceRecord : <<d>> \in Seq(DeviceRecord) /\ Len(<<d>>) = 1
    OBVIOUS
  <2>5. /\ stateFile' \in [Vaults -> Seq(DeviceRecord)]
        /\ \A w \in Vaults : Len(stateFile'[w]) \in {0, 1}
    BY <2>2, <2>3, <2>4 DEF DeviceOK
  <2> QED BY <2>1, <2>5 DEF DeviceOK
<1> QED BY <1>2, <1>3, <1>4, <1>5, <1>6, <1>7, <1>8

LEMMA Learned ==
    ASSUME NEW v \in Vaults, NEW state \in DeviceRecord
    PROVE  learnFromCrash(v, state) \in DeviceRecord /\ learnFromCrash(v, state).attempt = {}
  BY DEF learnFromCrash, DeviceRecord

LEMMA AppStarts ==
    ASSUME Parts, NEW v \in Vaults, Start(v)
    PROVE  Parts'
<1> USE DEF Parts
<1>1. Grows
  BY DEF Start, server, ghosts, Grows
<1>2. ListingOK' /\ DiskOK' /\ UploadsOK' /\ QueueOK' /\ FolderOK' /\ SealedOK'
  BY <1>1, Frames, SharedStays DEF Start, ghosts
<1>3. /\ ConnOK'
      /\ \A w \in Vaults : conn[w].on => conn'[w].on
  BY DEF Start, ConnOK, Connection
<1>4. WorkOK'
  <2>1. \A z \in work' : z \in work /\ (conn[z.vault].on => conn'[z.vault].on)
    BY <1>3, WorkIs DEF Start
  <2> QED BY <1>1, <2>1, WorkKept
<1>5. DeviceOK'
  <2> DEFINE found == IF stateFile[v] = << >> THEN emptyState ELSE stateFile[v][1]
             learned == learnFromCrash(v, found)
             saved == [state |-> learned, awaits |-> NoPath]
  <2>1. found \in DeviceRecord
    <3>1. emptyState \in DeviceRecord
      BY DEF emptyState, DeviceRecord
    <3>2. stateFile[v] # << >> => stateFile[v][1] \in DeviceRecord
      BY DEF DeviceOK
    <3> QED BY <3>1, <3>2
  <2> HIDE DEF found
  <2>2. learned \in DeviceRecord
    BY <2>1, Learned
  <2>3. /\ UNCHANGED stateFile
        /\ device' = [device EXCEPT ![v] = found] \/ device' = [device EXCEPT ![v] = learned]
        /\ saves' = [saves EXCEPT ![v] = << >>] \/ saves' = [saves EXCEPT ![v] = <<saved>>]
    BY DEF Start, openDeviceState, found
  <2>4. saved \in SavedState
    BY <2>2 DEF SavedState
  <2> HIDE DEF learned, saved
  <2>5. << >> \in Seq(SavedState) /\ <<saved>> \in Seq(SavedState)
    BY <2>4
  <2> QED BY <2>1, <2>2, <2>3, <2>5 DEF DeviceOK
<1> QED BY <1>2, <1>3, <1>4, <1>5

LEMMA DeviceSaves ==
    ASSUME Parts, NEW v \in Vaults, SaveDeviceState(v)
    PROVE  Parts'
<1> USE DEF Parts
<1>1. Grows
  BY DEF SaveDeviceState, server, ghosts, Grows
<1>2. /\ ListingOK' /\ DiskOK' /\ UploadsOK' /\ WorkOK' /\ ConnOK' /\ QueueOK' /\ FolderOK'
      /\ SealedOK'
  BY <1>1, Frames, SharedStays DEF SaveDeviceState, ghosts
<1>3. DeviceOK'
  <2>1. saves[v] \in Seq(SavedState) /\ saves[v] # << >>
    BY DEF DeviceOK, SaveDeviceState, WriteNext
  <2>2. /\ Head(saves[v]) \in SavedState /\ Tail(saves[v]) \in Seq(SavedState)
        /\ Head(saves[v]).state \in DeviceRecord
    <3>1. Head(saves[v]) \in SavedState /\ Tail(saves[v]) \in Seq(SavedState)
      BY <2>1
    <3> QED BY <3>1 DEF SavedState
  <2>3. /\ <<Head(saves[v]).state>> \in Seq(DeviceRecord) /\ Len(<<Head(saves[v]).state>>) = 1
    BY <2>2
  <2> QED BY <2>2, <2>3 DEF DeviceOK, SaveDeviceState, WriteNext
<1> QED BY <1>2, <1>3

LEMMA InitParts == Init => Parts
<1> SUFFICES ASSUME Init PROVE Parts
  OBVIOUS
<1>1. DeviceOK
  BY DEF Init, DeviceInit, DeviceOK, emptyState, DeviceRecord
<1>2. ListingOK
  BY DEF Init, ListingOK, Unset, Item
<1>3. DiskOK
  BY DEF Init, DiskOK, Nothing, UnsharedKept
<1>4. SealedOK /\ UploadsOK /\ WorkOK
  BY DEF Init, SealedOK, UploadsOK, WorkOK
<1>5. ConnOK
  BY DEF Init, ConnOK, Connection
<1>6. FolderOK
  BY DEF Init, FolderOK, FolderState, FreshFolder, Nothing, Fair
<1>7. QueueOK
  BY DEF Init, QueueOK, Kept, Flush, NoFlush
<1> QED BY <1>1, <1>2, <1>3, <1>4, <1>5, <1>6, <1>7 DEF Parts

LEMMA NextParts == Parts /\ [Next]_vars => Parts'
<1> SUFFICES ASSUME Parts, [Next]_vars PROVE Parts'
  OBVIOUS
<1>1. CASE UNCHANGED vars
  <2>1. Grows
    BY <1>1 DEF vars, server, ghosts, Grows
  <2> QED BY <1>1, <2>1, Frames, SharedStays DEF vars, server, ghosts, Parts
<1>2. CASE Next
  BY <1>2, UserSaves, UserDeletes, UserRenames, Retries, UploadSettles, Sealing, UploadEnds,
     UploadGivesUp, DownloadBegins, DownloadRecorded, DownloadFetched, DownloadFails,
     DownloadWrites, RemovalBegins, RemovalTrashes, Receives, Reopens, Reconciles, Flushes,
     FlushUploads, AppStops, AppStarts, DeviceSaves DEF Next
<1> QED BY <1>1, <1>2

\* Whatever the vaults, names, renames, limits and troubles: a saved attachment
\* that was never shared is on a disk or kept beside the file, outside the
\* ways BlobSync leaves open and UnsharedKept names.
THEOREM BytesAreKept == Spec => []UnsharedKept
<1>1. Parts => UnsharedKept
  BY DEF Parts, DiskOK
<1> QED BY <1>1, InitParts, NextParts, PTL DEF Spec

-----------------------------------------------------------------------------
(* Who is blamed.  First, what each step has to show. *)

LaterContributes(w) == w.at = "recording" \/ (w.at = "fetching" /\ sealed'[w.blob] \in Large)
LaterRecord(v) == {w.path : w \in {x \in work' : x.vault = v /\ LaterContributes(x)}}

LEMMA ContributionStays ==
    ASSUME Parts, Grows, NEW w \in work, Contributes(w)
    PROVE  LaterContributes(w)
<1>1. w.at \in {"recording", "fetching"}
  BY DEF Contributes
<1>2. w.blob \in DOMAIN sealed
  BY <1>1, WorkIs DEF Parts
<1>3. sealed'[w.blob] = sealed[w.blob]
  BY <1>2, SharedStays DEF Parts
<1> QED BY <1>3 DEF Contributes, LaterContributes

LEMMA RecordStays ==
    ASSUME Parts, Grows, NEW v \in Vaults,
           \A w \in work : w.vault = v => w \in work' \/ ~Contributes(w)
    PROVE  OnRecord(v) \subseteq LaterRecord(v)
  BY ContributionStays DEF OnRecord, LaterRecord

NoneRecords ==
    \A w \in work' : w.at = "recording" => w \in work \/ sealed'[w.blob] \in Large

LEMMA RecordingIsLarge ==
    ASSUME Parts, BlameOK, Grows, NoneRecords
    PROVE  \A w \in work' : w.at = "recording" => sealed'[w.blob] \in Large
<1> TAKE w \in work'
<1> HAVE w.at = "recording"
<1>1. CASE w \in work
  <2>1. sealed[w.blob] \in Large /\ w.blob \in DOMAIN sealed
    BY <1>1, WorkIs DEF BlameOK, Parts
  <2> QED BY <2>1, SharedStays DEF Parts
<1> QED BY <1>1 DEF NoneRecords

\* What holds of one vault.
BlamedRight(v) ==
    /\ Blamed(device[v]) \subseteq suspects[v]
    /\ device[v].attempt \subseteq suspects[v] \cup OnRecord(v)
    /\ \A i \in DOMAIN saves[v] : Blamed(saves[v][i].state) \subseteq suspects[v]
    /\ \A i \in DOMAIN stateFile[v] : Blamed(stateFile[v][i]) \subseteq suspects[v]
    /\ saves[v] # << >> => saves[v][Len(saves[v])].state = device[v] /\ conn[v].on
    /\ conn[v].on /\ saves[v] = << >> =>
           \A i \in DOMAIN stateFile[v] : stateFile[v][i] = device[v]
    /\ ~conn[v].on => \A i \in DOMAIN stateFile[v] : stateFile[v][i].attempt \subseteq suspects[v]

LaterRight(v) ==
    /\ Blamed(device'[v]) \subseteq suspects'[v]
    /\ device'[v].attempt \subseteq suspects'[v] \cup LaterRecord(v)
    /\ \A i \in DOMAIN saves'[v] : Blamed(saves'[v][i].state) \subseteq suspects'[v]
    /\ \A i \in DOMAIN stateFile'[v] : Blamed(stateFile'[v][i]) \subseteq suspects'[v]
    /\ saves'[v] # << >> => saves'[v][Len(saves'[v])].state = device'[v] /\ conn'[v].on
    /\ conn'[v].on /\ saves'[v] = << >> =>
           \A i \in DOMAIN stateFile'[v] : stateFile'[v][i] = device'[v]
    /\ ~conn'[v].on => \A i \in DOMAIN stateFile'[v] : stateFile'[v][i].attempt \subseteq suspects'[v]

LEMMA BlameIs ==
    ASSUME BlameOK, NEW v \in Vaults
    PROVE  BlamedRight(v)
  BY DEF BlameOK, BlamedRight

LEMMA BlameShown ==
    ASSUME Parts, BlameOK, Grows, suspects' \in [Vaults -> SUBSET Paths], NoneRecords,
           \A v \in Vaults : LaterRight(v)
    PROVE  BlameOK'
<1>1. \A w \in work' : w.at = "recording" => sealed'[w.blob] \in Large
  BY RecordingIsLarge
<1>2. \A v \in Vaults : BlamedRight(v)'
  BY DEF LaterRight, BlamedRight, LaterRecord, OnRecord, LaterContributes, Contributes
<1> QED BY <1>1, <1>2 DEF BlameOK, BlamedRight

\* A vault whose device the step leaves alone.
LEMMA VaultAlone ==
    ASSUME Parts, BlameOK, Grows, NEW v \in Vaults, suspects[v] \subseteq suspects'[v],
           device'[v] = device[v], saves'[v] = saves[v], stateFile'[v] = stateFile[v],
           conn'[v].on = conn[v].on,
           device[v].attempt \subseteq suspects'[v] \cup LaterRecord(v)
    PROVE  LaterRight(v)
<1>1. BlamedRight(v)
  BY BlameIs
<1> QED BY <1>1 DEF BlamedRight, LaterRight

\* A step that leaves the devices alone.
LEMMA DevicesAlone ==
    ASSUME Parts, BlameOK, Grows, UNCHANGED <<deviceVars, suspects>>, NoneRecords,
           \A v \in Vaults : conn'[v].on = conn[v].on,
           \A w \in work : w \in work' \/ ~Contributes(w) \/ device[w.vault].attempt = {}
    PROVE  BlameOK'
<1>1. ASSUME NEW v \in Vaults PROVE LaterRight(v)
  <2>1. device[v].attempt \subseteq suspects[v] \cup OnRecord(v)
    BY BlameIs DEF BlamedRight
  <2>2. CASE device[v].attempt = {}
    BY <2>2, VaultAlone DEF deviceVars
  <2>3. CASE device[v].attempt # {}
    <3>1. OnRecord(v) \subseteq LaterRecord(v)
      BY <2>3, RecordStays
    <3> QED BY <2>1, <3>1, VaultAlone DEF deviceVars
  <2> QED BY <2>2, <2>3
<1> QED BY <1>1, BlameShown DEF BlameOK

\* A step that leaves the downloads alone as well.
LEMMA BlameAlone ==
    ASSUME Parts, BlameOK, Grows, UNCHANGED <<deviceVars, suspects, work>>,
           \A v \in Vaults : conn'[v].on = conn[v].on
    PROVE  BlameOK'
  BY DevicesAlone DEF NoneRecords

\* A save of one vault's state.
LEMMA BlameSaved ==
    ASSUME Parts, BlameOK, Grows, UNCHANGED <<suspects, conn>>, NoneRecords,
           NEW v \in Vaults, NEW p \in Paths, NEW state \in DeviceRecord, Save(v, state, p),
           conn[v].on, Blamed(state) \subseteq suspects[v],
           state.attempt \subseteq suspects[v] \cup LaterRecord(v),
           \A w \in work : w.vault = v \/ w \in work' \/ ~Contributes(w)
    PROVE  BlameOK'
<1>1. LaterRight(v)
  <2>1. BlamedRight(v)
    BY BlameIs
  <2>2. /\ device'[v] = state /\ stateFile' = stateFile /\ saves[v] \in Seq(SavedState)
        /\ saves'[v] = Append(saves[v], [state |-> state, awaits |-> p])
    BY DEF Save, Parts, DeviceOK
  <2> DEFINE one == [state |-> state, awaits |-> p]
  <2>3. one.state = state /\ one \in SavedState
    BY DEF SavedState
  <2> HIDE DEF one
  <2>4. saves'[v] = Append(saves[v], one)
    BY <2>2 DEF one
  <2>5. /\ saves'[v] # << >> /\ saves'[v][Len(saves'[v])] = one
        /\ \A i \in DOMAIN saves'[v] : saves'[v][i] = one \/
               (i \in DOMAIN saves[v] /\ saves'[v][i] = saves[v][i])
    BY <2>2, <2>3, <2>4
  <2> QED BY <2>1, <2>2, <2>3, <2>5 DEF LaterRight, BlamedRight
<1>2. ASSUME NEW u \in Vaults, u # v PROVE LaterRight(u)
  <2>1. device'[u] = device[u] /\ saves'[u] = saves[u] /\ stateFile'[u] = stateFile[u]
    BY <1>2 DEF Save, Parts, DeviceOK
  <2>2. OnRecord(u) \subseteq LaterRecord(u)
    BY <1>2, RecordStays
  <2>3. device[u].attempt \subseteq suspects[u] \cup OnRecord(u)
    BY BlameIs DEF BlamedRight
  <2> QED BY <2>1, <2>2, <2>3, VaultAlone
<1> QED BY <1>1, <1>2, BlameShown DEF BlameOK

-----------------------------------------------------------------------------
(* Then that each does. *)

SameApps == \A v \in Vaults : conn'[v].on = conn[v].on

\* What touches no download, no device and no app.
LEMMA OthersBlame ==
    ASSUME Parts, BlameOK, Grows,
           \/ \E v \in Vaults, p \in Paths : UserSave(v, p) \/ UserDelete(v, p) \/ Settles(v, p)
           \/ \E v \in Vaults, p, q \in Paths : UserRename(v, p, q)
           \/ \E u \in uploads : SealPass(u) \/ Uploaded(u) \/ UploadFails(u) \/ UploadRefused(u)
           \/ \E v \in Vaults : FlushUpload(v) \/ FlushPurge(v) \/ Reconnected(v) \/ Attest(v)
    PROVE  BlameOK'
<1>1. UNCHANGED <<deviceVars, suspects, work, conn>>
  BY DEF UserSave, UserDelete, Settles, UserRename, SealPass, Uploaded, UploadFails,
     UploadRefused, FlushUpload, FlushPurge, Reconnected, Attest, ghosts
<1> QED BY <1>1, BlameAlone

LEMMA ConnectionsBlame ==
    ASSUME Parts, BlameOK, Grows, NEW v \in Vaults, NEW moves \in BOOLEAN,
           OpenListing(v) \/ Refresh(v, moves) \/ FolderGone(v)
    PROVE  BlameOK'
<1>1. UNCHANGED <<deviceVars, suspects, work>>
  BY DEF OpenListing, Refresh, FolderGone, ghosts
<1>2. SameApps
  BY DEF OpenListing, Refresh, FolderGone, Parts, ConnOK, Connection, SameApps
<1> QED BY <1>1, <1>2, BlameAlone DEF SameApps

\* The tasks of the listing wait.
LEMMA TasksBlame ==
    ASSUME Parts, BlameOK, Grows, NEW v \in Vaults, Receive(v) \/ InitialBlobSync(v)
    PROVE  BlameOK'
<1>1. UNCHANGED <<deviceVars, suspects>> /\ work \subseteq work'
  BY DEF Receive, InitialBlobSync, ghosts
<1>2. SameApps
  BY DEF Receive, InitialBlobSync, Parts, ConnOK, Connection, SameApps
<1>3. \A p, kind, blob : Task(v, p, kind, blob).at = "waiting"
  BY DEF Task
<1>4. NoneRecords
  BY <1>3 DEF Receive, InitialBlobSync, NoneRecords
<1> QED BY <1>1, <1>2, <1>4, DevicesAlone DEF SameApps

\* One download goes on: what it is then, and that the others stay.
LEMMA Went ==
    ASSUME Parts, NEW w \in work, NEW at, Goes(w, at)
    PROVE  /\ \A x \in work : x = w \/ x \in work'
           /\ \A x \in work' : x \in work \/ x = [w EXCEPT !.at = at]
           /\ [w EXCEPT !.at = at] \in work'
           /\ LET x == [w EXCEPT !.at = at]
              IN  x.at = at /\ x.vault = w.vault /\ x.path = w.path /\ x.blob = w.blob
<1>1. IsWork(w)
  BY WorkIs DEF Parts
<1>2. [w EXCEPT !.at = at] = [vault |-> w.vault, path |-> w.path, turn |-> w.turn, kind |-> w.kind,
                              blob |-> w.blob, seen |-> w.seen, at |-> at]
  BY <1>1 DEF IsWork
<1> QED BY <1>2 DEF Goes

LEMMA LandsBlame ==
    ASSUME Parts, BlameOK, Grows, NEW w \in work, Lands(w),
           UNCHANGED <<deviceVars, suspects, conn>>, ~Contributes(w)
    PROVE  BlameOK'
<1>1. /\ \A x \in work : x = w \/ x \in work'
      /\ NoneRecords
  <2>1. CASE Done(w)
    BY <2>1 DEF Done, NoneRecords
  <2>2. CASE Goes(w, "making")
    <3>1. /\ \A x \in work : x = w \/ x \in work'
          /\ \A x \in work' : x \in work \/ x.at = "making"
      BY <2>2, Went
    <3> QED BY <3>1 DEF NoneRecords
  <2>3. CASE work' = (work \ {w}) \cup {[w EXCEPT !.at = "writing", !.seen = Seen(w.vault)[w.path]]}
    <3> DEFINE x == [w EXCEPT !.at = "writing", !.seen = Seen(w.vault)[w.path]]
    <3>1. x.at = "writing"
      <4>1. IsWork(w)
        BY WorkIs DEF Parts
      <4> QED BY <4>1 DEF IsWork
    <3> HIDE DEF x
    <3>2. work' = (work \ {w}) \cup {x}
      BY <2>3 DEF x
    <3> QED BY <3>1, <3>2 DEF NoneRecords
  <2> QED BY <2>1, <2>2, <2>3 DEF Lands
<1> QED BY <1>1, DevicesAlone

LEMMA BeginsBlame ==
    ASSUME Parts, BlameOK, Grows, NEW w \in work, BeginDownload(w)
    PROVE  BlameOK'
<1> DEFINE v == w.vault
           p == w.path
<1>0. /\ v \in Vaults /\ p \in Paths /\ conn[v].on /\ w.at = "waiting" /\ ~Contributes(w)
      /\ w.kind = "download" /\ w.blob \in DOMAIN sealed /\ device[v] \in DeviceRecord
  BY WorkIs DEF Parts, BeginDownload, HasTurn, Contributes, DeviceOK
<1>1. UNCHANGED <<suspects, conn>>
  BY DEF BeginDownload
<1>2. BlamedRight(v)
  BY <1>0, BlameIs
<1>3. CASE Done(w) /\ UNCHANGED deviceVars
  BY <1>0, <1>1, <1>3, DevicesAlone DEF Done, NoneRecords
<1>6. CASE Done(w) /\ decline(v, p)
  <2> DEFINE state == [device[v] EXCEPT !.skipped[p] = "declined"]
  <2>1. NoneRecords /\ \A x \in work : x = w \/ x \in work'
    BY <1>6 DEF Done, NoneRecords
  <2>2. state \in DeviceRecord
    BY <1>0, DeviceEdits DEF Parts
  <2>3. Blamed(state) \subseteq Blamed(device[v]) /\ state.attempt = device[v].attempt
    BY <1>0 DEF DeviceRecord, Blamed
  <2>4. Save(v, state, p)
    BY <1>6 DEF decline
  <2>5. OnRecord(v) \subseteq LaterRecord(v)
    BY <1>0, <2>1, RecordStays
  <2>6. Blamed(state) \subseteq suspects[v] /\ state.attempt \subseteq suspects[v] \cup LaterRecord(v)
    BY <1>2, <2>3, <2>5 DEF BlamedRight
  <2>7. \A x \in work : x.vault = v \/ x \in work' \/ ~Contributes(x)
    BY <1>0, <2>1
  <2> HIDE DEF state, v, p
  <2> QED BY <1>0, <1>1, <2>1, <2>2, <2>4, <2>6, <2>7, BlameSaved
<1>4. CASE Goes(w, "recording") /\ beginAttempt(v, p) /\ sealed[w.blob] \in Large
  <2> DEFINE state == [device[v] EXCEPT !.attempt = {p}]
             x == [w EXCEPT !.at = "recording"]
  <2>1. /\ \A y \in work : y = w \/ y \in work'
        /\ \A y \in work' : y \in work \/ y = x
        /\ x \in work' /\ x.at = "recording" /\ x.vault = v /\ x.path = p /\ x.blob = w.blob
    BY <1>4, Went
  <2> HIDE DEF x
  <2>2. NoneRecords
    <3>1. sealed'[w.blob] = sealed[w.blob]
      BY <1>0, SharedStays DEF Parts
    <3> QED BY <1>4, <2>1, <3>1 DEF NoneRecords
  <2>3. state \in DeviceRecord
    BY <1>0, DeviceEdits DEF Parts
  <2>4. Blamed(state) = Blamed(device[v]) /\ state.attempt = {p}
    BY <1>0 DEF DeviceRecord, Blamed
  <2>5. p \in LaterRecord(v)
    BY <2>1 DEF LaterRecord, LaterContributes
  <2>6. Blamed(state) \subseteq suspects[v] /\ state.attempt \subseteq suspects[v] \cup LaterRecord(v)
    BY <1>2, <2>4, <2>5 DEF BlamedRight
  <2>7. Save(v, state, p)
    BY <1>4 DEF beginAttempt
  <2>8. \A y \in work : y.vault = v \/ y \in work' \/ ~Contributes(y)
    BY <1>0, <2>1
  <2> HIDE DEF state, v, p
  <2> QED BY <1>0, <1>1, <2>2, <2>3, <2>6, <2>7, <2>8, BlameSaved
<1>5. CASE Goes(w, "fetching") /\ UNCHANGED deviceVars
  <2>1. /\ \A y \in work : y = w \/ y \in work'
        /\ \A y \in work' : y \in work \/ y.at = "fetching"
    BY <1>5, Went
  <2> QED BY <1>0, <1>1, <1>5, <2>1, DevicesAlone DEF NoneRecords
<1> QED BY <1>3, <1>4, <1>5, <1>6 DEF BeginDownload

LEMMA RecordedBlame ==
    ASSUME Parts, BlameOK, Grows, NEW w \in work, Recorded(w)
    PROVE  BlameOK'
<1> DEFINE x == [w EXCEPT !.at = "fetching"]
<1>0. /\ w.vault \in Vaults /\ w.blob \in DOMAIN sealed /\ sealed[w.blob] \in Large
      /\ w.at = "recording"
  BY WorkIs DEF Parts, Recorded, BlameOK
<1>1. UNCHANGED <<deviceVars, suspects, conn>> /\ Goes(w, "fetching")
  BY DEF Recorded, ghosts
<1>2. /\ \A y \in work : y = w \/ y \in work'
      /\ \A y \in work' : y \in work \/ y = x
      /\ x \in work' /\ x.at = "fetching" /\ x.vault = w.vault /\ x.path = w.path /\ x.blob = w.blob
  BY <1>1, Went
<1> HIDE DEF x
<1>3. NoneRecords
  BY <1>2 DEF NoneRecords
<1>4. LaterContributes(x)
  <2>1. sealed'[w.blob] = sealed[w.blob]
    BY <1>0, SharedStays DEF Parts
  <2> QED BY <1>0, <1>2, <2>1 DEF LaterContributes
<1>5. ASSUME NEW v \in Vaults PROVE LaterRight(v)
  <2>1. OnRecord(v) \subseteq LaterRecord(v)
    BY <1>2, <1>4, ContributionStays DEF OnRecord, LaterRecord
  <2>2. device[v].attempt \subseteq suspects[v] \cup OnRecord(v)
    BY BlameIs DEF BlamedRight
  <2> QED BY <1>1, <2>1, <2>2, VaultAlone DEF deviceVars
<1> QED BY <1>1, <1>3, <1>5, BlameShown DEF BlameOK

\* The record is cleared, or there was none; the others go on.
LEMMA EndsBlame ==
    ASSUME Parts, BlameOK, Grows, NEW w \in work, endAttempt(w.vault, w.path),
           UNCHANGED <<suspects, conn>>, NoneRecords,
           \A x \in work : x = w \/ x \in work'
    PROVE  BlameOK'
<1> DEFINE v == w.vault
           p == w.path
           state == [device[v] EXCEPT !.attempt = {}]
<1>0. v \in Vaults /\ p \in Paths /\ conn[v].on /\ device[v] \in DeviceRecord
  BY WorkIs DEF Parts, DeviceOK
<1>1. CASE device[v].attempt = {}
  <2>1. UNCHANGED deviceVars
    BY <1>1 DEF endAttempt
  <2> QED BY <1>1, <2>1, DevicesAlone
<1>2. CASE device[v].attempt # {}
  <2>1. Save(v, state, p)
    BY <1>2 DEF endAttempt
  <2>2. state \in DeviceRecord
    BY <1>0, DeviceEdits DEF Parts
  <2>3. Blamed(state) = Blamed(device[v]) /\ state.attempt = {}
    BY <1>0 DEF DeviceRecord, Blamed
  <2>4. Blamed(state) \subseteq suspects[v]
    BY <1>0, <2>3, BlameIs DEF BlamedRight
  <2>5. \A x \in work : x.vault = v \/ x \in work' \/ ~Contributes(x)
    OBVIOUS
  <2> HIDE DEF state, v, p
  <2> QED BY <1>0, <2>1, <2>2, <2>3, <2>4, <2>5, BlameSaved
<1> QED BY <1>1, <1>2

LEMMA FetchedBlame ==
    ASSUME Parts, BlameOK, Grows, NEW w \in work, Fetched(w)
    PROVE  BlameOK'
<1>1. UNCHANGED <<suspects, conn>>
  BY DEF Fetched
<1>2. CASE sealed[w.blob] \in Large
  <2>1. endAttempt(w.vault, w.path) /\ Goes(w, "ending")
    BY <1>2 DEF Fetched
  <2>2. /\ \A y \in work : y = w \/ y \in work'
        /\ \A y \in work' : y \in work \/ y.at = "ending"
    BY <2>1, Went
  <2> QED BY <1>1, <2>1, <2>2, EndsBlame DEF NoneRecords
<1>3. CASE sealed[w.blob] \notin Large
  <2>1. Lands(w) /\ UNCHANGED deviceVars /\ ~Contributes(w)
    BY <1>3 DEF Fetched, Contributes
  <2> QED BY <1>1, <2>1, LandsBlame
<1> QED BY <1>2, <1>3

LEMMA FailsBlame ==
    ASSUME Parts, BlameOK, Grows, NEW w \in work, FetchFails(w)
    PROVE  BlameOK'
<1>1. /\ UNCHANGED <<suspects, conn>> /\ NoneRecords
      /\ \A x \in work : x = w \/ x \in work'
  BY DEF FetchFails, Done, NoneRecords
<1>2. CASE sealed[w.blob] \in Large
  BY <1>1, <1>2, EndsBlame DEF FetchFails
<1>3. CASE sealed[w.blob] \notin Large
  <2>1. UNCHANGED deviceVars /\ ~Contributes(w)
    BY <1>3 DEF FetchFails, Contributes
  <2> QED BY <1>1, <2>1, DevicesAlone
<1> QED BY <1>2, <1>3

LEMMA UnkeyedBlame ==
    ASSUME Parts, BlameOK, Grows, NEW w \in work, FetchUnkeyed(w)
    PROVE  BlameOK'
<1>0. w.vault \in Vaults /\ device \in [Vaults -> DeviceRecord]
  BY WorkIs DEF Parts, DeviceOK
<1>1. /\ UNCHANGED <<deviceVars, conn>> /\ NoneRecords
      /\ \A x \in work : x = w \/ x \in work'
      /\ suspects' = [suspects EXCEPT ![w.vault] = @ \cup device[w.vault].attempt]
  BY DEF FetchUnkeyed, Done, NoneRecords
<1>2. /\ suspects' \in [Vaults -> SUBSET Paths]
      /\ \A v \in Vaults : suspects[v] \subseteq suspects'[v]
      /\ device[w.vault].attempt \subseteq suspects'[w.vault]
  <2>1. device[w.vault].attempt \in SUBSET Paths
    BY <1>0 DEF DeviceRecord
  <2> QED BY <1>0, <1>1, <2>1 DEF BlameOK
<1>3. ASSUME NEW v \in Vaults PROVE LaterRight(v)
  <2>1. device[v].attempt \subseteq suspects'[v] \cup LaterRecord(v)
    <3>1. CASE v = w.vault
      BY <1>2, <3>1
    <3>2. CASE v # w.vault
      <4>1. OnRecord(v) \subseteq LaterRecord(v)
        BY <1>1, <3>2, RecordStays
      <4>2. device[v].attempt \subseteq suspects[v] \cup OnRecord(v)
        BY BlameIs DEF BlamedRight
      <4> QED BY <1>2, <4>1, <4>2
    <3> QED BY <3>1, <3>2
  <2> QED BY <1>1, <1>2, <2>1, VaultAlone DEF deviceVars
<1> QED BY <1>1, <1>2, <1>3, BlameShown

LEMMA SurvivedBlame ==
    ASSUME Parts, BlameOK, Grows, NEW w \in work, Survived(w)
    PROVE  BlameOK'
<1> DEFINE v == w.vault
           p == w.path
<1>0. /\ v \in Vaults /\ p \in Paths /\ conn[v].on /\ device[v] \in DeviceRecord
      /\ ~Contributes(w)
  BY WorkIs DEF Parts, DeviceOK, Survived, Contributes
<1>1. UNCHANGED <<suspects, conn>>
  BY DEF Survived
<1>2. CASE recordSuccess(v, p) /\ Goes(w, "raising")
  <2> DEFINE state == [device[v] EXCEPT !.lowered = FALSE]
  <2>1. /\ \A y \in work : y = w \/ y \in work'
        /\ \A y \in work' : y \in work \/ y.at = "raising"
    BY <1>2, Went
  <2>2. NoneRecords
    BY <2>1 DEF NoneRecords
  <2>3. state \in DeviceRecord
    BY <1>0, DeviceEdits DEF Parts
  <2>4. Blamed(state) = Blamed(device[v]) /\ state.attempt = device[v].attempt
    BY <1>0 DEF DeviceRecord, Blamed
  <2>5. OnRecord(v) \subseteq LaterRecord(v)
    BY <1>0, <2>1, RecordStays
  <2>6. Blamed(state) \subseteq suspects[v] /\ state.attempt \subseteq suspects[v] \cup LaterRecord(v)
    BY <1>0, <2>4, <2>5, BlameIs DEF BlamedRight
  <2>7. Save(v, state, p)
    BY <1>2 DEF recordSuccess
  <2>8. \A y \in work : y.vault = v \/ y \in work' \/ ~Contributes(y)
    BY <1>0, <2>1
  <2> HIDE DEF state, v, p
  <2> QED BY <1>0, <1>1, <2>2, <2>3, <2>6, <2>7, <2>8, BlameSaved
<1>3. CASE Lands(w) /\ UNCHANGED deviceVars
  BY <1>0, <1>1, <1>3, LandsBlame
<1> QED BY <1>2, <1>3 DEF Survived

LEMMA RestBlames ==
    ASSUME Parts, BlameOK, Grows, NEW w \in work,
           WriteOver(w) \/ MakeFile(w) \/ BeginRemoval(w) \/ TrashFile(w)
    PROVE  BlameOK'
<1>1. UNCHANGED <<deviceVars, suspects, conn>>
  BY DEF WriteOver, MakeFile, BeginRemoval, TrashFile
<1>2. ~Contributes(w)
  <2>1. w.kind = "remove" \/ w.at \in {"writing", "making", "trashing"}
    BY DEF WriteOver, MakeFile, BeginRemoval, TrashFile
  <2> QED BY <2>1, WorkIs DEF Contributes, Parts
<1>3. Done(w) \/ Goes(w, "trashing")
  BY DEF WriteOver, MakeFile, BeginRemoval, TrashFile
<1>4. CASE Done(w)
  BY <1>1, <1>2, <1>4, DevicesAlone DEF Done, NoneRecords
<1>5. CASE Goes(w, "trashing")
  <2>1. /\ \A y \in work : y = w \/ y \in work'
        /\ \A y \in work' : y \in work \/ y.at = "trashing"
    BY <1>5, Went
  <2> QED BY <1>1, <1>2, <2>1, DevicesAlone DEF NoneRecords
<1> QED BY <1>3, <1>4, <1>5

LEMMA RetryBlame ==
    ASSUME Parts, BlameOK, Grows, NEW v \in Vaults, NEW p \in Paths, Retry(v, p)
    PROVE  BlameOK'
<1> DEFINE d == [device[v] EXCEPT !.skipped[p] = "no"]
           state == [device[v] EXCEPT !.skipped[p] = "no", !.lowered = FALSE]
           x == [Task(v, p, "download", Listed(v, p)) EXCEPT !.turn = 0]
<1>0. conn[v].on /\ device[v] \in DeviceRecord /\ UNCHANGED <<suspects, conn>>
  BY Named DEF Parts, DeviceOK, Retry, ConnOK, ghosts
<1>1. x.at = "waiting" /\ work' = work \cup {x}
  BY DEF Task, Retry
<1> HIDE DEF x
<1>2. NoneRecords
  BY <1>1 DEF NoneRecords
<1>3. state \in DeviceRecord
  BY DeviceEdits DEF Parts
<1>4. Blamed(state) \subseteq Blamed(device[v]) /\ state.attempt = device[v].attempt
  <2>1. d \in DeviceRecord /\ Blamed(d) \subseteq Blamed(device[v]) /\ d.attempt = device[v].attempt
    BY <1>0 DEF DeviceRecord, Blamed
  <2>2. state = [d EXCEPT !.lowered = FALSE]
    OBVIOUS
  <2> HIDE DEF d, state
  <2> QED BY <2>1, <2>2 DEF DeviceRecord, Blamed
<1>5. OnRecord(v) \subseteq LaterRecord(v)
  BY <1>1, RecordStays
<1>6. Blamed(state) \subseteq suspects[v] /\ state.attempt \subseteq suspects[v] \cup LaterRecord(v)
  BY <1>4, <1>5, BlameIs DEF BlamedRight
<1>7. Save(v, state, p)
  BY DEF Retry, retry
<1>8. \A y \in work : y.vault = v \/ y \in work' \/ ~Contributes(y)
  BY <1>1
<1> HIDE DEF state
<1> QED BY <1>0, <1>2, <1>3, <1>6, <1>7, <1>8, BlameSaved

\* Where the app stops: its saves are gone, and what is not of its vault stays.
LEMMA StopsBlame ==
    ASSUME Parts, BlameOK, Grows, NEW v \in Vaults, Kill(v) \/ Close(v),
           suspects' \in [Vaults -> SUBSET Paths],
           \A u \in Vaults : suspects[u] \subseteq suspects'[u],
           \A u \in Vaults \ {v} : stateFile'[u] = stateFile[u],
           \A i \in DOMAIN stateFile'[v] :
               /\ Blamed(stateFile'[v][i]) \subseteq suspects'[v]
               /\ stateFile'[v][i].attempt \subseteq suspects'[v]
    PROVE  BlameOK'
<1>1. /\ NoneRecords
      /\ \A w \in work : w.vault # v => w \in work'
  BY DEF Kill, Close, Stops, NoneRecords
<1>2. device \in [Vaults -> DeviceRecord] /\ saves \in [Vaults -> Seq(SavedState)]
  BY DEF Parts, DeviceOK
<1>3. device' = [device EXCEPT ![v] = emptyState] /\ saves' = [saves EXCEPT ![v] = << >>]
  BY DEF Kill, Close, Killed, Closed
<1>4. /\ ~conn'[v].on
      /\ \A u \in Vaults \ {v} : conn'[u] = conn[u]
  <2>1. conn \in [Vaults -> Connection]
    BY DEF Parts, ConnOK
  <2>2. conn' = [conn EXCEPT ![v] = [conn[v] EXCEPT !.on = FALSE, !.open = FALSE,
                                                    !.catchup = 0, !.moved = FALSE]]
    BY DEF Kill, Close, Stops
  <2> QED BY <2>1, <2>2 DEF Connection
<1>5. LaterRight(v)
  <2>1. Blamed(emptyState) = {} /\ emptyState.attempt = {}
    BY DEF Blamed, emptyState
  <2>2. device'[v] = emptyState /\ saves'[v] = << >>
    BY <1>2, <1>3
  <2> QED BY <1>4, <2>1, <2>2 DEF LaterRight
<1>6. ASSUME NEW u \in Vaults, u # v PROVE LaterRight(u)
  <2>1. device'[u] = device[u] /\ saves'[u] = saves[u]
    BY <1>2, <1>3, <1>6
  <2>2. OnRecord(u) \subseteq LaterRecord(u)
    BY <1>1, <1>6, RecordStays
  <2>3. device[u].attempt \subseteq suspects[u] \cup OnRecord(u)
    BY BlameIs DEF BlamedRight
  <2> QED BY <1>4, <1>6, <2>1, <2>2, <2>3, VaultAlone
<1> QED BY <1>1, <1>5, <1>6, BlameShown

\* A kill: whatever the file still says was on record is a suspect.
LEMMA KillBlame ==
    ASSUME Parts, BlameOK, Grows, NEW v \in Vaults, Kill(v)
    PROVE  BlameOK'
<1> DEFINE onFile == {p \in Paths :
                         saves[v] # << >> /\ \E i \in DOMAIN stateFile[v] : p \in stateFile[v][i].attempt}
           running == {p \in Paths : \E w \in work :
                         w.vault = v /\ w.path = p /\ w.at \in {"recording", "fetching", "ending"}}
<1>0. BlamedRight(v) /\ conn[v].on /\ stateFile \in [Vaults -> Seq(DeviceRecord)]
  BY BlameIs DEF Kill, Stops, Parts, DeviceOK
<1>1. suspects' = [suspects EXCEPT ![v] = @ \cup (onFile \cup running)]
  BY DEF Kill
<1>2. OnRecord(v) \subseteq running
  <2>1. \A w \in work : w.path \in Paths
    BY WorkIs DEF Parts
  <2> QED BY <2>1 DEF OnRecord, Contributes
<1>3. onFile \subseteq Paths /\ running \subseteq Paths
  OBVIOUS
<1>4. saves[v] # << >> => \A i \in DOMAIN stateFile[v] : stateFile[v][i].attempt \subseteq onFile
  <2>1. \A i \in DOMAIN stateFile[v] : stateFile[v][i] \in DeviceRecord
    BY <1>0
  <2>2. \A i \in DOMAIN stateFile[v] : stateFile[v][i].attempt \subseteq Paths
    BY <2>1 DEF DeviceRecord
  <2> QED BY <2>2
<1> HIDE DEF onFile, running
<1>5. /\ suspects' \in [Vaults -> SUBSET Paths]
      /\ \A u \in Vaults : suspects[u] \subseteq suspects'[u]
      /\ suspects'[v] = suspects[v] \cup onFile \cup running
  BY <1>1, <1>3 DEF BlameOK
<1>6. stateFile' = stateFile \/ stateFile' = [stateFile EXCEPT ![v] = << >>]
  BY DEF Kill, Killed
<1>7. \A u \in Vaults \ {v} : stateFile'[u] = stateFile[u]
  BY <1>0, <1>6
<1>8. stateFile'[v] = stateFile[v] \/ stateFile'[v] = << >>
  BY <1>0, <1>6
<1>9. ASSUME NEW i \in DOMAIN stateFile[v]
      PROVE  /\ Blamed(stateFile[v][i]) \subseteq suspects'[v]
             /\ stateFile[v][i].attempt \subseteq suspects'[v]
  <2>1. CASE saves[v] # << >>
    BY <1>0, <1>4, <1>5, <2>1 DEF BlamedRight
  <2>2. CASE saves[v] = << >>
    BY <1>0, <1>2, <1>5, <2>2 DEF BlamedRight
  <2> QED BY <2>1, <2>2
<1>10. \A i \in DOMAIN stateFile'[v] :
          /\ Blamed(stateFile'[v][i]) \subseteq suspects'[v]
          /\ stateFile'[v][i].attempt \subseteq suspects'[v]
  BY <1>8, <1>9
<1> QED BY <1>5, <1>7, <1>10, StopsBlame

\* A close writes the state out, without what was on record.
LEMMA CloseBlame ==
    ASSUME Parts, BlameOK, Grows, NEW v \in Vaults, Close(v)
    PROVE  BlameOK'
<1> DEFINE state == [device[v] EXCEPT !.attempt = {}]
<1>0. /\ BlamedRight(v) /\ conn[v].on /\ UNCHANGED suspects /\ device[v] \in DeviceRecord
      /\ stateFile \in [Vaults -> Seq(DeviceRecord)]
  BY BlameIs DEF Close, Stops, Parts, DeviceOK
<1>1. Blamed(state) = Blamed(device[v]) /\ state.attempt = {}
  BY <1>0 DEF DeviceRecord, Blamed
<1>2. stateFile' = [stateFile EXCEPT ![v] =
          IF saves[v] = << >> /\ device[v].attempt = {} THEN @ ELSE <<state>>]
  BY DEF Close, Closed
<1> HIDE DEF state
<1>3. /\ \A u \in Vaults \ {v} : stateFile'[u] = stateFile[u]
      /\ stateFile'[v] = IF saves[v] = << >> /\ device[v].attempt = {} THEN stateFile[v] ELSE <<state>>
  BY <1>0, <1>2
<1>4. \A i \in DOMAIN stateFile'[v] :
          /\ Blamed(stateFile'[v][i]) \subseteq suspects'[v]
          /\ stateFile'[v][i].attempt \subseteq suspects'[v]
  <2>1. CASE saves[v] = << >> /\ device[v].attempt = {}
    BY <1>0, <1>3, <2>1 DEF BlamedRight
  <2>2. CASE ~(saves[v] = << >> /\ device[v].attempt = {})
    BY <1>0, <1>1, <1>3, <2>2 DEF BlamedRight
  <2> QED BY <2>1, <2>2
<1> QED BY <1>0, <1>3, <1>4, StopsBlame DEF BlameOK

\* What was on record when the app stopped is a suspect, and is blamed.
LEMMA StartBlame ==
    ASSUME Parts, BlameOK, Grows, NEW v \in Vaults, Start(v)
    PROVE  BlameOK'
<1> DEFINE found == IF stateFile[v] = << >> THEN emptyState ELSE stateFile[v][1]
           learned == learnFromCrash(v, found)
           saved == [state |-> learned, awaits |-> NoPath]
<1>0. /\ BlamedRight(v) /\ ~conn[v].on
      /\ UNCHANGED <<stateFile, work, suspects, sealed>>
      /\ device \in [Vaults -> DeviceRecord] /\ saves \in [Vaults -> Seq(SavedState)]
      /\ stateFile[v] \in Seq(DeviceRecord) /\ Len(stateFile[v]) \in {0, 1}
  BY BlameIs DEF Start, openDeviceState, Parts, DeviceOK, server, ghosts
<1>1. /\ conn'[v].on
      /\ \A u \in Vaults \ {v} : conn'[u] = conn[u]
  BY DEF Start, Parts, ConnOK, Connection
<1>2. Blamed(emptyState) = {} /\ emptyState.attempt = {} /\ emptyState \in DeviceRecord
  BY DEF Blamed, emptyState, DeviceRecord
<1>3. /\ found \in DeviceRecord
      /\ Blamed(found) \subseteq suspects[v] /\ found.attempt \subseteq suspects[v]
      /\ \A i \in DOMAIN stateFile[v] : stateFile[v][i] = found
  <2>1. CASE stateFile[v] = << >>
    BY <1>2, <2>1
  <2>2. CASE stateFile[v] # << >>
    <3>1. DOMAIN stateFile[v] = {1}
      BY <1>0, <2>2
    <3> QED BY <1>0, <2>2, <3>1 DEF BlamedRight
  <2> QED BY <2>1, <2>2
<1>4. \/ learned = found /\ device' = [device EXCEPT ![v] = found] /\ saves' = [saves EXCEPT ![v] = << >>]
      \/ device' = [device EXCEPT ![v] = learned] /\ saves' = [saves EXCEPT ![v] = <<saved>>]
  BY DEF Start, openDeviceState
<1> HIDE DEF found
<1>5. learned.attempt = {} /\ Blamed(learned) \subseteq Blamed(found) \cup found.attempt
  BY <1>3 DEF learnFromCrash, DeviceRecord, Blamed
<1>6. saved.state = learned
  OBVIOUS
<1> HIDE DEF learned, saved
<1>7. LaterRight(v)
  <2>1. CASE learned = found /\ device'[v] = found /\ saves'[v] = << >>
    BY <1>0, <1>1, <1>3, <1>5, <2>1 DEF LaterRight, BlamedRight
  <2>2. CASE device'[v] = learned /\ saves'[v] = <<saved>>
    BY <1>0, <1>1, <1>3, <1>5, <1>6, <2>2 DEF LaterRight, BlamedRight
  <2> QED BY <1>0, <1>4, <2>1, <2>2
<1>8. ASSUME NEW u \in Vaults, u # v PROVE LaterRight(u)
  <2>1. device'[u] = device[u] /\ saves'[u] = saves[u]
    BY <1>0, <1>4, <1>8
  <2>2. OnRecord(u) \subseteq LaterRecord(u)
    BY <1>0, RecordStays
  <2>3. device[u].attempt \subseteq suspects[u] \cup OnRecord(u)
    BY BlameIs DEF BlamedRight
  <2> QED BY <1>0, <1>1, <1>8, <2>1, <2>2, <2>3, VaultAlone
<1> QED BY <1>0, <1>7, <1>8, BlameShown DEF BlameOK, NoneRecords

\* What is left of a queue without its first.
LEMMA RestOf ==
    ASSUME NEW S, NEW s \in Seq(S), s # << >>
    PROVE  /\ \A i \in DOMAIN Tail(s) : i + 1 \in DOMAIN s /\ Tail(s)[i] = s[i + 1]
           /\ Tail(s) # << >> => Tail(s)[Len(Tail(s))] = s[Len(s)]
           /\ Tail(s) = << >> => Len(s) = 1
           /\ 1 \in DOMAIN s
<1> DEFINE t == Tail(s)
<1>1. Len(s) \in Nat \ {0} /\ DOMAIN s = 1..Len(s)
  OBVIOUS
<1>2. /\ t \in Seq(S) /\ Len(t) = Len(s) - 1 /\ DOMAIN t = 1..Len(t)
      /\ \A i \in 1..Len(s) - 1 : t[i] = s[i + 1]
  BY <1>1
<1>3. t # << >> => Len(t) # 0
  BY <1>2
<1> HIDE DEF t
<1>4. t = << >> => Len(t) = 0
  <2>1. Len(<< >>) = 0
    OBVIOUS
  <2> QED BY <2>1
<1>5. /\ \A i \in DOMAIN t : i + 1 \in DOMAIN s /\ t[i] = s[i + 1]
      /\ t # << >> => t[Len(t)] = s[Len(s)]
      /\ t = << >> => Len(s) = 1
      /\ 1 \in DOMAIN s
  BY <1>1, <1>2, <1>3, <1>4
<1> QED BY <1>5 DEF t

\* The last save of the queue is the state, so the file is it once all are
\* written.
LEMMA SaveBlame ==
    ASSUME Parts, BlameOK, Grows, NEW v \in Vaults, SaveDeviceState(v)
    PROVE  BlameOK'
<1> DEFINE s == saves[v]
           state == Head(s).state
<1>0. /\ BlamedRight(v) /\ UNCHANGED <<device, work, suspects, sealed, conn>>
      /\ saves \in [Vaults -> Seq(SavedState)] /\ s \in Seq(SavedState) /\ s # << >>
      /\ stateFile \in [Vaults -> Seq(DeviceRecord)]
  BY BlameIs DEF SaveDeviceState, WriteNext, Parts, DeviceOK, server, ghosts
<1>1. saves' = [saves EXCEPT ![v] = Tail(s)] /\ stateFile' = [stateFile EXCEPT ![v] = <<state>>]
  BY DEF SaveDeviceState, WriteNext
<1>2. state = s[1].state
  BY <1>0
<1> HIDE DEF state
<1>3. LaterRight(v)
  <2>1. s[Len(s)].state = device[v] /\ conn[v].on
    BY <1>0 DEF BlamedRight
  <2>2. \A i \in DOMAIN s : Blamed(s[i].state) \subseteq suspects[v]
    BY <1>0 DEF BlamedRight
  <2>3. saves'[v] = Tail(s) /\ stateFile'[v] = <<state>>
    BY <1>0, <1>1
  <2> HIDE DEF s
  <2>4. /\ \A i \in DOMAIN Tail(s) : i + 1 \in DOMAIN s /\ Tail(s)[i] = s[i + 1]
        /\ Tail(s) # << >> => Tail(s)[Len(Tail(s))] = s[Len(s)]
        /\ Tail(s) = << >> => Len(s) = 1
        /\ 1 \in DOMAIN s
    BY <1>0, RestOf
  <2>5. \A i \in DOMAIN Tail(s) : Blamed(Tail(s)[i].state) \subseteq suspects[v]
    BY <2>2, <2>4
  <2>6. Blamed(state) \subseteq suspects[v]
    BY <1>2, <2>2, <2>4
  <2>7. Tail(s) = << >> => state = device[v]
    BY <1>2, <2>1, <2>4
  <2>8. Tail(s) # << >> => Tail(s)[Len(Tail(s))].state = device[v]
    BY <2>1, <2>4
  <2>9. device[v].attempt \subseteq suspects[v] \cup LaterRecord(v)
    BY <1>0, RecordStays DEF BlamedRight
  <2>10. Blamed(device[v]) \subseteq suspects[v]
    BY <1>0 DEF BlamedRight
  <2> QED BY <1>0, <2>1, <2>3, <2>5, <2>6, <2>7, <2>8, <2>9, <2>10 DEF LaterRight
<1>4. ASSUME NEW u \in Vaults, u # v PROVE LaterRight(u)
  <2>1. saves'[u] = saves[u] /\ stateFile'[u] = stateFile[u]
    BY <1>0, <1>1, <1>4
  <2>2. OnRecord(u) \subseteq LaterRecord(u)
    BY <1>0, RecordStays
  <2>3. device[u].attempt \subseteq suspects[u] \cup OnRecord(u)
    BY BlameIs DEF BlamedRight
  <2> QED BY <1>0, <2>1, <2>2, <2>3, VaultAlone
<1> QED BY <1>0, <1>3, <1>4, BlameShown DEF BlameOK, NoneRecords

-----------------------------------------------------------------------------
LEMMA NextGrows ==
    ASSUME Parts, Next
    PROVE  Grows
<1>1. ASSUME NEW v \in Vaults, NEW p \in Paths,
             \/ UserSave(v, p) \/ UserDelete(v, p) \/ Retry(v, p) \/ Settles(v, p)
             \/ \E q \in Paths : UserRename(v, p, q)
      PROVE  Grows
  BY <1>1 DEF UserSave, UserDelete, Retry, Settles, UserRename, server, ghosts, Account, Grows
<1>2. ASSUME NEW u \in uploads, SealPass(u) PROVE Grows
  <2>1. Seen(u.vault)[u.path] \in Nat
    BY SeenIs DEF Parts, UploadsOK, IsUpload
  <2> QED BY <1>2, <2>1 DEF SealPass, ghosts, Grows
<1>3. ASSUME NEW u \in uploads, Uploaded(u) \/ UploadFails(u) \/ UploadRefused(u) PROVE Grows
  BY <1>3 DEF Uploaded, UploadFails, UploadRefused, server, ghosts, Account, Grows
<1>4. ASSUME NEW w \in work,
             \/ BeginDownload(w) \/ Recorded(w) \/ FetchFails(w) \/ FetchUnkeyed(w)
             \/ WriteOver(w) \/ MakeFile(w) \/ BeginRemoval(w) \/ TrashFile(w)
      PROVE  Grows
  BY <1>4 DEF BeginDownload, Recorded, FetchFails, FetchUnkeyed, WriteOver, MakeFile, BeginRemoval,
     TrashFile, KeepsCopy, server, ghosts, Account, Grows
<1>5. ASSUME NEW w \in work, Fetched(w) \/ Survived(w) PROVE Grows
  BY <1>5, LandsGrows DEF Fetched, Survived, server, Grows
<1>6. ASSUME NEW v \in Vaults,
             \/ Receive(v) \/ OpenListing(v) \/ InitialBlobSync(v) \/ FolderGone(v)
             \/ \E moves \in BOOLEAN : Refresh(v, moves)
             \/ Reconnected(v) \/ FlushUpload(v) \/ FlushPurge(v) \/ Attest(v)
             \/ Kill(v) \/ Close(v) \/ Start(v) \/ SaveDeviceState(v)
      PROVE  Grows
  BY <1>6 DEF Receive, OpenListing, InitialBlobSync, FolderGone, Refresh, Reconnected, FlushUpload,
     FlushPurge, Attest, Kill, Close, Stops, Start, SaveDeviceState, server, ghosts, Grows
<1> QED BY <1>1, <1>2, <1>3, <1>4, <1>5, <1>6 DEF Next

LEMMA InitBlame == Init => BlameOK
<1> SUFFICES ASSUME Init PROVE BlameOK
  OBVIOUS
<1>1. Blamed(emptyState) = {} /\ emptyState.attempt = {}
  BY DEF Blamed, emptyState
<1> QED BY <1>1 DEF Init, DeviceInit, BlameOK

LEMMA NextBlame == Parts /\ BlameOK /\ [Next]_vars => BlameOK'
<1> SUFFICES ASSUME Parts, BlameOK, [Next]_vars PROVE BlameOK'
  OBVIOUS
<1>1. CASE UNCHANGED vars
  <2>1. Grows
    BY <1>1 DEF vars, server, ghosts, Grows
  <2> QED BY <1>1, <2>1, BlameAlone DEF vars, ghosts
<1>2. CASE Next
  <2>1. Grows
    BY <1>2, NextGrows
  <2> QED BY <1>2, <2>1, OthersBlame, ConnectionsBlame, TasksBlame, BeginsBlame, RecordedBlame,
       FetchedBlame, FailsBlame, UnkeyedBlame, SurvivedBlame, RestBlames, RetryBlame, KillBlame,
       CloseBlame, StartBlame, SaveBlame DEF Next
<1> QED BY <1>1, <1>2

\* Whatever the vaults, limits, stops and failures: a device skips a file as
\* having brought the app down only where a download of it was under way at a
\* kill, or had ended for want of its key.
THEOREM KillsAreBlamed == Spec => []BlameIsFair
<1>1. BlameOK => BlameIsFair
  BY DEF BlameOK, Blamed, BlameIsFair
<1>2. Init => Parts /\ BlameOK
  BY InitParts, InitBlame
<1>3. Parts /\ BlameOK /\ [Next]_vars => Parts' /\ BlameOK'
  BY NextParts, NextBlame
<1> QED BY <1>1, <1>2, <1>3, PTL DEF Spec
=============================================================================
