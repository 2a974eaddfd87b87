------------------------------ MODULE BlobSync ------------------------------
(***************************************************************************)
(* The attachments of one shared folder as the vaults that share it see    *)
(* them: packages/plugin/src/blob-sync.ts, with the parts of file-sync.ts  *)
(* that list attachments and act on the listing, the handlers of           *)
(* vault-watcher.ts, and device-state.ts.                                  *)
(*                                                                         *)
(* What a person saves is numbered in the order of saving; a blob is       *)
(* numbered in the order of minting, and a listing entry names a blob.     *)
(* Each await of the code that lets something happen ends an action; a     *)
(* pass over a file reads it at one moment.  Obsidian tells the watcher of *)
(* a change before the plugin resumes any other work.                      *)
(*                                                                         *)
(* The listing reaches every vault in order (DocSync's promise) and is     *)
(* kept on each device.  Folder keys are held but for one generation that  *)
(* may be missing; attachments are in no other map.                        *)
(***************************************************************************)
EXTENDS DeviceState, YMap, FiniteSets

CONSTANTS
    Unsteady,       \* vaults where the app stops, or the connections are rebuilt
    NewNames,       \* names people give new files
    Renames,        \* pairs of names an attachment may be renamed between
    Large,          \* saves as large as a kill may be blamed on
    Oversized,      \* saves above the limit of the account
    MaxBlobs,       \* blobs minted
    MaxEvents       \* changes by people and troubles, counted together: a trouble
                    \* is a request or a conflict copy that fails, a stop of the
                    \* app, or the folder's connections being rebuilt

ASSUME VaultsAssumption == Vaults \subseteq Nat \ {0}
ASSUME LimitsAssumption ==
    /\ Large \cup Oversized \subseteq 1..MaxEvents
    /\ {MaxBlobs, MaxEvents} \subseteq Nat

VARIABLES
    entry,      \* each replica of the listing's attachments: the blob of a key
    inbox,      \* transactions of the others a vault has not received
    disk,       \* what the folder holds under each name, 0 for no file
    stray,      \* what BlobSync sees once the folder was renamed: its old place
    bytes,      \* blobs the server has
    sealed,     \* what each blob holds
    conn,       \* the connections to the folder
    folder,     \* BlobSync's FolderState
    queue,      \* what is kept to be done later, and the flush under way
    uploads,    \* calls of upload under way
    work,       \* downloads and removals under way or waiting on a path's chain
    \* What follows no code reads.
    changes,    \* what people did so far; a save's number is its content
    accounted,  \* contents replaced or deleted by a person, shared, kept beside
                \* the file, or lost in a way the code leaves open
    behind,     \* paths a vault gave up on
    suspects,   \* downloads under way when the app was killed, or still on
                \* record with a save to come, and those that ended for want of
                \* a key generation
    troubles

listing == <<entry, inbox>>
server == <<bytes, sealed>>
ghosts == <<changes, accounted, behind, suspects>>
vars == <<deviceVars, listing, disk, stray, server, conn, folder, queue, uploads,
          work, ghosts, troubles>>

Nothing == [p \in Paths |-> 0]
FreshFolder == [echo |-> {}, synced |-> Nothing, timers |-> {}]
NoFlush == [uploads |-> {}, purges |-> {}, attests |-> FALSE]

Upload == [vault : Vaults, path : Paths, n : 1..2, flushed : BOOLEAN, at : {"sealing", "putting"},
           hash : 1..MaxEvents, blob : 0..MaxBlobs]
Work == [vault : Vaults, path : Paths, turn : Nat, kind : {"download", "remove"},
         blob : 0..MaxBlobs, seen : 0..MaxEvents,
         at : {"waiting", "recording", "fetching", "ending", "raising", "writing", "making", "trashing"}]

-----------------------------------------------------------------------------
(* The listing. *)

Listed(v, p) == IF conn[v].open /\ entry[v][p].live THEN entry[v][p].value ELSE 0

Transact(v, transaction) ==
    /\ entry' = [entry EXCEPT ![v] = Apply(@, transaction)]
    /\ inbox' = [w \in Vaults |-> IF w = v \/ transaction = {} THEN inbox[w]
                                  ELSE Append(inbox[w], transaction)]

\* Nothing where the listing is not open.
setBlobEntry(v, p, blob) ==
    Transact(v, IF conn[v].open THEN {Assignment(entry[v], v, p, blob)} ELSE {})
removeBlobEntry(v, p) ==
    Transact(v, IF Listed(v, p) # 0 THEN {Deletion(entry[v], p)} ELSE {})
renameBlobEntry(v, p, q) ==
    Transact(v, {Deletion(entry[v], p), Assignment(entry[v], v, q, Listed(v, p))})

\* The files BlobSync sees: under the name the folder had when it connected.
Seen(v) == IF conn[v].moved THEN stray[v] ELSE disk[v]
Put(v, p, content) ==
    IF conn[v].moved
    THEN stray' = [stray EXCEPT ![v][p] = content] /\ UNCHANGED disk
    ELSE disk' = [disk EXCEPT ![v][p] = content] /\ UNCHANGED stray

Trouble == changes + troubles < MaxEvents /\ troubles' = troubles + 1
NoTrouble == UNCHANGED troubles

-----------------------------------------------------------------------------
(* Slips: decisions of the code as a plausible change would break them,    *)
(* for the properties to catch.                                            *)

KeepsOnlyKnown(v, p, wanted) ==
    folder[v].synced[p] # 0 /\ Seen(v)[p] \notin {0, wanted, folder[v].synced[p]}

DropsRetry(v, p) == UNCHANGED queue

NamelessTask(v, p, kind, blob) ==
    [vault |-> v, path |-> p, turn |-> 1, kind |-> "upload", blob |-> blob, seen |-> 0,
     at |-> "waiting"]

ListsAnyway(u) ==
    /\ u.at = "putting" /\ Trouble
    /\ uploads' = uploads \ {u}
    /\ setBlobEntry(u.vault, u.path, u.blob)
    /\ UNCHANGED <<deviceVars, disk, stray, server, conn, folder, queue, work, ghosts>>

-----------------------------------------------------------------------------
(* Small steps of the engine. *)

rememberPending(v, p) == queue' = [queue EXCEPT ![v].pending = @ \cup {p}]
forgetPending(v, p) == queue' = [queue EXCEPT ![v].pending = @ \ {p}]
refusePermanently(v, p) ==
    queue' = [queue EXCEPT ![v].pending = @ \ {p}, ![v].refused = @ \cup {p}]

Account(contents) == accounted' = accounted \cup (contents \ {0})
GivesUp(v, p) == behind' = [behind EXCEPT ![v] = @ \cup {p}]
CaughtUp(v, p) == behind' = [behind EXCEPT ![v] = @ \ {p}]
Arrives(v, p, blob) == IF Listed(v, p) = blob THEN CaughtUp(v, p) ELSE GivesUp(v, p)
Synced(v, p, content) == folder' = [folder EXCEPT ![v].synced[p] = content]

Done(w) == work' = work \ {w}
Goes(w, at) == work' = (work \ {w}) \cup {[w EXCEPT !.at = at]}

\* FileSync.sequence: after the tasks the path already has.
LastTurn(v, p) ==
    LET turns == {w.turn : w \in {x \in work : x.vault = v /\ x.path = p}}
    IN  IF turns = {} THEN 0 ELSE CHOOSE t \in turns : \A u \in turns : u <= t
Task(v, p, kind, blob) ==
    [vault |-> v, path |-> p, turn |-> LastTurn(v, p) + 1, kind |-> kind, blob |-> blob,
     seen |-> 0, at |-> "waiting"]
HasTurn(w) ==
    w.at = "waiting" /\ (w.turn = 0 \/ \A x \in work :
        x.vault = w.vault /\ x.path = w.path /\ x.turn > 0 => w.turn <= x.turn)

\* handleModify and handleBlobCreate: an upload when edits settle, unless the
\* change is marked as the engine's own.
AfterSave(v, p, f) ==
    IF ~conn[v].on \/ ~conn[v].has THEN f
    ELSE IF p \in f.echo THEN [f EXCEPT !.echo = @ \ {p}]
    ELSE [f EXCEPT !.timers = @ \cup {p}]

\* deleteRemote: an answer of any kind settles it, no answer keeps it.
deleteRemote(v, blob) ==
    \/ /\ bytes' = bytes \ {blob} /\ NoTrouble
       /\ queue' = [queue EXCEPT ![v].purges = @ \ {blob}]
    \/ /\ Trouble /\ UNCHANGED bytes
       /\ queue' = [queue EXCEPT ![v].purges = @ \cup {blob}]

\* handleDelete, of a person's deletion and of the engine's own: the entry
\* goes, whichever it is by now, and the bytes behind it.
handleDelete(v, p) ==
    /\ removeBlobEntry(v, p)
    /\ IF Listed(v, p) # 0 THEN deleteRemote(v, Listed(v, p))
       ELSE UNCHANGED <<bytes, queue, troubles>>

-----------------------------------------------------------------------------
(* What people do.  Nothing is heard of it while the app is closed. *)

MayChange == changes + troubles < MaxEvents /\ changes' = changes + 1

UserSave(v, p) ==
    /\ MayChange
    /\ p \in NewNames \/ disk[v][p] # 0
    /\ disk' = [disk EXCEPT ![v][p] = changes']
    /\ Account({disk[v][p]})
    /\ folder' = [folder EXCEPT ![v] = AfterSave(v, p, @)]
    /\ IF p \in folder[v].echo THEN GivesUp(v, p) ELSE UNCHANGED behind
    /\ UNCHANGED <<deviceVars, listing, stray, server, conn, queue, uploads, work, suspects, troubles>>

\* deleteAttachment also deletes what is listed and has no file here.
UserDelete(v, p) ==
    /\ MayChange
    /\ disk[v][p] # 0 \/ Listed(v, p) # 0
    /\ disk' = [disk EXCEPT ![v][p] = 0]
    /\ Account({disk[v][p], changes'})
    /\ IF conn[v].on THEN handleDelete(v, p) ELSE UNCHANGED <<listing, bytes, queue, troubles>>
    /\ UNCHANGED <<deviceVars, stray, sealed, conn, folder, uploads, work, behind, suspects>>

\* handleBlobRename: the entry moves with its blob, whether or not the file
\* still holds that; one not listed yet is new.
UserRename(v, p, q) ==
    /\ <<p, q>> \in Renames
    /\ MayChange
    /\ disk[v][p] # 0 /\ disk[v][q] = 0
    /\ disk' = [disk EXCEPT ![v] = [@ EXCEPT ![q] = disk[v][p], ![p] = 0]]
    /\ Account({changes'})
    /\ IF conn[v].on /\ Listed(v, p) # 0
       THEN /\ renameBlobEntry(v, p, q)
            /\ IF sealed[Listed(v, p)] # disk[v][p] THEN GivesUp(v, q) ELSE UNCHANGED behind
            /\ UNCHANGED folder
       ELSE /\ folder' = [folder EXCEPT ![v].timers =
                   IF conn[v].on /\ conn[v].has THEN @ \cup {q} ELSE @]
            /\ UNCHANGED <<listing, behind>>
    /\ UNCHANGED <<deviceVars, stray, server, conn, queue, uploads, work, suspects, troubles>>

-----------------------------------------------------------------------------
(* Uploads. *)

FreeSlots(v, p) == {1, 2} \ {u.n : u \in {x \in uploads : x.vault = v /\ x.path = p}}

\* upload, with the first pass over the file: nothing to do without a file or
\* when it is what is listed, and nothing worth trying when it is too large.
upload(v, p, flushed, settled) ==
    LET content == Seen(v)[p]
        before == IF settled THEN [folder EXCEPT ![v].timers = @ \ {p}] ELSE folder
        entered == IF flushed THEN [queue EXCEPT ![v].flush.uploads = @ \ {p}] ELSE queue
    IN  IF ~conn[v].has \/ content = 0
        THEN folder' = before /\ queue' = entered /\ UNCHANGED <<uploads, behind>>
        ELSE IF content \in Oversized
        THEN /\ queue' = [entered EXCEPT ![v].pending = @ \ {p}, ![v].refused = @ \cup {p}]
             /\ folder' = before /\ GivesUp(v, p) /\ UNCHANGED uploads
        ELSE IF Listed(v, p) # 0 /\ sealed[Listed(v, p)] = content
        THEN /\ folder' = [before EXCEPT ![v].synced[p] = content]
             /\ queue' = entered /\ CaughtUp(v, p) /\ UNCHANGED uploads
        ELSE /\ FreeSlots(v, p) # {}
             /\ uploads' = uploads \cup
                    {[vault |-> v, path |-> p, n |-> CHOOSE n \in FreeSlots(v, p) : TRUE,
                      flushed |-> flushed, at |-> "sealing", hash |-> content, blob |-> 0]}
             /\ folder' = before /\ queue' = entered /\ UNCHANGED behind

\* The timer of scheduleUpload.
Settles(v, p) ==
    /\ p \in folder[v].timers
    /\ upload(v, p, FALSE, TRUE)
    /\ UNCHANGED <<deviceVars, listing, disk, stray, server, conn, work,
                   changes, accounted, suspects, troubles>>

\* The second pass, under a new id; the file may be another by now, or gone.
SealPass(u) ==
    LET v == u.vault  p == u.path  content == Seen(v)[p]
    IN  /\ u.at = "sealing"
        /\ IF content = 0
           THEN rememberPending(v, p) /\ uploads' = uploads \ {u} /\ UNCHANGED sealed
           ELSE /\ Len(sealed) < MaxBlobs
                /\ sealed' = Append(sealed, content)
                /\ uploads' = (uploads \ {u}) \cup {[u EXCEPT !.at = "putting", !.blob = Len(sealed')]}
                /\ UNCHANGED queue
        /\ UNCHANGED <<deviceVars, listing, disk, stray, bytes, conn, folder, work, ghosts, troubles>>

\* put, answered: the sealed bytes are listed, whatever the file or the entry
\* is by now.  What the first pass read counts as synced, though another
\* content may have been sealed and nothing is listed where the listing is
\* closed.
Uploaded(u) ==
    LET v == u.vault  p == u.path
    IN  /\ u.at = "putting" /\ conn[v].has
        /\ uploads' = uploads \ {u}
        /\ bytes' = bytes \cup {u.blob}
        /\ setBlobEntry(v, p, u.blob)
        /\ Synced(v, p, u.hash)
        /\ forgetPending(v, p)
        /\ Account({u.hash} \cup IF conn[v].open THEN {sealed[u.blob]} ELSE {})
        /\ IF Seen(v)[p] = sealed[u.blob] THEN CaughtUp(v, p) ELSE GivesUp(v, p)
        /\ UNCHANGED <<deviceVars, disk, stray, sealed, conn, work, changes, suspects, troubles>>

\* No answer, a full server, or a folder that went: it is tried again later.
UploadFails(u) ==
    /\ u.at = "putting"
    /\ IF conn[u.vault].has THEN Trouble ELSE NoTrouble
    /\ uploads' = uploads \ {u}
    /\ rememberPending(u.vault, u.path)
    /\ UNCHANGED <<deviceVars, listing, disk, stray, server, conn, folder, work, ghosts>>

\* The server will never take it.
UploadRefused(u) ==
    /\ u.at = "putting" /\ conn[u.vault].has
    /\ Trouble
    /\ uploads' = uploads \ {u}
    /\ refusePermanently(u.vault, u.path) /\ GivesUp(u.vault, u.path)
    /\ UNCHANGED <<deviceVars, listing, disk, stray, server, conn, folder, work,
                   changes, accounted, suspects>>

-----------------------------------------------------------------------------
(* Downloads and removals. *)

\* What differs from the wanted bytes and from the last synced ones is kept
\* beside the file; the copy may fail, which stops nothing.
MustKeep(v, p, wanted) == Seen(v)[p] \notin {0, wanted, folder[v].synced[p]}
KeepsCopy(v, p, wanted) ==
    \/ /\ Account(IF MustKeep(v, p, wanted) THEN {Seen(v)[p]} ELSE {})
       /\ NoTrouble
    \/ MustKeep(v, p, wanted) /\ Trouble /\ Account({Seen(v)[p]})

\* writeLocal, up to the write: over the file that is there, or a new one.
Lands(w) ==
    LET v == w.vault  p == w.path
    IN  IF ~conn[v].has THEN Done(w) /\ UNCHANGED <<accounted, troubles>>
        ELSE IF Seen(v)[p] = 0 THEN Goes(w, "making") /\ UNCHANGED <<accounted, troubles>>
        ELSE /\ KeepsCopy(v, p, sealed[w.blob])
             /\ work' = (work \ {w}) \cup {[w EXCEPT !.at = "writing", !.seen = Seen(v)[p]]}

\* download: nothing where the file is skipped or already that version.  A
\* large one is asked about once the budget came down, and put on record
\* before a byte is fetched.
BeginDownload(w) ==
    LET v == w.vault  p == w.path  wanted == sealed[w.blob]
    IN  /\ w.kind = "download" /\ HasTurn(w) /\ ~Awaited(v, p)
        /\ \/ /\ ~conn[v].has \/ isSkipped(v, p)
              /\ Done(w) /\ GivesUp(v, p) /\ UNCHANGED <<deviceVars, folder>>
           \/ /\ conn[v].has /\ ~isSkipped(v, p) /\ Seen(v)[p] = wanted
              /\ Synced(v, p, wanted) /\ Done(w) /\ Arrives(v, p, w.blob) /\ UNCHANGED deviceVars
           \/ /\ conn[v].has /\ ~isSkipped(v, p) /\ Seen(v)[p] # wanted
              /\ wanted \in Large /\ device[v].lowered
              /\ decline(v, p) /\ Done(w) /\ GivesUp(v, p) /\ UNCHANGED folder
           \/ /\ conn[v].has /\ ~isSkipped(v, p) /\ Seen(v)[p] # wanted
              /\ IF wanted \in Large THEN beginAttempt(v, p) /\ Goes(w, "recording")
                 ELSE UNCHANGED deviceVars /\ Goes(w, "fetching")
              /\ UNCHANGED <<folder, behind>>
        /\ UNCHANGED <<listing, disk, stray, server, conn, queue, uploads,
                       changes, accounted, suspects, troubles>>

Recorded(w) ==
    /\ w.at = "recording" /\ ~Awaited(w.vault, w.path)
    /\ Goes(w, "fetching")
    /\ UNCHANGED <<deviceVars, listing, disk, stray, server, conn, folder, queue, uploads, ghosts, troubles>>

Fetched(w) ==
    /\ w.at = "fetching" /\ w.blob \in bytes /\ conn[w.vault].has
    /\ IF sealed[w.blob] \in Large
       THEN endAttempt(w.vault, w.path) /\ Goes(w, "ending") /\ UNCHANGED <<accounted, troubles>>
       ELSE Lands(w) /\ UNCHANGED deviceVars
    /\ UNCHANGED <<listing, disk, stray, server, conn, folder, queue, uploads, changes, behind, suspects>>

\* No answer, no such blob, bytes that do not verify, or a folder that went.
FetchFails(w) ==
    /\ w.at = "fetching"
    /\ IF w.blob \in bytes /\ conn[w.vault].has THEN Trouble ELSE NoTrouble
    /\ IF sealed[w.blob] \in Large THEN endAttempt(w.vault, w.path) ELSE UNCHANGED deviceVars
    /\ Done(w) /\ GivesUp(w.vault, w.path)
    /\ UNCHANGED <<listing, disk, stray, server, conn, folder, queue, uploads, changes, accounted, suspects>>

\* The key generation of the entry is not held: the attempt stays on record.
FetchUnkeyed(w) ==
    /\ w.at = "fetching" /\ w.blob \in bytes /\ conn[w.vault].has
    /\ Trouble
    /\ Done(w) /\ GivesUp(w.vault, w.path)
    /\ suspects' = [suspects EXCEPT ![w.vault] = @ \cup device[w.vault].attempt]
    /\ UNCHANGED <<deviceVars, listing, disk, stray, server, conn, folder, queue, uploads, changes, accounted>>

\* It survived: the budget covers such files again.
Survived(w) ==
    LET v == w.vault  p == w.path
    IN  /\ w.at \in {"ending", "raising"} /\ ~Awaited(v, p)
        /\ IF w.at = "ending" /\ device[v].lowered
           THEN recordSuccess(v, p) /\ Goes(w, "raising") /\ UNCHANGED <<accounted, troubles>>
           ELSE Lands(w) /\ UNCHANGED deviceVars
        /\ UNCHANGED <<listing, disk, stray, server, conn, folder, queue, uploads, changes, behind, suspects>>

\* The mark, the write, and the event that takes the mark: not under the name
\* the folder had before, and not where the write failed.
Writes(w) ==
    LET v == w.vault  p == w.path
    IN  /\ Put(v, p, sealed[w.blob])
        /\ folder' = [folder EXCEPT ![v].synced[p] = sealed[w.blob],
                                    ![v].echo = IF conn[v].moved THEN @ \cup {p} ELSE @ \ {p}]
        /\ Arrives(v, p, w.blob)
LeavesMark(v, p) ==
    /\ folder' = [folder EXCEPT ![v].echo = @ \cup {p}]
    /\ GivesUp(v, p)
    /\ UNCHANGED <<disk, stray>>

\* What was saved since it was compared is written over.
WriteOver(w) ==
    LET content == Seen(w.vault)[w.path]
    IN  /\ w.at = "writing"
        /\ Done(w)
        /\ IF content = 0 THEN LeavesMark(w.vault, w.path) /\ UNCHANGED accounted
           ELSE Writes(w) /\ Account({content} \ {w.seen})
        /\ UNCHANGED <<deviceVars, listing, server, conn, queue, uploads, changes, suspects, troubles>>

\* createBinary refuses where a file has appeared.
MakeFile(w) ==
    /\ w.at = "making"
    /\ Done(w)
    /\ IF Seen(w.vault)[w.path] # 0 THEN LeavesMark(w.vault, w.path) ELSE Writes(w)
    /\ UNCHANGED <<deviceVars, listing, server, conn, queue, uploads, changes, accounted, suspects, troubles>>

\* removeLocal, up to the trash.
BeginRemoval(w) ==
    LET v == w.vault  p == w.path
    IN  /\ w.kind = "remove" /\ HasTurn(w)
        /\ IF ~conn[v].has \/ Seen(v)[p] = 0 THEN Done(w) /\ UNCHANGED <<accounted, troubles>>
           ELSE Goes(w, "trashing") /\ KeepsCopy(v, p, 0)
        /\ UNCHANGED <<deviceVars, listing, disk, stray, server, conn, folder, queue, uploads,
                       changes, behind, suspects>>

\* The trash keeps the file; the watcher hears a deletion like any other.
TrashFile(w) ==
    LET v == w.vault  p == w.path
    IN  /\ w.at = "trashing"
        /\ Done(w)
        /\ Put(v, p, 0)
        /\ Account({Seen(v)[p]})
        /\ IF Seen(v)[p] # 0 /\ ~conn[v].moved THEN handleDelete(v, p)
           ELSE UNCHANGED <<listing, bytes, queue, troubles>>
        /\ Synced(v, p, 0)
        /\ IF Seen(v)[p] # 0 THEN CaughtUp(v, p) ELSE UNCHANGED behind
        /\ UNCHANGED <<deviceVars, sealed, conn, uploads, changes, suspects>>

\* retryAttachment: off the chains.
Retry(v, p) ==
    /\ conn[v].has /\ isSkipped(v, p) /\ Listed(v, p) # 0
    /\ retry(v, p)
    /\ work' = work \cup {[Task(v, p, "download", Listed(v, p)) EXCEPT !.turn = 0]}
    /\ UNCHANGED <<listing, disk, stray, server, conn, folder, queue, uploads, ghosts, troubles>>

-----------------------------------------------------------------------------
(* The listing's changes, and the connections. *)

\* handleRemoteBlobChanges.
Receive(v) ==
    /\ conn[v].open /\ inbox[v] # << >>
    /\ LET new == Apply(entry[v], Head(inbox[v]))
           changed == {p \in Paths : new[p] # entry[v][p] /\ (new[p].live \/ entry[v][p].live)}
       IN  /\ entry' = [entry EXCEPT ![v] = new]
           /\ inbox' = [inbox EXCEPT ![v] = Tail(@)]
           /\ work' = work \cup {Task(v, p, IF new[p].live THEN "download" ELSE "remove",
                                      IF new[p].live THEN new[p].value ELSE 0) : p \in changed}
    /\ conn' = [conn EXCEPT ![v].catchup = IF @ = 0 THEN 0 ELSE @ - 1]
    /\ UNCHANGED <<deviceVars, disk, stray, server, folder, queue, uploads, ghosts, troubles>>

\* The listing opens as this device has it; the subscription brings the rest.
OpenListing(v) ==
    /\ conn[v].on /\ conn[v].has /\ ~conn[v].open
    /\ conn' = [conn EXCEPT ![v].open = TRUE, ![v].catchup = Len(inbox[v]), ![v].reconciled = FALSE]
    /\ UNCHANGED <<deviceVars, listing, disk, stray, server, folder, queue, uploads, work, ghosts, troubles>>

\* Once it is in sync: what is not listed is uploaded, what is listed fetched.
InitialBlobSync(v) ==
    /\ conn[v].open /\ conn[v].catchup = 0 /\ ~conn[v].reconciled
    /\ conn' = [conn EXCEPT ![v].reconciled = TRUE]
    /\ folder' = [folder EXCEPT ![v].timers =
           @ \cup {p \in Paths : disk[v][p] # 0 /\ Listed(v, p) = 0}]
    /\ work' = work \cup {Task(v, p, "download", Listed(v, p)) : p \in {q \in Paths : Listed(v, q) # 0}}
    /\ UNCHANGED <<deviceVars, listing, disk, stray, server, queue, uploads, ghosts, troubles>>

\* refreshSync closes every listing and opens it again; the folder state of
\* the attachments stays as it is, even where a rename of the folder was the
\* reason.
Refresh(v, moves) ==
    /\ conn[v].on /\ conn[v].has
    /\ v \in Unsteady /\ Trouble
    /\ conn' = [conn EXCEPT ![v].open = FALSE, ![v].catchup = 0, ![v].moved = @ \/ moves]
    /\ UNCHANGED <<deviceVars, listing, disk, stray, server, folder, queue, uploads, work, ghosts>>

\* handleFolderGone: the owner unshared the folder, for good.
FolderGone(v) ==
    /\ conn[v].on /\ conn[v].has
    /\ v \in Unsteady /\ Trouble
    /\ conn' = [conn EXCEPT ![v].open = FALSE, ![v].catchup = 0, ![v].has = FALSE]
    /\ folder' = [folder EXCEPT ![v].timers = {}]
    /\ UNCHANGED <<deviceVars, listing, disk, stray, server, queue, uploads, work, ghosts>>

-----------------------------------------------------------------------------
(* flushPending, once a server answers again: uploads one after another,   *)
(* then deletions, then attestFolder.                                      *)

Missing(v) == IF conn[v].has THEN {p \in Paths : Listed(v, p) \notin bytes \cup {0}} ELSE {}
BetweenUploads(v) == \A u \in uploads : u.vault # v \/ ~u.flushed

Reconnected(v) ==
    /\ conn[v].on /\ queue[v].flush = NoFlush /\ BetweenUploads(v)
    /\ queue[v].pending # {} \/ queue[v].purges # {}
    /\ queue' = [queue EXCEPT ![v].flush =
           [uploads |-> queue[v].pending, purges |-> queue[v].purges, attests |-> TRUE]]
    /\ UNCHANGED <<deviceVars, listing, disk, stray, server, conn, folder, uploads, work, ghosts, troubles>>

FlushUpload(v) ==
    /\ BetweenUploads(v)
    /\ \E p \in queue[v].flush.uploads : upload(v, p, TRUE, FALSE)
    /\ UNCHANGED <<deviceVars, listing, disk, stray, server, conn, work,
                   changes, accounted, suspects, troubles>>

FlushPurge(v) ==
    /\ BetweenUploads(v) /\ queue[v].flush.uploads = {}
    /\ \E blob \in queue[v].flush.purges :
         \/ /\ bytes' = bytes \ {blob} /\ NoTrouble
            /\ queue' = [queue EXCEPT ![v].purges = @ \ {blob}, ![v].flush.purges = @ \ {blob}]
         \/ /\ Trouble /\ UNCHANGED bytes
            /\ queue' = [queue EXCEPT ![v].flush.purges = @ \ {blob}]
    /\ UNCHANGED <<deviceVars, listing, disk, stray, sealed, conn, folder, uploads, work, ghosts>>

\* At the end of a flush, and from time to time.  What the server reports
\* missing goes through upload like anything else.
Attest(v) ==
    /\ conn[v].on /\ BetweenUploads(v)
    /\ queue[v].flush.uploads = {} /\ queue[v].flush.purges = {}
    /\ queue[v].flush.attests \/ Missing(v) # {}
    /\ queue' = [queue EXCEPT ![v].flush = [NoFlush EXCEPT !.uploads = Missing(v)]]
    /\ UNCHANGED <<deviceVars, listing, disk, stray, server, conn, folder, uploads, work, ghosts, troubles>>

-----------------------------------------------------------------------------
(* The app. *)

Stops(v) ==
    /\ conn[v].on /\ v \in Unsteady /\ Trouble
    /\ conn' = [conn EXCEPT ![v] = [@ EXCEPT !.on = FALSE, !.open = FALSE, !.catchup = 0, !.moved = FALSE]]
    /\ folder' = [folder EXCEPT ![v] = FreshFolder]
    /\ queue' = [queue EXCEPT ![v].flush = NoFlush]
    /\ uploads' = {u \in uploads : u.vault # v}
    /\ work' = {w \in work : w.vault # v}
    /\ UNCHANGED <<listing, disk, stray, server, changes, accounted, behind>>

Kill(v) ==
    /\ Stops(v)
    /\ Killed(v)
    /\ suspects' = [suspects EXCEPT ![v] = @ \cup {p \in Paths :
           \/ saves[v] # << >> /\ \E i \in DOMAIN stateFile[v] : p \in stateFile[v][i].attempt
           \/ \E w \in work : w.vault = v /\ w.path = p /\ w.at \in {"recording", "fetching", "ending"}}]

Close(v) ==
    /\ Stops(v)
    /\ Closed(v)
    /\ UNCHANGED suspects

Start(v) ==
    /\ ~conn[v].on
    /\ conn' = [conn EXCEPT ![v].on = TRUE]
    /\ openDeviceState(v)
    /\ UNCHANGED <<listing, disk, stray, server, folder, queue, uploads, work, ghosts, troubles>>

SaveDeviceState(v) ==
    /\ WriteNext(v)
    /\ UNCHANGED <<listing, disk, stray, server, conn, folder, queue, uploads, work, ghosts, troubles>>

-----------------------------------------------------------------------------
Init ==
    /\ DeviceInit
    /\ entry = [v \in Vaults |-> [p \in Paths |-> Unset(0)]]
    /\ inbox = [v \in Vaults |-> << >>]
    /\ disk = [v \in Vaults |-> Nothing]
    /\ stray = [v \in Vaults |-> Nothing]
    /\ bytes = {} /\ sealed = << >>
    /\ conn = [v \in Vaults |-> [on |-> TRUE, open |-> TRUE, catchup |-> 0, reconciled |-> TRUE,
                                 has |-> TRUE, moved |-> FALSE]]
    /\ folder = [v \in Vaults |-> FreshFolder]
    /\ queue = [v \in Vaults |-> [pending |-> {}, purges |-> {}, refused |-> {}, flush |-> NoFlush]]
    /\ uploads = {} /\ work = {}
    /\ changes = 0 /\ accounted = {} /\ troubles = 0
    /\ behind = [v \in Vaults |-> {}]
    /\ suspects = [v \in Vaults |-> {}]

Next ==
    \/ \E v \in Vaults, p \in Paths : UserSave(v, p)
    \/ \E v \in Vaults, p \in Paths : UserDelete(v, p)
    \/ \E v \in Vaults, p, q \in Paths : UserRename(v, p, q)
    \/ \E v \in Vaults, p \in Paths : Retry(v, p)
    \/ \E v \in Vaults, p \in Paths : Settles(v, p)
    \/ \E u \in uploads : SealPass(u)
    \/ \E u \in uploads : Uploaded(u)
    \/ \E u \in uploads : UploadFails(u)
    \/ \E u \in uploads : UploadRefused(u)
    \/ \E w \in work : BeginDownload(w)
    \/ \E w \in work : Recorded(w)
    \/ \E w \in work : Fetched(w)
    \/ \E w \in work : FetchFails(w)
    \/ \E w \in work : FetchUnkeyed(w)
    \/ \E w \in work : Survived(w)
    \/ \E w \in work : WriteOver(w)
    \/ \E w \in work : MakeFile(w)
    \/ \E w \in work : BeginRemoval(w)
    \/ \E w \in work : TrashFile(w)
    \/ \E v \in Vaults : Receive(v)
    \/ \E v \in Vaults : OpenListing(v)
    \/ \E v \in Vaults : InitialBlobSync(v)
    \/ \E v \in Vaults, moves \in BOOLEAN : Refresh(v, moves)
    \/ \E v \in Vaults : FolderGone(v)
    \/ \E v \in Vaults : Reconnected(v)
    \/ \E v \in Vaults : FlushUpload(v)
    \/ \E v \in Vaults : FlushPurge(v)
    \/ \E v \in Vaults : Attest(v)
    \/ \E v \in Vaults : Kill(v)
    \/ \E v \in Vaults : Close(v)
    \/ \E v \in Vaults : Start(v)
    \/ \E v \in Vaults : SaveDeviceState(v)

Spec == Init /\ [][Next]_vars

-----------------------------------------------------------------------------
(* Properties. *)

TypeOK ==
    /\ DeviceTypeOK
    /\ \A v \in Vaults, p \in Paths : disk[v][p] \in 0..changes /\ stray[v][p] \in 0..changes
    /\ bytes \subseteq DOMAIN sealed /\ Len(sealed) <= MaxBlobs
    /\ uploads \subseteq Upload /\ work \subseteq Work
    /\ \A v \in Vaults, p \in Paths : Listed(v, p) \in {0} \cup DOMAIN sealed

\* Nothing a person saved is gone before it was shared, unless that person
\* put something else in its place: it is on a disk or beside the file.  Three
\* ways round it remain in the code and are accounted for as such: a save
\* between the comparison and the write that follows it, a conflict copy that
\* could not be written, and an upload that counts as synced what its first
\* pass read, when the file was saved before its second pass or the listing
\* was closed before its end.
UnsharedKept ==
    \A c \in 1..changes :
        c \in accounted \/ \E v \in Vaults, p \in Paths : c \in {disk[v][p], stray[v][p]}

AtRest(p) ==
    /\ \A v \in Vaults :
         /\ conn[v].open /\ conn[v].reconciled /\ ~conn[v].moved
         /\ inbox[v] = << >>
         /\ p \notin folder[v].timers \cup queue[v].pending
    /\ \A u \in uploads : u.path # p
    /\ \A w \in work : w.path # p

\* When nothing about an attachment is under way, each vault that did not give
\* up on it holds what the folder lists.
Settled ==
    \A p \in Paths : AtRest(p) =>
        \A v \in Vaults : p \in behind[v] \/
            disk[v][p] = (IF entry[v][p].live THEN sealed[entry[v][p].value] ELSE 0)

\* A file is skipped for a crash only where one was under way when the app was
\* killed, or had ended for want of a key: no other failure counts as one.
BlameIsFair ==
    \A v \in Vaults, p \in Paths : device[v].skipped[p] = "crashed" => p \in suspects[v]

\* The bytes behind an entry that every vault lists are on the server.  Where
\* one vault moves the entry to another name while a second deletes it, the
\* code leaves it listed without them: a blob that has had two names is apart.
AgreedEntry(p) ==
    \A v, w \in Vaults : entry[v][p] = entry[w][p] /\ entry[v][p].live /\ inbox[v] = << >>
HadTwoNames(blob) ==
    \E v, w \in Vaults, p, q \in Paths :
        p # q /\ entry[v][p].value = blob /\ entry[w][q].value = blob
ListedIsStored ==
    \A v \in Vaults, p \in Paths :
        AgreedEntry(p) => entry[v][p].value \in bytes \/ HadTwoNames(entry[v][p].value)
=============================================================================
