---------------------------- MODULE FolderListing ----------------------------
(***************************************************************************)
(* The notes of one shared folder as the vaults that share it see them:    *)
(* packages/plugin/src/file-sync.ts, which turns changes of the folder's   *)
(* listing into files, and vault-watcher.ts, which turns changes of the    *)
(* files into changes of the listing.                                      *)
(*                                                                         *)
(* The listing is a Y.Map: each vault holds a replica, changes it at once  *)
(* and receives the others' transactions in order.  Of a key only the      *)
(* rightmost item counts; an item is named by the vaults that set the key  *)
(* up to it, which is also where it stands among concurrent ones.          *)
(*                                                                         *)
(* A file is there or it is not; what it holds is ContentSync's.  Obsidian *)
(* tells the watcher of a change before the plugin resumes any other work. *)
(*                                                                         *)
(* Each await of the code ends an action.  A connection that was replaced  *)
(* leaves its work behind as the code does: tasks on the per-path chains,  *)
(* additions being addressed, and a first reconcile of a dead document.    *)
(*                                                                         *)
(* Keys are held, the folder exists in each vault, no name leaves it, and  *)
(* every path is a note: attachments and structured files have their own   *)
(* maps and engines.                                                       *)
(***************************************************************************)
EXTENDS Naturals, Sequences, FiniteSets

CONSTANTS
    Vaults,         \* the vaults, by their Yjs client id
    Paths,          \* the names a note may have
    QuietPaths,     \* names people leave alone until the last change of them
                    \* has settled everywhere; the other names may change at
                    \* any time once every vault has joined
    Renames,        \* pairs of names a note may be renamed between
    FirstRouted,    \* vaults whose folder has a connection from the start
    Leaving,        \* vaults where the folder may be unshared or unmapped
    MaxChanges,     \* changes people make over a behaviour
    MaxConnects,    \* connects of the folder, for each vault
    MaxExits        \* times Obsidian is closed

ASSUME VaultsAssumption == Vaults \subseteq Nat
ASSUME PathsAssumption == /\ QuietPaths \subseteq Paths
                          /\ Renames \subseteq Paths \X Paths
                          /\ \A pair \in Renames : pair[1] # pair[2]
ASSUME RoutedAssumption == FirstRouted \subseteq Vaults /\ Leaving \subseteq Vaults
ASSUME LimitsAssumption == /\ MaxChanges \in Nat
                           /\ MaxConnects \in Nat \ {0}
                           /\ MaxExits \in Nat

VARIABLES
    entry,      \* each replica of the listing: the rightmost item of each key,
                \* and whether it is still there
    inbox,      \* transactions of the others a vault has not received
    disk,       \* the notes in the folder
    watching,   \* VaultWatcher.started
    conn,       \* what FileSync knows of its connection to the folder
    catchup,    \* transactions the subscription's catch-up still has to bring
    held,       \* VaultWatcher.pendingCreates
    reconciles, \* calls of initialSync waiting or under way
    chain,      \* FileSync.pathChain: what is left to do for a path
    warming,    \* additions of a path whose document ids are being derived
    sweep,      \* placeholders the first reconcile is making, off the chains
    markers,    \* FileSync.remoteCreates
    expiring,   \* markers whose timer has been set
    \* What follows no code reads.
    mine,       \* notes people made here that nothing has taken away since
    foreign,    \* of the held creates, those of the plugin's own placeholders
    intent,     \* the listing as it would be had only people changed it, and
                \* first reconciles that count what is on a disk as wanted
    disputed,   \* names a first reconcile listed while their deletion was
                \* being carried out, and nobody changed since
    changes,    \* changes people have made
    exits       \* times Obsidian was closed

world == <<entry, inbox, disk>>
link == <<watching, conn, catchup, held, reconciles>>
work == <<chain, warming, sweep, markers, expiring>>
ghosts == <<mine, foreign, intent, disputed, changes, exits>>
vars == <<world, link, work, ghosts>>

Entry == [at : Seq(Vaults), live : BOOLEAN]
Change == [path : Paths, at : Seq(Vaults), live : BOOLEAN]
Generations == 0..MaxConnects + 2     \* a retry and a remap may make one more
Link == [mapped : BOOLEAN, wanted : BOOLEAN, connecting : Generations,
         flights : SUBSET [of : Generations, at : {"deriving", "loading"}],
         recorded : Generations, subscribed : Generations, unplaced : BOOLEAN,
         routed : BOOLEAN, made : Generations]
Reconcile == [of : Generations, at : {"waiting", "warming"}, dead : BOOLEAN,
              had : SUBSET Paths]
Task == {"create", "creating", "delete", "deleting"}

-----------------------------------------------------------------------------
(* The listing. *)

\* Item i stands to the right of item j among the items of one key.
RightOf(i, j) ==
    \E n \in 1..Len(i) :
        /\ \A k \in 1..n - 1 : k <= Len(j) /\ i[k] = j[k]
        /\ n > Len(j) \/ i[n] > j[n]

\* A set or a delete of item c.at, seen by a replica that has e for the key.
Integrate(e, c) ==
    IF RightOf(c.at, e.at) \/ (c.at = e.at /\ ~c.live)
    THEN [at |-> c.at, live |-> c.live]
    ELSE e

Apply(replica, transaction) ==
    [p \in Paths |->
        IF \E c \in transaction : c.path = p
        THEN Integrate(replica[p], CHOOSE c \in transaction : c.path = p)
        ELSE replica[p]]

Listed(replica) == {p \in Paths : replica[p].live}

Sets(v, paths) ==
    {[path |-> p, at |-> Append(entry[v][p].at, v), live |-> TRUE] : p \in paths}
Deletes(v, paths) ==
    {[path |-> p, at |-> entry[v][p].at, live |-> FALSE] :
        p \in paths \cap Listed(entry[v])}

\* A local transaction: the replica changes and every other vault is told.
Transact(v, transaction) ==
    /\ entry' = [entry EXCEPT ![v] = Apply(@, transaction)]
    /\ inbox' = [w \in Vaults |-> IF w = v \/ transaction = {} THEN inbox[w]
                                  ELSE Append(inbox[w], transaction)]

\* The same, when a person's wish is behind it.
Wish(v, transaction) ==
    /\ Transact(v, transaction)
    /\ intent' = Apply(intent, transaction)
    /\ disputed' = disputed \ {c.path : c \in transaction}

Open(v) == conn[v].recorded # 0
HearsOf(v) == watching[v] /\ Open(v)

-----------------------------------------------------------------------------
(* Slips: decisions of the code as a plausible change would break them,    *)
(* for the properties to catch.                                            *)

ListsOwnFile(v, p) ==
    /\ Transact(v, IF HearsOf(v) THEN Sets(v, {p}) ELSE {})
    /\ UNCHANGED <<held, foreign>>
CountsBelowZero(v) ==
    /\ expiring[v] = {} /\ Open(v) /\ inbox[v] # << >>
    /\ catchup' = [catchup EXCEPT ![v] = @ - 1]
KeepsListed(v, p) == UNCHANGED <<entry, inbox>>
AnyFlight(v, flight) == flight \in conn[v].flights /\ flight.at = "loading"

-----------------------------------------------------------------------------
(* The watcher's handlers, for a change that somebody else than a person   *)
(* may have made: the plugin's own files come back as events like any.     *)

\* handleDelete: nothing is held for a listing that is not open.
DeleteHandler(v, p) ==
    Transact(v, IF HearsOf(v) THEN Deletes(v, {p}) ELSE {})

\* handleCreate, of a placeholder: its marker tells, once the listing is open.
PlaceholderHandler(v, p) ==
    /\ IF watching[v] /\ conn[v].mapped /\ ~Open(v)
       THEN /\ held' = [held EXCEPT ![v] = @ \cup {p}]
            /\ foreign' = [foreign EXCEPT ![v] = @ \cup {p}]
       ELSE UNCHANGED <<held, foreign>>
    /\ Transact(v, IF HearsOf(v) /\ p \notin markers[v] THEN Sets(v, {p}) ELSE {})

-----------------------------------------------------------------------------
(* What people do. *)

\* Nothing about the note is on its way, and every vault has it as it is listed.
SettledPath(p) ==
    \A v \in Vaults :
        /\ \A i \in DOMAIN inbox[v] : \A c \in inbox[v][i] : c.path # p
        /\ chain[v][p] = << >> /\ warming[v][p] = 0
        /\ p \notin sweep[v] \cup markers[v] \cup held[v]
        /\ conn[v].wanted => reconciles[v] = {}
        /\ (p \in disk[v]) = entry[v][p].live
        /\ entry[v][p].live = intent[p].live

BeingMade(v, p) ==
    \/ p \in sweep[v] \/ warming[v][p] > 0
    \/ \E i \in DOMAIN chain[v][p] : chain[v][p][i] \in {"create", "creating"}

\* A timer of no delay fires before the next event of any kind (an assumption).
Prompt(v) == expiring[v] = {}

Joined(v) == Open(v) /\ reconciles[v] = {} /\ sweep[v] = {}

MayChange(v, p) ==
    /\ Prompt(v) /\ changes < MaxChanges
    /\ IF p \in QuietPaths THEN SettledPath(p)
       ELSE ~BeingMade(v, p) /\ \A w \in Vaults : Joined(w)

\* A new note.  Before the listing is open it is held; one that lands while
\* the plugin makes the same file is taken for the placeholder.
UserCreate(v, p) ==
    /\ MayChange(v, p)
    /\ p \notin disk[v]
    /\ disk' = [disk EXCEPT ![v] = @ \cup {p}]
    /\ changes' = changes + 1
    /\ LET own == watching[v] /\ conn[v].mapped /\ (Open(v) => p \notin markers[v])
       IN  /\ Wish(v, IF own /\ Open(v) THEN Sets(v, {p}) ELSE {})
           /\ held' = IF own /\ ~Open(v) THEN [held EXCEPT ![v] = @ \cup {p}] ELSE held
           /\ mine' = IF own THEN [mine EXCEPT ![v] = @ \cup {p}] ELSE mine
    /\ foreign' = [foreign EXCEPT ![v] = @ \ {p}]
    /\ UNCHANGED <<watching, conn, catchup, reconciles, work, exits>>

\* A note moved into the folder: the same, but not held and not compared with
\* what the plugin is making.
UserMoveIn(v, p) ==
    /\ MayChange(v, p)
    /\ p \notin disk[v]
    /\ disk' = [disk EXCEPT ![v] = @ \cup {p}]
    /\ changes' = changes + 1
    /\ Wish(v, IF HearsOf(v) THEN Sets(v, {p}) ELSE {})
    /\ mine' = IF HearsOf(v) THEN [mine EXCEPT ![v] = @ \cup {p}] ELSE mine
    /\ foreign' = [foreign EXCEPT ![v] = @ \ {p}]
    /\ UNCHANGED <<link, work, exits>>

\* A note deleted, or moved out of the folder.
UserDelete(v, p) ==
    /\ MayChange(v, p)
    /\ p \in disk[v]
    /\ disk' = [disk EXCEPT ![v] = @ \ {p}]
    /\ changes' = changes + 1
    /\ Wish(v, IF HearsOf(v) THEN Deletes(v, {p}) ELSE {})
    /\ mine' = [mine EXCEPT ![v] = @ \ {p}]
    /\ UNCHANGED <<link, work, foreign, exits>>

\* handleRename, within the folder: one transaction.
RenameTransaction(v, p, q) ==
    IF HearsOf(v) THEN Deletes(v, {p}) \cup Sets(v, {q}) ELSE {}

UserRename(v, p, q) ==
    /\ <<p, q>> \in Renames
    /\ MayChange(v, p) /\ MayChange(v, q)
    /\ p \in disk[v] /\ q \notin disk[v]
    /\ disk' = [disk EXCEPT ![v] = (@ \ {p}) \cup {q}]
    /\ changes' = changes + 1
    /\ Wish(v, RenameTransaction(v, p, q))
    /\ mine' = [mine EXCEPT ![v] = IF HearsOf(v) THEN (@ \ {p}) \cup {q} ELSE @ \ {p}]
    /\ foreign' = [foreign EXCEPT ![v] = @ \ {q}]
    /\ UNCHANGED <<link, work, exits>>

-----------------------------------------------------------------------------
(* Receiving: handleRemoteChanges. *)

\* A task for one path, after those it already has.
Sequence(v, paths, task) ==
    [chain EXCEPT ![v] = [p \in Paths |->
        IF p \in paths THEN Append(@[p], task) ELSE @[p]]]

Added(old, new) == Listed(new) \ Listed(old)
Deleted(old, new) == Listed(old) \ Listed(new)

\* One deletion with one addition is a rename of the file that is here.
IsRename(v, new) ==
    \E p, q \in Paths : /\ Deleted(entry[v], new) = {p}
                        /\ Added(entry[v], new) = {q}
                        /\ p \in disk[v]

Received(v) == Apply(entry[v], Head(inbox[v]))

TakeOne(v) ==
    /\ Prompt(v) /\ Open(v)
    /\ inbox[v] # << >>
    /\ catchup' = [catchup EXCEPT ![v] = IF @ = 0 THEN 0 ELSE @ - 1]

Receive(v) ==
    /\ TakeOne(v)
    /\ LET new == Received(v)
       IN  /\ ~IsRename(v, new)
           /\ entry' = [entry EXCEPT ![v] = new]
           /\ inbox' = [inbox EXCEPT ![v] = Tail(@)]
           /\ warming' = [warming EXCEPT ![v] = [p \in Paths |->
                  IF p \in Added(entry[v], new) THEN @[p] + 1 ELSE @[p]]]
           /\ chain' = Sequence(v, Deleted(entry[v], new), "delete")
    /\ UNCHANGED <<disk, watching, conn, held, reconciles, sweep, markers, expiring, ghosts>>

\* The file is renamed at once, off the chains; the vault refuses when the new
\* name is taken.  The watcher hears of it as of a person's rename.
ReceiveRename(v) ==
    /\ TakeOne(v)
    /\ LET new == Received(v)
       IN  /\ IsRename(v, new)
           /\ \E p \in Deleted(entry[v], new), q \in Added(entry[v], new) :
                LET moves == q \notin disk[v]
                    echo == IF moves /\ watching[v]
                            THEN {[path |-> q, at |-> Append(new[q].at, v), live |-> TRUE]}
                            ELSE {}
                IN  /\ disk' = IF moves THEN [disk EXCEPT ![v] = (@ \ {p}) \cup {q}] ELSE disk
                    /\ mine' = IF moves THEN [mine EXCEPT ![v] = @ \ {p}] ELSE mine
                    /\ entry' = [entry EXCEPT ![v] = Apply(new, echo)]
                    /\ inbox' = [w \in Vaults |->
                           IF w = v THEN Tail(inbox[w])
                           ELSE IF echo = {} THEN inbox[w] ELSE Append(inbox[w], echo)]
    /\ UNCHANGED <<watching, conn, held, reconciles, work, foreign, intent, disputed, changes, exits>>

\* applyAdditions, once the ids are known.
ApplyAddition(v, p) ==
    /\ Prompt(v) /\ warming[v][p] > 0
    /\ warming' = [warming EXCEPT ![v][p] = @ - 1]
    /\ chain' = IF p \in disk[v] THEN chain ELSE Sequence(v, {p}, "create")
    /\ UNCHANGED <<world, link, sweep, markers, expiring, ghosts>>

-----------------------------------------------------------------------------
(* The tasks of a path, one after another. *)

FirstIs(v, p, task) == chain[v][p] # << >> /\ Head(chain[v][p]) = task
Turn(v, p, task) == [chain EXCEPT ![v][p] = <<task>> \o Tail(@)]
Finish(v, p) == [chain EXCEPT ![v][p] = Tail(@)]

\* createLocalFile, up to the await of createFolder.
BeginCreate(v, p) ==
    /\ FirstIs(v, p, "create")
    /\ chain' = Turn(v, p, "creating")
    /\ markers' = [markers EXCEPT ![v] = @ \cup {p}]
    /\ UNCHANGED <<world, link, warming, sweep, expiring, ghosts>>

\* The rest of it: the empty file, unless one is there by now.
MakePlaceholder(v, p) ==
    /\ disk' = [disk EXCEPT ![v] = @ \cup {p}]
    /\ IF p \in disk[v] THEN UNCHANGED <<entry, inbox, held, foreign>>
       ELSE PlaceholderHandler(v, p)
    /\ expiring' = [expiring EXCEPT ![v] = @ \cup {p}]
    /\ UNCHANGED <<watching, conn, catchup, reconciles, warming, markers, mine, intent, disputed, changes, exits>>

FinishCreate(v, p) ==
    /\ Prompt(v) /\ FirstIs(v, p, "creating")
    /\ chain' = Finish(v, p)
    /\ MakePlaceholder(v, p)
    /\ UNCHANGED sweep

\* The marker goes a tick later.
ExpireMarker(v, p) ==
    /\ p \in expiring[v]
    /\ markers' = [markers EXCEPT ![v] = @ \ {p}]
    /\ expiring' = [expiring EXCEPT ![v] = @ \ {p}]
    /\ UNCHANGED <<world, link, chain, warming, sweep, ghosts>>

\* completeRemoteDeletion, up to what saveConflictCopy awaits.
BeginDelete(v, p) ==
    /\ FirstIs(v, p, "delete")
    /\ chain' = IF p \in disk[v] THEN Turn(v, p, "deleting") ELSE Finish(v, p)
    /\ UNCHANGED <<world, link, warming, sweep, markers, expiring, ghosts>>

\* The file is trashed if it is still there, and the watcher hears of it.
FinishDelete(v, p) ==
    /\ Prompt(v) /\ FirstIs(v, p, "deleting")
    /\ chain' = Finish(v, p)
    /\ disk' = [disk EXCEPT ![v] = @ \ {p}]
    /\ mine' = [mine EXCEPT ![v] = @ \ {p}]
    /\ IF p \in disk[v] THEN DeleteHandler(v, p) ELSE UNCHANGED <<entry, inbox>>
    /\ UNCHANGED <<link, warming, sweep, markers, expiring, foreign, intent, disputed, changes, exits>>

-----------------------------------------------------------------------------
(* The first reconcile: initialSync. *)

\* The catch-up is complete: every call that waits for it starts, those of
\* earlier connections that never saw theirs included.
Synced(v) ==
    /\ Prompt(v) /\ Open(v) /\ catchup[v] = 0
    /\ \E r \in reconciles[v] : r.at = "waiting"
    /\ reconciles' = [reconciles EXCEPT ![v] = {[r EXCEPT !.at = "warming"] : r \in @}]
    /\ UNCHANGED <<world, watching, conn, catchup, held, work, ghosts>>

\* A deletion of the note is still to be carried out.
Deleting(v, p) == \E i \in DOMAIN chain[v][p] : chain[v][p][i] \in {"delete", "deleting"}

\* What is here and not listed, it lists.
ReconcileTransaction(v) == Sets(v, disk[v] \ Listed(entry[v]))

\* Lists what is here and makes what is listed, not on the chains.  A dead
\* document takes the entries and tells nobody.
Reconciled(v, r) ==
    /\ Prompt(v) /\ r \in reconciles[v] /\ r.at = "warming"
    /\ reconciles' = [reconciles EXCEPT ![v] = @ \ {r}]
    /\ LET listed == IF r.dead THEN r.had ELSE Listed(entry[v])
           missing == listed \ disk[v]
           found == IF r.dead THEN {} ELSE disk[v] \ listed
       IN  /\ Transact(v, IF r.dead THEN {} ELSE ReconcileTransaction(v))
           /\ intent' = Apply(intent, Sets(v, found))
           /\ disputed' = disputed \cup {p \in found : Deleting(v, p)}
           /\ sweep' = [sweep EXCEPT ![v] = @ \cup missing]
           /\ markers' = [markers EXCEPT ![v] = @ \cup missing]
    /\ UNCHANGED <<disk, watching, conn, catchup, held, chain, warming, expiring,
                   mine, foreign, changes, exits>>

SweepOne(v, p) ==
    /\ Prompt(v) /\ p \in sweep[v]
    /\ sweep' = [sweep EXCEPT ![v] = @ \ {p}]
    /\ MakePlaceholder(v, p)
    /\ UNCHANGED chain

-----------------------------------------------------------------------------
(* The connection to the folder. *)

\* connectFolder: nothing when there is one or one is being made.
ConnectFolder(c) ==
    IF c.recorded # 0 \/ c.connecting # 0 THEN c
    ELSE [c EXCEPT !.made = c.made + 1, !.connecting = c.made + 1,
                   !.flights = @ \cup {[of |-> c.made + 1, at |-> "deriving"]}]

\* disconnectFolder: also cancels a connect, and a retry.
DisconnectFolder(c) ==
    [c EXCEPT !.unplaced = FALSE, !.connecting = 0, !.recorded = 0,
              !.subscribed = IF c.recorded # 0 THEN 0 ELSE @]

\* disconnectAll: only folders connected or being connected.
DisconnectAll(c) ==
    IF c.recorded # 0 \/ c.connecting # 0 THEN DisconnectFolder(c) ELSE c

\* retryUnplaced: whatever is unplaced is connected.
RetryUnplaced(c) ==
    IF c.unplaced THEN ConnectFolder([c EXCEPT !.unplaced = FALSE]) ELSE c

\* A slip: the routes would be set last.
LeavesUnplaced(c) == DisconnectAll(c)

\* refreshSync, of the folder that is still mapped or of one that is not: the
\* routes are set, which retries what was unplaced, and all is disconnected.
Refreshed(c) == DisconnectAll(RetryUnplaced(c))

\* The document a connection had stays with the reconciles it started.
LeaveBehind(v) ==
    [reconciles EXCEPT ![v] = {IF r.dead THEN r
                               ELSE [r EXCEPT !.dead = TRUE, !.had = Listed(entry[v])] : r \in @}]

\* Names people hurry with are settled before a connection comes or goes.
Unhurried == \A p \in Paths \ QuietPaths : SettledPath(p)

\* Sync starts: the watcher listens and the folder is connected.
Start(v) ==
    /\ Prompt(v)
    /\ ~watching[v] /\ conn[v].mapped /\ conn[v].made < MaxConnects
    /\ watching' = [watching EXCEPT ![v] = TRUE]
    /\ conn' = [conn EXCEPT ![v] = ConnectFolder([@ EXCEPT !.wanted = TRUE])]
    /\ UNCHANGED <<world, catchup, held, reconciles, work, ghosts>>

\* The mappings change, and this folder is connected again.
Remap(v) ==
    /\ Prompt(v) /\ Unhurried
    /\ watching[v] /\ conn[v].wanted /\ conn[v].made < MaxConnects
    /\ conn' = [conn EXCEPT ![v] = ConnectFolder(Refreshed(@))]
    /\ reconciles' = LeaveBehind(v)
    /\ catchup' = [catchup EXCEPT ![v] = 0]
    /\ UNCHANGED <<world, watching, held, work, ghosts>>

\* The person unmaps this folder: it is not connected again, nor resolved.
Unmap(v) ==
    /\ Prompt(v) /\ Unhurried
    /\ v \in Leaving /\ watching[v] /\ conn[v].mapped
    /\ conn' = [conn EXCEPT ![v] = [Refreshed(@) EXCEPT !.mapped = FALSE, !.wanted = FALSE]]
    /\ reconciles' = LeaveBehind(v)
    /\ catchup' = [catchup EXCEPT ![v] = 0]
    /\ UNCHANGED <<world, watching, held, work, ghosts>>

\* handleFolderGone: the folder was unshared.
FolderGone(v) ==
    /\ Prompt(v)
    /\ Unhurried
    /\ v \in Leaving /\ conn[v].wanted
    /\ conn' = [conn EXCEPT ![v] = [DisconnectFolder(@) EXCEPT !.wanted = FALSE]]
    /\ reconciles' = LeaveBehind(v)
    /\ catchup' = [catchup EXCEPT ![v] = 0]
    /\ UNCHANGED <<world, watching, held, work, ghosts>>

\* The listing's own id is derived, for the connect that is still wanted.
Derived(v, flight) ==
    /\ Prompt(v) /\ flight \in conn[v].flights /\ flight.at = "deriving"
    /\ conn' = [conn EXCEPT ![v].flights =
           (@ \ {flight}) \cup IF conn[v].connecting = flight.of
                               THEN {[flight EXCEPT !.at = "loading"]} ELSE {}]
    /\ UNCHANGED <<world, watching, catchup, held, reconciles, work, ghosts>>

Wanted(v, flight) ==
    /\ flight \in conn[v].flights /\ flight.at = "loading"
    /\ conn[v].connecting = flight.of

\* IndexedDB has loaded for a connect that was cancelled: it is torn down.
LoadedLate(v, flight) ==
    /\ Prompt(v) /\ flight \in conn[v].flights /\ flight.at = "loading"
    /\ ~Wanted(v, flight)
    /\ conn' = [conn EXCEPT ![v].flights = @ \ {flight}]
    /\ UNCHANGED <<world, watching, catchup, held, reconciles, work, ghosts>>

\* The folder's documents can be placed on a connection.
route(v) == conn[v].routed

\* The router has no connection for the folder: subscribe throws.
LoadedUnrouted(v, flight) ==
    /\ Prompt(v) /\ Wanted(v, flight)
    /\ ~route(v)
    /\ conn' = [conn EXCEPT ![v].flights = @ \ {flight}, ![v].connecting = 0,
                            ![v].unplaced = TRUE]
    /\ UNCHANGED <<world, watching, catchup, held, reconciles, work, ghosts>>

\* replayPendingCreates: of the held creates, those whose file is still there.
Replayed(v) == IF watching[v] THEN (held[v] \cap disk[v]) \ markers[v] ELSE {}

\* The listing is subscribed and recorded, the creates that were held are
\* replayed, and the first reconcile waits for the catch-up.
Loaded(v, flight) ==
    /\ Prompt(v) /\ Wanted(v, flight)
    /\ route(v)
    /\ conn' = [conn EXCEPT ![v].flights = @ \ {flight}, ![v].connecting = 0,
                            ![v].recorded = flight.of,
                            ![v].subscribed = IF @ = 0 THEN flight.of ELSE @]
    /\ held' = [held EXCEPT ![v] = {}]
    /\ Transact(v, Sets(v, Replayed(v)))
    /\ intent' = Apply(intent, Sets(v, Replayed(v) \ foreign[v]))
    /\ foreign' = [foreign EXCEPT ![v] = {}]
    /\ catchup' = [catchup EXCEPT ![v] = Len(inbox[v])]
    /\ reconciles' = [reconciles EXCEPT ![v] = @ \cup
           {[of |-> flight.of, at |-> "waiting", dead |-> FALSE, had |-> {}]}]
    /\ UNCHANGED <<disk, watching, work, mine, disputed, changes, exits>>

\* A connection appears, and the router says so: retryUnplaced.
RouteOpens(v) ==
    /\ Prompt(v)
    /\ ~conn[v].routed
    /\ conn' = [conn EXCEPT ![v] = RetryUnplaced([@ EXCEPT !.routed = TRUE])]
    /\ UNCHANGED <<world, watching, catchup, held, reconciles, work, ghosts>>

\* Obsidian is closed: what IndexedDB has of the listing is all that is left.
Exit(v) ==
    /\ Prompt(v)
    /\ Unhurried
    /\ watching[v] /\ exits < MaxExits
    /\ exits' = exits + 1
    /\ watching' = [watching EXCEPT ![v] = FALSE]
    /\ conn' = [conn EXCEPT ![v] = [mapped |-> @.mapped, wanted |-> FALSE, connecting |-> 0, flights |-> {},
                                    recorded |-> 0, subscribed |-> 0, unplaced |-> FALSE,
                                    routed |-> @.routed, made |-> @.made]]
    /\ catchup' = [catchup EXCEPT ![v] = 0]
    /\ held' = [held EXCEPT ![v] = {}]
    /\ reconciles' = [reconciles EXCEPT ![v] = {}]
    /\ chain' = [chain EXCEPT ![v] = [p \in Paths |-> << >>]]
    /\ warming' = [warming EXCEPT ![v] = [p \in Paths |-> 0]]
    /\ sweep' = [sweep EXCEPT ![v] = {}]
    /\ markers' = [markers EXCEPT ![v] = {}]
    /\ expiring' = [expiring EXCEPT ![v] = {}]
    /\ mine' = [mine EXCEPT ![v] = {}]
    /\ foreign' = [foreign EXCEPT ![v] = {}]
    /\ UNCHANGED <<world, intent, disputed, changes>>

-----------------------------------------------------------------------------
Init ==
    LET everywhere(x) == [v \in Vaults |-> x]
        nothing == [p \in Paths |-> [at |-> << >>, live |-> FALSE]]
    IN  /\ entry = everywhere(nothing) /\ inbox = everywhere(<< >>)
        /\ disk = everywhere({}) /\ watching = everywhere(FALSE)
        /\ conn = [v \in Vaults |->
               [mapped |-> TRUE, wanted |-> FALSE, connecting |-> 0, flights |-> {}, recorded |-> 0,
                subscribed |-> 0, unplaced |-> FALSE, routed |-> v \in FirstRouted,
                made |-> 0]]
        /\ catchup = everywhere(0) /\ held = everywhere({}) /\ reconciles = everywhere({})
        /\ chain = everywhere([p \in Paths |-> << >>])
        /\ warming = everywhere([p \in Paths |-> 0])
        /\ sweep = everywhere({}) /\ markers = everywhere({}) /\ expiring = everywhere({})
        /\ mine = everywhere({}) /\ foreign = everywhere({}) /\ intent = nothing /\ disputed = {}
        /\ changes = 0 /\ exits = 0

User(v) ==
    \/ \E p \in Paths : UserCreate(v, p) \/ UserMoveIn(v, p) \/ UserDelete(v, p)
    \/ \E p, q \in Paths : UserRename(v, p, q)

Connection(v) ==
    \/ Start(v) \/ Remap(v) \/ Unmap(v) \/ FolderGone(v) \/ RouteOpens(v) \/ Exit(v)
    \/ \E flight \in conn[v].flights : Derived(v, flight) \/ LoadedLate(v, flight)
                                       \/ LoadedUnrouted(v, flight) \/ Loaded(v, flight)

Listing(v) ==
    \/ Receive(v) \/ ReceiveRename(v) \/ Synced(v)
    \/ \E r \in reconciles[v] : Reconciled(v, r)

Files(v) ==
    \E p \in Paths : \/ ApplyAddition(v, p) \/ SweepOne(v, p) \/ ExpireMarker(v, p)
                     \/ BeginCreate(v, p) \/ FinishCreate(v, p)
                     \/ BeginDelete(v, p) \/ FinishDelete(v, p)

Next == \E v \in Vaults : User(v) \/ Connection(v) \/ Listing(v) \/ Files(v)

Spec == Init /\ [][Next]_vars

-----------------------------------------------------------------------------
(* Properties. *)

TypeOK ==
    /\ entry \in [Vaults -> [Paths -> Entry]]
    /\ inbox \in [Vaults -> Seq(SUBSET Change)]
    /\ disk \in [Vaults -> SUBSET Paths]
    /\ watching \in [Vaults -> BOOLEAN]
    /\ conn \in [Vaults -> Link]
    /\ catchup \in [Vaults -> Nat]
    /\ held \in [Vaults -> SUBSET Paths]
    /\ reconciles \in [Vaults -> SUBSET Reconcile]
    /\ chain \in [Vaults -> [Paths -> Seq(Task)]]
    /\ warming \in [Vaults -> [Paths -> Nat]]
    /\ sweep \in [Vaults -> SUBSET Paths]
    /\ markers \in [Vaults -> SUBSET Paths]
    /\ expiring \in [Vaults -> SUBSET Paths]
    /\ mine \in [Vaults -> SUBSET Paths]
    /\ foreign \in [Vaults -> SUBSET Paths]
    /\ intent \in [Paths -> Entry]
    /\ disputed \subseteq Paths
    /\ changes \in 0..MaxChanges
    /\ exits \in 0..MaxExits

Settled(v) ==
    /\ Open(v) /\ inbox[v] = << >> /\ reconciles[v] = {} /\ sweep[v] = {}
    /\ \A p \in Paths : chain[v][p] = << >> /\ warming[v][p] = 0

\* The listing FileSync changes is the one the provider follows, whatever
\* connects, disconnects and retries came between; otherwise what is listed
\* here reaches no other vault (connectFolder, startProvider).
OneListing == \A v \in Vaults : conn[v].subscribed = conn[v].recorded

\* A folder that is wanted is connected, being connected or waiting for a
\* route, and one that was let go of is none of these: no connect and no retry
\* outlives a disconnect (disconnectFolder, retryUnplaced).
WantedIsHeld ==
    \A v \in Vaults : LET c == conn[v]
                      IN  c.wanted <=> c.recorded # 0 \/ c.connecting # 0 \/ c.unplaced

\* A note made here while sync runs is listed from the moment the listing is
\* open, unless a deletion of it is being carried out (handleCreate,
\* pendingCreates).
CreatesAnnounced ==
    \A v \in Vaults : Open(v) =>
        \A p \in mine[v] : entry[v][p].live \/ Deleting(v, p)

\* Once a vault has nothing left to do, every listed note is on its disk, in
\* whatever order creations, deletions and reconciles of it came
\* (applyAdditions, initialSync, completeRemoteDeletion, handleDelete).
ListedIsOnDisk ==
    \A v \in Vaults : Settled(v) => Listed(entry[v]) \subseteq disk[v]

\* What people deleted last is not listed: no event of a file that the plugin
\* itself made or moved lists it again.  Of the names whose changes do not
\* overtake each other, what people listed last is listed, no deletion carried
\* out late and no reconcile unlists it, and no note is on disk that the folder
\* does not list (isRemoteCreate, handleDelete, initialSync, sequence).
LastWishStands ==
    \A v \in Vaults : Settled(v) =>
        /\ \A p \in Listed(entry[v]) \ disputed : intent[p].live
        /\ \A p \in QuietPaths \ disputed : intent[p].live => entry[v][p].live
        /\ disk[v] \cap (QuietPaths \ disputed) \subseteq Listed(entry[v])
=============================================================================
