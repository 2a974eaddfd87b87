------------------------ MODULE FolderListingProofs ------------------------
(***************************************************************************)
(* That a vault's connection to the folder is what sync wants of it, and   *)
(* that what the folder lists comes to be on a vault's disk: for any       *)
(* vaults, names and changes, whatever connects, disconnects, retries and  *)
(* closes of Obsidian come between the steps of a connect.                 *)
(*                                                                         *)
(* The first is about the record a vault keeps of its connection: three    *)
(* fields hold the folder, one at a time, and a connect that was cancelled *)
(* is told from the one that replaced it by the number each is given.      *)
(*                                                                         *)
(* The second is about what a listed name is owed: from the first          *)
(* reconcile of a connection on, its file is there or is being made.       *)
(***************************************************************************)
EXTENDS FolderListing, TLAPS

-----------------------------------------------------------------------------
(* The record, and what is true of it between any two steps. *)

Flight == [of : Nat \ {0}, at : {"deriving", "loading"}]
Record == [mapped : BOOLEAN, wanted : BOOLEAN, connecting : Nat, flights : SUBSET Flight,
           recorded : Nat, subscribed : Nat, unplaced : BOOLEAN, routed : BOOLEAN,
           made : Nat]

Holds(c) == c.recorded # 0 \/ c.connecting # 0 \/ c.unplaced

\* One field at a time; a folder waiting for a route is not being connected.
Exclusive(c) ==
    /\ c.recorded # 0 => c.connecting = 0
    /\ c.recorded # 0 \/ c.connecting # 0 => ~c.unplaced

\* No number is given twice, and a connect that counts has a step to come.
Numbered(c) ==
    /\ \A f \in c.flights : f.of <= c.made
    /\ c.connecting # 0 => \E f \in c.flights : f.of = c.connecting

\* All but that what is held is what is wanted.
Sound(c) == /\ c \in Record
            /\ Exclusive(c)
            /\ Numbered(c)
            /\ c.subscribed = c.recorded

Right(c) == Sound(c) /\ (c.wanted <=> Holds(c))

\* Sync wants nothing before it starts.
Inv ==
    /\ conn \in [Vaults -> Record]
    /\ watching \in [Vaults -> BOOLEAN]
    /\ \A v \in Vaults : Right(conn[v]) /\ (conn[v].wanted => watching[v])

\* A connect that is waited for is under way: of the connects of a vault that
\* have a step to come, one is the one it waits for, however many were
\* cancelled before (connectFolder, connecting).
ConnectIsUnderWay ==
    \A v \in Vaults : conn[v].connecting # 0 =>
        \E f \in conn[v].flights : f.of = conn[v].connecting

-----------------------------------------------------------------------------
(* The operators of the connection, on any record. *)

\* A folder that nothing holds gets a connect of a number of its own.
LEMMA Connects ==
    ASSUME NEW c, Sound(c), ~c.unplaced
    PROVE  /\ Sound(ConnectFolder(c)) /\ Holds(ConnectFolder(c))
           /\ ConnectFolder(c).wanted = c.wanted
           /\ ~ConnectFolder(c).unplaced
           /\ ConnectFolder(c).mapped = c.mapped
<1>1. CASE c.recorded # 0 \/ c.connecting # 0
  BY <1>1 DEF ConnectFolder, Holds
<1>2. CASE c.recorded = 0 /\ c.connecting = 0
  <2> DEFINE n == c.made + 1
             f == [of |-> n, at |-> "deriving"]
             d == [c EXCEPT !.made = n, !.connecting = n, !.flights = @ \cup {f}]
  <2>1. ConnectFolder(c) = d
    BY <1>2 DEF ConnectFolder
  <2>2. c \in Record
    BY DEF Sound
  <2>3. n \in Nat \ {0} /\ f \in Flight
    BY <2>2 DEF Record, Flight
  <2>4. d \in Record
    BY <2>2, <2>3 DEF Record
  <2>5. /\ d.made = n /\ d.connecting = n /\ d.flights = c.flights \cup {f}
        /\ d.recorded = c.recorded /\ d.subscribed = c.subscribed
        /\ d.unplaced = c.unplaced /\ d.wanted = c.wanted /\ d.mapped = c.mapped
    BY <2>2 DEF Record
  <2>6. f.of = n /\ c.made \in Nat /\ n = c.made + 1
    BY <2>2 DEF Record
  <2>7. \A g \in c.flights : g.of \in Nat /\ g.of <= c.made
    BY <2>2 DEF Sound, Numbered, Record, Flight
  <2> HIDE DEF d, f, n
  <2>8. Numbered(d)
    <3>1. \A g \in d.flights : g.of <= d.made
      BY <2>5, <2>6, <2>7
    <3>2. \E g \in d.flights : g.of = d.connecting
      BY <2>5, <2>6
    <3> QED BY <3>1, <3>2 DEF Numbered
  <2>9. Exclusive(d) /\ Holds(d)
    BY <1>2, <2>3, <2>5 DEF Exclusive, Holds
  <2> QED BY <2>1, <2>4, <2>5, <2>8, <2>9 DEF Sound
<1> QED BY <1>1, <1>2

\* A disconnect lets go of all three.
LEMMA Disconnects ==
    ASSUME NEW c, Sound(c)
    PROVE  /\ Sound(DisconnectFolder(c)) /\ ~Holds(DisconnectFolder(c))
           /\ DisconnectFolder(c).wanted = c.wanted
<1> DEFINE d == DisconnectFolder(c)
<1>1. c \in Record /\ c.subscribed \in Nat
  BY DEF Sound, Record
<1>2. d \in Record
  BY <1>1 DEF DisconnectFolder, Record
<1>3. /\ d.unplaced = FALSE /\ d.connecting = 0 /\ d.recorded = 0
      /\ d.subscribed = IF c.recorded # 0 THEN 0 ELSE c.subscribed
      /\ d.flights = c.flights /\ d.made = c.made /\ d.wanted = c.wanted
  BY <1>1 DEF DisconnectFolder, Record
<1> HIDE DEF d
<1>4. d.subscribed = 0
  BY <1>3 DEF Sound
<1>5. Sound(d) /\ ~Holds(d)
  BY <1>2, <1>3, <1>4 DEF Sound, Exclusive, Numbered, Holds
<1> QED BY <1>3, <1>5 DEF d

\* So does a disconnect of all folders when nothing is unplaced.
LEMMA AllDisconnects ==
    ASSUME NEW c, Sound(c), ~c.unplaced
    PROVE  /\ Sound(DisconnectAll(c)) /\ ~Holds(DisconnectAll(c))
           /\ DisconnectAll(c).wanted = c.wanted
BY Disconnects DEF DisconnectAll, Holds

\* A retry leaves nothing unplaced, and holds what was held.
LEMMA Retries ==
    ASSUME NEW c, Sound(c)
    PROVE  /\ Sound(RetryUnplaced(c)) /\ ~RetryUnplaced(c).unplaced
           /\ Holds(RetryUnplaced(c)) <=> Holds(c)
           /\ RetryUnplaced(c).wanted = c.wanted
<1>1. CASE ~c.unplaced
  BY <1>1 DEF RetryUnplaced
<1>2. CASE c.unplaced
  <2> DEFINE d == [c EXCEPT !.unplaced = FALSE]
  <2>1. c \in Record
    BY DEF Sound
  <2>2. d \in Record /\ ~d.unplaced /\ d.wanted = c.wanted
    BY <2>1 DEF Record
  <2>3. /\ d.connecting = c.connecting /\ d.recorded = c.recorded
        /\ d.subscribed = c.subscribed /\ d.flights = c.flights /\ d.made = c.made
    BY <2>1 DEF Record
  <2>4. RetryUnplaced(c) = ConnectFolder(d)
    BY <1>2 DEF RetryUnplaced
  <2> HIDE DEF d
  <2>5. Sound(d)
    BY <2>2, <2>3 DEF Sound, Exclusive, Numbered
  <2> QED BY <1>2, <2>2, <2>4, <2>5, Connects DEF Holds
<1> QED BY <1>1, <1>2

LEMMA Refreshes ==
    ASSUME NEW c, Sound(c)
    PROVE  /\ Sound(Refreshed(c)) /\ ~Holds(Refreshed(c))
           /\ Refreshed(c).wanted = c.wanted
BY Retries, AllDisconnects DEF Refreshed

\* Fields that no part of the invariant but the last one is about.
With(c, w, m, r) == [c EXCEPT !.wanted = w, !.mapped = m, !.routed = r]

LEMMA Marked ==
    ASSUME NEW c, Sound(c), NEW w \in BOOLEAN, NEW m \in BOOLEAN, NEW r \in BOOLEAN
    PROVE  LET d == With(c, w, m, r)
           IN  Sound(d) /\ d.wanted = w /\ (Holds(d) <=> Holds(c)) /\ d.unplaced = c.unplaced
<1> DEFINE d == With(c, w, m, r)
<1>1. c \in Record
  BY DEF Sound
<1>2. d \in Record
  BY <1>1 DEF Record, With
<1>3. /\ d.connecting = c.connecting /\ d.recorded = c.recorded
      /\ d.subscribed = c.subscribed /\ d.flights = c.flights /\ d.made = c.made
      /\ d.unplaced = c.unplaced /\ d.wanted = w
  BY <1>1 DEF Record, With
<1> HIDE DEF d
<1>4. Sound(d)
  BY <1>2, <1>3 DEF Sound, Exclusive, Numbered
<1> SUFFICES Sound(d) /\ d.wanted = w /\ (Holds(d) <=> Holds(c)) /\ d.unplaced = c.unplaced
  BY DEF d
<1> QED BY <1>3, <1>4 DEF Holds

-----------------------------------------------------------------------------
(* The steps that change a connection. *)

\* It is enough that the record of the vault that steps is right.
LEMMA OneRecord ==
    ASSUME Inv, NEW v \in Vaults, NEW c, Right(c), conn' = [conn EXCEPT ![v] = c],
           NEW on \in BOOLEAN, watching' = [watching EXCEPT ![v] = on], c.wanted => on
    PROVE  Inv'
<1>1. c \in Record
  BY DEF Right, Sound
<1>2. /\ \A w \in Vaults : conn'[w] = IF w = v THEN c ELSE conn[w]
      /\ \A w \in Vaults : watching'[w] = IF w = v THEN on ELSE watching[w]
  BY DEF Inv
<1>3. conn' \in [Vaults -> Record] /\ watching' \in [Vaults -> BOOLEAN]
  BY <1>1 DEF Inv
<1>4. \A w \in Vaults : Right(conn'[w]) /\ (conn'[w].wanted => watching'[w])
  BY <1>2 DEF Inv
<1> QED BY <1>3, <1>4 DEF Inv

LEMMA WhileWatching ==
    ASSUME Inv, NEW v \in Vaults, NEW c, Right(c), conn' = [conn EXCEPT ![v] = c],
           UNCHANGED watching, c.wanted => conn[v].wanted
    PROVE  Inv'
<1>1. watching' = [watching EXCEPT ![v] = watching[v]] /\ watching[v] \in BOOLEAN
  BY DEF Inv
<1>2. c.wanted => watching[v]
  BY DEF Inv
<1> QED BY <1>1, <1>2, OneRecord

LEMMA StartKeeps ==
    ASSUME Inv, NEW v \in Vaults, Start(v)
    PROVE  Inv'
<1> DEFINE c == conn[v]
           d == [c EXCEPT !.wanted = TRUE]
<1>1. Sound(c) /\ c \in Record /\ ~c.unplaced
  BY DEF Inv, Right, Sound, Start, Holds
<1>2. Sound(d) /\ d.wanted = TRUE /\ d.unplaced = c.unplaced
  <2>1. /\ c.mapped \in BOOLEAN /\ c.routed \in BOOLEAN
        /\ d = With(c, TRUE, c.mapped, c.routed)
    BY <1>1 DEF Record, With
  <2> HIDE DEF c, d
  <2> QED BY <1>1, <2>1, Marked
<1>3. /\ conn' = [conn EXCEPT ![v] = ConnectFolder(d)]
      /\ watching' = [watching EXCEPT ![v] = TRUE]
  BY DEF Start
<1> HIDE DEF c, d
<1>4. d.wanted /\ ~d.unplaced
  BY <1>1, <1>2
<1>5. Right(ConnectFolder(d))
  BY <1>2, <1>4, Connects DEF Right
<1> QED BY <1>3, <1>5, OneRecord

LEMMA RemapKeeps ==
    ASSUME Inv, NEW v \in Vaults, Remap(v)
    PROVE  Inv'
<1> DEFINE c == conn[v]
<1>1. Sound(c) /\ c.wanted
  BY DEF Inv, Right, Remap
<1>2. conn' = [conn EXCEPT ![v] = ConnectFolder(Refreshed(c))] /\ UNCHANGED watching
  BY DEF Remap
<1> HIDE DEF c
<1>3. Sound(Refreshed(c)) /\ Refreshed(c).wanted /\ ~Refreshed(c).unplaced
  BY <1>1, Refreshes DEF Holds
<1>4. Right(ConnectFolder(Refreshed(c)))
  BY <1>1, <1>3, Connects DEF Right
<1>5. conn[v].wanted
  BY <1>1 DEF c
<1> QED BY <1>2, <1>4, <1>5, WhileWatching

LEMMA UnmapKeeps ==
    ASSUME Inv, NEW v \in Vaults, Unmap(v)
    PROVE  Inv'
<1> DEFINE c == conn[v]
           r == Refreshed(c)
           d == [r EXCEPT !.mapped = FALSE, !.wanted = FALSE]
<1>1. Sound(r) /\ ~Holds(r) /\ r \in Record
  BY Refreshes DEF Inv, Right, Sound
<1>2. conn' = [conn EXCEPT ![v] = d] /\ UNCHANGED watching
  BY DEF Unmap
<1>3. Right(d) /\ ~d.wanted
  <2>1. /\ r.routed \in BOOLEAN
        /\ d = With(r, FALSE, FALSE, r.routed)
    BY <1>1 DEF Record, With
  <2> HIDE DEF r, d
  <2> QED BY <1>1, <2>1, Marked DEF Right
<1> HIDE DEF d
<1> QED BY <1>2, <1>3, WhileWatching

LEMMA FolderGoneKeeps ==
    ASSUME Inv, NEW v \in Vaults, FolderGone(v)
    PROVE  Inv'
<1> DEFINE c == conn[v]
           r == DisconnectFolder(c)
           d == [r EXCEPT !.wanted = FALSE]
<1>1. Sound(r) /\ ~Holds(r) /\ r \in Record
  BY Disconnects DEF Inv, Right, Sound
<1>2. conn' = [conn EXCEPT ![v] = d] /\ UNCHANGED watching
  BY DEF FolderGone
<1>3. Right(d) /\ ~d.wanted
  <2>1. /\ r.routed \in BOOLEAN /\ r.mapped \in BOOLEAN
        /\ d = With(r, FALSE, r.mapped, r.routed)
    BY <1>1 DEF Record, With
  <2> HIDE DEF r, d
  <2> QED BY <1>1, <2>1, Marked DEF Right
<1> HIDE DEF d
<1> QED BY <1>2, <1>3, WhileWatching

LEMMA RouteOpensKeeps ==
    ASSUME Inv, NEW v \in Vaults, RouteOpens(v)
    PROVE  Inv'
<1> DEFINE c == conn[v]
           d == [c EXCEPT !.routed = TRUE]
<1>1. Right(c) /\ Sound(c) /\ c \in Record
  BY DEF Inv, Right, Sound
<1>2. Sound(d) /\ d.wanted = c.wanted /\ (Holds(d) <=> Holds(c))
  <2>1. /\ c.mapped \in BOOLEAN /\ c.wanted \in BOOLEAN
        /\ d = With(c, c.wanted, c.mapped, TRUE)
    BY <1>1 DEF Record, With
  <2> HIDE DEF c, d
  <2> QED BY <1>1, <2>1, Marked
<1>3. conn' = [conn EXCEPT ![v] = RetryUnplaced(d)] /\ UNCHANGED watching
  BY DEF RouteOpens
<1>4. RetryUnplaced(d).wanted = conn[v].wanted
  <2> HIDE DEF d
  <2> QED BY <1>2, Retries
<1> HIDE DEF c, d
<1>5. Right(RetryUnplaced(d))
  BY <1>1, <1>2, Retries DEF Right
<1> QED BY <1>3, <1>4, <1>5, WhileWatching

\* A connect's next step: its number stays, or it is given up.
LEMMA DerivedKeeps ==
    ASSUME Inv, NEW v \in Vaults, NEW f \in conn[v].flights, Derived(v, f)
    PROVE  Inv'
<1> DEFINE c == conn[v]
           g == [f EXCEPT !.at = "loading"]
           left == (c.flights \ {f}) \cup IF c.connecting = f.of THEN {g} ELSE {}
           d == [c EXCEPT !.flights = left]
<1>1. Right(c) /\ c \in Record /\ f \in Flight
  BY DEF Inv, Right, Sound, Record
<1>2. g \in Flight /\ g.of = f.of
  BY <1>1 DEF Flight
<1>3. conn' = [conn EXCEPT ![v] = d] /\ UNCHANGED watching
  BY DEF Derived
<1>4. left \subseteq Flight
  <2> HIDE DEF g
  <2> QED BY <1>1, <1>2 DEF Record
<1>5. /\ \A h \in left : h.of <= c.made
      /\ c.connecting # 0 => \E h \in left : h.of = c.connecting
  <2>1. /\ \A h \in c.flights : h.of <= c.made
        /\ c.connecting # 0 => \E h \in c.flights : h.of = c.connecting
    BY <1>1 DEF Right, Sound, Numbered
  <2>2. f \in c.flights
    OBVIOUS
  <2> HIDE DEF c, g
  <2> QED BY <1>2, <2>1, <2>2
<1> HIDE DEF left, c
<1>6. d \in Record
  BY <1>1, <1>4 DEF Record
<1>7. /\ d.connecting = c.connecting /\ d.recorded = c.recorded
      /\ d.subscribed = c.subscribed /\ d.flights = left /\ d.made = c.made
      /\ d.unplaced = c.unplaced /\ d.wanted = c.wanted
  BY <1>1 DEF Record
<1> HIDE DEF d
<1>8. Right(d)
  BY <1>1, <1>5, <1>6, <1>7 DEF Right, Sound, Exclusive, Numbered, Holds
<1>9. d.wanted => conn[v].wanted
  BY <1>7 DEF c
<1> QED BY <1>3, <1>8, <1>9, WhileWatching

LEMMA LoadedLateKeeps ==
    ASSUME Inv, NEW v \in Vaults, NEW f \in conn[v].flights, LoadedLate(v, f)
    PROVE  Inv'
<1> DEFINE c == conn[v]
           left == c.flights \ {f}
           d == [c EXCEPT !.flights = left]
<1>1. Right(c) /\ c \in Record
  BY DEF Inv, Right, Sound
<1>2. c.connecting # f.of
  BY DEF LoadedLate, Wanted
<1>3. conn' = [conn EXCEPT ![v] = d] /\ UNCHANGED watching
  BY DEF LoadedLate
<1>4. d \in Record
  BY <1>1 DEF Record
<1>5. /\ d.connecting = c.connecting /\ d.recorded = c.recorded
      /\ d.subscribed = c.subscribed /\ d.flights = left /\ d.made = c.made
      /\ d.unplaced = c.unplaced /\ d.wanted = c.wanted
  BY <1>1 DEF Record
<1>6. /\ \A h \in left : h.of <= c.made
      /\ c.connecting # 0 => \E h \in left : h.of = c.connecting
  BY <1>1, <1>2 DEF Right, Sound, Numbered
<1>7. d.wanted => conn[v].wanted
  BY <1>5
<1> HIDE DEF d, left, c
<1>8. Right(d)
  BY <1>1, <1>4, <1>5, <1>6 DEF Right, Sound, Exclusive, Numbered, Holds
<1> QED BY <1>3, <1>7, <1>8, WhileWatching

\* The connect that counts ends: the folder is open, or waits for a route.
LEMMA LoadedUnroutedKeeps ==
    ASSUME Inv, NEW v \in Vaults, NEW f \in conn[v].flights, LoadedUnrouted(v, f)
    PROVE  Inv'
<1> DEFINE c == conn[v]
           left == c.flights \ {f}
           d == [c EXCEPT !.flights = left, !.connecting = 0, !.unplaced = TRUE]
<1>1. Right(c) /\ c \in Record /\ f \in Flight
  BY DEF Inv, Right, Sound, Record
<1>2. c.connecting = f.of /\ f.of # 0
  BY <1>1 DEF LoadedUnrouted, Wanted, Flight
<1>3. conn' = [conn EXCEPT ![v] = d] /\ UNCHANGED watching
  BY <1>1 DEF LoadedUnrouted, Inv, Record
<1>4. d \in Record
  BY <1>1 DEF Record
<1>5. /\ d.connecting = 0 /\ d.recorded = c.recorded
      /\ d.subscribed = c.subscribed /\ d.flights = left /\ d.made = c.made
      /\ d.unplaced = TRUE /\ d.wanted = c.wanted
  BY <1>1 DEF Record
<1>6. \A h \in left : h.of <= c.made
  BY <1>1 DEF Right, Sound, Numbered
<1>7. d.wanted => conn[v].wanted
  BY <1>5
<1> HIDE DEF d, left, c
<1>8. Right(d)
  BY <1>1, <1>2, <1>4, <1>5, <1>6 DEF Right, Sound, Exclusive, Numbered, Holds
<1> QED BY <1>3, <1>7, <1>8, WhileWatching

LEMMA LoadedKeeps ==
    ASSUME Inv, NEW v \in Vaults, NEW f \in conn[v].flights, Loaded(v, f)
    PROVE  Inv'
<1> DEFINE c == conn[v]
           left == c.flights \ {f}
           of == f.of
           sub == IF c.subscribed = 0 THEN of ELSE c.subscribed
           d == [c EXCEPT !.flights = left, !.connecting = 0, !.recorded = of,
                          !.subscribed = sub]
<1>1. Right(c) /\ c \in Record /\ f \in Flight
  BY DEF Inv, Right, Sound, Record
<1>2. c.connecting = of /\ of \in Nat \ {0}
  BY <1>1 DEF Loaded, Wanted, Flight
<1>3. conn' = [conn EXCEPT ![v] = d] /\ UNCHANGED watching
  BY <1>1 DEF Loaded, Inv, Record
<1>4. sub = of
  BY <1>1, <1>2 DEF Right, Sound, Exclusive
<1>5. d.wanted => conn[v].wanted
  BY <1>1 DEF Record
<1>6. \A h \in left : h.of <= c.made
  BY <1>1 DEF Right, Sound, Numbered
<1>7. left \subseteq Flight
  BY <1>1 DEF Record
<1> HIDE DEF sub, left, of
<1>8. d \in Record
  BY <1>1, <1>2, <1>4, <1>7 DEF Record
<1>9. /\ d.connecting = 0 /\ d.recorded = of /\ d.subscribed = sub
      /\ d.flights = left /\ d.made = c.made
      /\ d.unplaced = c.unplaced /\ d.wanted = c.wanted
  BY <1>1 DEF Record
<1> HIDE DEF d, c
<1>10. Right(d)
  BY <1>1, <1>2, <1>4, <1>6, <1>8, <1>9 DEF Right, Sound, Exclusive, Numbered, Holds
<1> QED BY <1>3, <1>5, <1>10, WhileWatching

LEMMA ExitKeeps ==
    ASSUME Inv, NEW v \in Vaults, Exit(v)
    PROVE  Inv'
<1> DEFINE c == conn[v]
           d == [mapped |-> c.mapped, wanted |-> FALSE, connecting |-> 0, flights |-> {},
                 recorded |-> 0, subscribed |-> 0, unplaced |-> FALSE,
                 routed |-> c.routed, made |-> c.made]
<1>1. c \in Record
  BY DEF Inv
<1>2. Right(d)
  BY <1>1 DEF Record, Right, Sound, Exclusive, Numbered, Holds
<1>3. /\ conn' = [conn EXCEPT ![v] = d]
      /\ watching' = [watching EXCEPT ![v] = FALSE]
  BY DEF Exit
<1>4. ~d.wanted
  OBVIOUS
<1> HIDE DEF d, c
<1> QED BY <1>2, <1>3, <1>4, OneRecord

\* Everything else leaves the connection alone: people, the listing's own
\* steps and the work on the files.
LEMMA OthersKeep ==
    ASSUME Inv, NEW v \in Vaults, User(v) \/ Listing(v) \/ Files(v)
    PROVE  Inv'
<1>1. CASE User(v)
  <2>1. UNCHANGED <<conn, watching>>
    BY <1>1 DEF User, UserCreate, UserMoveIn, UserDelete, UserRename, link
  <2> QED BY <2>1 DEF Inv
<1>2. CASE Listing(v)
  <2>1. UNCHANGED <<conn, watching>>
    BY <1>2 DEF Listing, Receive, ReceiveRename, Synced, Reconciled
  <2> QED BY <2>1 DEF Inv
<1>3. CASE Files(v)
  <2>1. UNCHANGED <<conn, watching>>
    BY <1>3 DEF Files, ApplyAddition, SweepOne, ExpireMarker, BeginCreate, FinishCreate,
                BeginDelete, FinishDelete, MakePlaceholder, link
  <2> QED BY <2>1 DEF Inv
<1> QED BY <1>1, <1>2, <1>3

LEMMA InitInv == Init => Inv
<1> SUFFICES ASSUME Init PROVE Inv
  OBVIOUS
<1>1. ASSUME NEW v \in Vaults
      PROVE  conn[v] \in Record /\ Right(conn[v]) /\ ~conn[v].wanted
  BY DEF Init, Record, Right, Sound, Exclusive, Numbered, Holds
<1>2. watching \in [Vaults -> BOOLEAN]
  BY DEF Init
<1>3. conn \in [Vaults -> Record]
  <2>1. conn = [v \in Vaults |-> conn[v]]
    BY DEF Init
  <2> QED BY <1>1, <2>1
<1> QED BY <1>1, <1>2, <1>3 DEF Inv

LEMMA InvNext == Inv /\ [Next]_vars => Inv'
<1> SUFFICES ASSUME Inv, [Next]_vars PROVE Inv'
  OBVIOUS
<1>1. CASE UNCHANGED vars
  BY <1>1 DEF vars, link, Inv
<1>2. ASSUME NEW v \in Vaults, User(v) \/ Connection(v) \/ Listing(v) \/ Files(v)
      PROVE  Inv'
  <2>1. ASSUME NEW f \in conn[v].flights,
               Derived(v, f) \/ LoadedLate(v, f) \/ LoadedUnrouted(v, f) \/ Loaded(v, f)
        PROVE  Inv'
    BY <2>1, DerivedKeeps, LoadedLateKeeps, LoadedUnroutedKeeps, LoadedKeeps
  <2>2. CASE Connection(v)
    BY <2>1, <2>2, StartKeeps, RemapKeeps, UnmapKeeps, FolderGoneKeeps, RouteOpensKeeps,
       ExitKeeps DEF Connection
  <2> QED BY <1>2, <2>2, OthersKeep
<1> QED BY <1>1, <1>2 DEF Next

LEMMA InvAlways == Spec => []Inv
BY InitInv, InvNext, PTL DEF Spec

-----------------------------------------------------------------------------
(* What is listed is on disk, or is being made. *)

\* A call of initialSync, of whatever connection.
Call == [of : Nat, at : {"waiting", "warming"}, dead : BOOLEAN, had : SUBSET Paths]

FilesTyped ==
    /\ entry = [v \in Vaults |-> entry[v]]
    /\ disk \in [Vaults -> SUBSET Paths]
    /\ reconciles \in [Vaults -> SUBSET Call]
    /\ chain \in [Vaults -> [Paths -> Seq(Task)]]
    /\ warming \in [Vaults -> [Paths -> Nat]]
    /\ sweep \in [Vaults -> SUBSET Paths]

Promised(v, p) == p \in disk[v] \/ BeingMade(v, p)

\* Until a connection's own first reconcile has run the listing owes nothing:
\* that run is what makes the files it found listed.
Covered(v) ==
    Open(v) /\ (\A r \in reconciles[v] : r.dead) =>
        \A p \in Listed(entry[v]) : Promised(v, p)

FilesInv == FilesTyped /\ \A v \in Vaults : Covered(v)

-----------------------------------------------------------------------------
(* What transactions list and unlist. *)

LEMMA ListedBy ==
    ASSUME NEW e, NEW t, NEW p \in Listed(Apply(e, t))
    PROVE  p \in Listed(e) \/ \E c \in t : c.path = p /\ c.live
<1>1. p \in Paths /\ Apply(e, t)[p].live
  BY DEF Listed
<1>2. CASE \E c \in t : c.path = p
  <2> DEFINE c == CHOOSE c \in t : c.path = p
  <2>1. c \in t /\ c.path = p
    BY <1>2
  <2>2. Integrate(e[p], c).live
    BY <1>1, <1>2 DEF Apply
  <2> HIDE DEF c
  <2>3. Integrate(e[p], c) = e[p] \/ Integrate(e[p], c).live = c.live
    BY DEF Integrate
  <2> QED BY <1>1, <2>1, <2>2, <2>3 DEF Listed
<1>3. CASE ~\E c \in t : c.path = p
  BY <1>1, <1>3 DEF Apply, Listed
<1> QED BY <1>2, <1>3

LEMMA SetsList ==
    ASSUME NEW v \in Vaults, NEW S, NEW p \in Listed(Apply(entry[v], Sets(v, S)))
    PROVE  p \in Listed(entry[v]) \/ p \in S
BY ListedBy DEF Sets

\* A deletion of the item a replica has for a name unlists the name there.
LEMMA Unlisted ==
    ASSUME NEW e, NEW t, NEW p,
           p \in Listed(e) => \E c \in t : c.path = p,
           \A c \in t : c.path = p => c.at = e[p].at /\ ~c.live
    PROVE  p \notin Listed(Apply(e, t))
<1> SUFFICES ASSUME p \in Listed(Apply(e, t)) PROVE FALSE
  OBVIOUS
<1>1. p \in Paths /\ Apply(e, t)[p].live
  BY DEF Listed
<1>2. \E c \in t : c.path = p
  BY ListedBy
<1> DEFINE c == CHOOSE c \in t : c.path = p
<1>3. c \in t /\ c.path = p
  BY <1>2
<1>4. Integrate(e[p], c).live
  BY <1>1, <1>2 DEF Apply
<1> HIDE DEF c
<1>5. Integrate(e[p], c) = [at |-> c.at, live |-> c.live]
  BY <1>3 DEF Integrate
<1> QED BY <1>3, <1>4, <1>5

LEMMA DeletesUnlist ==
    ASSUME NEW v \in Vaults, NEW p, NEW t, t = Deletes(v, {p})
    PROVE  /\ p \notin Listed(Apply(entry[v], t))
           /\ Listed(Apply(entry[v], t)) \subseteq Listed(entry[v])
<1>1. \A c \in t : c.path = p /\ c.at = entry[v][p].at /\ ~c.live
  BY DEF Deletes
<1>2. p \in Listed(entry[v]) => \E c \in t : c.path = p
  <2>1. p \in Listed(entry[v]) => [path |-> p, at |-> entry[v][p].at, live |-> FALSE] \in t
    BY DEF Deletes, Listed
  <2> QED BY <2>1
<1>3. p \notin Listed(Apply(entry[v], t))
  BY <1>1, <1>2, Unlisted
<1>4. \A q \in Listed(Apply(entry[v], t)) : q \in Listed(entry[v])
  BY <1>1, ListedBy
<1> QED BY <1>3, <1>4

LEMMA RenameLists ==
    ASSUME NEW v \in Vaults, NEW p, NEW q, p # q
    PROVE  LET new == Apply(entry[v], Deletes(v, {p}) \cup Sets(v, {q}))
           IN  p \notin Listed(new) /\ Listed(new) \subseteq Listed(entry[v]) \cup {q}
<1> DEFINE t == Deletes(v, {p}) \cup Sets(v, {q})
<1>1. \A c \in t : c.path = p => c.at = entry[v][p].at /\ ~c.live
  BY DEF Deletes, Sets
<1>2. p \in Listed(entry[v]) => \E c \in t : c.path = p
  <2>1. p \in Listed(entry[v]) => [path |-> p, at |-> entry[v][p].at, live |-> FALSE] \in t
    BY DEF Deletes, Listed
  <2> HIDE DEF t
  <2> QED BY <2>1
<1>3. \A c \in t : c.live => c.path = q
  BY DEF Deletes, Sets
<1> HIDE DEF t
<1>4. p \notin Listed(Apply(entry[v], t))
  BY <1>1, <1>2, Unlisted
<1>5. \A r \in Listed(Apply(entry[v], t)) : r \in Listed(entry[v]) \/ r = q
  BY <1>3, ListedBy
<1> QED BY <1>4, <1>5 DEF t

-----------------------------------------------------------------------------
(* The steps, for the files. *)

Elsewhere(v) ==
    \A w \in Vaults \ {v} :
        /\ entry'[w] = entry[w] /\ disk'[w] = disk[w] /\ reconciles'[w] = reconciles[w]
        /\ chain'[w] = chain[w] /\ warming'[w] = warming[w] /\ sweep'[w] = sweep[w]
        /\ conn'[w].recorded = conn[w].recorded

\* A step is one vault's own.
LEMMA OneVault ==
    ASSUME FilesInv, NEW v \in Vaults, FilesTyped', Elsewhere(v), Covered(v)'
    PROVE  FilesInv'
<1>1. ASSUME NEW w \in Vaults, w # v PROVE Covered(w)'
  BY <1>1 DEF FilesInv, Elsewhere, Covered, Promised, BeingMade, Open, Listed
<1> QED BY <1>1 DEF FilesInv

\* It is enough that no promise is dropped of what stays listed, and that what
\* comes to be listed is promised.
LEMMA PromisesKept ==
    ASSUME FilesInv, NEW v \in Vaults, FilesTyped', Elsewhere(v),
           Open(v)' => Open(v),
           Open(v)' => ((\A r \in reconciles'[v] : r.dead) => \A r \in reconciles[v] : r.dead),
           Open(v)' => \A p \in Listed(entry'[v]) :
               \/ Promised(v, p)'
               \/ p \in Listed(entry[v]) /\ ~Promised(v, p)
    PROVE  FilesInv'
<1>1. Covered(v)
  BY DEF FilesInv
<1>2. Covered(v)'
  BY <1>1 DEF Covered, Listed
<1> QED BY <1>2, OneVault

LEMMA Transacts ==
    ASSUME FilesTyped, NEW v \in Vaults, NEW t, Transact(v, t)
    PROVE  /\ entry' = [w \in Vaults |-> entry'[w]]
           /\ entry'[v] = Apply(entry[v], t)
           /\ \A w \in Vaults \ {v} : entry'[w] = entry[w]
BY DEF FilesTyped, Transact

\* Steps that leave the connection and the calls of initialSync as they are.
LEMMA SameLink ==
    ASSUME FilesInv, NEW v \in Vaults, FilesTyped', Elsewhere(v), UNCHANGED <<conn, reconciles>>,
           Open(v) => \A p \in Listed(entry'[v]) :
               \/ Promised(v, p)'
               \/ p \in Listed(entry[v]) /\ ~Promised(v, p)
    PROVE  FilesInv'
BY PromisesKept DEF Open

\* A person's change: only the disk and the listing move.
LEMMA PeopleKeep ==
    ASSUME Inv, FilesInv, NEW v \in Vaults, NEW gone, NEW made \in SUBSET Paths, NEW t,
           disk' = [disk EXCEPT ![v] = (@ \ gone) \cup made],
           UNCHANGED <<conn, reconciles, chain, warming, sweep>>,
           Transact(v, t),
           Open(v) => \A p \in Listed(Apply(entry[v], t)) :
               p \in made \/ p \in Listed(entry[v]) \ gone
    PROVE  FilesInv'
<1>1. FilesTyped'
  BY Transacts DEF FilesInv, FilesTyped
<1>2. disk'[v] = (disk[v] \ gone) \cup made /\ \A w \in Vaults \ {v} : disk'[w] = disk[w]
  BY DEF FilesInv, FilesTyped
<1>3. Elsewhere(v)
  BY <1>2, Transacts DEF Elsewhere, FilesInv
<1>4. \A p : BeingMade(v, p)' <=> BeingMade(v, p)
  BY DEF BeingMade
<1>5. ASSUME Open(v), NEW p \in Listed(entry'[v])
      PROVE  Promised(v, p)' \/ (p \in Listed(entry[v]) /\ ~Promised(v, p))
  <2>1. p \in made \/ p \in Listed(entry[v]) \ gone
    BY <1>5, Transacts DEF FilesInv
  <2> QED BY <1>2, <1>4, <2>1 DEF Promised
<1> QED BY <1>1, <1>3, <1>5, SameLink

LEMMA OpenIsWatched ==
    ASSUME Inv, NEW v \in Vaults, Open(v)
    PROVE  HearsOf(v)
BY DEF Inv, Right, Holds, HearsOf, Open

LEMMA UserKeepsFiles ==
    ASSUME Inv, FilesInv, NEW v \in Vaults, User(v)
    PROVE  FilesInv'
<1>1. ASSUME NEW p \in Paths, UserCreate(v, p) PROVE FilesInv'
  <2>1. PICK t : Transact(v, t) /\ (t = Sets(v, {p}) \/ t = {})
    BY <1>1 DEF UserCreate, Wish
  <2>2. \A q \in Listed(Apply(entry[v], t)) : q \in {p} \/ q \in Listed(entry[v]) \ {}
    BY <2>1, ListedBy, SetsList
  <2>3. disk' = [disk EXCEPT ![v] = (@ \ {}) \cup {p}]
    BY <1>1 DEF UserCreate
  <2>4. UNCHANGED <<conn, reconciles, chain, warming, sweep>>
    BY <1>1 DEF UserCreate, work
  <2> QED BY <2>1, <2>2, <2>3, <2>4, PeopleKeep
<1>2. ASSUME NEW p \in Paths, UserMoveIn(v, p) PROVE FilesInv'
  <2>1. PICK t : Transact(v, t) /\ (t = Sets(v, {p}) \/ t = {})
    BY <1>2 DEF UserMoveIn, Wish
  <2>2. \A q \in Listed(Apply(entry[v], t)) : q \in {p} \/ q \in Listed(entry[v]) \ {}
    BY <2>1, ListedBy, SetsList
  <2>3. disk' = [disk EXCEPT ![v] = (@ \ {}) \cup {p}]
    BY <1>2 DEF UserMoveIn
  <2>4. UNCHANGED <<conn, reconciles, chain, warming, sweep>>
    BY <1>2 DEF UserMoveIn, link, work
  <2> QED BY <2>1, <2>2, <2>3, <2>4, PeopleKeep
<1>3. ASSUME NEW p \in Paths, UserDelete(v, p) PROVE FilesInv'
  <2>1. PICK t : Transact(v, t) /\ t = IF HearsOf(v) THEN Deletes(v, {p}) ELSE {}
    BY <1>3 DEF UserDelete, Wish
  <2>2. Open(v) => \A q \in Listed(Apply(entry[v], t)) : q \in Listed(entry[v]) \ {p}
    BY <2>1, OpenIsWatched, DeletesUnlist
  <2>3. disk' = [disk EXCEPT ![v] = (@ \ {p}) \cup {}]
    BY <1>3 DEF UserDelete
  <2>4. UNCHANGED <<conn, reconciles, chain, warming, sweep>>
    BY <1>3 DEF UserDelete, link, work
  <2> QED BY <2>1, <2>2, <2>3, <2>4, PeopleKeep
<1>4. ASSUME NEW p \in Paths, NEW q \in Paths, UserRename(v, p, q) PROVE FilesInv'
  <2>1. Transact(v, RenameTransaction(v, p, q)) /\ p # q
    BY <1>4, PathsAssumption DEF UserRename, Wish
  <2>2. Open(v) => \A r \in Listed(Apply(entry[v], RenameTransaction(v, p, q))) :
                      r \in {q} \/ r \in Listed(entry[v]) \ {p}
    <3>1. Open(v) => RenameTransaction(v, p, q) = Deletes(v, {p}) \cup Sets(v, {q})
      BY OpenIsWatched DEF RenameTransaction
    <3> QED BY <2>1, <3>1, RenameLists
  <2>3. disk' = [disk EXCEPT ![v] = (@ \ {p}) \cup {q}]
    BY <1>4 DEF UserRename
  <2>4. UNCHANGED <<conn, reconciles, chain, warming, sweep>>
    BY <1>4 DEF UserRename, link, work
  <2> QED BY <2>1, <2>2, <2>3, <2>4, PeopleKeep
<1> QED BY <1>1, <1>2, <1>3, <1>4 DEF User

\* Received listings: what is new is being addressed, what is gone is not listed.
LEMMA ReceiveKeepsFiles ==
    ASSUME FilesInv, NEW v \in Vaults, Receive(v)
    PROVE  FilesInv'
<1> DEFINE new == Received(v)
<1>1. /\ entry' = [entry EXCEPT ![v] = new]
      /\ warming' = [warming EXCEPT ![v] = [p \in Paths |->
             IF p \in Added(entry[v], new) THEN @[p] + 1 ELSE @[p]]]
      /\ chain' = Sequence(v, Deleted(entry[v], new), "delete")
      /\ UNCHANGED <<disk, conn, reconciles, sweep>>
  BY DEF Receive
<1> HIDE DEF new
<1>2. /\ entry' = [w \in Vaults |-> entry'[w]] /\ entry'[v] = new
      /\ \A w \in Vaults \ {v} : entry'[w] = entry[w]
  BY <1>1 DEF FilesInv, FilesTyped
<1>3. /\ warming' \in [Vaults -> [Paths -> Nat]]
      /\ \A w \in Vaults \ {v} : warming'[w] = warming[w]
      /\ \A p \in Paths : warming'[v][p] = IF p \in Added(entry[v], new) THEN warming[v][p] + 1
                                           ELSE warming[v][p]
  BY <1>1 DEF FilesInv, FilesTyped
<1>4. "delete" \in Task
  BY DEF Task
<1>5. /\ chain' \in [Vaults -> [Paths -> Seq(Task)]]
      /\ \A w \in Vaults \ {v} : chain'[w] = chain[w]
      /\ \A p \in Paths : chain'[v][p] = IF p \in Deleted(entry[v], new)
                                         THEN Append(chain[v][p], "delete") ELSE chain[v][p]
  BY <1>1, <1>4 DEF FilesInv, FilesTyped, Sequence
<1>6. FilesTyped' /\ Elsewhere(v)
  BY <1>1, <1>2, <1>3, <1>5 DEF FilesInv, FilesTyped, Elsewhere
<1>7. ASSUME NEW p \in Listed(entry'[v])
      PROVE  Promised(v, p)' \/ (p \in Listed(entry[v]) /\ ~Promised(v, p))
  <2>1. p \in Paths
    BY DEF Listed
  <2>2. CASE p \notin Listed(entry[v])
    <3>1. p \in Added(entry[v], new)
      BY <1>2, <2>2 DEF Added
    <3>2. warming'[v][p] > 0
      BY <1>3, <2>1, <3>1 DEF FilesInv, FilesTyped
    <3> QED BY <3>2 DEF Promised, BeingMade
  <2>3. CASE p \in Listed(entry[v])
    <3>1. p \notin Added(entry[v], new) /\ p \notin Deleted(entry[v], new)
      BY <1>2, <2>3 DEF Added, Deleted
    <3>2. warming'[v][p] = warming[v][p] /\ chain'[v][p] = chain[v][p]
      BY <1>3, <1>5, <2>1, <3>1
    <3> QED BY <1>1, <2>3, <3>2 DEF Promised, BeingMade
  <2> QED BY <2>2, <2>3
<1> QED BY <1>1, <1>6, <1>7, SameLink

LEMMA ReceiveRenameKeepsFiles ==
    ASSUME FilesInv, NEW v \in Vaults, ReceiveRename(v)
    PROVE  FilesInv'
<1> DEFINE new == Received(v)
<1>1. PICK p \in Deleted(entry[v], new), q \in Added(entry[v], new) :
        LET moves == q \notin disk[v]
            echo == IF moves /\ watching[v]
                    THEN {[path |-> q, at |-> Append(new[q].at, v), live |-> TRUE]}
                    ELSE {}
        IN  /\ disk' = IF moves THEN [disk EXCEPT ![v] = (@ \ {p}) \cup {q}] ELSE disk
            /\ entry' = [entry EXCEPT ![v] = Apply(new, echo)]
  BY DEF ReceiveRename
<1>2. Deleted(entry[v], new) = {p} /\ Added(entry[v], new) = {q}
  <2>1. IsRename(v, new)
    BY DEF ReceiveRename
  <2> HIDE DEF new
  <2> QED BY <1>1, <2>1 DEF IsRename
<1>3. UNCHANGED <<conn, reconciles, chain, warming, sweep>>
  BY DEF ReceiveRename, work
<1> DEFINE echo == IF q \notin disk[v] /\ watching[v]
                   THEN {[path |-> q, at |-> Append(new[q].at, v), live |-> TRUE]}
                   ELSE {}
<1>4. /\ disk' = IF q \notin disk[v] THEN [disk EXCEPT ![v] = (@ \ {p}) \cup {q}] ELSE disk
      /\ entry' = [entry EXCEPT ![v] = Apply(new, echo)]
  BY <1>1
<1>5. \A c \in echo : c.path = q
  OBVIOUS
<1> HIDE DEF echo, new
<1>6. q \in Paths /\ q # p
  BY <1>1 DEF Added, Deleted, Listed
<1>7. /\ entry' = [w \in Vaults |-> entry'[w]] /\ entry'[v] = Apply(new, echo)
      /\ \A w \in Vaults \ {v} : entry'[w] = entry[w]
  BY <1>4 DEF FilesInv, FilesTyped
<1>8. /\ disk' \in [Vaults -> SUBSET Paths]
      /\ \A w \in Vaults \ {v} : disk'[w] = disk[w]
      /\ q \in disk'[v] /\ disk[v] \ {p} \subseteq disk'[v]
  BY <1>4, <1>6 DEF FilesInv, FilesTyped
<1>9. FilesTyped' /\ Elsewhere(v)
  BY <1>3, <1>7, <1>8 DEF FilesInv, FilesTyped, Elsewhere
<1>10. ASSUME NEW r \in Listed(entry'[v])
       PROVE  Promised(v, r)' \/ (r \in Listed(entry[v]) /\ ~Promised(v, r))
  <2>1. r = q \/ r \in Listed(new)
    BY <1>5, <1>7, ListedBy
  <2>2. r = q \/ r \in Listed(entry[v]) \ {p}
    BY <1>2, <2>1 DEF Added, Deleted
  <2>3. BeingMade(v, r)' <=> BeingMade(v, r)
    BY <1>3 DEF BeingMade
  <2> QED BY <1>8, <2>2, <2>3 DEF Promised
<1> QED BY <1>3, <1>9, <1>10, SameLink

\* A task begun or done: the path's own chain moves.
LEMMA OneChain ==
    ASSUME FilesTyped, NEW v \in Vaults, NEW p \in Paths, NEW s \in Seq(Task),
           chain' = [chain EXCEPT ![v][p] = s]
    PROVE  /\ chain' \in [Vaults -> [Paths -> Seq(Task)]]
           /\ \A w \in Vaults \ {v} : chain'[w] = chain[w]
           /\ \A q \in Paths : chain'[v][q] = IF q = p THEN s ELSE chain[v][q]
BY DEF FilesTyped

LEMMA Tasks ==
    ASSUME FilesTyped, NEW v \in Vaults, NEW p \in Paths, chain[v][p] # << >>,
           NEW task \in Task
    PROVE  /\ Tail(chain[v][p]) \in Seq(Task)
           /\ <<task>> \o Tail(chain[v][p]) \in Seq(Task)
           /\ (<<task>> \o Tail(chain[v][p]))[1] = task
           /\ 1 \in DOMAIN (<<task>> \o Tail(chain[v][p]))
<1>1. chain[v][p] \in Seq(Task)
  BY DEF FilesTyped
<1> QED BY <1>1

\* A creation that waits behind the first task goes on waiting.
LEMMA Waits ==
    ASSUME NEW s \in Seq(Task), NEW i \in DOMAIN s, s[i] # Head(s), NEW task \in Task
    PROVE  /\ \E j \in DOMAIN Tail(s) : Tail(s)[j] = s[i]
           /\ \E j \in DOMAIN (<<task>> \o Tail(s)) : (<<task>> \o Tail(s))[j] = s[i]
<1>1. i \in 2..Len(s)
  OBVIOUS
<1>2. i - 1 \in DOMAIN Tail(s) /\ Tail(s)[i - 1] = s[i]
  BY <1>1
<1>3. i \in DOMAIN (<<task>> \o Tail(s)) /\ (<<task>> \o Tail(s))[i] = s[i]
  BY <1>1
<1> QED BY <1>2, <1>3

LEMMA ApplyAdditionKeepsFiles ==
    ASSUME FilesInv, NEW v \in Vaults, NEW p \in Paths, ApplyAddition(v, p)
    PROVE  FilesInv'
<1>1. UNCHANGED <<entry, disk, conn, reconciles, sweep>>
  BY DEF ApplyAddition, world, link
<1>2. /\ warming' \in [Vaults -> [Paths -> Nat]]
      /\ \A w \in Vaults \ {v} : warming'[w] = warming[w]
      /\ \A q \in Paths : q # p => warming'[v][q] = warming[v][q]
  BY DEF ApplyAddition, FilesInv, FilesTyped
<1>3. "create" \in Task
  BY DEF Task
<1>4. /\ chain' \in [Vaults -> [Paths -> Seq(Task)]]
      /\ \A w \in Vaults \ {v} : chain'[w] = chain[w]
      /\ \A q \in Paths : chain'[v][q] = IF q = p /\ p \notin disk[v]
                                         THEN Append(chain[v][q], "create") ELSE chain[v][q]
  BY <1>3 DEF ApplyAddition, Sequence, FilesInv, FilesTyped
<1>5. FilesTyped' /\ Elsewhere(v)
  BY <1>1, <1>2, <1>4 DEF FilesInv, FilesTyped, Elsewhere
<1>6. ASSUME NEW q \in Listed(entry'[v])
      PROVE  Promised(v, q)' \/ (q \in Listed(entry[v]) /\ ~Promised(v, q))
  <2>1. q \in Listed(entry[v]) /\ q \in Paths
    BY <1>1 DEF Listed
  <2>2. CASE q # p
    BY <1>1, <1>2, <1>4, <2>1, <2>2 DEF Promised, BeingMade
  <2>3. CASE q = p /\ p \in disk[v]
    BY <1>1, <2>3 DEF Promised
  <2>4. CASE q = p /\ p \notin disk[v]
    <3> DEFINE n == Len(chain[v][p]) + 1
    <3>1. chain[v][p] \in Seq(Task)
      BY DEF FilesInv, FilesTyped
    <3>2. chain'[v][p] = Append(chain[v][p], "create")
      BY <1>4, <2>4
    <3>3. n \in DOMAIN chain'[v][p] /\ chain'[v][p][n] = "create"
      BY <3>1, <3>2
    <3> QED BY <2>4, <3>3 DEF Promised, BeingMade
  <2> QED BY <2>2, <2>3, <2>4
<1> QED BY <1>1, <1>5, <1>6, SameLink

LEMMA BeginCreateKeepsFiles ==
    ASSUME FilesInv, NEW v \in Vaults, NEW p \in Paths, BeginCreate(v, p)
    PROVE  FilesInv'
<1> DEFINE s == <<"creating">> \o Tail(chain[v][p])
<1>1. UNCHANGED <<entry, disk, conn, reconciles, warming, sweep>>
  BY DEF BeginCreate, world, link
<1>2. chain[v][p] # << >> /\ chain' = [chain EXCEPT ![v][p] = s]
  BY DEF BeginCreate, FirstIs, Turn, FilesInv, FilesTyped
<1>3. s \in Seq(Task) /\ s[1] = "creating" /\ 1 \in DOMAIN s
  BY <1>2, Tasks DEF FilesInv, Task
<1> HIDE DEF s
<1>4. /\ chain' \in [Vaults -> [Paths -> Seq(Task)]]
      /\ \A w \in Vaults \ {v} : chain'[w] = chain[w]
      /\ \A q \in Paths : chain'[v][q] = IF q = p THEN s ELSE chain[v][q]
  BY <1>2, <1>3, OneChain DEF FilesInv
<1>5. FilesTyped' /\ Elsewhere(v)
  BY <1>1, <1>4 DEF FilesInv, FilesTyped, Elsewhere
<1>6. ASSUME NEW q \in Listed(entry'[v])
      PROVE  Promised(v, q)' \/ (q \in Listed(entry[v]) /\ ~Promised(v, q))
  <2>1. q \in Listed(entry[v]) /\ q \in Paths
    BY <1>1 DEF Listed
  <2>2. CASE q # p
    BY <1>1, <1>4, <2>1, <2>2 DEF Promised, BeingMade
  <2>3. CASE q = p
    BY <1>3, <1>4, <2>3 DEF Promised, BeingMade
  <2> QED BY <2>2, <2>3
<1> QED BY <1>1, <1>5, <1>6, SameLink

\* The file is there, and nothing but it comes to be listed.
LEMMA MakesPlaceholder ==
    ASSUME FilesInv, NEW v \in Vaults, NEW p \in Paths, MakePlaceholder(v, p)
    PROVE  /\ disk' \in [Vaults -> SUBSET Paths]
           /\ p \in disk'[v] /\ disk[v] \subseteq disk'[v]
           /\ entry' = [w \in Vaults |-> entry'[w]]
           /\ \A w \in Vaults \ {v} : disk'[w] = disk[w] /\ entry'[w] = entry[w]
           /\ Listed(entry'[v]) \subseteq Listed(entry[v]) \cup {p}
           /\ UNCHANGED <<conn, reconciles, warming>>
<1>1. disk' = [disk EXCEPT ![v] = @ \cup {p}] /\ UNCHANGED <<conn, reconciles, warming>>
  BY DEF MakePlaceholder
<1>2. /\ disk' \in [Vaults -> SUBSET Paths]
      /\ p \in disk'[v] /\ disk[v] \subseteq disk'[v]
      /\ \A w \in Vaults \ {v} : disk'[w] = disk[w]
  BY <1>1 DEF FilesInv, FilesTyped
<1>3. CASE p \in disk[v]
  <2>1. UNCHANGED entry
    BY <1>3 DEF MakePlaceholder
  <2> QED BY <1>1, <1>2, <2>1 DEF FilesInv, FilesTyped
<1>4. CASE p \notin disk[v]
  <2>1. PICK t : Transact(v, t) /\ (t = Sets(v, {p}) \/ t = {})
    BY <1>4 DEF MakePlaceholder, PlaceholderHandler
  <2>2. \A q \in Listed(Apply(entry[v], t)) : q = p \/ q \in Listed(entry[v])
    BY <2>1, ListedBy, SetsList
  <2>3. /\ entry' = [w \in Vaults |-> entry'[w]] /\ entry'[v] = Apply(entry[v], t)
        /\ \A w \in Vaults \ {v} : entry'[w] = entry[w]
    BY <2>1, Transacts DEF FilesInv
  <2> QED BY <1>1, <1>2, <2>2, <2>3
<1> QED BY <1>3, <1>4

LEMMA FinishCreateKeepsFiles ==
    ASSUME FilesInv, NEW v \in Vaults, NEW p \in Paths, FinishCreate(v, p)
    PROVE  FilesInv'
<1> DEFINE s == Tail(chain[v][p])
<1>1. MakePlaceholder(v, p) /\ UNCHANGED sweep
  BY DEF FinishCreate
<1>2. chain[v][p] # << >> /\ chain' = [chain EXCEPT ![v][p] = s]
  BY DEF FinishCreate, FirstIs, Finish, FilesInv, FilesTyped
<1>3. s \in Seq(Task)
  BY <1>2, Tasks DEF FilesInv, Task
<1> HIDE DEF s
<1>4. /\ chain' \in [Vaults -> [Paths -> Seq(Task)]]
      /\ \A w \in Vaults \ {v} : chain'[w] = chain[w]
      /\ \A q \in Paths : chain'[v][q] = IF q = p THEN s ELSE chain[v][q]
  BY <1>2, <1>3, OneChain DEF FilesInv
<1>5. FilesTyped' /\ Elsewhere(v)
  BY <1>1, <1>4, MakesPlaceholder DEF FilesInv, FilesTyped, Elsewhere
<1>6. ASSUME NEW q \in Listed(entry'[v])
      PROVE  Promised(v, q)' \/ (q \in Listed(entry[v]) /\ ~Promised(v, q))
  <2>1. q = p \/ (q \in Listed(entry[v]) /\ q \in Paths)
    BY <1>1, MakesPlaceholder DEF Listed
  <2>2. CASE q # p
    BY <1>1, <1>4, <2>1, <2>2, MakesPlaceholder DEF Promised, BeingMade
  <2>3. CASE q = p
    BY <1>1, <2>3, MakesPlaceholder DEF Promised
  <2> QED BY <2>2, <2>3
<1>7. UNCHANGED <<conn, reconciles>>
  BY <1>1, MakesPlaceholder
<1> QED BY <1>5, <1>6, <1>7, SameLink

LEMMA SweepOneKeepsFiles ==
    ASSUME FilesInv, NEW v \in Vaults, NEW p \in Paths, SweepOne(v, p)
    PROVE  FilesInv'
<1>1. MakePlaceholder(v, p) /\ UNCHANGED chain /\ sweep' = [sweep EXCEPT ![v] = @ \ {p}]
  BY DEF SweepOne
<1>2. /\ sweep' \in [Vaults -> SUBSET Paths] /\ sweep'[v] = sweep[v] \ {p}
      /\ \A w \in Vaults \ {v} : sweep'[w] = sweep[w]
  BY <1>1 DEF FilesInv, FilesTyped
<1>3. FilesTyped' /\ Elsewhere(v)
  BY <1>1, <1>2, MakesPlaceholder DEF FilesInv, FilesTyped, Elsewhere
<1>4. ASSUME NEW q \in Listed(entry'[v])
      PROVE  Promised(v, q)' \/ (q \in Listed(entry[v]) /\ ~Promised(v, q))
  <2>1. q = p \/ q \in Listed(entry[v])
    BY <1>1, MakesPlaceholder
  <2>2. CASE q # p
    BY <1>1, <1>2, <2>1, <2>2, MakesPlaceholder DEF Promised, BeingMade
  <2>3. CASE q = p
    BY <1>1, <2>3, MakesPlaceholder DEF Promised
  <2> QED BY <2>2, <2>3
<1>5. UNCHANGED <<conn, reconciles>>
  BY <1>1, MakesPlaceholder
<1> QED BY <1>3, <1>4, <1>5, SameLink

LEMMA BeginDeleteKeepsFiles ==
    ASSUME FilesInv, NEW v \in Vaults, NEW p \in Paths, BeginDelete(v, p)
    PROVE  FilesInv'
<1> DEFINE s == IF p \in disk[v] THEN <<"deleting">> \o Tail(chain[v][p]) ELSE Tail(chain[v][p])
<1>1. UNCHANGED <<entry, disk, conn, reconciles, warming, sweep>>
  BY DEF BeginDelete, world, link
<1>2. /\ chain[v][p] # << >> /\ Head(chain[v][p]) = "delete"
      /\ chain' = [chain EXCEPT ![v][p] = s]
  BY DEF BeginDelete, FirstIs, Turn, Finish, FilesInv, FilesTyped
<1>3. s \in Seq(Task)
  BY <1>2, Tasks DEF FilesInv, Task
<1>4. ASSUME NEW i \in DOMAIN chain[v][p], chain[v][p][i] \in {"create", "creating"}
      PROVE  \E j \in DOMAIN s : s[j] = chain[v][p][i]
  <2>1. chain[v][p] \in Seq(Task) /\ chain[v][p][i] # Head(chain[v][p]) /\ "deleting" \in Task
    BY <1>2, <1>4 DEF FilesInv, FilesTyped, Task
  <2> QED BY <2>1, Waits
<1> HIDE DEF s
<1>5. /\ chain' \in [Vaults -> [Paths -> Seq(Task)]]
      /\ \A w \in Vaults \ {v} : chain'[w] = chain[w]
      /\ \A q \in Paths : chain'[v][q] = IF q = p THEN s ELSE chain[v][q]
  BY <1>2, <1>3, OneChain DEF FilesInv
<1>6. FilesTyped' /\ Elsewhere(v)
  BY <1>1, <1>5 DEF FilesInv, FilesTyped, Elsewhere
<1>7. ASSUME NEW q \in Listed(entry'[v])
      PROVE  Promised(v, q)' \/ (q \in Listed(entry[v]) /\ ~Promised(v, q))
  <2>1. q \in Listed(entry[v]) /\ q \in Paths
    BY <1>1 DEF Listed
  <2>2. CASE q # p
    BY <1>1, <1>5, <2>1, <2>2 DEF Promised, BeingMade
  <2>3. CASE q = p
    BY <1>1, <1>4, <1>5, <2>1, <2>3 DEF Promised, BeingMade
  <2> QED BY <2>2, <2>3
<1> QED BY <1>1, <1>6, <1>7, SameLink

\* A file that is trashed is unlisted by the event of its going.
LEMMA FinishDeleteKeepsFiles ==
    ASSUME Inv, FilesInv, NEW v \in Vaults, NEW p \in Paths, FinishDelete(v, p)
    PROVE  FilesInv'
<1> DEFINE s == Tail(chain[v][p])
<1>1. UNCHANGED <<conn, reconciles, warming, sweep>>
  BY DEF FinishDelete, link
<1>2. /\ chain[v][p] # << >> /\ Head(chain[v][p]) = "deleting"
      /\ chain' = [chain EXCEPT ![v][p] = s]
  BY DEF FinishDelete, FirstIs, Finish, FilesInv, FilesTyped
<1>3. s \in Seq(Task)
  BY <1>2, Tasks DEF FilesInv, Task
<1>4. ASSUME NEW i \in DOMAIN chain[v][p], chain[v][p][i] \in {"create", "creating"}
      PROVE  \E j \in DOMAIN s : s[j] = chain[v][p][i]
  <2>1. chain[v][p] \in Seq(Task) /\ chain[v][p][i] # Head(chain[v][p]) /\ "deleting" \in Task
    BY <1>2, <1>4 DEF FilesInv, FilesTyped, Task
  <2> QED BY <2>1, Waits
<1> HIDE DEF s
<1>5. /\ chain' \in [Vaults -> [Paths -> Seq(Task)]]
      /\ \A w \in Vaults \ {v} : chain'[w] = chain[w]
      /\ \A q \in Paths : chain'[v][q] = IF q = p THEN s ELSE chain[v][q]
  BY <1>2, <1>3, OneChain DEF FilesInv
<1>6. /\ disk' \in [Vaults -> SUBSET Paths] /\ disk'[v] = disk[v] \ {p}
      /\ \A w \in Vaults \ {v} : disk'[w] = disk[w]
  BY DEF FinishDelete, FilesInv, FilesTyped
<1>7. /\ entry' = [w \in Vaults |-> entry'[w]]
      /\ \A w \in Vaults \ {v} : entry'[w] = entry[w]
      /\ Open(v) => Listed(entry'[v]) \subseteq Listed(entry[v]) \ (disk[v] \cap {p})
  <2>1. CASE p \in disk[v]
    <3>1. PICK t : Transact(v, t) /\ t = IF HearsOf(v) THEN Deletes(v, {p}) ELSE {}
      BY <2>1 DEF FinishDelete, DeleteHandler
    <3>2. /\ entry' = [w \in Vaults |-> entry'[w]] /\ entry'[v] = Apply(entry[v], t)
          /\ \A w \in Vaults \ {v} : entry'[w] = entry[w]
      BY <3>1, Transacts DEF FilesInv
    <3>3. Open(v) => /\ p \notin Listed(entry'[v])
                     /\ Listed(entry'[v]) \subseteq Listed(entry[v])
      BY <3>1, <3>2, OpenIsWatched, DeletesUnlist
    <3> QED BY <3>2, <3>3
  <2>2. CASE p \notin disk[v]
    BY <2>2 DEF FinishDelete, FilesInv, FilesTyped
  <2> QED BY <2>1, <2>2
<1>8. FilesTyped' /\ Elsewhere(v)
  BY <1>1, <1>5, <1>6, <1>7 DEF FilesInv, FilesTyped, Elsewhere
<1>9. ASSUME Open(v), NEW q \in Listed(entry'[v])
      PROVE  Promised(v, q)' \/ (q \in Listed(entry[v]) /\ ~Promised(v, q))
  <2>1. q \in Listed(entry[v]) /\ q \in Paths /\ (q = p => p \notin disk[v])
    BY <1>7, <1>9 DEF Listed
  <2>2. CASE q # p
    BY <1>1, <1>5, <1>6, <2>1, <2>2 DEF Promised, BeingMade
  <2>3. CASE q = p
    BY <1>1, <1>4, <1>5, <2>1, <2>3 DEF Promised, BeingMade
  <2> QED BY <2>2, <2>3
<1> QED BY <1>1, <1>8, <1>9, SameLink

LEMMA ExpireMarkerKeepsFiles ==
    ASSUME FilesInv, NEW v \in Vaults, NEW p \in Paths, ExpireMarker(v, p)
    PROVE  FilesInv'
<1>1. UNCHANGED <<entry, disk, conn, reconciles, chain, warming, sweep>>
  BY DEF ExpireMarker, world, link
<1> QED BY <1>1 DEF FilesInv, FilesTyped, Covered, Promised, BeingMade, Open, Listed

LEMMA SyncedKeepsFiles ==
    ASSUME FilesInv, NEW v \in Vaults, Synced(v)
    PROVE  FilesInv'
<1> DEFINE begun == {[r EXCEPT !.at = "warming"] : r \in reconciles[v]}
<1>1. /\ reconciles' = [reconciles EXCEPT ![v] = begun]
      /\ UNCHANGED <<entry, disk, conn, chain, warming, sweep>>
  BY DEF Synced, world, work
<1>2. reconciles[v] \subseteq Call
  BY DEF FilesInv, FilesTyped
<1>3. /\ begun \subseteq Call
      /\ \A r \in reconciles[v] : \E b \in begun : b.dead = r.dead
  <2>1. ASSUME NEW r \in reconciles[v]
        PROVE  LET b == [r EXCEPT !.at = "warming"] IN b \in Call /\ b.dead = r.dead
    BY <1>2 DEF Call
  <2> QED BY <2>1
<1> HIDE DEF begun
<1>4. /\ reconciles' \in [Vaults -> SUBSET Call] /\ reconciles'[v] = begun
      /\ \A w \in Vaults \ {v} : reconciles'[w] = reconciles[w]
  BY <1>1, <1>3 DEF FilesInv, FilesTyped
<1>5. FilesTyped' /\ Elsewhere(v)
  BY <1>1, <1>4 DEF FilesInv, FilesTyped, Elsewhere
<1>6. (\A r \in reconciles'[v] : r.dead) => \A r \in reconciles[v] : r.dead
  BY <1>3, <1>4
<1>7. \A p \in Listed(entry'[v]) : Promised(v, p)' \/ (p \in Listed(entry[v]) /\ ~Promised(v, p))
  BY <1>1 DEF Promised, BeingMade
<1> QED BY <1>1, <1>5, <1>6, <1>7, PromisesKept DEF Open

\* The first reconcile of the connection makes what is listed; one of a
\* connection that is gone makes what was, and lists nothing.
LEMMA ReconciledKeepsFiles ==
    ASSUME FilesInv, NEW v \in Vaults, NEW r \in reconciles[v], Reconciled(v, r)
    PROVE  FilesInv'
<1> DEFINE listed == IF r.dead THEN r.had ELSE Listed(entry[v])
           missing == listed \ disk[v]
           t == IF r.dead THEN {} ELSE Sets(v, disk[v] \ Listed(entry[v]))
<1>1. /\ reconciles' = [reconciles EXCEPT ![v] = @ \ {r}]
      /\ Transact(v, t)
      /\ sweep' = [sweep EXCEPT ![v] = @ \cup missing]
      /\ UNCHANGED <<disk, conn, chain, warming>>
  BY DEF Reconciled, ReconcileTransaction
<1>2. missing \subseteq Paths
  <2>1. r \in Call
    BY DEF FilesInv, FilesTyped
  <2> QED BY <2>1 DEF Call, Listed
<1>3. /\ ~r.dead => Listed(entry[v]) \subseteq missing \cup disk[v]
      /\ \A p \in Listed(Apply(entry[v], t)) : p \in Listed(entry[v]) \/ (~r.dead /\ p \in disk[v])
  <2>1. ~r.dead => Listed(entry[v]) \subseteq missing \cup disk[v]
    OBVIOUS
  <2>2. ASSUME NEW p \in Listed(Apply(entry[v], t))
        PROVE  p \in Listed(entry[v]) \/ (~r.dead /\ p \in disk[v])
    <3>1. CASE r.dead
      <4>1. t = {}
        BY <3>1
      <4> HIDE DEF t
      <4> QED BY <4>1, ListedBy
    <3>2. CASE ~r.dead
      <4>1. t = Sets(v, disk[v] \ Listed(entry[v]))
        BY <3>2
      <4> HIDE DEF t
      <4> QED BY <3>2, <4>1, SetsList
    <3> QED BY <3>1, <3>2
  <2> QED BY <2>1, <2>2
<1> HIDE DEF listed, missing, t
<1>4. /\ entry' = [w \in Vaults |-> entry'[w]] /\ entry'[v] = Apply(entry[v], t)
      /\ \A w \in Vaults \ {v} : entry'[w] = entry[w]
  BY <1>1, Transacts DEF FilesInv
<1>5. /\ reconciles' \in [Vaults -> SUBSET Call] /\ reconciles'[v] = reconciles[v] \ {r}
      /\ \A w \in Vaults \ {v} : reconciles'[w] = reconciles[w]
  BY <1>1 DEF FilesInv, FilesTyped
<1>6. /\ sweep' \in [Vaults -> SUBSET Paths] /\ sweep'[v] = sweep[v] \cup missing
      /\ \A w \in Vaults \ {v} : sweep'[w] = sweep[w]
  BY <1>1, <1>2 DEF FilesInv, FilesTyped
<1>7. FilesTyped' /\ Elsewhere(v)
  BY <1>1, <1>4, <1>5, <1>6 DEF FilesInv, FilesTyped, Elsewhere
<1>8. \A p : Promised(v, p) => Promised(v, p)'
  BY <1>1, <1>6 DEF Promised, BeingMade
<1>9. CASE r.dead
  <2>1. (\A c \in reconciles'[v] : c.dead) => \A c \in reconciles[v] : c.dead
    BY <1>5, <1>9
  <2>2. ASSUME NEW p \in Listed(entry'[v])
        PROVE  Promised(v, p)' \/ (p \in Listed(entry[v]) /\ ~Promised(v, p))
    BY <1>3, <1>4, <1>8, <1>9
  <2>3. Open(v)' => Open(v)
    BY <1>1 DEF Open
  <2> QED BY <1>7, <2>1, <2>2, <2>3, PromisesKept
<1>10. CASE ~r.dead
  <2>1. ASSUME NEW p \in Listed(entry'[v])
        PROVE  Promised(v, p)'
    BY <1>1, <1>3, <1>4, <1>6, <1>10 DEF Promised, BeingMade
  <2>2. Covered(v)'
    BY <2>1 DEF Covered, Listed
  <2> QED BY <1>7, <2>2, OneVault
<1> QED BY <1>9, <1>10

\* A connection that comes or goes: no file moves.
LEMMA ClosedOwesNothing ==
    ASSUME Inv, FilesInv, NEW v \in Vaults, NEW c, conn' = [conn EXCEPT ![v] = c],
           c.recorded = 0 \/ (c.recorded = conn[v].recorded /\ UNCHANGED reconciles),
           FilesTyped', UNCHANGED <<entry, disk>>,
           \A w \in Vaults \ {v} : reconciles'[w] = reconciles[w],
           c.recorded # 0 => UNCHANGED <<chain, warming, sweep>>,
           \A w \in Vaults \ {v} : /\ chain'[w] = chain[w] /\ warming'[w] = warming[w]
                                   /\ sweep'[w] = sweep[w]
    PROVE  FilesInv'
<1>1. conn'[v] = c /\ \A w \in Vaults \ {v} : conn'[w] = conn[w]
  BY DEF Inv
<1>2. Elsewhere(v)
  BY <1>1 DEF Elsewhere
<1>3. CASE c.recorded = 0
  <2>1. Covered(v)'
    BY <1>1, <1>3 DEF Covered, Open
  <2> QED BY <1>2, <2>1, OneVault
<1>4. CASE c.recorded # 0
  <2>1. Covered(v)'
    BY <1>1, <1>4 DEF FilesInv, Covered, Promised, BeingMade, Open, Listed
  <2> QED BY <1>2, <2>1, OneVault
<1> QED BY <1>3, <1>4

LEMMA LeftBehind ==
    ASSUME FilesTyped, NEW v \in Vaults, reconciles' = LeaveBehind(v)
    PROVE  /\ reconciles' \in [Vaults -> SUBSET Call]
           /\ \A w \in Vaults \ {v} : reconciles'[w] = reconciles[w]
<1> DEFINE left == {IF r.dead THEN r
                    ELSE [r EXCEPT !.dead = TRUE, !.had = Listed(entry[v])] : r \in reconciles[v]}
<1>1. reconciles[v] \subseteq Call /\ Listed(entry[v]) \in SUBSET Paths
  BY DEF FilesTyped, Listed
<1>2. ASSUME NEW r \in Call
      PROVE  [r EXCEPT !.dead = TRUE, !.had = Listed(entry[v])] \in Call
  BY <1>1 DEF Call
<1>3. left \subseteq Call
  BY <1>1, <1>2
<1>4. reconciles' = [reconciles EXCEPT ![v] = left]
  BY DEF LeaveBehind, FilesTyped
<1> HIDE DEF left
<1> QED BY <1>3, <1>4 DEF FilesTyped

\* What the operators of the connection do with the listing it holds.
LEMMA ConnectKeepsListing ==
    ASSUME NEW c \in Record
    PROVE  /\ ConnectFolder(c).recorded = c.recorded
           /\ DisconnectFolder(c).recorded = 0
BY DEF ConnectFolder, DisconnectFolder, Record

LEMMA RetryKeepsListing ==
    ASSUME NEW c \in Record
    PROVE  RetryUnplaced(c).recorded = c.recorded
<1> DEFINE d == [c EXCEPT !.unplaced = FALSE]
<1>1. d \in Record /\ d.recorded = c.recorded
  BY DEF Record
<1>2. RetryUnplaced(c) = c \/ RetryUnplaced(c) = ConnectFolder(d)
  BY DEF RetryUnplaced
<1> HIDE DEF d
<1> QED BY <1>1, <1>2, ConnectKeepsListing

LEMMA ConnectionKeepsFiles ==
    ASSUME Inv, FilesInv, NEW v \in Vaults, Connection(v)
    PROVE  FilesInv'
<1> DEFINE c == conn[v]
<1>1. c \in Record /\ Sound(c)
  BY DEF Inv, Right
<1>2. CASE Start(v)
  <2> DEFINE d == [c EXCEPT !.wanted = TRUE]
  <2>1. /\ conn' = [conn EXCEPT ![v] = ConnectFolder(d)]
        /\ UNCHANGED <<entry, disk, reconciles, chain, warming, sweep>>
    BY <1>2 DEF Start, world, work
  <2>2. d \in Record /\ d.recorded = c.recorded
    BY <1>1 DEF Record
  <2> HIDE DEF d
  <2>3. ConnectFolder(d).recorded = c.recorded
    BY <2>2, ConnectKeepsListing
  <2>4. FilesTyped'
    BY <2>1 DEF FilesInv, FilesTyped
  <2> QED BY <2>1, <2>3, <2>4, ClosedOwesNothing
<1>3. CASE Remap(v)
  <2>1. /\ conn' = [conn EXCEPT ![v] = ConnectFolder(Refreshed(c))]
        /\ reconciles' = LeaveBehind(v)
        /\ UNCHANGED <<entry, disk, chain, warming, sweep>>
    BY <1>3 DEF Remap, world, work
  <2>2. Refreshed(c) \in Record /\ Refreshed(c).recorded = 0
    BY <1>1, Refreshes DEF Sound, Holds
  <2>3. ConnectFolder(Refreshed(c)).recorded = 0
    BY <2>2, ConnectKeepsListing
  <2>4. FilesTyped' /\ \A w \in Vaults \ {v} : reconciles'[w] = reconciles[w]
    BY <2>1, LeftBehind DEF FilesInv, FilesTyped
  <2> QED BY <2>1, <2>3, <2>4, ClosedOwesNothing
<1>4. CASE Unmap(v)
  <2> DEFINE d == [Refreshed(c) EXCEPT !.mapped = FALSE, !.wanted = FALSE]
  <2>1. /\ conn' = [conn EXCEPT ![v] = d]
        /\ reconciles' = LeaveBehind(v)
        /\ UNCHANGED <<entry, disk, chain, warming, sweep>>
    BY <1>4 DEF Unmap, world, work
  <2>2. Refreshed(c) \in Record /\ Refreshed(c).recorded = 0
    BY <1>1, Refreshes DEF Sound, Holds
  <2>3. d.recorded = 0
    BY <2>2 DEF Record
  <2> HIDE DEF d
  <2>4. FilesTyped' /\ \A w \in Vaults \ {v} : reconciles'[w] = reconciles[w]
    BY <2>1, LeftBehind DEF FilesInv, FilesTyped
  <2> QED BY <2>1, <2>3, <2>4, ClosedOwesNothing
<1>5. CASE FolderGone(v)
  <2> DEFINE d == [DisconnectFolder(c) EXCEPT !.wanted = FALSE]
  <2>1. /\ conn' = [conn EXCEPT ![v] = d]
        /\ reconciles' = LeaveBehind(v)
        /\ UNCHANGED <<entry, disk, chain, warming, sweep>>
    BY <1>5 DEF FolderGone, world, work
  <2>2. DisconnectFolder(c) \in Record /\ DisconnectFolder(c).recorded = 0
    BY <1>1, Disconnects DEF Sound, Holds
  <2>3. d.recorded = 0
    BY <2>2 DEF Record
  <2> HIDE DEF d
  <2>4. FilesTyped' /\ \A w \in Vaults \ {v} : reconciles'[w] = reconciles[w]
    BY <2>1, LeftBehind DEF FilesInv, FilesTyped
  <2> QED BY <2>1, <2>3, <2>4, ClosedOwesNothing
<1>6. CASE RouteOpens(v)
  <2> DEFINE d == [c EXCEPT !.routed = TRUE]
  <2>1. /\ conn' = [conn EXCEPT ![v] = RetryUnplaced(d)]
        /\ UNCHANGED <<entry, disk, reconciles, chain, warming, sweep>>
    BY <1>6 DEF RouteOpens, world, work
  <2>2. d \in Record /\ d.recorded = c.recorded
    BY <1>1 DEF Record
  <2> HIDE DEF d
  <2>3. RetryUnplaced(d).recorded = c.recorded
    BY <2>2, RetryKeepsListing
  <2>4. FilesTyped'
    BY <2>1 DEF FilesInv, FilesTyped
  <2> QED BY <2>1, <2>3, <2>4, ClosedOwesNothing
<1>7. CASE Exit(v)
  <2>1. PICK d : d.recorded = 0 /\ conn' = [conn EXCEPT ![v] = d]
    <3> DEFINE d == [mapped |-> c.mapped, wanted |-> FALSE, connecting |-> 0, flights |-> {},
                     recorded |-> 0, subscribed |-> 0, unplaced |-> FALSE,
                     routed |-> c.routed, made |-> c.made]
    <3>1. conn' = [conn EXCEPT ![v] = d] /\ d.recorded = 0
      BY <1>7 DEF Exit
    <3> HIDE DEF d
    <3> QED BY <3>1
  <2>2. /\ UNCHANGED <<entry, disk>>
        /\ reconciles' = [reconciles EXCEPT ![v] = {}]
        /\ chain' = [chain EXCEPT ![v] = [p \in Paths |-> << >>]]
        /\ warming' = [warming EXCEPT ![v] = [p \in Paths |-> 0]]
        /\ sweep' = [sweep EXCEPT ![v] = {}]
    BY <1>7 DEF Exit, world
  <2>3. [p \in Paths |-> << >>] \in [Paths -> Seq(Task)] /\ [p \in Paths |-> 0] \in [Paths -> Nat]
    OBVIOUS
  <2>4. FilesTyped'
    BY <2>2, <2>3 DEF FilesInv, FilesTyped
  <2>5. \A w \in Vaults \ {v} : /\ reconciles'[w] = reconciles[w] /\ chain'[w] = chain[w]
                                /\ warming'[w] = warming[w] /\ sweep'[w] = sweep[w]
    BY <2>2 DEF FilesInv, FilesTyped
  <2> QED BY <2>1, <2>2, <2>4, <2>5, ClosedOwesNothing
<1>8. ASSUME NEW f \in c.flights, Derived(v, f) \/ LoadedLate(v, f) \/ LoadedUnrouted(v, f)
      PROVE  FilesInv'
  <2>1. PICK d : d.recorded = c.recorded /\ conn' = [conn EXCEPT ![v] = d]
    <3>1. CASE Derived(v, f)
      <4> DEFINE s == (c.flights \ {f}) \cup IF c.connecting = f.of
                                             THEN {[f EXCEPT !.at = "loading"]} ELSE {}
                 d == [c EXCEPT !.flights = s]
      <4>1. conn' = [conn EXCEPT ![v] = d]
        BY <3>1, <1>1 DEF Derived, Inv, Record
      <4> HIDE DEF s
      <4>2. d.recorded = c.recorded
        BY <1>1 DEF Record
      <4> QED BY <4>1, <4>2
    <3>2. CASE LoadedLate(v, f)
      <4> DEFINE d == [c EXCEPT !.flights = @ \ {f}]
      <4>1. conn' = [conn EXCEPT ![v] = d]
        BY <3>2, <1>1 DEF LoadedLate, Inv, Record
      <4>2. d.recorded = c.recorded
        BY <1>1 DEF Record
      <4> QED BY <4>1, <4>2
    <3>3. CASE LoadedUnrouted(v, f)
      <4> DEFINE d == [c EXCEPT !.flights = @ \ {f}, !.connecting = 0, !.unplaced = TRUE]
      <4>1. conn' = [conn EXCEPT ![v] = d]
        BY <3>3, <1>1 DEF LoadedUnrouted, Inv, Record
      <4>2. d.recorded = c.recorded
        BY <1>1 DEF Record
      <4> QED BY <4>1, <4>2
    <3> QED BY <1>8, <3>1, <3>2, <3>3
  <2>2. UNCHANGED <<entry, disk, reconciles, chain, warming, sweep>>
    BY <1>8 DEF Derived, LoadedLate, LoadedUnrouted, world, work
  <2>3. FilesTyped'
    BY <2>2 DEF FilesInv, FilesTyped
  <2> QED BY <2>1, <2>2, <2>3, ClosedOwesNothing
<1>9. ASSUME NEW f \in c.flights, Loaded(v, f) PROVE FilesInv'
  <2> DEFINE call == [of |-> f.of, at |-> "waiting", dead |-> FALSE, had |-> {}]
  <2>1. /\ Transact(v, Sets(v, Replayed(v)))
        /\ reconciles' = [reconciles EXCEPT ![v] = @ \cup {call}]
        /\ UNCHANGED <<disk, chain, warming, sweep>>
    BY <1>9 DEF Loaded, work
  <2>2. call \in Call /\ ~call.dead
    BY <1>1 DEF Call, Record, Flight
  <2> HIDE DEF call
  <2>3. /\ reconciles' \in [Vaults -> SUBSET Call] /\ call \in reconciles'[v]
        /\ \A w \in Vaults \ {v} : reconciles'[w] = reconciles[w]
    BY <2>1, <2>2 DEF FilesInv, FilesTyped
  <2>4. FilesTyped'
    BY <2>1, <2>3, Transacts DEF FilesInv, FilesTyped
  <2>5. \A w \in Vaults \ {v} : entry'[w] = entry[w] /\ conn'[w] = conn[w]
    <3>1. \A w \in Vaults \ {v} : conn'[w] = conn[w]
      BY <1>9 DEF Loaded, Inv
    <3> QED BY <2>1, <3>1, Transacts DEF FilesInv
  <2>6. Elsewhere(v)
    BY <2>1, <2>3, <2>5 DEF Elsewhere
  <2>7. Covered(v)'
    BY <2>2, <2>3 DEF Covered
  <2> QED BY <2>4, <2>6, <2>7, OneVault
<1> QED BY <1>2, <1>3, <1>4, <1>5, <1>6, <1>7, <1>8, <1>9 DEF Connection

LEMMA InitFilesInv == Init => FilesInv
<1> SUFFICES ASSUME Init PROVE FilesInv
  OBVIOUS
<1>1. /\ entry = [v \in Vaults |-> [p \in Paths |-> [at |-> << >>, live |-> FALSE]]]
      /\ disk = [v \in Vaults |-> {}] /\ reconciles = [v \in Vaults |-> {}]
      /\ chain = [v \in Vaults |-> [p \in Paths |-> << >>]]
      /\ warming = [v \in Vaults |-> [p \in Paths |-> 0]]
      /\ sweep = [v \in Vaults |-> {}]
      /\ \A v \in Vaults : conn[v].recorded = 0
  BY DEF Init
<1>2. FilesTyped
  BY <1>1 DEF FilesTyped
<1> QED BY <1>1, <1>2 DEF FilesInv, Covered, Open

LEMMA FilesInvNext == Inv /\ FilesInv /\ [Next]_vars => FilesInv'
<1> SUFFICES ASSUME Inv, FilesInv, [Next]_vars PROVE FilesInv'
  OBVIOUS
<1>1. CASE UNCHANGED vars
  <2>1. UNCHANGED <<entry, disk, conn, reconciles, chain, warming, sweep>>
    BY <1>1 DEF vars, world, link, work
  <2> QED BY <2>1 DEF FilesInv, FilesTyped, Covered, Promised, BeingMade, Open, Listed
<1>2. ASSUME NEW v \in Vaults, User(v) \/ Connection(v) \/ Listing(v) \/ Files(v)
      PROVE  FilesInv'
  <2>1. CASE Listing(v)
    BY <2>1, ReceiveKeepsFiles, ReceiveRenameKeepsFiles, SyncedKeepsFiles, ReconciledKeepsFiles
       DEF Listing
  <2>2. CASE Files(v)
    BY <2>2, ApplyAdditionKeepsFiles, SweepOneKeepsFiles, ExpireMarkerKeepsFiles,
       BeginCreateKeepsFiles, FinishCreateKeepsFiles, BeginDeleteKeepsFiles,
       FinishDeleteKeepsFiles DEF Files
  <2> QED BY <1>2, <2>1, <2>2, UserKeepsFiles, ConnectionKeepsFiles
<1> QED BY <1>1, <1>2 DEF Next

LEMMA FilesInvAlways == Spec => []FilesInv
BY InitInv, InvNext, InitFilesInv, FilesInvNext, PTL DEF Spec

-----------------------------------------------------------------------------
(* The results. *)

\* A folder that sync wants is connected, being connected or waiting for a
\* route, and one it let go of is none of these, for any vaults and changes:
\* no connect and no retry outlives a disconnect (disconnectFolder,
\* retryUnplaced, refreshSync).
THEOREM WantedStaysHeld == Spec => []WantedIsHeld
<1>1. Inv => WantedIsHeld
  BY DEF Inv, Right, Holds, WantedIsHeld
<1> QED BY <1>1, InvAlways, PTL

\* The listing a vault changes is the one its provider follows, whatever
\* connects and disconnects overlap (connectFolder, startProvider).
THEOREM OneListingAlways == Spec => []OneListing
<1>1. Inv => OneListing
  BY DEF Inv, Right, Sound, OneListing
<1> QED BY <1>1, InvAlways, PTL

\* What a vault calls a connect in progress has a step to come: it never
\* waits for a connect that is gone (connectFolder, disconnectFolder).
THEOREM ConnectsAreUnderWay == Spec => []ConnectIsUnderWay
<1>1. Inv => ConnectIsUnderWay
  BY DEF Inv, Right, Sound, Numbered, ConnectIsUnderWay
<1> QED BY <1>1, InvAlways, PTL

\* Once a vault has nothing left to do, every note the folder lists is on its
\* disk: for any vaults and names, in whatever order creations, deletions,
\* renames, remaps, closes and first reconciles of it came (applyAdditions,
\* initialSync, completeRemoteDeletion, handleDelete).
THEOREM ListedArrives == Spec => []ListedIsOnDisk
<1>1. Inv /\ FilesInv => ListedIsOnDisk
  <2> SUFFICES ASSUME FilesInv, NEW v \in Vaults, Settled(v), NEW p \in Listed(entry[v])
               PROVE  p \in disk[v]
    BY DEF ListedIsOnDisk
  <2>1. p \in Paths /\ Promised(v, p)
    BY DEF FilesInv, Covered, Settled, Listed
  <2>2. ~BeingMade(v, p)
    BY <2>1 DEF Settled, BeingMade
  <2> QED BY <2>1, <2>2 DEF Promised
<1> QED BY <1>1, InvAlways, FilesInvAlways, PTL
=============================================================================
