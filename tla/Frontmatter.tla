----------------------------- MODULE Frontmatter -----------------------------
(***************************************************************************)
(* frontmatter-sync.ts: the properties of one note in several vaults.  The *)
(* text holds the file; a map of the document decides what the properties  *)
(* are.  A local edit is captured into the map, a remote one is reconciled: *)
(* what older clients, which know no map, changed in the text is adopted,   *)
(* and for the rest the text is rewritten to say what the map says.         *)
(*                                                                          *)
(* Every edit writes a value of its own, its number.  The server is a log   *)
(* of updates that every vault reads in order.                              *)
(***************************************************************************)
EXTENDS YText, FrontmatterBlock, YMap

CONSTANTS
    Vaults,     \* clients that write the map, natural numbers
    Older,      \* clients that only write the text, natural numbers
    Keys,       \* properties, natural numbers
    Leaving,    \* the vaults that may lose their connection once
    Restarting, \* the vaults that may restart once
    MaxEdits,   \* edits made by people
    MaxRemovals, \* of those, removals
    MaxLog      \* updates sent

ASSUME FrontmatterAssumption ==
    /\ Vaults \cup Older \subseteq 1..9 /\ Vaults \cap Older = {}
    /\ Leaving \cup Restarting \subseteq Vaults
    /\ Keys \subseteq Nat /\ {MaxEdits, MaxRemovals, MaxLog} \subseteq Nat

VARIABLES
    text,     \* client -> its replica of Y.Text('content')
    map,      \* client -> its replica of Y.Map('frontmatter')
    wrote,    \* client -> whether its replica of the meta map has a version
    fm,       \* vault -> its FrontmatterSync
    stored,   \* vault -> the ids it has recorded in IndexedDB
    session,  \* vault -> its launches of the app
    link,     \* vault -> "synced", "offline" or "catching"
    outbox,   \* vault -> what the server has yet to get from it
    log,      \* the updates the server has, with who sent them
    at,       \* client -> how much of the log it has read
    hashes,   \* the signatures projections were made under, first one first
    edits,    \* the clients that made the edits so far, one for each
    kept,     \* vault -> the values its copies and backups hold
    \* what people did, read by no action:
    over,     \* the values somebody replaced or removed having seen them
    gone      \* for each removal, the property

docs == <<text, map, wrote>>
vars == <<text, map, wrote, fm, stored, session, link, outbox, log, at, hashes, edits, kept, over, gone>>
Clients == Vaults \cup Older

----------------------------------------------------------------------------
\* The document.

Blank == Unset(<< >>)
Item(m, name) == IF name \in DOMAIN m THEN m[name] ELSE Blank
Entries(m) == [name \in {n \in DOMAIN m : m[n].live} |-> m[name].value]
WithItem(m, name, item) == [n \in DOMAIN m \cup {name} |-> IF n = name THEN item ELSE m[n]]

Said(t) == LET shown == Shown(t) IN [i \in DOMAIN shown |-> shown[i].says]

NoUpdate == [ins |-> << >>, del |-> {}, sets |-> << >>, wrote |-> FALSE]
Together(a, b) == [ins |-> a.ins \o b.ins, del |-> a.del \cup b.del, sets |-> a.sets \o b.sets,
                   wrote |-> a.wrote \/ b.wrote]

MapAfter(m, sets) ==
    FoldLeft(LAMBDA acc, c : WithItem(acc, c.path, Integrate(Item(acc, c.path), c)), m, sets)

\* The edit turning a text into what `next` says, as one replaced run of what
\* is shown.
OneHunk(t, next) ==
    LET now == Said(t)
        room == IF Len(now) < Len(next) THEN Len(now) ELSE Len(next)
        start == Max({n \in 0..room : \A i \in 1..n : now[i] = next[i]})
        end == Max({n \in 0..room - start :
                       \A i \in 0..n - 1 : now[Len(now) - i] = next[Len(next) - i]})
    IN [start |-> start, insert |-> SubSeq(next, start + 1, Len(next) - end),
        removed |-> {Shown(t)[i].id : i \in start + 1..Len(now) - end},
        left |-> IF start = 0 THEN Nowhere ELSE Shown(t)[start].id,
        right |-> IF end = 0 THEN Nowhere ELSE Shown(t)[Len(now) - end + 1].id]

Rewriting(t, client, next) ==
    LET hunk == OneHunk(t, next)
        cut == TextAfter(t, << >>, hunk.removed)
    IN [NoUpdate EXCEPT !.del = hunk.removed,
                        !.ins = Typed(cut, client, hunk.start, hunk.insert)]

\* The identity an edit gets in any vault: a hash of the edit, salted while
\* the document has an item of that identity.  `known` numbers the hashes.
Signature(t, next, salt) ==
    LET hunk == OneHunk(t, next) IN <<hunk.left, hunk.removed, hunk.right, hunk.insert, salt>>
Hashed(known, signature) ==
    IF \E n \in DOMAIN known : known[n] = signature THEN known ELSE Append(known, signature)
Hash(known, signature) ==
    100 + (CHOOSE n \in DOMAIN Hashed(known, signature) : Hashed(known, signature)[n] = signature)
Salt(t, known, next) ==
    CHOOSE salt \in 0..MaxEdits + 2 :
        /\ Made(t, Hash(known, Signature(t, next, salt))) = 0
        /\ \A less \in 0..salt - 1 : Made(t, Hash(known, Signature(t, next, less))) > 0
DerivedSignature(t, known, next) == Signature(t, next, Salt(t, known, next))

----------------------------------------------------------------------------
\* One vault's FrontmatterSync and its document, as its operations change them:
\* text, map, wrote, fm, the update to send, the hashes made, what is kept.

Known(values) == [known |-> TRUE, values |-> values]
Attached(ours) ==
    [touched |-> {}, agreed |-> NoValues, last |-> [known |-> FALSE, values |-> NoValues],
     closing |-> Nowhere, projectionArrived |-> FALSE, mapWriterActed |-> FALSE,
     ours |-> ours, history |-> "loading", pending |-> << >>]

Same(values, m, name) == name \in DOMAIN Entries(m) /\ values[name] = Entries(m)[name]

RememberClosing(s, reading) ==
    IF reading.kind = "read"
    THEN [s EXCEPT !.fm.closing = Shown(s.text)[reading.to].id] ELSE s

KnownClosingAt(s) ==
    LET shown == Shown(s.text)
        i == {n \in DOMAIN shown : shown[n].id = s.fm.closing}
    IN IF i = {} THEN 0 ELSE CHOOSE n \in i : TRUE

\* Remember what the text says now and where text and map agree.
Rebase(s) ==
    LET reading == ReadFrontmatter(Said(s.text))
        values == ValuesOf(reading)
        same == {name \in DOMAIN values : Same(values, s.map, name)}
        remembered == RememberClosing(s, reading)
    IN IF ~Reads(reading) THEN remembered
       ELSE [remembered EXCEPT
                !.fm.last = Known(values),
                !.fm.agreed = [name \in DOMAIN @ \cup same |->
                                  IF name \in same THEN values[name] ELSE @[name]]]

\* Map writes of this vault, sent like local work.
WriteMap(s, client, set, removed) ==
    LET names == SetToSeq(DOMAIN set)
        goes == SetToSeq(removed)
        sets == [i \in DOMAIN names |->
                    [path |-> names[i], at |-> Append(Item(s.map, names[i]).at, client),
                     live |-> TRUE, value |-> set[names[i]]]]
                \o [i \in DOMAIN goes |->
                    [path |-> goes[i], at |-> Item(s.map, goes[i]).at, live |-> FALSE,
                     value |-> Item(s.map, goes[i]).value]]
    IN [s EXCEPT
           !.map = MapAfter(@, sets), !.wrote = TRUE,
           !.out = Together(@, [NoUpdate EXCEPT !.sets = sets, !.wrote = TRUE]),
           !.fm.agreed = [name \in (DOMAIN @ \cup DOMAIN set) \ removed |->
                             IF name \in DOMAIN set THEN set[name] ELSE @[name]],
           !.fm.ours = @ \cup {client}]

\* The capture of a local edit: what changed in the text goes to the map.
Capture(s, client) ==
    LET reading == ReadFrontmatter(Said(s.text))
        values == ValuesOf(reading)
        before == IF s.fm.last.known THEN s.fm.last.values ELSE Entries(s.map)
        set == {name \in DOMAIN values :
                   /\ ~(name \in DOMAIN before /\ before[name] = values[name])
                   /\ ~Same(values, s.map, name)}
        removed == {name \in DOMAIN before :
                       name \notin DOMAIN values /\ name \in DOMAIN Entries(s.map)}
        remembered == RememberClosing(s, reading)
        based == [remembered EXCEPT !.fm.last = Known(values)]
    IN IF ~Reads(reading) THEN remembered
       ELSE IF set \cup removed = {} THEN based
       ELSE WriteMap(based, client, [name \in set |-> values[name]], removed)

\* A rewrite of the text under the identity any vault making it would use.
ApplyUpdate(s, signature, update) ==
    Rebase([s EXCEPT !.text = TextAfter(@, update.ins, update.del),
                     !.out = Together(@, update),
                     !.hashes = Hashed(@, signature)])
ApplySigned(s, next, signature) ==
    ApplyUpdate(s, signature, Rewriting(s.text, Hash(s.hashes, signature), next))
ApplyProjection(s, next) == ApplySigned(s, next, DerivedSignature(s.text, s.hashes, next))

BackUp(s, values) == [s EXCEPT !.kept = @ \cup values]
ValuesIn(said) == {said[i].n : i \in {j \in DOMAIN said : said[j].t = "value"}}

\* Bring text and map together after a remote change.
MapMoved(s, name) ==
    ~(/\ name \in DOMAIN s.fm.agreed /\ name \in DOMAIN Entries(s.map)
      /\ s.fm.agreed[name] = Entries(s.map)[name])
TextHeldOtherValue(s, values) ==
    \E name \in DOMAIN values \cap DOMAIN Entries(s.map) :
        /\ values[name] # Entries(s.map)[name]
        /\ ~(name \in DOMAIN s.fm.agreed /\ values[name] = s.fm.agreed[name])

\* What older clients changed in the text: properties no client that writes
\* the map touched.
Adopted(s, own) ==
    {name \in DOMAIN own \ s.fm.touched :
        /\ ~Same(own, s.map, name)
        /\ name \notin DOMAIN Entries(s.map) \/ ~MapMoved(s, name)}
Pruned(s, own) == DOMAIN Entries(s.map) \ (DOMAIN own \cup s.fm.touched)

AgreesOnKeys(values, wanted) == DOMAIN values = DOMAIN wanted
Agrees(values, wanted) == values = wanted

\* The text is made to say what the map says.
Settled(s, wanted) ==
    [s EXCEPT !.fm.agreed = [name \in DOMAIN @ \cup DOMAIN wanted |->
                                IF name \in DOMAIN wanted THEN wanted[name] ELSE @[name]]]
Rebuild(s, said, rebuilt) ==
    IF rebuilt.refused \/ rebuilt.text = said THEN s
    ELSE ApplyProjection(BackUp(s, ValuesIn(said)), rebuilt.text)
EnforceOver(s, said, reading, values, wanted) ==
    IF Reads(reading) /\ Agrees(values, wanted) THEN Settled(s, wanted)
    ELSE IF reading.kind = "read" /\ Reads(reading) /\ DOMAIN values = DOMAIN wanted
    THEN ApplyProjection(IF TextHeldOtherValue(s, values) THEN BackUp(s, ValuesIn(said)) ELSE s,
                         ProjectFrontmatter(said, wanted))
    ELSE Rebuild(s, said, RebuildFrontmatter(said, wanted, KnownClosingAt(s)))
EnforceReading(s, said, reading) ==
    EnforceOver(s, said, reading, ValuesOf(reading), Entries(s.map))
Enforce(s) == EnforceReading(s, Said(s.text), ReadFrontmatter(Said(s.text)))

Enforces(s) == s.fm.touched # {} \/ s.fm.projectionArrived \/ s.fm.mapWriterActed

Taken(s, client, own, adopt, prune) ==
    IF adopt \cup prune = {} THEN s
    ELSE WriteMap(s, client, [name \in adopt |-> own[name]], prune)
Met(s, said, own, client, adopt, prune) ==
    Taken([(IF \E name \in prune : MapMoved(s, name) THEN BackUp(s, ValuesIn(said)) ELSE s)
              EXCEPT !.fm.touched = {}, !.fm.projectionArrived = FALSE, !.fm.mapWriterActed = FALSE],
          client, own, adopt, prune)
EnforcedIf(enforces, s) == IF enforces THEN Enforce(s) ELSE s
ReconcileWith(s, client, said, whole, own) ==
    IF Entries(s.map) = NoValues /\ ~s.wrote
    THEN IF whole /\ own # NoValues THEN WriteMap(s, client, own, {}) ELSE s
    ELSE EnforcedIf(Enforces(s),
                    Met(s, said, own, client, Adopted(s, own), IF whole THEN Pruned(s, own) ELSE {}))
ReconcileReading(s, client, said, reading) ==
    ReconcileWith(s, client, said, Reads(reading),
                  IF Reads(reading) THEN ValuesOf(reading) ELSE ReadableEntries(reading))
Reconcile(s, client) ==
    ReconcileReading(s, client, Said(s.text), ReadFrontmatter(Said(s.text)))

\* The values of this vault among those a remote update discarded unseen, put
\* back into the note as it reads now; of two for one property the later is.
PutBack(values, candidates) ==
    FoldLeft(LAMBDA acc, c : [name \in DOMAIN acc \cup {c.path} |->
                                 IF name = c.path THEN c.value ELSE acc[name]],
             values, candidates)
CopyOf(said, projected, rebuilt) ==
    IF /\ ReadFrontmatter(said).kind = "read" /\ projected # said
       /\ Reads(ReadFrontmatter(projected))
    THEN projected
    ELSE IF rebuilt.refused THEN said ELSE rebuilt.text
ConflictCopy(said, wanted) ==
    CopyOf(said, IF ReadFrontmatter(said).kind = "read" THEN ProjectFrontmatter(said, wanted) ELSE said,
           RebuildFrontmatter(said, wanted, 0))
KeepIfOurs(s, candidates) ==
    LET lost == SelectSeq(candidates, LAMBDA c : s.fm.history = "unreadable" \/ c.client \in s.fm.ours)
    IN IF lost = << >> THEN s
       ELSE BackUp(s, ValuesIn(ConflictCopy(Said(s.text), PutBack(Entries(s.map), lost))))

Overwrites(before, after, change) ==
    LET item == Item(before, change.path)
    IN /\ item.live /\ item.at # << >>
       /\ RightOf(change.at, item.at) /\ ~IsPrefix(item.at, change.at)
       /\ ~(Item(after, change.path).live /\ Item(after, change.path).value = item.value)
Lost(before, after, sets) ==
    SetToSeq({[path |-> sets[i].path, client |-> Last(Item(before, sets[i].path).at),
               value |-> Item(before, sets[i].path).value] :
                  i \in {j \in DOMAIN sets : Overwrites(before, after, sets[j])}})

JudgedAtOnce(s, lost) == KeepIfOurs(s, lost)
KeepLostValues(s, lost) ==
    IF s.fm.history = "loading"
    THEN KeepIfOurs([s EXCEPT !.fm.pending = @ \o SelectSeq(lost, LAMBDA c : c.client \notin s.fm.ours)],
                    lost)
    ELSE KeepIfOurs(s, lost)

\* The properties an update changes here; deleting a value that has already
\* lost changes nothing.
Touches(m, sets) ==
    {sets[i].path : i \in {j \in DOMAIN sets :
        sets[j].live \/ (Item(m, sets[j].path).live /\ Item(m, sets[j].path).at = sets[j].at)}}

\* A remote transaction, met with a reconcile while the document is synced.
Told(s, update, keep) ==
    [keep EXCEPT
        !.fm.touched = @ \cup Touches(s.map, update.sets),
        !.fm.mapWriterActed = @ \/ update.wrote,
        !.fm.projectionArrived = @ \/ \E i \in DOMAIN update.ins :
            update.ins[i].id[1] >= 100 /\ ~Knows(s.text, update.ins[i].id)]
Applied(s, update, after) ==
    KeepLostValues([s EXCEPT !.text = TextAfter(@, update.ins, update.del), !.map = after,
                             !.wrote = @ \/ update.wrote],
                   Lost(s.map, after, update.sets))
ReconcileIf(synced, s, client) == IF synced THEN Reconcile(s, client) ELSE s
HandleRemote(s, update, client, synced) ==
    Rebase(ReconcileIf(synced, Told(s, update, Applied(s, update, MapAfter(s.map, update.sets))),
                       client))

----------------------------------------------------------------------------
\* The vaults and the server.

ClientId(c) == IF c \in Vaults THEN c + 10 * (session[c] - 1) ELSE c

State(v) == [text |-> text[v], map |-> map[v], wrote |-> wrote[v], fm |-> fm[v],
             out |-> NoUpdate, hashes |-> hashes, kept |-> kept[v]]

\* Vault v is left in state s; what it has to send goes to the server, ahead of
\* that what it owes.
Becomes(v, s, owed, sends) ==
    LET update == Together(owed, s.out)
    IN /\ text' = [text EXCEPT ![v] = s.text]
       /\ map' = [map EXCEPT ![v] = s.map]
       /\ wrote' = [wrote EXCEPT ![v] = s.wrote]
       /\ fm' = [fm EXCEPT ![v] = s.fm]
       /\ kept' = [kept EXCEPT ![v] = s.kept]
       /\ hashes' = s.hashes
       /\ outbox' = [outbox EXCEPT ![v] = IF sends THEN NoUpdate ELSE update]
       /\ log' = IF sends /\ update # NoUpdate THEN Append(log, [from |-> v, update |-> update]) ELSE log

\* The given properties, each said with the initial value 0.
FirstText ==
    LET said == <<Dash>> \o FlattenSeq([i \in 1..Cardinality(Keys) |->
                    KeyLines(<<SetToSortSeq(Keys, <)[i]>>, <<0>>)]) \o <<Dash>>
    IN Typed(<< >>, 0, 0, said)
FirstMap == [name \in {<<k>> : k \in Keys} |-> [at |-> <<0>>, live |-> TRUE, value |-> <<0>>]]

Init ==
    /\ text = [c \in Clients |-> FirstText]
    /\ \E filled \in BOOLEAN :
          /\ map = [c \in Clients |-> IF filled THEN FirstMap ELSE << >>]
          /\ wrote = [c \in Clients |-> filled]
          /\ link = [v \in Vaults |-> IF filled THEN "synced" ELSE "catching"]
          /\ edits = IF filled THEN << >> ELSE [n \in 1..MaxEdits - 1 |-> 0]
    /\ fm = [v \in Vaults |->
               Rebase([text |-> text[v], map |-> map[v], wrote |-> wrote[v], out |-> NoUpdate,
                       fm |-> [Attached({}) EXCEPT !.history = "loaded"], hashes |-> << >>, kept |-> {}]).fm]
    /\ stored = [v \in Vaults |-> {}]
    /\ session = [v \in Vaults |-> 1]
    /\ outbox = [v \in Vaults |-> NoUpdate]
    /\ log = << >>
    /\ at = [c \in Clients |-> 0]
    /\ hashes = << >>
    /\ kept = [v \in Vaults |-> {}]
    /\ over = DOMAIN edits /\ gone = << >>

\* A person makes the note of client c say `next`.
Edit(c, next) ==
    LET update == Rewriting(text[c], ClientId(c), next)
    IN /\ Len(edits) < MaxEdits /\ edits' = Append(edits, c)
       /\ IF c \in Vaults
          THEN Becomes(c, Capture([State(c) EXCEPT !.text = TextAfter(@, update.ins, update.del),
                                                   !.out = update], ClientId(c)),
                       outbox[c], link[c] = "synced")
          ELSE /\ text' = [text EXCEPT ![c] = TextAfter(@, update.ins, update.del)]
               /\ log' = Append(log, [from |-> c, update |-> update])
               /\ UNCHANGED <<map, wrote, fm, kept, hashes, outbox>>
       /\ UNCHANGED <<stored, session, link, at>>

\* What client c shows of property k, and what its map holds.
Showing(c, k) ==
    LET reading == ReadFrontmatter(Said(text[c]))
        lines == {i \in DOMAIN reading.entries : reading.entries[i].name = <<k>>}
    IN UNION {ToSet(reading.entries[i].value) : i \in lines}
       \cup (IF <<k>> \in DOMAIN Entries(map[c]) THEN ToSet(Entries(map[c])[<<k>>]) ELSE {})
Holds(c, k) ==
    LET reading == ReadFrontmatter(Said(text[c]))
    IN reading.kind = "read" /\ Reads(reading) /\ <<k>> \in DOMAIN ValuesOf(reading)

ChangeProperty(c, k) ==
    /\ Holds(c, k)
    /\ Edit(c, ProjectFrontmatter(Said(text[c]), [name \in {<<k>>} |-> <<Len(edits) + 1>>]))
    /\ over' = over \cup Showing(c, k)
    /\ UNCHANGED gone

RemoveProperty(c, k) ==
    LET said == Said(text[c])
        reading == ReadFrontmatter(said)
        rest == SelectSeq(reading.entries, LAMBDA e : e.name # <<k>>)
    IN /\ Holds(c, k) /\ Len(gone) < MaxRemovals
       /\ Edit(c, <<Dash>> \o FlattenSeq([i \in DOMAIN rest |-> KeyLines(rest[i].name, rest[i].value)])
                  \o SubSeq(said, reading.to, Len(said)))
       /\ over' = over \cup Showing(c, k) \cup {Len(edits) + 1}
       /\ gone' = Append(gone, k)

AddProperty(c, k) ==
    LET said == Said(text[c])
        reading == ReadFrontmatter(said)
        line == KeyLines(<<k>>, <<Len(edits) + 1>>)
    IN /\ Reads(reading) /\ ~Holds(c, k)
       /\ Edit(c, IF reading.kind = "read"
                  THEN SubSeq(said, 1, reading.to - 1) \o line \o SubSeq(said, reading.to, Len(said))
                  ELSE <<Dash>> \o line \o <<Dash>> \o said)
       /\ over' = over \cup Showing(c, k)
       /\ UNCHANGED gone

\* A character typed in front of the delimiter that opens the block.
TypeInFront(c) ==
    /\ ReadFrontmatter(Said(text[c])).kind = "read"
    /\ Edit(c, <<ValueOf(Len(edits) + 1)>> \o Said(text[c]))
    /\ UNCHANGED <<over, gone>>

\* The next update of the log reaches a client.
Receive(c) ==
    /\ at[c] < Len(log) /\ Len(log) < MaxLog
    /\ c \in Vaults => link[c] # "offline"
    /\ at' = [at EXCEPT ![c] = @ + 1]
    /\ LET next == log[at[c] + 1]
       IN IF next.from = c THEN UNCHANGED <<text, map, wrote, fm, kept, hashes, outbox, log>>
          ELSE IF c \in Vaults
          THEN Becomes(c, HandleRemote(State(c), next.update, ClientId(c), link[c] = "synced"),
                       outbox[c], link[c] = "synced")
          ELSE /\ text' = [text EXCEPT ![c] = TextAfter(@, next.update.ins, next.update.del)]
               /\ map' = [map EXCEPT ![c] = MapAfter(@, next.update.sets)]
               /\ wrote' = [wrote EXCEPT ![c] = @ \/ next.update.wrote]
               /\ UNCHANGED <<fm, kept, hashes, outbox, log>>
    /\ UNCHANGED <<stored, session, link, edits, over, gone>>

\* The catch-up of a vault is complete: it sends what the server lacks, and the
\* provider reports the document synced.
OnSynced(v) ==
    /\ link[v] = "catching" /\ at[v] = Len(log)
    /\ link' = [link EXCEPT ![v] = "synced"]
    /\ Becomes(v, Reconcile(State(v), ClientId(v)), outbox[v], TRUE)
    /\ UNCHANGED <<stored, session, at, edits, over, gone>>

Leave(v) ==
    /\ v \in Leaving /\ link[v] = "synced" /\ session[v] = 1
    /\ link' = [link EXCEPT ![v] = "offline"]
    /\ UNCHANGED <<docs, fm, stored, session, outbox, log, at, hashes, edits, kept, over, gone>>
Return(v) ==
    /\ link[v] = "offline"
    /\ link' = [link EXCEPT ![v] = "catching"]
    /\ UNCHANGED <<docs, fm, stored, session, outbox, log, at, hashes, edits, kept, over, gone>>

\* The app is started again, under a new client id, its record of ids written.
Restart(v) ==
    /\ v \in Restarting /\ session[v] = 1 /\ link[v] = "offline"
    /\ fm[v].ours \subseteq stored[v]
    /\ session' = [session EXCEPT ![v] = 2]
    /\ fm' = [fm EXCEPT ![v] = Rebase([State(v) EXCEPT !.fm = Attached({})]).fm]
    /\ UNCHANGED <<docs, stored, link, outbox, log, at, hashes, edits, kept, over, gone>>

\* The ids of earlier sessions are read, or cannot be.
LoadHistory(v) ==
    /\ fm[v].history = "loading"
    /\ \E history \in {"loaded", "unreadable"} :
          LET known == [State(v) EXCEPT
                           !.fm.history = history, !.fm.pending = << >>,
                           !.fm.ours = IF history = "loaded" THEN @ \cup stored[v] ELSE @]
          IN Becomes(v, KeepIfOurs(known, fm[v].pending), outbox[v], FALSE)
    /\ UNCHANGED <<stored, session, link, at, edits, over, gone>>

\* The record of this vault's ids is saved, one that could not be read is read
\* again first.
SaveHistory(v) ==
    /\ fm[v].history # "loading" /\ ~(fm[v].ours \subseteq stored[v])
    /\ stored' = [stored EXCEPT ![v] = @ \cup fm[v].ours]
    /\ fm' = [fm EXCEPT ![v].ours = @ \cup stored[v], ![v].history = "loaded"]
    /\ UNCHANGED <<docs, session, link, outbox, log, at, hashes, edits, kept, over, gone>>

Next ==
    \/ \E c \in Clients, k \in Keys : ChangeProperty(c, k)
    \/ \E c \in Clients, k \in Keys : RemoveProperty(c, k)
    \/ \E c \in Clients, k \in Keys : AddProperty(c, k)
    \/ \E c \in Clients : TypeInFront(c)
    \/ \E c \in Clients : Receive(c)
    \/ \E v \in Vaults : OnSynced(v)
    \/ \E v \in Vaults : Leave(v)
    \/ \E v \in Vaults : Return(v)
    \/ \E v \in Vaults : Restart(v)
    \/ \E v \in Vaults : LoadHistory(v)
    \/ \E v \in Vaults : SaveHistory(v)

Spec == Init /\ [][Next]_vars

----------------------------------------------------------------------------
\* Everything has been sent and read.
AtRest ==
    /\ \A c \in Clients : at[c] = Len(log)
    /\ \A v \in Vaults : link[v] = "synced" /\ fm[v].history = "loaded"

\* At rest every vault's text says exactly what its map says, and all of them
\* say the same: no interleaving of edits, catch-ups and projections leaves a
\* note whose properties nobody chose, read twice or not read at all.  Only a
\* note somebody typed in front of is left as it stands (frontmatter-sync.ts
\* reconcile, applyProjection).
TextIsMap ==
    AtRest => \A v \in Vaults :
        LET reading == ReadFrontmatter(Said(text[v]))
        IN /\ \A w \in Vaults : text[v] = text[w] /\ Entries(map[v]) = Entries(map[w])
           /\ \/ Reads(reading) /\ ValuesOf(reading) = Entries(map[v])
              \/ reading.kind = "stranded"

\* A property nobody removed is in every map, unless a merge glued its name to
\* another's value: a text that cannot be read, or holds the properties behind
\* characters typed in front, never counts as their removal (capture, reconcile).
PropertiesStand ==
    AtRest => \A v \in Vaults, k \in Keys \ ToSet(gone) :
        \/ ~wrote[v] \/ <<k>> \in DOMAIN Entries(map[v])
        \/ \E name \in DOMAIN map[v] : Len(name) > 1

\* A value nobody replaced or removed having seen it is shown to the vault that
\* wrote it, or kept there in a copy or a backup, also when it was discarded
\* while the ids of earlier sessions were still being read (keepLostValues,
\* keepIfOurs, loadHistory, reconcile).
ValueShown(v, n) ==
    \/ n \in ValuesIn(Said(text[v]))
    \/ \E name \in DOMAIN Entries(map[v]) : n \in ToSet(Entries(map[v])[name])
NothingLost ==
    AtRest => \A n \in DOMAIN edits \ over :
        edits[n] \in Vaults => ValueShown(edits[n], n) \/ n \in kept[edits[n]]

\* Properties and values alike: what nobody removed or replaced is there.
NothingVanishes == PropertiesStand /\ NothingLost

\* What two vaults answer each other's updates with comes to an end: "Why
\* projections settle" in frontmatter-sync.ts.
ProjectionsSettle == Len(log) < MaxLog
=============================================================================
