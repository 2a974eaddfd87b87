------------------------------ MODULE DrawingDoc ------------------------------
(***************************************************************************)
(* A shape of an Excalidraw drawing as a document:                         *)
(* packages/plugin/src/excalidraw-model.ts over excalidraw-merge.ts.       *)
(*                                                                         *)
(* One entry per version of the shape, keyed by the version's number and   *)
(* nonce; reading picks the one that stands.  An entry says what it was    *)
(* made on.  A version that lost is decided by the client that wrote it: a *)
(* copy of it is kept, or nothing worth keeping was lost.                  *)
(*                                                                         *)
(* Nonces are unique.  What is kept beside the shape is nobody's to edit.  *)
(* The note above the drawing, settings and links are merged by key, and   *)
(* are not here; nor is the fill of a drawing taken over from text.        *)
(***************************************************************************)
EXTENDS YMap, FiniteSets

CONSTANT Clients    \* who writes to the document, natural numbers above 0

\* A version of the shape: what it says, where it is, whether it is deleted.
Version(n, nonce, text, place, dead) ==
    [n |-> n, nonce |-> nonce, text |-> text, place |-> place, dead |-> dead]
Absent == Version(0, 0, 0, 0, TRUE)
Unseen == <<0, 0>>
Key(e) == <<e.n, e.nonce>>

\* An entry: a version, what it was made on, and what that said.
NoText == 999
Entry(e, on, said) == [e |-> e, on |-> on, said |-> said]
Nothing == Unset(Entry(Absent, Unseen, NoText))

-----------------------------------------------------------------------------
(* Slips, for the properties to catch. *)

DeleteGivesWay(loser, winner) == FALSE
NeverKept(loser, winner, said) == FALSE

-----------------------------------------------------------------------------
(* The document: its entries by key, and the copies kept beside the shape. *)

Item(doc, k) == IF k \in DOMAIN doc.revs THEN doc.revs[k] ELSE Nothing
Has(doc, k) == Item(doc, k).live
Keys(doc) == {k \in DOMAIN doc.revs : doc.revs[k].live}
revisions(doc) == {doc.revs[k].value : k \in Keys(doc)}
VersionsOf(doc) == {r.e : r \in revisions(doc)}

\* The client that wrote the entry under a key.
Author(doc, k) == LET at == doc.revs[k].at IN at[Len(at)]

With(doc, k, item) ==
    [doc EXCEPT !.revs = [j \in DOMAIN doc.revs \cup {k} |-> IF j = k THEN item ELSE doc.revs[j]]]
Set(doc, c, entry) ==
    LET k == Key(entry.e)
    IN With(doc, k, [at |-> Append(Item(doc, k).at, c), live |-> TRUE, value |-> entry])
Unwritten(doc, k) == With(doc, k, [Item(doc, k) EXCEPT !.live = FALSE])

\* What a replica becomes when it hears of another's changes.
Changes(old, new) ==
    [revs |-> {k \in DOMAIN new.revs : Item(old, k) # new.revs[k]}, kept |-> new.kept, from |-> new]
Heard(doc, changes) ==
    [kept |-> doc.kept \cup changes.kept,
     revs |-> [k \in DOMAIN doc.revs \cup changes.revs |->
                IF k \in changes.revs THEN Integrate(Item(doc, k), changes.from.revs[k])
                ELSE doc.revs[k]]]

beats(a, b) == a.n > b.n \/ (a.n = b.n /\ a.nonce < b.nonce)
winnerOf(es) == CHOOSE a \in es : \A b \in es \ {a} : beats(a, b)
Standing(doc) == winnerOf(VersionsOf(doc))

-----------------------------------------------------------------------------
(* An edit, brought in against the version it was read against. *)

\* The version it was made on goes, by someone who saw it.
Supersedes(el, was, unverified) == was # Absent /\ el.n > was.n /\ ~unverified

applyExcalidraw(doc, c, el, was, unverified) ==
    LET k == Key(el)
        entry == Entry(el, IF unverified THEN Unseen ELSE Key(was),
                           IF was = Absent THEN NoText ELSE was.text)
        put == IF Has(doc, k) THEN doc ELSE Set(doc, c, entry)
    IN
    CASE el = Absent -> doc
      [] was # Absent /\ (k = Key(was) \/ el.n < was.n) -> doc
      [] OTHER -> IF Supersedes(el, was, unverified) /\ Has(put, Key(was))
                  THEN Unwritten(put, Key(was)) ELSE put

-----------------------------------------------------------------------------
(* Settling. *)

\* What an element says: not where it is, nor the merge's bookkeeping.
contentOf(e) == e.text
onlyBookkeeping(a, b) == contentOf(a) = contentOf(b) /\ a.place = b.place

\* A version that lost writing; not one that only moved, nor a delete.
fateOf(loser, winner, said) ==
    /\ ~loser.dead
    /\ contentOf(loser) # said
    /\ winner.dead \/ contentOf(loser) # contentOf(winner)

\* A losing version under ids derived from its key, cut loose from the shape:
\* kept by two vaults, or twice by one, it is one copy.
keptCopy(k, loser) == <<k, contentOf(loser)>>

\* A delete that lost to a version nobody edited is said again above it.
SaidAgain(loser, winner) == loser.dead /\ ~winner.dead /\ onlyBookkeeping(loser, winner)
Again(loser, winner) ==
    Entry(Version(winner.n + 1, 500 + loser.nonce, loser.text, loser.place, TRUE), Key(winner), winner.text)

\* Of the versions that lost, those the standing one was made on go, and client
\* c's own are kept, said again, or gone.
superseded(doc, top, losers) == {k \in losers : doc.revs[top].value.on = k /\ top[1] > k[1]}
SettledBy(doc, c, top, ours, gone, again) ==
    LET stands == doc.revs[top].value.e
        e(k) == doc.revs[k].value.e
        keep == {k \in ours \ again : fateOf(e(k), stands, doc.revs[k].value.said)}
        said == [k \in {Key(Again(e(j), stands).e) : j \in again} |->
                    CHOOSE r \in {Again(e(j), stands) : j \in again} : Key(r.e) = k]
    IN
    [kept |-> doc.kept \cup {keptCopy(k, e(k)) : k \in keep},
     revs |-> [k \in DOMAIN doc.revs \cup DOMAIN said |->
                CASE k \in gone \cup ours -> [doc.revs[k] EXCEPT !.live = FALSE]
                  [] k \in DOMAIN said /\ ~Has(doc, k) ->
                        [at |-> Append(Item(doc, k).at, c), live |-> TRUE, value |-> said[k]]
                  [] OTHER -> doc.revs[k]]]
SettledOver(doc, c, top, losers, gone) ==
    LET ours == {k \in losers \ gone : Author(doc, k) = c}
    IN SettledBy(doc, c, top, ours, gone,
                 {k \in ours : SaidAgain(doc.revs[k].value.e, doc.revs[top].value.e)})
SettledUnder(doc, c, top, losers) == SettledOver(doc, c, top, losers, superseded(doc, top, losers))
settleUnder(doc, c, top) == SettledUnder(doc, c, top, Keys(doc) \ {top})
settleExcalidraw(doc, c) == settleUnder(doc, c, Key(Standing(doc)))
=============================================================================
