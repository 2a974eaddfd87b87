--------------------------- MODULE FrontmatterBlock ---------------------------
(***************************************************************************)
(* frontmatter-block.ts: a note's properties as text.  A text is a         *)
(* sequence of tokens: a delimiter line, a property's name, (part of) a    *)
(* value, a line break.  What a merge glues together reads as one: two     *)
(* values behind a name are one value, a value in front of a name is part  *)
(* of the name.                                                            *)
(***************************************************************************)
EXTENDS Naturals, SequencesExt, FiniteSetsExt

Dash == [t |-> "dash", n |-> 0]
Break == [t |-> "break", n |-> 0]
NameOf(k) == [t |-> "name", n |-> k]
ValueOf(n) == [t |-> "value", n |-> n]

\* A property's name and its value are sequences: what was glued in front of
\* the name written, and the parts of the value.
Numbers(tokens) == [i \in DOMAIN tokens |-> tokens[i].n]
KeyLines(name, value) == [i \in DOMAIN name |->
                             IF i = Len(name) THEN NameOf(name[i]) ELSE ValueOf(name[i])]
                         \o [i \in DOMAIN value |-> ValueOf(value[i])] \o <<Break>>

FirstWhere(tokens, from, P(_)) ==
    LET at == {i \in from..Len(tokens) : P(i)} IN IF at = {} THEN 0 ELSE Min(at)
StartsLine(tokens, i) == i > 1 /\ tokens[i - 1] \in {Dash, Break}

\* Where the block that the first token opens is closed; 0 when it is not.
Closing(tokens) ==
    FirstWhere(tokens, 2, LAMBDA i : tokens[i] = Dash /\ StartsLine(tokens, i))
Opens(tokens) == tokens # << >> /\ Head(tokens) = Dash

\* Characters glued in front of a delimiter that opens a block.
StrandedOpening(tokens) ==
    LET at == FirstWhere(tokens, 1, LAMBDA i : tokens[i] = Dash)
    IN IF /\ at > 1
          /\ \A i \in 1..at - 1 : tokens[i] # Break
          /\ Closing(SubSeq(tokens, at, Len(tokens))) > 0
       THEN at ELSE 0

\* The lines of a block, each without its line break.
Lines(tokens) ==
    LET ends == SetToSortSeq({i \in DOMAIN tokens : tokens[i] = Break}, <)
    IN [l \in DOMAIN ends |->
           SubSeq(tokens, IF l = 1 THEN 1 ELSE ends[l - 1] + 1, ends[l] - 1)]

\* The property one line holds; a line without exactly one name is nobody's.
NamesIn(line) == {i \in DOMAIN line : line[i].t = "name"}
Attributable(line) == Cardinality(NamesIn(line)) = 1
Entry(line) ==
    LET at == CHOOSE i \in NamesIn(line) : TRUE
    IN [name |-> Numbers(SubSeq(line, 1, at)), value |-> Numbers(SubSeq(line, at + 1, Len(line)))]

SplitKeys(lines) == [l \in DOMAIN lines |-> Entry(lines[l])]
Splits(lines) == \A l \in DOMAIN lines : Attributable(lines[l])
NamesOnce(entries) == \A i, j \in DOMAIN entries : entries[i].name = entries[j].name => i = j
AsValues(entries) ==
    [name \in {entries[i].name : i \in DOMAIN entries} |->
        entries[CHOOSE i \in DOMAIN entries : entries[i].name = name].value]

NoValues == << >>

\* kind, where the closing delimiter is, the entries, and whether the whole
\* block reads.
ReadFrontmatter(tokens) ==
    LET to == Closing(tokens)
        lines == Lines(SubSeq(tokens, 2, to - 1))
    IN IF ~Opens(tokens)
       THEN [kind |-> IF StrandedOpening(tokens) > 0 THEN "stranded" ELSE "none",
             to |-> 0, entries |-> << >>]
       ELSE IF to = 0 THEN [kind |-> "unclosed", to |-> 0, entries |-> << >>]
       ELSE IF ~Splits(lines) THEN [kind |-> "unattributable", to |-> to, entries |-> << >>]
       ELSE [kind |-> "read", to |-> to, entries |-> SplitKeys(lines)]

\* Whether the properties can be read at all, and what they say then.
ReadsStranded(reading) ==
    reading.kind \in {"none", "stranded"} \/ (reading.kind = "read" /\ NamesOnce(reading.entries))
Reads(reading) ==
    reading.kind = "none" \/ (reading.kind = "read" /\ NamesOnce(reading.entries))
ValuesOf(reading) == AsValues(reading.entries)

\* The entries that read on their own and appear once.
ReadableEntries(reading) ==
    AsValues(SelectSeq(reading.entries,
        LAMBDA e : Cardinality({i \in DOMAIN reading.entries : reading.entries[i].name = e.name}) = 1))

\* The wanted properties, those the text has first, in the text's order.
LineName(line) ==
    IF NamesIn(line) = {} THEN << >> ELSE Numbers(SubSeq(line, 1, Min(NamesIn(line))))
FirstMet(met, wanted) ==
    SelectSeq([l \in DOMAIN met |-> IF \E e \in 1..l - 1 : met[e] = met[l] THEN << >> ELSE met[l]],
              LAMBDA name : name \in DOMAIN wanted)
OthersBehind(first, wanted) ==
    first \o SetToSortSeq(DOMAIN wanted \ ToSet(first),
                LAMBDA a, b : \/ Len(a) < Len(b)
                              \/ Len(a) = Len(b) /\ a # b /\ Last(a) * 10 + a[1] < Last(b) * 10 + b[1])
Ordered(wanted, lines) ==
    OthersBehind(FirstMet([l \in DOMAIN lines |-> LineName(lines[l])], wanted), wanted)
InOrder(wanted, order) ==
    FlattenSeq([i \in DOMAIN order |-> KeyLines(order[i], wanted[order[i]])])
Written(wanted, yaml) == InOrder(wanted, Ordered(wanted, Lines(yaml)))

\* A delimiter with characters glued in front of it on its line closes the
\* block, if all above it are properties that are wanted.
ClosingOnItsLine(tokens, wanted) ==
    LET to == FirstWhere(tokens, 2, LAMBDA i : tokens[i] = Dash)
        yaml == SubSeq(tokens, 2, to - 1)
        breaks == {i \in DOMAIN yaml : yaml[i] = Break}
        above == SubSeq(yaml, 1, IF breaks = {} THEN 0 ELSE Max(breaks))
        glued == SubSeq(yaml, Len(above) + 1, Len(yaml))
    IN IF /\ to > 2 /\ glued # << >>
          /\ Splits(Lines(above))
          /\ \A e \in ToSet(SplitKeys(Lines(above))) : e.name \in DOMAIN wanted
          /\ NamesIn(glued) # {} => Attributable(glued) /\ Entry(glued).name \in DOMAIN wanted
       THEN to ELSE 0

\* The whole block written from the wanted properties: what stood in front of a
\* note goes behind its block, which token to closes.
RebuiltTo(stranded, note, wanted, to) ==
    IF ~Opens(note)
    THEN [refused |-> FALSE,
          text |-> IF wanted = NoValues THEN stranded \o note
                   ELSE <<Dash>> \o Written(wanted, << >>) \o <<Dash>> \o stranded \o note]
    ELSE IF to = 0 THEN [refused |-> TRUE, text |-> stranded \o note]
    ELSE [refused |-> FALSE,
          text |-> (IF wanted = NoValues THEN << >>
                    ELSE <<Dash>> \o Written(wanted, SubSeq(note, 2, to - 1)) \o <<Dash>>)
                   \o stranded \o SubSeq(note, to + 1, Len(note))]

\* known is where the delimiter that last closed the block is shown, 0 when it
\* is not.
BlockEnd(note, wanted, closing, known) ==
    IF closing > 0 THEN closing ELSE IF known > 1 THEN known ELSE ClosingOnItsLine(note, wanted)
RebuiltNote(stranded, note, wanted, known) ==
    RebuiltTo(stranded, note, wanted, BlockEnd(note, wanted, Closing(note), known))
RebuiltApart(tokens, wanted, known, apart) ==
    RebuiltNote(SubSeq(tokens, 1, apart), SubSeq(tokens, apart + 1, Len(tokens)), wanted, known - apart)
RebuildFrontmatter(tokens, wanted, known) ==
    RebuiltApart(tokens, wanted, known,
                 IF Opens(tokens) \/ StrandedOpening(tokens) = 0 THEN 0 ELSE StrandedOpening(tokens) - 1)

\* Each property the text shares with wanted holds the wanted value, on the first
\* of its lines; what wanted has not is left as it is.
Doubled(entries, i, wanted) ==
    entries[i].name \in DOMAIN wanted /\ \E j \in 1..i - 1 : entries[j].name = entries[i].name
ProjectFrontmatter(tokens, wanted) ==
    LET reading == ReadFrontmatter(tokens)
        rewritten(i, e) == IF Doubled(reading.entries, i, wanted) THEN << >>
                           ELSE KeyLines(e.name, IF e.name \in DOMAIN wanted
                                                 THEN wanted[e.name] ELSE e.value)
    IN <<Dash>> \o FlattenSeq([i \in DOMAIN reading.entries |-> rewritten(i, reading.entries[i])])
       \o SubSeq(tokens, reading.to, Len(tokens))
=============================================================================
