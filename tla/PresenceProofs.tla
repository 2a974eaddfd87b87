---------------------------- MODULE PresenceProofs ----------------------------
(***************************************************************************)
(* That presence tells the truth, for any devices, places and bounds:      *)
(* what is shown of a client was said by it, nobody is vouched for who is  *)
(* not there, and each part of the plugin says and takes back its own.     *)
(*                                                                         *)
(* The first two are about the transport alone: whatever a device says, and *)
(* whenever.  Moves names the steps it takes.                              *)
(***************************************************************************)
EXTENDS Presence, TLAPS

Known == [clock : Nat, says : Claims]

TransportType ==
    /\ link \in [Devices -> {"open", "waiting", "refused"}]
    /\ epoch \in [Devices -> Nat]
    /\ life \in [Devices -> 1..MaxLives]
    /\ phase \in [Devices -> {"none", "loading", "asked", "synced"}]
    /\ mine \in [Devices -> Known]
    /\ peers \in [Devices -> [Identities -> Known]]
    /\ sealing \in [Devices -> Seq(Outgoing)]
    /\ opening \in [Devices -> Seq(Incoming)]
    /\ listeners \subseteq Devices
    /\ vouched \in [Identities -> Known]

\* One device says something, and nothing else of the transport happens.
Voices(d) ==
    /\ UNCHANGED <<link, epoch, life, phase, peers, opening, listeners, vouched>>
    /\ \/ UNCHANGED <<mine, sealing>>
       \/ \E says \in Claims : Say(d, says)

Hears(d) ==
    /\ opening[d] # << >>
    /\ \E statements \in SUBSET Head(opening[d]).statements : HearFrom(d, statements)

Connects(d) ==
    /\ \/ \E next \in {"waiting", "open"} : link[d] # "open" /\ link' = [link EXCEPT ![d] = next]
       \/ UNCHANGED link
    /\ UNCHANGED <<epoch, life, phase, mine, peers, sealing, opening, listeners, vouched>>

Moves(d) ==
    \/ Voices(d) \/ Seal(d) \/ SealFails(d) \/ Hears(d) \/ Sweep(d)
    \/ \E next \in {"waiting", "refused"} : SocketCloses(d, next)
    \/ Connects(d) \/ SendSubscribe(d) \/ CatchUpEnds(d)
    \/ Unsubscribe(d) \/ Subscribe(d)

(***************************************************************************)
(* Queues, by what is in them.                                             *)
(***************************************************************************)
Items(q) == {q[i] : i \in DOMAIN q}

LEMMA TailItems ==
    ASSUME NEW S, NEW q \in Seq(S), q # << >>
    PROVE  /\ Tail(q) \in Seq(S) /\ Items(Tail(q)) \subseteq Items(q)
           /\ Head(q) \in Items(q) /\ Head(q) \in S
<1>1. Len(q) \in Nat /\ Len(q) > 0 /\ DOMAIN q = 1..Len(q) /\ Head(q) = q[1]
  OBVIOUS
<1>2. Tail(q) \in Seq(S) /\ DOMAIN Tail(q) = 1..(Len(q) - 1)
  BY <1>1
<1>3. \A i \in 1..(Len(q) - 1) : Tail(q)[i] = q[i + 1] /\ i + 1 \in 1..Len(q)
  BY <1>1
<1> QED BY <1>1, <1>2, <1>3 DEF Items

LEMMA AppendItems ==
    ASSUME NEW S, NEW q \in Seq(S), NEW x \in S
    PROVE  Append(q, x) \in Seq(S) /\ Items(Append(q, x)) = Items(q) \cup {x}
<1>1. Len(q) \in Nat /\ DOMAIN q = 1..Len(q)
  OBVIOUS
<1>2. Append(q, x) \in Seq(S) /\ DOMAIN Append(q, x) = 1..(Len(q) + 1)
  BY <1>1
<1>3. \A i \in 1..Len(q) : Append(q, x)[i] = q[i]
  BY <1>1
<1>4. Append(q, x)[Len(q) + 1] = x
  BY <1>1
<1>5. 1..(Len(q) + 1) = 1..Len(q) \cup {Len(q) + 1}
  BY <1>1
<1> QED BY <1>1, <1>2, <1>3, <1>4, <1>5 DEF Items

LEMMA ItemsTyped ==
    ASSUME NEW S, NEW q \in Seq(S)
    PROVE  Items(q) \subseteq S
BY DEF Items

LEMMA NoItems == Items(<< >>) = {} /\ \A S : << >> \in Seq(S)
BY DEF Items

(***************************************************************************)
(* Types.                                                                  *)
(***************************************************************************)
LEMMA SelfTyped ==
    ASSUME TransportType, NEW d \in Devices
    PROVE  /\ Self(d) \in Identities /\ Self(d)[1] = d /\ Self(d)[2] = life[d]
           /\ mine[d] \in Known /\ mine[d].clock \in Nat /\ mine[d].says \in Claims
           /\ life[d] \in 1..MaxLives /\ epoch[d] \in Nat
BY DEF TransportType, Self, Identities, Known

LEMMA SilenceTyped == Silence \in Claims /\ Unheard \in Known /\ Quiet \in Known
BY DEF Silence, Claims, Surfaces, Unheard, Quiet, Known

LEMMA AcceptedTyped ==
    ASSUME NEW known \in [Identities -> Known], NEW statements \in SUBSET Statement
    PROVE  Accepted(known, statements) \in [Identities -> Known]
<1>1. \A c \in Identities : known[c] \in Known
  OBVIOUS
<1>2. \A c \in Identities :
        (\E s \in statements : s.of = c /\ Newer(s, known[c])) =>
          (CHOOSE s \in statements : s.of = c /\ Newer(s, known[c])) \in statements
  OBVIOUS
<1>3. \A s \in statements : [clock |-> s.clock, says |-> s.says] \in Known
  BY DEF Statement, Known
<1> QED BY <1>1, <1>2, <1>3 DEF Accepted

LEMMA RelayedTyped ==
    ASSUME TransportType, NEW d \in Devices, NEW statements \in SUBSET Statement
    PROVE  Relayed(d, statements) \in [Devices -> Seq(Incoming)]
<1> SUFFICES ASSUME NEW e \in Devices
             PROVE  Append(opening[e], [sub |-> life[e], epoch |-> epoch[e], statements |-> statements]) \in Seq(Incoming)
  BY DEF Relayed, TransportType
<1>1. [sub |-> life[e], epoch |-> epoch[e], statements |-> statements] \in Incoming
  BY SelfTyped DEF Incoming
<1>2. opening[e] \in Seq(Incoming)
  BY DEF TransportType
<1> QED BY <1>1, <1>2, AppendItems

LEMMA VouchedTyped ==
    ASSUME TransportType, NEW who
    PROVE  Vouched(who) \in SUBSET Statement
BY DEF Vouched, Statement, TransportType, Known

LEMMA CapturedTyped ==
    ASSUME TransportType, NEW d \in Devices, NEW statements \in SUBSET Statement
    PROVE  Captured(d, statements) \in [Devices -> Seq(Outgoing)]
<1>1. [sub |-> life[d], statements |-> statements] \in Outgoing
  BY SelfTyped DEF Outgoing
<1>2. sealing \in [Devices -> Seq(Outgoing)] /\ sealing[d] \in Seq(Outgoing)
  BY DEF TransportType
<1>3. Append(sealing[d], [sub |-> life[d], statements |-> statements]) \in Seq(Outgoing)
  BY <1>1, <1>2, AppendItems
<1> QED BY <1>2, <1>3 DEF Captured

LEMMA SaidTyped ==
    ASSUME TransportType, NEW d \in Devices, NEW says \in Claims, Say(d, says)
    PROVE  mine' \in [Devices -> Known] /\ sealing' \in [Devices -> Seq(Outgoing)]
<1>1. [of |-> Self(d), clock |-> mine[d].clock + 1, says |-> says] \in Statement
  BY SelfTyped DEF Statement
<1>2. [clock |-> mine[d].clock + 1, says |-> says] \in Known
  BY SelfTyped DEF Known
<1>3. sealing' \in [Devices -> Seq(Outgoing)]
  BY <1>1, CapturedTyped DEF Say
<1> QED BY <1>2, <1>3 DEF Say, TransportType

LEMMA PublishedTyped ==
    ASSUME TransportType, NEW d \in Devices, NEW statements \in SUBSET Statement,
           Publish(d, statements)
    PROVE  /\ listeners' \subseteq Devices
           /\ vouched' \in [Identities -> Known]
           /\ opening' \in [Devices -> Seq(Incoming)]
BY AcceptedTyped, RelayedTyped DEF Publish, TransportType

LEMMA WithdrawnTyped ==
    ASSUME TransportType, NEW d \in Devices, Withdraw(d)
    PROVE  /\ listeners' \subseteq Devices
           /\ vouched' \in [Identities -> Known]
           /\ opening' \in [Devices -> Seq(Incoming)]
<1>1. {[s EXCEPT !.says = Silence] : s \in Vouched({d})} \in SUBSET Statement
  BY VouchedTyped, SilenceTyped DEF Statement
<1>2. opening' \in [Devices -> Seq(Incoming)]
  BY <1>1, RelayedTyped DEF Withdraw
<1>3. vouched' \in [Identities -> Known]
  BY SilenceTyped DEF Withdraw, TransportType, Known
<1> QED BY <1>2, <1>3 DEF Withdraw, TransportType

LEMMA HeadTyped ==
    ASSUME TransportType, NEW d \in Devices
    PROVE  /\ sealing[d] # << >> =>
                /\ [sealing EXCEPT ![d] = Tail(@)] \in [Devices -> Seq(Outgoing)]
                /\ Head(sealing[d]) \in Outgoing /\ Head(sealing[d]).statements \in SUBSET Statement
                /\ Items(Tail(sealing[d])) \subseteq Items(sealing[d])
                /\ Head(sealing[d]) \in Items(sealing[d])
           /\ opening[d] # << >> =>
                /\ [opening EXCEPT ![d] = Tail(@)] \in [Devices -> Seq(Incoming)]
                /\ Head(opening[d]) \in Incoming /\ Head(opening[d]).statements \in SUBSET Statement
                /\ Items(Tail(opening[d])) \subseteq Items(opening[d])
                /\ Head(opening[d]) \in Items(opening[d])
<1>1. sealing \in [Devices -> Seq(Outgoing)] /\ opening \in [Devices -> Seq(Incoming)]
  BY DEF TransportType
<1>2. sealing[d] \in Seq(Outgoing) /\ opening[d] \in Seq(Incoming)
  BY <1>1
<1>3. sealing[d] # << >> =>
        /\ Tail(sealing[d]) \in Seq(Outgoing) /\ Head(sealing[d]) \in Outgoing
        /\ Items(Tail(sealing[d])) \subseteq Items(sealing[d]) /\ Head(sealing[d]) \in Items(sealing[d])
  BY <1>2, TailItems
<1>4. opening[d] # << >> =>
        /\ Tail(opening[d]) \in Seq(Incoming) /\ Head(opening[d]) \in Incoming
        /\ Items(Tail(opening[d])) \subseteq Items(opening[d]) /\ Head(opening[d]) \in Items(opening[d])
  BY <1>2, TailItems
<1>5. \A x \in Outgoing : x.statements \in SUBSET Statement
  BY DEF Outgoing
<1>6. \A x \in Incoming : x.statements \in SUBSET Statement
  BY DEF Incoming
<1> QED BY <1>1, <1>3, <1>4, <1>5, <1>6

LEMMA QueuedTyped ==
    ASSUME TransportType, NEW d \in Devices
    PROVE  /\ \A item \in Items(sealing[d]) : item \in Outgoing /\ item.statements \in SUBSET Statement
           /\ \A frame \in Items(opening[d]) : frame \in Incoming /\ frame.statements \in SUBSET Statement
<1>1. sealing[d] \in Seq(Outgoing) /\ opening[d] \in Seq(Incoming)
  BY DEF TransportType
<1>2. Items(sealing[d]) \subseteq Outgoing /\ Items(opening[d]) \subseteq Incoming
  BY <1>1, ItemsTyped
<1>3. /\ \A x \in Outgoing : x.statements \in SUBSET Statement
      /\ \A x \in Incoming : x.statements \in SUBSET Statement
  BY DEF Outgoing, Incoming
<1> QED BY <1>2, <1>3

LEMMA MovesTyped ==
    ASSUME TransportType, NEW d \in Devices, Moves(d)
    PROVE  TransportType'
<1>1. CASE Voices(d)
  <2>1. mine' \in [Devices -> Known] /\ sealing' \in [Devices -> Seq(Outgoing)]
    BY <1>1, SaidTyped DEF Voices, TransportType
  <2> QED BY <1>1, <2>1 DEF Voices, TransportType
<1>2. CASE Seal(d)
  <2> DEFINE item == Head(sealing[d])
  <2>1. item.statements \in SUBSET Statement /\ sealing' \in [Devices -> Seq(Outgoing)]
    BY <1>2, HeadTyped DEF Seal
  <2>2. CASE StillWanted(d, item)
    <3>1. Publish(d, item.statements)
      BY <1>2, <2>2 DEF Seal, Sealed
    <3> HIDE DEF item
    <3> QED BY <1>2, <2>1, <3>1, PublishedTyped DEF Seal, TransportType
  <2>3. CASE ~StillWanted(d, item)
    BY <1>2, <2>1, <2>3 DEF Seal, TransportType
  <2> QED BY <2>2, <2>3
<1>3. CASE SealFails(d)
  <2>1. sealing' \in [Devices -> Seq(Outgoing)]
    BY <1>3, HeadTyped DEF SealFails
  <2> QED BY <1>3, <2>1 DEF SealFails, TransportType
<1>4. CASE Hears(d)
  <2>1. PICK statements \in SUBSET Head(opening[d]).statements : HearFrom(d, statements)
    BY <1>4 DEF Hears
  <2>2. opening' \in [Devices -> Seq(Incoming)] /\ statements \in SUBSET Statement
    BY <1>4, <2>1, HeadTyped DEF Hears, HearFrom
  <2>3. Accepted(peers[d], {s \in statements : s.of # Self(d)}) \in [Identities -> Known]
    BY <2>2, AcceptedTyped DEF TransportType
  <2>4. peers' \in [Devices -> [Identities -> Known]]
    BY <2>1, <2>3 DEF HearFrom, TransportType
  <2>5. mine' \in [Devices -> Known]
    <3>0. mine \in [Devices -> [clock : Nat, says : Claims]] /\ mine[d].clock + 1 \in Nat
      BY SelfTyped DEF TransportType, Known
    <3>1. [mine EXCEPT ![d].clock = @ + 1] \in [Devices -> Known]
      BY <3>0 DEF Known
    <3> QED BY <2>1, <3>1 DEF HearFrom, TransportType
  <2> QED BY <2>1, <2>2, <2>4, <2>5 DEF HearFrom, TransportType
<1>5. CASE Sweep(d)
  <2> DEFINE swept == {c \in OthersIn(d) : ~Renewed(c)}
  <2>1. swept \subseteq Identities
    BY DEF OthersIn, Present
  <2>2. \A c \in Identities : peers[d][c] \in Known
    BY DEF TransportType
  <2>3. {[of |-> c, clock |-> peers[d][c].clock, says |-> Silence] : c \in swept} \in SUBSET Statement
    BY <2>1, <2>2, SilenceTyped DEF Statement, Known
  <2>4. sealing' \in [Devices -> Seq(Outgoing)]
    BY <1>5, <2>3, CapturedTyped DEF Sweep
  <2>5. \A c \in Identities : [peers[d][c] EXCEPT !.says = Silence] \in Known
    BY <2>2, SilenceTyped DEF Known
  <2>6. peers' \in [Devices -> [Identities -> Known]]
    BY <1>5, <2>2, <2>5 DEF Sweep, TransportType
  <2> QED BY <1>5, <2>4, <2>6 DEF Sweep, TransportType
<1>6. CASE \E next \in {"waiting", "refused"} : SocketCloses(d, next)
  <2>1. PICK next \in {"waiting", "refused"} : SocketCloses(d, next)
    BY <1>6
  <2>0. \A c \in Identities : peers[d][c] \in Known
    BY DEF TransportType
  <2>2. \A c \in Identities : [peers[d][c] EXCEPT !.says = Silence] \in Known
    BY <2>0, SilenceTyped DEF Known
  <2>3. peers' \in [Devices -> [Identities -> Known]]
    BY <2>1, <2>2 DEF SocketCloses, TransportType
  <2>4. link' \in [Devices -> {"open", "waiting", "refused"}] /\ epoch' \in [Devices -> Nat]
    BY <2>1 DEF SocketCloses, TransportType
  <2>5. phase' \in [Devices -> {"none", "loading", "asked", "synced"}]
    BY <2>1 DEF SocketCloses, TransportType
  <2> QED BY <2>1, <2>3, <2>4, <2>5, WithdrawnTyped DEF SocketCloses, TransportType
<1>7. CASE Connects(d)
  BY <1>7 DEF Connects, TransportType
<1>8. CASE SendSubscribe(d)
  BY <1>8 DEF SendSubscribe, TransportType
<1>9. CASE CatchUpEnds(d)
  <2>1. [sub |-> life[d], epoch |-> epoch[d], statements |-> Vouched(Devices \ {d})] \in Incoming
    BY VouchedTyped, SelfTyped DEF Incoming
  <2>2. opening[d] \in Seq(Incoming)
    BY DEF TransportType
  <2>3. Append(opening[d], [sub |-> life[d], epoch |-> epoch[d], statements |-> Vouched(Devices \ {d})]) \in Seq(Incoming)
    BY <2>1, <2>2, AppendItems
  <2>4. opening' \in [Devices -> Seq(Incoming)]
    BY <1>9, <2>3 DEF CatchUpEnds, TransportType
  <2> QED BY <1>9, <2>4 DEF CatchUpEnds, TransportType
<1>10. CASE Unsubscribe(d)
  <2>1. mine' \in [Devices -> Known] /\ peers' \in [Devices -> [Identities -> Known]]
    BY <1>10, SilenceTyped DEF Unsubscribe, TransportType
  <2>2. phase' \in [Devices -> {"none", "loading", "asked", "synced"}]
    BY <1>10 DEF Unsubscribe, TransportType
  <2>3. /\ listeners' \subseteq Devices
        /\ vouched' \in [Identities -> Known]
        /\ opening' \in [Devices -> Seq(Incoming)]
    BY <1>10, WithdrawnTyped DEF Unsubscribe, TransportType
  <2> QED BY <1>10, <2>1, <2>2, <2>3 DEF Unsubscribe, TransportType
<1>11. CASE Subscribe(d)
  <2>1. life' \in [Devices -> 1..MaxLives]
    BY <1>11, SelfTyped, AwarenessAssumption DEF Subscribe, TransportType
  <2> QED BY <1>11, <2>1 DEF Subscribe, TransportType
<1> QED BY <1>1, <1>2, <1>3, <1>4, <1>5, <1>6, <1>7, <1>8, <1>9, <1>10, <1>11 DEF Moves

(***************************************************************************)
(* What is told of a client, anywhere: under its latest clock what it says, *)
(* and nothing of a client that does not exist yet.  Statements queued,    *)
(* under way, held by the server or shown are all told.                    *)
(***************************************************************************)
Fits(l, ph, m, s) ==
    /\ s.of[2] > l[s.of[1]] => s.clock = 0 /\ s.says = Silence
    /\ ph[s.of[1]] # "none" /\ s.of[2] = l[s.of[1]] =>
         /\ s.clock <= m[s.of[1]].clock
         /\ s.clock = m[s.of[1]].clock /\ s.says # Silence => s.says = m[s.of[1]].says

AllFit(l, ph, m, statements) == \A s \in statements : Fits(l, ph, m, s)
Entry(known, c) == [of |-> c, clock |-> known[c].clock, says |-> known[c].says]
Told(l, ph, m, known) == \A c \in Identities : Fits(l, ph, m, Entry(known, c))

TruthIn(l, ph, m) ==
    /\ \A d \in Devices : \A item \in Items(sealing[d]) : AllFit(l, ph, m, item.statements)
    /\ \A d \in Devices : \A frame \in Items(opening[d]) : AllFit(l, ph, m, frame.statements)
    /\ Told(l, ph, m, vouched)
    /\ \A d \in Devices : Told(l, ph, m, peers[d])
Truthful == TruthIn(life, phase, mine)

LEMMA EntryTyped ==
    ASSUME NEW known \in [Identities -> Known], NEW c \in Identities
    PROVE  Entry(known, c) \in Statement
BY DEF Entry, Known, Statement

\* What fits now fits after any step: clocks only grow, a client that is gone
\* says nothing, and one that is new has been told nothing of.
LEMMA FitsStay ==
    ASSUME TransportType, NEW d \in Devices, Moves(d), NEW s \in Statement,
           Fits(life, phase, mine, s)
    PROVE  Fits(life', phase', mine', s)
<1> DEFINE e == s.of[1]
<1>0. e \in Devices /\ s.of[2] \in 1..MaxLives /\ s.clock \in Nat
  BY DEF Statement, Identities
<1>t. /\ life[e] \in Nat /\ mine[e].clock \in Nat /\ mine[d].clock \in Nat /\ life[d] \in Nat
      /\ life \in [Devices -> 1..MaxLives] /\ mine \in [Devices -> Known]
      /\ phase \in [Devices -> {"none", "loading", "asked", "synced"}]
  <2>1. life[e] \in 1..MaxLives /\ life[d] \in 1..MaxLives /\ mine[e].clock \in Nat /\ mine[d].clock \in Nat
    BY <1>0, SelfTyped
  <2> QED BY <2>1, AwarenessAssumption DEF TransportType
<1>1. CASE UNCHANGED <<life, mine>> /\ (phase'[e] # "none" => phase[e] # "none")
  BY <1>1, <1>0 DEF Fits
<1>2. CASE /\ UNCHANGED <<life, phase>> /\ mine'[d].clock = mine[d].clock + 1
           /\ \A x \in Devices \ {d} : mine'[x] = mine[x]
  BY <1>2, <1>0, <1>t DEF Fits
<1>3. CASE Unsubscribe(d)
  <2>1. UNCHANGED life /\ phase' = [phase EXCEPT ![d] = "none"] /\ mine' = [mine EXCEPT ![d] = Quiet]
    BY <1>3 DEF Unsubscribe
  <2> QED BY <2>1, <1>0, <1>t DEF Fits
<1>4. CASE Subscribe(d)
  <2>1. UNCHANGED mine /\ life' = [life EXCEPT ![d] = @ + 1] /\ phase' = [phase EXCEPT ![d] = "loading"]
    BY <1>4 DEF Subscribe
  <2>2. CASE e = d
    <3>1. life'[e] = life[e] + 1
      BY <2>1, <2>2, <1>t
    <3>2. s.of[2] >= life'[e] => s.clock = 0 /\ s.says = Silence
      BY <3>1, <1>0, <1>t DEF Fits
    <3> QED BY <3>1, <3>2, <2>1, <1>0, <1>t DEF Fits
  <2>3. CASE e # d
    <3>1. life'[e] = life[e] /\ phase'[e] = phase[e]
      BY <2>1, <2>3, <1>0, <1>t
    <3> QED BY <3>1, <2>1 DEF Fits
  <2> QED BY <2>2, <2>3
<1>5. CASE \E says \in Claims : Say(d, says) /\ UNCHANGED <<life, phase>>
  <2>1. /\ UNCHANGED <<life, phase>> /\ mine'[d].clock = mine[d].clock + 1
        /\ \A x \in Devices \ {d} : mine'[x] = mine[x]
    BY <1>5, <1>t DEF Say
  <2> QED BY <2>1, <1>2
<1>6. CASE Hears(d)
  <2>1. PICK statements : HearFrom(d, statements)
    BY <1>6 DEF Hears
  <2>2. UNCHANGED <<life, phase>> /\ (mine' = mine \/ mine' = [mine EXCEPT ![d].clock = @ + 1])
    BY <2>1 DEF HearFrom
  <2>3. CASE mine' = mine
    BY <2>2, <2>3, <1>1
  <2>4. CASE mine' = [mine EXCEPT ![d].clock = @ + 1]
    <3>1. mine'[d].clock = mine[d].clock + 1 /\ \A x \in Devices \ {d} : mine'[x] = mine[x]
      BY <2>4, <1>t DEF Known
    <3> QED BY <3>1, <2>2, <1>2
  <2> QED BY <2>2, <2>3, <2>4
<1>7. CASE Voices(d)
  BY <1>7, <1>5, <1>1 DEF Voices
<1>8. CASE \E next \in {"waiting", "refused"} : SocketCloses(d, next)
  <2>1. UNCHANGED <<life, mine>> /\ phase' = [phase EXCEPT ![d] = IF Subscribed(d) THEN "loading" ELSE @]
    BY <1>8 DEF SocketCloses
  <2>2. phase'[e] # "none" => phase[e] # "none"
    BY <2>1, <1>0, <1>t DEF Subscribed
  <2> QED BY <2>1, <2>2, <1>1
<1>9. CASE SendSubscribe(d) \/ CatchUpEnds(d)
  <2>1. UNCHANGED <<life, mine>> /\ (phase'[e] # "none" => phase[e] # "none")
    BY <1>9, <1>0, <1>t DEF SendSubscribe, CatchUpEnds
  <2> QED BY <2>1, <1>1
<1>10. CASE Seal(d) \/ SealFails(d) \/ Sweep(d) \/ Connects(d)
  BY <1>10, <1>1 DEF Seal, SealFails, Sweep, Connects
<1> QED BY <1>3, <1>4, <1>6, <1>7, <1>8, <1>9, <1>10 DEF Moves

LEMMA TruthStays ==
    ASSUME TransportType, NEW d \in Devices, Moves(d), Truthful
    PROVE  TruthIn(life', phase', mine')
<1>1. \A x \in Devices : \A item \in Items(sealing[x]) : AllFit(life', phase', mine', item.statements)
  BY QueuedTyped, FitsStay DEF Truthful, TruthIn, AllFit
<1>2. \A x \in Devices : \A frame \in Items(opening[x]) : AllFit(life', phase', mine', frame.statements)
  BY QueuedTyped, FitsStay DEF Truthful, TruthIn, AllFit
<1>3. \A known \in [Identities -> Known] :
        Told(life, phase, mine, known) => Told(life', phase', mine', known)
  BY EntryTyped, FitsStay DEF Told
<1> QED BY <1>1, <1>2, <1>3 DEF Truthful, TruthIn, TransportType

LEMMA SilencedFits ==
    ASSUME NEW l, NEW ph, NEW m, NEW s \in Statement, Fits(l, ph, m, s)
    PROVE  Fits(l, ph, m, [s EXCEPT !.says = Silence])
BY DEF Fits, Statement

LEMMA AcceptedFits ==
    ASSUME NEW l, NEW ph, NEW m,
           NEW known \in [Identities -> Known], NEW statements \in SUBSET Statement,
           Told(l, ph, m, known), AllFit(l, ph, m, statements)
    PROVE  Told(l, ph, m, Accepted(known, statements))
<1> SUFFICES ASSUME NEW c \in Identities
             PROVE  Fits(l, ph, m, Entry(Accepted(known, statements), c))
  BY DEF Told
<1>1. CASE \E s \in statements : s.of = c /\ Newer(s, known[c])
  <2> DEFINE t == CHOOSE s \in statements : s.of = c /\ Newer(s, known[c])
  <2>1. t \in statements /\ t.of = c
    BY <1>1
  <2>2. Accepted(known, statements)[c] = [clock |-> t.clock, says |-> t.says]
    BY <1>1 DEF Accepted
  <2>3. Entry(Accepted(known, statements), c) = t
    BY <2>1, <2>2 DEF Entry, Statement
  <2> QED BY <2>1, <2>3 DEF AllFit
<1>2. CASE ~\E s \in statements : s.of = c /\ Newer(s, known[c])
  BY <1>2 DEF Accepted, Entry, Told
<1> QED BY <1>1, <1>2

LEMMA SilencingFits ==
    ASSUME NEW l, NEW ph, NEW m, NEW known \in [Identities -> Known],
           NEW after \in [Identities -> Known], Told(l, ph, m, known),
           \A c \in Identities : after[c] = known[c] \/ after[c] = [known[c] EXCEPT !.says = Silence]
    PROVE  Told(l, ph, m, after)
<1> SUFFICES ASSUME NEW c \in Identities
             PROVE  Fits(l, ph, m, Entry(after, c))
  BY DEF Told
<1>1. Fits(l, ph, m, Entry(known, c)) /\ Entry(known, c) \in Statement
  BY EntryTyped DEF Told
<1>2. known[c] \in Known
  OBVIOUS
<1>3. Entry(after, c) = Entry(known, c) \/ Entry(after, c) = [Entry(known, c) EXCEPT !.says = Silence]
  BY <1>2 DEF Entry, Known
<1> QED BY <1>1, <1>3, SilencedFits

LEMMA VouchedFits ==
    ASSUME TransportType, NEW l, NEW ph, NEW m, NEW who, Told(l, ph, m, vouched)
    PROVE  AllFit(l, ph, m, Vouched(who))
BY DEF AllFit, Vouched, Told, Entry

(***************************************************************************)
(* Where statements go.                                                    *)
(***************************************************************************)
LEMMA CapturedItems ==
    ASSUME TransportType, NEW d \in Devices, NEW statements \in SUBSET Statement, NEW x \in Devices,
           NEW item \in Items(Captured(d, statements)[x])
    PROVE  \/ item \in Items(sealing[x])
           \/ x = d /\ Online(d) /\ item = [sub |-> life[d], statements |-> statements]
<1>1. [sub |-> life[d], statements |-> statements] \in Outgoing
  BY SelfTyped DEF Outgoing
<1>2. sealing \in [Devices -> Seq(Outgoing)] /\ sealing[d] \in Seq(Outgoing)
  BY DEF TransportType
<1>3. Items(Append(sealing[d], [sub |-> life[d], statements |-> statements]))
        = Items(sealing[d]) \cup {[sub |-> life[d], statements |-> statements]}
  BY <1>1, <1>2, AppendItems
<1> QED BY <1>2, <1>3 DEF Captured

LEMMA RelayedItems ==
    ASSUME TransportType, NEW d \in Devices, NEW statements \in SUBSET Statement, NEW x \in Devices,
           NEW frame \in Items(Relayed(d, statements)[x])
    PROVE  \/ frame \in Items(opening[x])
           \/ /\ Online(x) /\ x # d
              /\ frame = [sub |-> life[x], epoch |-> epoch[x], statements |-> statements]
<1>1. [sub |-> life[x], epoch |-> epoch[x], statements |-> statements] \in Incoming
  BY SelfTyped DEF Incoming
<1>2. opening[x] \in Seq(Incoming)
  BY DEF TransportType
<1>3. Items(Append(opening[x], [sub |-> life[x], epoch |-> epoch[x], statements |-> statements]))
        = Items(opening[x]) \cup {[sub |-> life[x], epoch |-> epoch[x], statements |-> statements]}
  BY <1>1, <1>2, AppendItems
<1> QED BY <1>3 DEF Relayed

LEMMA TailedItems ==
    ASSUME TransportType, NEW d \in Devices, NEW x \in Devices
    PROVE  /\ sealing[d] # << >> => Items([sealing EXCEPT ![d] = Tail(@)][x]) \subseteq Items(sealing[x])
           /\ opening[d] # << >> => Items([opening EXCEPT ![d] = Tail(@)][x]) \subseteq Items(opening[x])
BY HeadTyped DEF TransportType

LEMMA RetractedFit ==
    ASSUME TransportType, NEW l, NEW ph, NEW m, NEW who, Told(l, ph, m, vouched)
    PROVE  /\ {[s EXCEPT !.says = Silence] : s \in Vouched(who)} \in SUBSET Statement
           /\ AllFit(l, ph, m, {[s EXCEPT !.says = Silence] : s \in Vouched(who)})
<1>1. Vouched(who) \in SUBSET Statement /\ AllFit(l, ph, m, Vouched(who))
  BY VouchedTyped, VouchedFits
<1>2. \A s \in Statement : [s EXCEPT !.says = Silence] \in Statement
  BY SilenceTyped DEF Statement
<1>3. \A s \in Vouched(who) : Fits(l, ph, m, [s EXCEPT !.says = Silence])
  BY <1>1, SilencedFits DEF AllFit
<1> QED BY <1>1, <1>2, <1>3 DEF AllFit

\* What a frame or a withdrawal brings to the server and to the others.
LEMMA SpreadFits ==
    ASSUME TransportType, NEW d \in Devices, TruthIn(life', phase', mine'),
           \/ \E statements \in SUBSET Statement :
                 Publish(d, statements) /\ AllFit(life', phase', mine', statements)
           \/ Withdraw(d)
           \/ UNCHANGED <<listeners, vouched, opening>>
    PROVE  /\ \A x \in Devices : \A frame \in Items(opening'[x]) : AllFit(life', phase', mine', frame.statements)
           /\ Told(life', phase', mine', vouched')
<1>0. /\ \A x \in Devices : \A frame \in Items(opening[x]) : AllFit(life', phase', mine', frame.statements)
      /\ Told(life', phase', mine', vouched)
      /\ vouched \in [Identities -> Known]
  BY DEF TruthIn, TransportType
<1>1. CASE \E statements \in SUBSET Statement :
              Publish(d, statements) /\ AllFit(life', phase', mine', statements)
  <2>1. PICK statements \in SUBSET Statement :
              Publish(d, statements) /\ AllFit(life', phase', mine', statements)
    BY <1>1
  <2>2. Told(life', phase', mine', vouched')
    BY <1>0, <2>1, AcceptedFits DEF Publish
  <2>3. \A x \in Devices : \A frame \in Items(opening'[x]) :
           frame \in Items(opening[x]) \/ frame.statements = statements
    BY <2>1, RelayedItems DEF Publish
  <2> QED BY <1>0, <2>1, <2>2, <2>3
<1>2. CASE Withdraw(d)
  <2> DEFINE gone == {[s EXCEPT !.says = Silence] : s \in Vouched({d})}
  <2>1. gone \in SUBSET Statement /\ AllFit(life', phase', mine', gone)
    BY <1>0, RetractedFit
  <2>2. \A x \in Devices : \A frame \in Items(opening'[x]) :
           frame \in Items(opening[x]) \/ frame.statements = gone
    <3>1. opening' = Relayed(d, gone)
      BY <1>2 DEF Withdraw
    <3> HIDE DEF gone
    <3> QED BY <2>1, <3>1, RelayedItems
  <2>3. vouched' \in [Identities -> Known]
    BY <1>2, WithdrawnTyped
  <2>4. \A c \in Identities : vouched'[c] = vouched[c] \/ vouched'[c] = [vouched[c] EXCEPT !.says = Silence]
    BY <1>2 DEF Withdraw
  <2>5. Told(life', phase', mine', vouched')
    BY <1>0, <2>3, <2>4, SilencingFits
  <2> QED BY <1>0, <2>1, <2>2, <2>5
<1>3. CASE UNCHANGED <<listeners, vouched, opening>>
  BY <1>0, <1>3
<1> QED BY <1>1, <1>2, <1>3

LEMMA NextTruthful ==
    ASSUME TransportType, NEW d \in Devices, Moves(d), Truthful
    PROVE  Truthful'
<1> DEFINE SealingFits == \A x \in Devices : \A item \in Items(sealing'[x]) : AllFit(life', phase', mine', item.statements)
           OpeningFits == \A x \in Devices : \A frame \in Items(opening'[x]) : AllFit(life', phase', mine', frame.statements)
           VouchedFit == Told(life', phase', mine', vouched')
           ShownFit == \A x \in Devices : Told(life', phase', mine', peers'[x])
<1>0. TruthIn(life', phase', mine')
  BY TruthStays
<1>s. UNCHANGED sealing => SealingFits
  BY <1>0 DEF TruthIn
<1>o. UNCHANGED opening => OpeningFits
  BY <1>0 DEF TruthIn
<1>v. UNCHANGED vouched => VouchedFit
  BY <1>0 DEF TruthIn
<1>p. UNCHANGED peers => ShownFit
  BY <1>0 DEF TruthIn
<1>c. ASSUME NEW statements \in SUBSET Statement, AllFit(life', phase', mine', statements),
             sealing' = Captured(d, statements)
      PROVE  SealingFits
  <2>1. \A x \in Devices : \A item \in Items(sealing'[x]) :
           item \in Items(sealing[x]) \/ item.statements = statements
    BY <1>c, CapturedItems
  <2> QED BY <2>1, <1>c, <1>0 DEF TruthIn
<1>t. sealing[d] # << >> /\ sealing' = [sealing EXCEPT ![d] = Tail(@)] => SealingFits
  BY <1>0, TailedItems DEF TruthIn
<1>w. Withdraw(d) \/ UNCHANGED <<listeners, vouched, opening>> => OpeningFits /\ VouchedFit
  BY <1>0, SpreadFits
<1>g. ASSUME peers' \in [Devices -> [Identities -> Known]],
             \A x \in Devices, c \in Identities :
                peers'[x][c] = peers[x][c] \/ peers'[x][c] = [peers[x][c] EXCEPT !.says = Silence]
      PROVE  ShownFit
  <2>1. \A x \in Devices : peers[x] \in [Identities -> Known] /\ peers'[x] \in [Identities -> Known]
    BY <1>g DEF TransportType
  <2> QED BY <2>1, <1>g, <1>0, SilencingFits DEF TruthIn
<1>y. TransportType'
  BY MovesTyped
<1>1. CASE Voices(d)
  <2>1. CASE UNCHANGED <<mine, sealing>>
    BY <1>1, <2>1, <1>s, <1>o, <1>v, <1>p DEF Voices, Truthful, TruthIn
  <2>2. CASE \E says \in Claims : Say(d, says)
    <3>1. PICK says \in Claims : Say(d, says)
      BY <2>2
    <3> DEFINE said == [of |-> Self(d), clock |-> mine[d].clock + 1, says |-> says]
    <3>2. said \in Statement
      BY SelfTyped DEF Statement
    <3>3. mine'[d] = [clock |-> mine[d].clock + 1, says |-> says] /\ life' = life /\ sealing' = Captured(d, {said})
      BY <1>1, <3>1 DEF Say, Voices, TransportType
    <3>4. Fits(life', phase', mine', said)
      <4>0. mine[d].clock \in Nat /\ life[d] \in 1..MaxLives
        BY SelfTyped
      <4>1. said.of[1] = d /\ said.of[2] = life'[d]
        BY <3>3, SelfTyped
      <4>2. said.clock = mine'[d].clock /\ said.says = mine'[d].says
        BY <3>3
      <4>3. life'[d] \in Nat
        BY <4>0, <3>3, AwarenessAssumption
      <4>4. mine'[d].clock \in Nat
        BY <4>0, <3>3
      <4> HIDE DEF said
      <4> QED BY <4>1, <4>2, <4>3, <4>4 DEF Fits
    <3>5. SealingFits
      <4> HIDE DEF said, SealingFits
      <4> QED BY <3>2, <3>3, <3>4, <1>c DEF AllFit
    <3> QED BY <1>1, <3>5, <1>o, <1>v, <1>p DEF Voices, Truthful, TruthIn
  <2> QED BY <1>1, <2>1, <2>2 DEF Voices
<1>2. CASE Seal(d)
  <2> DEFINE item == Head(sealing[d])
  <2>1. item.statements \in SUBSET Statement /\ AllFit(life', phase', mine', item.statements)
    BY <1>2, <1>0, HeadTyped DEF Seal, TruthIn
  <2>2. Publish(d, item.statements) \/ UNCHANGED <<listeners, vouched, opening>>
    BY <1>2 DEF Seal, Sealed
  <2>3. OpeningFits /\ VouchedFit
    <3> HIDE DEF item
    <3> QED BY <2>1, <2>2, <1>0, SpreadFits
  <2> QED BY <1>2, <2>3, <1>t, <1>p DEF Seal, Truthful, TruthIn
<1>3. CASE SealFails(d)
  BY <1>3, <1>t, <1>o, <1>v, <1>p DEF SealFails, Truthful, TruthIn
<1>4. CASE Hears(d)
  <2>1. PICK statements \in SUBSET Head(opening[d]).statements : HearFrom(d, statements)
    BY <1>4 DEF Hears
  <2>2. statements \in SUBSET Statement /\ AllFit(life', phase', mine', Head(opening[d]).statements)
    BY <1>4, <2>1, <1>0, HeadTyped DEF Hears, TruthIn
  <2>3. OpeningFits
    BY <1>4, <2>1, <1>0, TailedItems DEF Hears, HearFrom, TruthIn
  <2>4. Told(life', phase', mine', Accepted(peers[d], {s \in statements : s.of # Self(d)}))
    <3>1. peers[d] \in [Identities -> Known] /\ Told(life', phase', mine', peers[d])
      BY <1>0 DEF TransportType, TruthIn
    <3>2. {s \in statements : s.of # Self(d)} \in SUBSET Statement
      BY <2>2
    <3>3. AllFit(life', phase', mine', {s \in statements : s.of # Self(d)})
      BY <2>1, <2>2 DEF AllFit
    <3> QED BY <3>1, <3>2, <3>3, AcceptedFits
  <2>5. ShownFit
    <3>1. \A x \in Devices : peers'[x] = peers[x] \/ peers'[x] = Accepted(peers[d], {s \in statements : s.of # Self(d)})
      BY <2>1 DEF HearFrom, TransportType
    <3> QED BY <3>1, <2>4, <1>0 DEF TruthIn
  <2> QED BY <2>1, <2>3, <2>5, <1>s, <1>v DEF HearFrom, Truthful, TruthIn
<1>5. CASE Sweep(d)
  <2> DEFINE swept == {c \in OthersIn(d) : ~Renewed(c)}
             said == {[of |-> c, clock |-> peers[d][c].clock, says |-> Silence] : c \in swept}
  <2>1. swept \subseteq Identities /\ \A c \in Identities : peers[d][c] \in Known
    BY DEF OthersIn, Present, TransportType
  <2>2. said \in SUBSET Statement
    BY <2>1, SilenceTyped DEF Statement, Known
  <2>3. AllFit(life', phase', mine', said)
    <3> SUFFICES ASSUME NEW c \in swept
                 PROVE  Fits(life', phase', mine', [of |-> c, clock |-> peers[d][c].clock, says |-> Silence])
      BY DEF AllFit
    <3>1. Fits(life', phase', mine', Entry(peers[d], c)) /\ Entry(peers[d], c) \in Statement
      BY <2>1, <1>0, EntryTyped DEF TruthIn, Told, TransportType
    <3> QED BY <3>1, SilencedFits DEF Entry
  <2>4. SealingFits
    <3>1. sealing' = Captured(d, said)
      BY <1>5 DEF Sweep
    <3> HIDE DEF said, SealingFits
    <3> QED BY <2>2, <2>3, <3>1, <1>c
  <2>5. ShownFit
    <3>1. \A x \in Devices, c \in Identities :
            peers'[x][c] = peers[x][c] \/ peers'[x][c] = [peers[x][c] EXCEPT !.says = Silence]
      BY <1>5 DEF Sweep, TransportType
    <3> HIDE DEF ShownFit
    <3> QED BY <3>1, <1>y, <1>g DEF TransportType
  <2> QED BY <1>5, <2>4, <2>5, <1>o, <1>v DEF Sweep, Truthful, TruthIn
<1>6. CASE \E next \in {"waiting", "refused"} : SocketCloses(d, next)
  <2>1. /\ Withdraw(d) /\ UNCHANGED sealing
        /\ peers' = [peers EXCEPT ![d] = [c \in Identities |-> [@[c] EXCEPT !.says = Silence]]]
    BY <1>6 DEF SocketCloses
  <2>2. \A x \in Devices, c \in Identities :
            peers'[x][c] = peers[x][c] \/ peers'[x][c] = [peers[x][c] EXCEPT !.says = Silence]
    BY <2>1 DEF TransportType
  <2>3. ShownFit
    <3> HIDE DEF ShownFit
    <3> QED BY <2>2, <1>y, <1>g DEF TransportType
  <2> QED BY <2>1, <2>3, <1>s, <1>w DEF Truthful, TruthIn
<1>7. CASE Connects(d) \/ SendSubscribe(d) \/ Subscribe(d)
  BY <1>7, <1>s, <1>o, <1>v, <1>p DEF Connects, SendSubscribe, Subscribe, Truthful, TruthIn
<1>8. CASE CatchUpEnds(d)
  <2> DEFINE here == Vouched(Devices \ {d})
             frame == [sub |-> life[d], epoch |-> epoch[d], statements |-> here]
  <2>1. here \in SUBSET Statement /\ AllFit(life', phase', mine', here)
    BY <1>0, VouchedTyped, VouchedFits DEF TruthIn
  <2>2. frame \in Incoming /\ frame.statements = here
    BY <2>1, SelfTyped DEF Incoming
  <2>3. opening' = opening \/ opening' = [opening EXCEPT ![d] = Append(@, frame)]
    BY <1>8 DEF CatchUpEnds
  <2>4. opening \in [Devices -> Seq(Incoming)]
    BY DEF TransportType
  <2>5. \A x \in Devices : \A f \in Items(opening'[x]) : f \in Items(opening[x]) \/ f = frame
    <3>1. Items(Append(opening[d], frame)) = Items(opening[d]) \cup {frame}
      <4>1. opening[d] \in Seq(Incoming)
        BY <2>4
      <4> HIDE DEF frame
      <4> QED BY <2>2, <4>1, AppendItems
    <3> HIDE DEF frame
    <3>2. CASE opening' = opening
      BY <3>2
    <3>3. CASE opening' = [opening EXCEPT ![d] = Append(@, frame)]
      <4>1. \A x \in Devices : opening'[x] = IF x = d THEN Append(opening[d], frame) ELSE opening[x]
        BY <3>3, <2>4
      <4> QED BY <4>1, <3>1
    <3> QED BY <2>3, <3>2, <3>3
  <2>6. OpeningFits
    <3> HIDE DEF frame, here
    <3> QED BY <2>1, <2>2, <2>5, <1>0 DEF TruthIn
  <2> QED BY <1>8, <2>6, <1>s, <1>v, <1>p DEF CatchUpEnds, Truthful, TruthIn
<1>9. CASE Unsubscribe(d)
  <2>1. Withdraw(d) \/ UNCHANGED <<listeners, vouched, opening>>
    BY <1>9 DEF Unsubscribe
  <2>2. ShownFit
    <3>1. \A x \in Devices : peers'[x] = peers[x] \/ peers'[x] = [c \in Identities |-> Unheard]
      BY <1>9 DEF Unsubscribe, TransportType
    <3>2. Told(life', phase', mine', [c \in Identities |-> Unheard])
      <4>1. \A x \in Devices : mine'[x].clock >= 0
        BY <1>y DEF TransportType, Known
      <4> QED BY <4>1 DEF Told, Entry, Unheard, Fits, Identities
    <3> QED BY <3>1, <3>2, <1>0 DEF TruthIn
  <2> QED BY <1>9, <2>1, <2>2, <1>s, <1>w DEF Unsubscribe, Truthful, TruthIn
<1> QED BY <1>1, <1>2, <1>3, <1>4, <1>5, <1>6, <1>7, <1>8, <1>9 DEF Moves

LEMMA TruthShows ==
    ASSUME TransportType, Truthful
    PROVE  ShownIsSaid
<1> SUFFICES ASSUME NEW d \in Devices, NEW e \in Devices, Subscribed(e)
             PROVE  LET shown == peers[d][Self(e)]
                    IN  /\ shown.clock <= mine[e].clock
                        /\ shown.clock = mine[e].clock /\ shown.says # Silence => shown.says = mine[e].says
  BY DEF ShownIsSaid
<1>1. Self(e) \in Identities /\ Self(e)[1] = e /\ Self(e)[2] = life[e]
  BY SelfTyped
<1>2. Fits(life, phase, mine, Entry(peers[d], Self(e)))
  BY <1>1 DEF Truthful, TruthIn, Told
<1> QED BY <1>1, <1>2 DEF Fits, Entry, Subscribed

LEMMA InitTruthful ==
    ASSUME NEW said \in [Devices -> Known], TransportInit(said)
    PROVE  TransportType /\ Truthful
<1> DEFINE known == [c \in Identities |-> IF c[2] = 1 /\ said[c[1]].says # Silence THEN said[c[1]] ELSE Unheard]
<1>0. /\ mine = said /\ vouched = known
      /\ peers = [d \in Devices |-> [c \in Identities |-> IF c[1] = d THEN Unheard ELSE known[c]]]
      /\ life = [d \in Devices |-> 1] /\ phase = [d \in Devices |-> "synced"]
      /\ sealing = [d \in Devices |-> << >>] /\ opening = [d \in Devices |-> << >>]
  BY DEF TransportInit
<1>1. \A c \in Identities : c[1] \in Devices /\ c[2] \in 1..MaxLives
  BY DEF Identities
<1>2. \A c \in Identities : known[c] \in Known
  BY <1>1, SilenceTyped
<1>3. TransportType
  <2>1. 1 \in 1..MaxLives
    BY AwarenessAssumption
  <2>2. sealing \in [Devices -> Seq(Outgoing)] /\ opening \in [Devices -> Seq(Incoming)]
    BY <1>0, NoItems
  <2>3. vouched \in [Identities -> Known] /\ peers \in [Devices -> [Identities -> Known]]
    BY <1>0, <1>2, SilenceTyped
  <2> QED BY <1>0, <2>1, <2>2, <2>3 DEF TransportInit, TransportType
<1>4. \A c \in Identities : Fits(life, phase, mine, [of |-> c, clock |-> 0, says |-> Silence])
  <2> SUFFICES ASSUME NEW c \in Identities
               PROVE  Fits(life, phase, mine, [of |-> c, clock |-> 0, says |-> Silence])
    OBVIOUS
  <2>1. mine[c[1]].clock \in Nat
    BY <1>1, <1>0 DEF Known
  <2> QED BY <2>1 DEF Fits
<1>6. \A c \in Identities : Fits(life, phase, mine, Entry(known, c))
  <2> SUFFICES ASSUME NEW c \in Identities
               PROVE  Fits(life, phase, mine, Entry(known, c))
    OBVIOUS
  <2>1. CASE c[2] = 1 /\ said[c[1]].says # Silence
    <3>1. life[c[1]] = 1 /\ mine[c[1]] = said[c[1]] /\ said[c[1]].clock \in Nat /\ known[c] = said[c[1]]
      BY <1>0, <1>1, <2>1 DEF Known
    <3> HIDE DEF known
    <3> QED BY <3>1, <2>1 DEF Fits, Entry
  <2>2. CASE ~(c[2] = 1 /\ said[c[1]].says # Silence)
    BY <2>2, <1>4 DEF Entry, Unheard
  <2> QED BY <2>1, <2>2
<1>7. Told(life, phase, mine, vouched)
  BY <1>0, <1>6 DEF Told
<1>8. \A d \in Devices : Told(life, phase, mine, peers[d])
  <2> SUFFICES ASSUME NEW d \in Devices, NEW c \in Identities
               PROVE  Fits(life, phase, mine, Entry(peers[d], c))
    BY DEF Told
  <2>1. peers[d][c] = known[c] \/ peers[d][c] = Unheard
    BY <1>0
  <2>2. Entry(peers[d], c) = Entry(known, c) \/ Entry(peers[d], c) = [of |-> c, clock |-> 0, says |-> Silence]
    BY <2>1 DEF Entry, Unheard
  <2> QED BY <2>2, <1>4, <1>6
<1> QED BY <1>0, <1>3, <1>7, <1>8, NoItems DEF Truthful, TruthIn

(***************************************************************************)
(* Nobody is vouched for who is not there.  What a queue may still bring:  *)
(* a device says nothing but null of anybody but the client it was when it *)
(* said it, and a frame of the connection there is now comes to a device   *)
(* that is connected.                                                      *)
(***************************************************************************)
SaysOfItself(d, item) == \A s \in item.statements : s.says # Silence => s.of = <<d, item.sub>>
CameHere(d, frame) == frame.epoch <= epoch[d] /\ (frame.epoch = epoch[d] => Online(d))

Attended ==
    /\ NoGhosts
    /\ \A d \in Devices : \A item \in Items(sealing[d]) : SaysOfItself(d, item)
    /\ \A d \in Devices : \A frame \in Items(opening[d]) : CameHere(d, frame)

LEMMA AcceptedPresent ==
    ASSUME NEW known \in [Identities -> Known], NEW statements \in SUBSET Statement
    PROVE  \A c \in Present(Accepted(known, statements)) :
              c \in Present(known) \/ \E s \in statements : s.of = c /\ s.says # Silence
<1> SUFFICES ASSUME NEW c \in Present(Accepted(known, statements)), c \notin Present(known)
             PROVE  \E s \in statements : s.of = c /\ s.says # Silence
  OBVIOUS
<1>0. c \in Identities /\ Accepted(known, statements)[c].says # Silence /\ known[c].says = Silence
  BY DEF Present
<1>1. \E s \in statements : s.of = c /\ Newer(s, known[c])
  BY <1>0 DEF Accepted
<1> DEFINE t == CHOOSE s \in statements : s.of = c /\ Newer(s, known[c])
<1>2. t \in statements /\ t.of = c
  BY <1>1
<1>3. Accepted(known, statements)[c] = [clock |-> t.clock, says |-> t.says]
  BY <1>0, <1>1 DEF Accepted
<1> QED BY <1>0, <1>2, <1>3

LEMMA NextAttended ==
    ASSUME TransportType, NEW d \in Devices, Moves(d), Attended
    PROVE  Attended'
<1> DEFINE Listened == \A x \in listeners' : Online(x)' /\ Subscribed(x)'
           VouchedIn == \A c \in Present(vouched') : Subscribed(c[1])' /\ Online(c[1])' /\ c = Self(c[1])'
           OfflineEmpty == \A x \in Devices : ~Online(x)' => OthersIn(x)' = {}
           OfItself == \A x \in Devices : \A item \in Items(sealing'[x]) : SaysOfItself(x, item)
           Came == \A x \in Devices : \A frame \in Items(opening'[x]) : CameHere(x, frame)'
<1>a. /\ \A x \in listeners : Online(x) /\ Subscribed(x)
      /\ \A c \in Present(vouched) : Subscribed(c[1]) /\ Online(c[1]) /\ c = Self(c[1])
      /\ \A x \in Devices : ~Online(x) => OthersIn(x) = {}
      /\ \A x \in Devices : \A item \in Items(sealing[x]) : SaysOfItself(x, item)
      /\ \A x \in Devices : \A frame \in Items(opening[x]) : CameHere(x, frame)
  BY DEF Attended, NoGhosts
<1>b. SUFFICES Listened /\ VouchedIn /\ OfflineEmpty /\ OfItself /\ Came
  BY DEF Attended, NoGhosts, SaysOfItself
<1>y. TransportType'
  BY MovesTyped
<1>s. UNCHANGED sealing => OfItself
  BY <1>a
<1>t. sealing[d] # << >> /\ sealing' = [sealing EXCEPT ![d] = Tail(@)] => OfItself
  BY <1>a, TailedItems
<1>k. UNCHANGED <<link, epoch>> /\ (\A x \in Devices : Items(opening'[x]) \subseteq Items(opening[x])) => Came
  BY <1>a DEF CameHere, Online
<1>u. UNCHANGED <<link, peers>> => OfflineEmpty
  BY <1>a DEF Online, OthersIn
<1>l. UNCHANGED <<link, phase, life, listeners, vouched>> => Listened /\ VouchedIn
  BY <1>a DEF Online, Subscribed, Self
<1>c. ASSUME NEW statements \in SUBSET Statement, sealing' = Captured(d, statements),
             \A s \in statements : s.says # Silence => s.of = Self(d)
      PROVE  OfItself
  <2> SUFFICES ASSUME NEW x \in Devices, NEW item \in Items(sealing'[x])
               PROVE  SaysOfItself(x, item)
    OBVIOUS
  <2>1. CASE item \in Items(sealing[x])
    BY <2>1, <1>a
  <2>2. CASE x = d /\ item = [sub |-> life[d], statements |-> statements]
    BY <2>2, <1>c DEF SaysOfItself, Self
  <2> QED BY <2>1, <2>2, <1>c, CapturedItems
<1>r. ASSUME NEW statements \in SUBSET Statement, opening' = Relayed(d, statements), UNCHANGED <<link, epoch>>
      PROVE  Came
  <2> SUFFICES ASSUME NEW x \in Devices, NEW frame \in Items(opening'[x])
               PROVE  CameHere(x, frame)'
    OBVIOUS
  <2>1. CASE frame \in Items(opening[x])
    BY <2>1, <1>a, <1>r DEF CameHere, Online
  <2>2. CASE Online(x) /\ frame = [sub |-> life[x], epoch |-> epoch[x], statements |-> statements]
    BY <2>2, <1>r, SelfTyped DEF CameHere, Online
  <2> QED BY <2>1, <2>2, <1>r, RelayedItems
<1>1. CASE Voices(d)
  <2>0. UNCHANGED <<link, epoch, life, phase, peers, opening, listeners, vouched>>
    BY <1>1 DEF Voices
  <2>1. CASE UNCHANGED <<mine, sealing>>
    BY <2>0, <2>1, <1>s, <1>k, <1>u, <1>l
  <2>2. CASE \E says \in Claims : Say(d, says)
    <3>1. PICK says \in Claims : Say(d, says)
      BY <2>2
    <3> DEFINE said == [of |-> Self(d), clock |-> mine[d].clock + 1, says |-> says]
    <3>2. said \in Statement /\ said.of = Self(d) /\ sealing' = Captured(d, {said})
      BY <3>1, SelfTyped DEF Statement, Say
    <3>3. OfItself
      <4> HIDE DEF said, OfItself
      <4> QED BY <3>2, <1>c
    <3> QED BY <2>0, <3>3, <1>k, <1>u, <1>l
  <2> QED BY <1>1, <2>1, <2>2 DEF Voices
<1>2. CASE Seal(d)
  <2> DEFINE item == Head(sealing[d])
  <2>0. /\ OfItself /\ UNCHANGED <<link, epoch, life, phase, peers>>
        /\ item.statements \in SUBSET Statement /\ item \in Items(sealing[d])
    BY <1>2, <1>t, HeadTyped DEF Seal
  <2>1. CASE StillWanted(d, item)
    <3>1. Publish(d, item.statements)
      BY <1>2, <2>1 DEF Seal, Sealed
    <3>2. Came
      <4> HIDE DEF item
      <4> QED BY <2>0, <3>1, <1>r DEF Publish
    <3>3. Listened
      BY <2>0, <2>1, <3>1, <1>a DEF Publish, StillWanted, Online, Subscribed
    <3>4. \A s \in item.statements : s.says # Silence => s.of = Self(d)
      BY <2>0, <2>1, <1>a DEF SaysOfItself, StillWanted, Self
    <3>5. \A c \in Present(vouched') : c \in Present(vouched) \/ c = Self(d)
      <4>1. vouched' = Accepted(vouched, item.statements) /\ vouched \in [Identities -> Known]
        BY <3>1 DEF Publish, TransportType
      <4>2. \A c \in Present(vouched') :
               c \in Present(vouched) \/ \E s \in item.statements : s.of = c /\ s.says # Silence
        <5> HIDE DEF item
        <5> QED BY <2>0, <4>1, AcceptedPresent
      <4> HIDE DEF item
      <4> QED BY <3>4, <4>2
    <3>6. Self(d)[1] = d /\ Self(d)' = Self(d)
      BY <2>0, SelfTyped DEF Self
    <3>7. VouchedIn
      BY <2>0, <2>1, <3>5, <3>6, <1>a DEF StillWanted, Online, Subscribed, Self
    <3> QED BY <2>0, <3>2, <3>3, <3>7, <1>u
  <2>2. CASE ~StillWanted(d, item)
    BY <1>2, <2>0, <2>2, <1>k, <1>u, <1>l DEF Seal
  <2> QED BY <2>1, <2>2
<1>3. CASE SealFails(d)
  BY <1>3, <1>t, <1>k, <1>u, <1>l DEF SealFails
<1>4. CASE Hears(d)
  <2>1. PICK statements \in SUBSET Head(opening[d]).statements : HearFrom(d, statements)
    BY <1>4 DEF Hears
  <2>2. Came
    BY <1>4, <2>1, TailedItems, <1>k DEF Hears, HearFrom
  <2>3. OfflineEmpty
    <3>1. CASE Counts(d, Head(opening[d]))
      <4>1. Online(d)
        BY <1>4, <3>1, <1>a, HeadTyped DEF Hears, Counts, CameHere
      <4>2. \A x \in Devices \ {d} : peers'[x] = peers[x]
        BY <2>1, <3>1 DEF HearFrom, TransportType
      <4> QED BY <2>1, <4>1, <4>2, <1>a DEF HearFrom, Online, OthersIn
    <3>2. CASE ~Counts(d, Head(opening[d]))
      BY <2>1, <3>2, <1>u DEF HearFrom
    <3> QED BY <3>1, <3>2
  <2> QED BY <2>1, <2>2, <2>3, <1>s, <1>l DEF HearFrom
<1>5. CASE Sweep(d)
  <2> DEFINE swept == {c \in OthersIn(d) : ~Renewed(c)}
             said == {[of |-> c, clock |-> peers[d][c].clock, says |-> Silence] : c \in swept}
  <2>1. swept \subseteq Identities /\ \A c \in Identities : peers[d][c] \in Known
    BY DEF OthersIn, Present, TransportType
  <2>2. said \in SUBSET Statement /\ \A s \in said : s.says = Silence
    BY <2>1, SilenceTyped DEF Statement, Known
  <2>3. OfItself
    <3>1. sealing' = Captured(d, said)
      BY <1>5 DEF Sweep
    <3> HIDE DEF said, OfItself
    <3> QED BY <2>2, <3>1, <1>c
  <2>4. OfflineEmpty
    <3>1. \A x \in Devices, c \in Identities : peers'[x][c] = peers[x][c] \/ peers'[x][c].says = Silence
      BY <1>5, <2>1 DEF Sweep, TransportType, Known
    <3>2. \A x \in Devices : OthersIn(x)' \subseteq OthersIn(x)
      BY <3>1 DEF OthersIn, Present
    <3> QED BY <1>5, <3>2, <1>a DEF Sweep, Online
  <2> QED BY <1>5, <2>3, <2>4, <1>k, <1>l DEF Sweep
<1>6. CASE \E next \in {"waiting", "refused"} : SocketCloses(d, next)
  <2>1. PICK next \in {"waiting", "refused"} : SocketCloses(d, next)
    BY <1>6
  <2>2. \A x \in Devices \ {d} : (Online(x)' <=> Online(x)) /\ phase'[x] = phase[x] /\ epoch'[x] = epoch[x]
    BY <2>1 DEF SocketCloses, TransportType, Online
  <2>3. Listened
    BY <2>1, <2>2, <1>a, <1>y DEF SocketCloses, Withdraw, Subscribed, TransportType
  <2>4. VouchedIn
    <3>1. \A c \in Present(vouched') : c \in Present(vouched) /\ c[1] # d /\ c[1] \in Devices
      <4>1. \A c \in Identities : c[1] = d => vouched'[c].says = Silence
        BY <2>1 DEF SocketCloses, Withdraw, TransportType, Known
      <4>2. \A c \in Identities : c[1] # d => vouched'[c] = vouched[c]
        BY <2>1 DEF SocketCloses, Withdraw
      <4> QED BY <4>1, <4>2 DEF Present, Identities
    <3> QED BY <2>1, <2>2, <3>1, <1>a DEF SocketCloses, Subscribed, Self
  <2>5. OfflineEmpty
    <3>1. OthersIn(d)' = {}
      BY <2>1 DEF SocketCloses, OthersIn, Present, TransportType, Known
    <3>2. \A x \in Devices \ {d} : OthersIn(x)' = OthersIn(x)
      BY <2>1 DEF SocketCloses, OthersIn, TransportType
    <3> QED BY <2>2, <3>1, <3>2, <1>a
  <2>6. Came
    <3> DEFINE gone == {[s EXCEPT !.says = Silence] : s \in Vouched({d})}
    <3>1. gone \in SUBSET Statement
      BY VouchedTyped, SilenceTyped DEF Statement
    <3>2. opening' = Relayed(d, gone)
      BY <2>1 DEF SocketCloses, Withdraw
    <3> SUFFICES ASSUME NEW x \in Devices, NEW frame \in Items(opening'[x])
                 PROVE  CameHere(x, frame)'
      OBVIOUS
    <3>3. CASE x = d
      <4>1. frame \in Items(opening[d])
        <5> HIDE DEF gone
        <5> QED BY <3>1, <3>2, <3>3, RelayedItems
      <4>2. frame.epoch \in Nat /\ epoch[d] \in Nat
        BY <4>1, QueuedTyped, SelfTyped DEF Incoming
      <4>3. epoch'[d] = epoch[d] + 1
        BY <2>1 DEF SocketCloses, TransportType
      <4> QED BY <3>3, <4>1, <4>2, <4>3, <1>a DEF CameHere
    <3>4. CASE x # d
      <4>1. \/ frame \in Items(opening[x])
            \/ Online(x) /\ frame.epoch = epoch[x]
        <5> HIDE DEF gone
        <5> QED BY <3>1, <3>2, RelayedItems
      <4>2. epoch[x] \in Nat
        BY SelfTyped
      <4> QED BY <3>4, <4>1, <4>2, <2>2, <1>a DEF CameHere
    <3> QED BY <3>3, <3>4
  <2> QED BY <2>1, <2>3, <2>4, <2>5, <2>6, <1>s DEF SocketCloses
<1>7. CASE Connects(d)
  <2>1. /\ UNCHANGED <<epoch, life, phase, mine, peers, sealing, opening, listeners, vouched>>
        /\ \A x \in Devices : Online(x) => Online(x)'
    BY <1>7 DEF Connects, Online, TransportType
  <2>2. listeners \subseteq Devices /\ \A c \in Present(vouched) : c[1] \in Devices
    BY DEF TransportType, Present, Identities
  <2> QED BY <2>1, <2>2, <1>a, <1>s DEF CameHere, OthersIn, Subscribed, Self
<1>8. CASE SendSubscribe(d)
  <2>1. /\ UNCHANGED <<link, epoch, life, peers, sealing, opening, vouched>>
        /\ listeners' = listeners \cup {d} /\ Online(d)
        /\ \A x \in Devices : Subscribed(x) => Subscribed(x)'
    BY <1>8 DEF SendSubscribe, Subscribed, TransportType
  <2>3. listeners \subseteq Devices /\ \A c \in Present(vouched) : c[1] \in Devices
    BY DEF TransportType, Present, Identities
  <2>2. Subscribed(d)'
    BY <1>8 DEF SendSubscribe, Subscribed, TransportType
  <2> QED BY <2>1, <2>2, <2>3, <1>a, <1>s, <1>k, <1>u DEF Online, Self
<1>9. CASE CatchUpEnds(d)
  <2> DEFINE frame == [sub |-> life[d], epoch |-> epoch[d], statements |-> Vouched(Devices \ {d})]
  <2>1. /\ UNCHANGED <<link, epoch, life, peers, sealing, listeners, vouched>> /\ Online(d)
        /\ opening' = opening \/ opening' = [opening EXCEPT ![d] = Append(@, frame)]
    BY <1>9 DEF CatchUpEnds
  <2>5. \A x \in Devices : Subscribed(x) => Subscribed(x)'
    BY <1>9 DEF CatchUpEnds, Subscribed, TransportType
  <2>6. listeners \subseteq Devices /\ \A c \in Present(vouched) : c[1] \in Devices
    BY DEF TransportType, Present, Identities
  <2>2. frame \in Incoming /\ frame.epoch = epoch[d] /\ epoch[d] \in Nat
    BY VouchedTyped, SelfTyped DEF Incoming
  <2>3. \A x \in Devices : \A f \in Items(opening'[x]) : f \in Items(opening[x]) \/ (x = d /\ f = frame)
    <3>1. Items(Append(opening[d], frame)) = Items(opening[d]) \cup {frame}
      <4>1. opening[d] \in Seq(Incoming)
        BY DEF TransportType
      <4> HIDE DEF frame
      <4> QED BY <2>2, <4>1, AppendItems
    <3> HIDE DEF frame
    <3>2. CASE opening' = opening
      BY <3>2
    <3>3. CASE opening' = [opening EXCEPT ![d] = Append(@, frame)]
      <4>1. \A x \in Devices : opening'[x] = IF x = d THEN Append(opening[d], frame) ELSE opening[x]
        BY <3>3 DEF TransportType
      <4> QED BY <4>1, <3>1
    <3> QED BY <2>1, <3>2, <3>3
  <2>4. Came
    <3> HIDE DEF frame
    <3> QED BY <2>1, <2>2, <2>3, <1>a DEF CameHere, Online
  <2> QED BY <2>1, <2>4, <2>5, <2>6, <1>a, <1>s, <1>u DEF Online, Self
<1>10. CASE Unsubscribe(d)
  <2>0. /\ UNCHANGED <<link, epoch, life, sealing>> /\ phase' = [phase EXCEPT ![d] = "none"]
        /\ peers' = [peers EXCEPT ![d] = [c \in Identities |-> Unheard]]
        /\ IF Online(d) THEN Withdraw(d) ELSE UNCHANGED <<listeners, vouched, opening>>
    BY <1>10 DEF Unsubscribe
  <2>1. OfflineEmpty
    <3>1. OthersIn(d)' = {}
      BY <2>0 DEF OthersIn, Present, Unheard, TransportType
    <3>2. \A x \in Devices \ {d} : OthersIn(x)' = OthersIn(x)
      BY <2>0 DEF OthersIn, TransportType
    <3> QED BY <2>0, <3>1, <3>2, <1>a DEF Online
  <2>2. \A x \in Devices \ {d} : phase'[x] = phase[x]
    BY <2>0 DEF TransportType
  <2>3. CASE Online(d)
    <3>1. Withdraw(d)
      BY <2>0, <2>3
    <3>2. Came
      <4> DEFINE gone == {[s EXCEPT !.says = Silence] : s \in Vouched({d})}
      <4>1. gone \in SUBSET Statement
        BY VouchedTyped, SilenceTyped DEF Statement
      <4>2. opening' = Relayed(d, gone)
        BY <3>1 DEF Withdraw
      <4> HIDE DEF gone, Came
      <4> QED BY <2>0, <4>1, <4>2, <1>r
    <3>3. Listened
      BY <2>0, <2>2, <3>1, <1>a, <1>y DEF Withdraw, Subscribed, Online, TransportType
    <3>4. VouchedIn
      <4>1. \A c \in Identities : c[1] = d => vouched'[c].says = Silence
        BY <3>1 DEF Withdraw, TransportType, Known
      <4>2. \A c \in Identities : c[1] # d => vouched'[c] = vouched[c]
        BY <3>1 DEF Withdraw
      <4>3. \A c \in Present(vouched') : c \in Present(vouched) /\ c[1] # d /\ c[1] \in Devices
        BY <4>1, <4>2 DEF Present, Identities
      <4> QED BY <2>0, <2>2, <4>3, <1>a DEF Subscribed, Self, Online
    <3> QED BY <2>0, <2>1, <3>2, <3>3, <3>4, <1>s
  <2>4. CASE ~Online(d)
    <3>1. UNCHANGED <<listeners, vouched, opening>>
      BY <2>0, <2>4
    <3>2. Listened
      BY <2>0, <2>2, <2>4, <3>1, <1>a, <1>y DEF Online, Subscribed, TransportType
    <3>3. \A c \in Present(vouched) : c[1] # d /\ c[1] \in Devices
      BY <2>4, <1>a DEF Present, Identities
    <3>4. VouchedIn
      BY <2>0, <2>2, <3>1, <3>3, <1>a DEF Online, Subscribed, Self
    <3> QED BY <2>0, <2>1, <3>1, <3>2, <3>4, <1>s, <1>k
  <2> QED BY <2>3, <2>4
<1>11. CASE Subscribe(d)
  <2>0. /\ UNCHANGED <<link, epoch, mine, peers, sealing, opening, listeners, vouched>> /\ ~Subscribed(d)
        /\ life' = [life EXCEPT ![d] = @ + 1] /\ phase' = [phase EXCEPT ![d] = "loading"]
    BY <1>11 DEF Subscribe
  <2>1. \A x \in Devices \ {d} : phase'[x] = phase[x] /\ life'[x] = life[x]
    BY <2>0 DEF TransportType
  <2>2. Listened
    BY <2>0, <2>1, <1>a DEF Online, Subscribed, TransportType
  <2>3. \A c \in Present(vouched) : c[1] # d /\ c[1] \in Devices
    BY <2>0, <1>a DEF Present, Identities
  <2>4. VouchedIn
    BY <2>0, <2>1, <2>3, <1>a DEF Online, Subscribed, Self
  <2> QED BY <2>0, <2>2, <2>4, <1>s, <1>k, <1>u
<1> QED BY <1>1, <1>2, <1>3, <1>4, <1>5, <1>6, <1>7, <1>8, <1>9, <1>10, <1>11 DEF Moves

(***************************************************************************)
(* Each part of the plugin says and takes back its own.  Beside what       *)
(* PresentAsOpen says of a device: which parts there are for which kind of *)
(* document, that the editor is in front while the bridge has a note, and  *)
(* that nobody says anything, binds, holds or draws without a subscription.*)
(***************************************************************************)
OpenAs(knd, brdg, leaf, held, edits, open, ph, says) ==
    /\ brdg = "bound" => says.by = "note"
    /\ says.by = "note" => brdg \in {"binding", "bound"}
    /\ says.by = "view" => held = TRUE
    /\ knd = "base" => (held = TRUE <=> says.by = "base")
    /\ knd = "board" => (open # {} <=> says.by = "board")
    /\ says.by = "board" => says.spot \in open \cup {0}
    /\ says.by = "nobody" => says = Silence
    /\ knd # "note" => /\ brdg = "idle" /\ leaf = "away" /\ edits = FALSE
                       /\ says.by \in {"nobody", knd}
    /\ knd = "note" => says.by \notin {"base", "board"}
    /\ knd # "board" => open = {}
    /\ brdg # "idle" => leaf = "editor"
    /\ brdg \in {"binding", "bound"} \/ held = TRUE \/ open # {} => ph # "none"
    /\ ph = "none" => says = Silence

AsOpen(d) == OpenAs(kind, bridge[d], at[d], holds[d], editing[d], sessions[d], phase[d], mine[d].says)

\* The pane PresenceInit starts with is one of the places if there are any.
Panes == Places \cup {CHOOSE p \in Places : \A q \in Places : p <= q}

PartsType ==
    /\ kind \in Kinds
    /\ at \in [Devices -> {"away", "editor", "view"}]
    /\ bridge \in [Devices -> {"idle", "waiting", "binding", "bound"}]
    /\ holds \in [Devices -> BOOLEAN]
    /\ editing \in [Devices -> BOOLEAN]
    /\ sessions \in [Devices -> SUBSET Panes]
    /\ spot \in [Devices -> Places \cup {0}]

PresenceType == TransportType /\ PartsType

AllAsOpen == \A d \in Devices : AsOpen(d)

\* What happens at one device leaves the parts at the others alone.
OnlyAt(d) ==
    \A x \in Devices \ {d} :
        /\ bridge'[x] = bridge[x] /\ at'[x] = at[x] /\ holds'[x] = holds[x]
        /\ editing'[x] = editing[x] /\ sessions'[x] = sessions[x]

LEMMA AsOpenSays ==
    ASSUME PresenceType, AllAsOpen
    PROVE  PresentAsOpen
<1> SUFFICES ASSUME NEW d \in Devices
             PROVE  /\ bridge[d] = "bound" => IsBy(d, "note")
                    /\ IsBy(d, "note") => bridge[d] \in {"binding", "bound"}
                    /\ IsBy(d, "view") => holds[d]
                    /\ kind = "base" => (holds[d] <=> IsBy(d, "base"))
                    /\ kind = "board" => (sessions[d] # {} <=> IsBy(d, "board"))
                    /\ IsBy(d, "board") => Says(d).spot \in sessions[d] \cup {0}
  BY DEF PresentAsOpen
<1>1. AsOpen(d) /\ holds[d] \in BOOLEAN
  BY DEF AllAsOpen, PresenceType, PartsType
<1> QED BY <1>1 DEF AsOpen, OpenAs, IsBy, Says

\* A step of the transport alone changes no claim, and no subscription.
LEMMA CarriedClaims ==
    ASSUME TransportType, NEW d \in Devices, TransportStep(d), NEW x \in Devices
    PROVE  mine'[x].says = mine[x].says /\ (phase'[x] = "none" <=> phase[x] = "none")
<1>t. /\ mine \in [Devices -> [clock : Nat, says : Claims]]
      /\ phase \in [Devices -> {"none", "loading", "asked", "synced"}]
  BY DEF TransportType, Known
<1>1. CASE Seal(d) \/ SealFails(d) \/ Sweep(d) \/ ConnectAgain(d) \/ SocketOpens(d)
  BY <1>1 DEF Seal, SealFails, Sweep, ConnectAgain, SocketOpens
<1>2. CASE Renew(d)
  BY <1>2, <1>t DEF Renew, Say
<1>3. CASE OpenFrame(d) \/ OpenRefuses(d)
  <2>1. UNCHANGED phase /\ (mine' = mine \/ mine' = [mine EXCEPT ![d].clock = @ + 1])
    BY <1>3 DEF OpenFrame, OpenRefuses, HearFrom
  <2> QED BY <2>1, <1>t
<1>4. CASE SendSubscribe(d) \/ CatchUpEnds(d)
  BY <1>4, <1>t DEF SendSubscribe, CatchUpEnds
<1>5. CASE \E next \in {"waiting", "refused"} : SocketCloses(d, next)
  BY <1>5, <1>t DEF SocketCloses, Subscribed
<1> QED BY <1>1, <1>2, <1>3, <1>4, <1>5 DEF TransportStep

LEMMA StepMoves ==
    ASSUME TransportType, NEW d \in Devices, TransportStep(d)
    PROVE  Moves(d)
<1>1. CASE Seal(d) \/ SealFails(d) \/ Sweep(d) \/ SendSubscribe(d) \/ CatchUpEnds(d)
           \/ \E next \in {"waiting", "refused"} : SocketCloses(d, next)
  BY <1>1 DEF Moves
<1>2. CASE Renew(d)
  <2>1. Voices(d)
    BY <1>2, SelfTyped DEF Renew, Voices
  <2> QED BY <2>1 DEF Moves
<1>3. CASE OpenFrame(d) \/ OpenRefuses(d)
  <2>1. Hears(d)
    BY <1>3 DEF OpenFrame, OpenRefuses, Hears
  <2> QED BY <2>1 DEF Moves
<1>4. CASE ConnectAgain(d) \/ SocketOpens(d)
  <2>1. Connects(d)
    BY <1>4 DEF ConnectAgain, SocketOpens, Connects
  <2> QED BY <2>1 DEF Moves
<1> QED BY <1>1, <1>2, <1>3, <1>4 DEF TransportStep

\* Other devices stay as open as they were.
LEMMA OthersAsOpen ==
    ASSUME TransportType, AllAsOpen, NEW d \in Devices, UNCHANGED kind, OnlyAt(d), AsOpen(d)',
           \A x \in Devices \ {d} : mine'[x] = mine[x] /\ phase'[x] = phase[x]
    PROVE  AllAsOpen'
<1> SUFFICES ASSUME NEW x \in Devices \ {d}
             PROVE  AsOpen(x)'
  BY DEF AllAsOpen
<1> QED BY DEF AllAsOpen, AsOpen, OnlyAt

\* What a part says: something, or what was said stands.
LEMMA PartSays ==
    ASSUME TransportType, NEW d \in Devices, UNCHANGED elsewhere,
           \/ UNCHANGED <<mine, sealing>>
           \/ \E says \in Claims : Say(d, says)
    PROVE  /\ Voices(d) /\ UNCHANGED <<kind, phase>>
           /\ \A x \in Devices \ {d} : mine'[x] = mine[x] /\ phase'[x] = phase[x]
           /\ mine'[d].says \in Claims
           /\ \A says : Say(d, says) => mine'[d].says = says
           /\ UNCHANGED <<mine, sealing>> => mine'[d].says = mine[d].says
<1>1. Voices(d) /\ UNCHANGED <<kind, phase>>
  BY DEF Voices, elsewhere
<1>2. mine \in [Devices -> Known] /\ mine[d].says \in Claims
  BY SelfTyped DEF TransportType
<1>3. \A says : Say(d, says) => mine'[d].says = says /\ \A x \in Devices \ {d} : mine'[x] = mine[x]
  BY <1>2 DEF Say
<1> QED BY <1>1, <1>2, <1>3

LEMMA PartActs ==
    ASSUME PresenceType, AllAsOpen, NEW d \in Devices, UNCHANGED elsewhere, OnlyAt(d),
           NEW says \in Claims,
           Say(d, says) \/ (UNCHANGED <<mine, sealing>> /\ says = mine[d].says),
           OpenAs(kind, bridge'[d], at'[d], holds'[d], editing'[d], sessions'[d], phase[d], says)
    PROVE  Voices(d) /\ AllAsOpen'
<1>1. /\ Voices(d) /\ UNCHANGED <<kind, phase>> /\ mine'[d].says = says
      /\ \A x \in Devices \ {d} : mine'[x] = mine[x] /\ phase'[x] = phase[x]
  BY PartSays DEF PresenceType
<1>2. AsOpen(d)'
  BY <1>1 DEF AsOpen
<1> QED BY <1>1, <1>2, OthersAsOpen DEF PresenceType

\* Whatever the person does.
LEMMA ActsAsOpen ==
    ASSUME PresenceType, AllAsOpen, NEW d \in Devices, Acts(d)
    PROVE  Voices(d) /\ PartsType' /\ AllAsOpen'
<1>0. /\ OpenAs(kind, bridge[d], at[d], holds[d], editing[d], sessions[d], phase[d], mine[d].says)
      /\ kind \in {"note", "base", "board"} /\ Spots \subseteq Places
  BY PresenceAssumption DEF AllAsOpen, AsOpen, PresenceType, PartsType
<1>1. mine[d].says \in Claims /\ Silence \in Claims /\ Said("note", 0) \in Claims
  BY SelfTyped, SilenceTyped DEF PresenceType, Said, Claims, Surfaces
<1>2. CASE \E where \in {"away", "editor", "view"} : Look(d, where)
  <2>1. PICK where \in {"away", "editor", "view"} : Look(d, where)
    BY <1>2
  <2> DEFINE says == IF bridge[d] # "idle" THEN Silence ELSE mine[d].says
  <2>2. Say(d, says) \/ (UNCHANGED <<mine, sealing>> /\ says = mine[d].says)
    BY <2>1 DEF Look, Unbinds, SayIf, Says
  <2>3. /\ UNCHANGED elsewhere /\ UNCHANGED <<holds, editing, sessions>> /\ kind = "note"
        /\ at' = [at EXCEPT ![d] = where] /\ spot' = [spot EXCEPT ![d] = 0]
        /\ bridge' = [bridge EXCEPT ![d] = IF where # "editor" THEN "idle"
                                           ELSE IF Subscribed(d) THEN "binding" ELSE "waiting"]
    BY <2>1 DEF Look
  <2>4. OnlyAt(d) /\ PartsType'
    BY <2>3 DEF OnlyAt, PresenceType, PartsType, elsewhere
  <2>5. /\ at'[d] = where
        /\ bridge'[d] = IF where # "editor" THEN "idle" ELSE IF phase[d] # "none" THEN "binding" ELSE "waiting"
    BY <2>3 DEF PresenceType, PartsType, Subscribed
  <2>6. OpenAs(kind, bridge'[d], at'[d], holds'[d], editing'[d], sessions'[d], phase[d], says)
    BY <1>0, <2>3, <2>5 DEF OpenAs, Silence
  <2>7. says \in Claims
    BY <1>1
  <2> HIDE DEF says
  <2> QED BY <2>2, <2>3, <2>4, <2>6, <2>7, PartActs
<1>3. CASE EditCard(d)
  <2>1. /\ UNCHANGED elsewhere /\ UNCHANGED <<mine, sealing, at, bridge, holds, sessions, spot>> /\ kind = "note"
        /\ editing' = [editing EXCEPT ![d] = ~@]
    BY <1>3 DEF EditCard
  <2>2. OnlyAt(d) /\ PartsType'
    BY <2>1 DEF OnlyAt, PresenceType, PartsType, elsewhere
  <2>3. OpenAs(kind, bridge'[d], at'[d], holds'[d], editing'[d], sessions'[d], phase[d], mine[d].says)
    BY <1>0, <2>1 DEF OpenAs
  <2> QED BY <1>1, <2>1, <2>2, <2>3, PartActs
<1>4. CASE \E p \in Places : OpenPane(d, p)
  <2>1. UNCHANGED elsewhere /\ UNCHANGED <<mine, sealing, at, bridge, holds, editing, sessions, spot>>
    BY <1>4 DEF OpenPane
  <2>2. OnlyAt(d) /\ PartsType'
    BY <2>1 DEF OnlyAt, PresenceType, PartsType, elsewhere
  <2>3. OpenAs(kind, bridge'[d], at'[d], holds'[d], editing'[d], sessions'[d], phase[d], mine[d].says)
    BY <1>0, <2>1
  <2> QED BY <1>1, <2>1, <2>2, <2>3, PartActs
<1>5. CASE \E p \in Places : ClosePane(d, p)
  <2>1. PICK p \in Places : ClosePane(d, p)
    BY <1>5
  <2> DEFINE others == sessions[d] \ {p}
             says == IF p \in sessions[d]
                     THEN IF others = {} THEN Silence ELSE [mine[d].says EXCEPT !.spot = 0]
                     ELSE mine[d].says
  <2>2. /\ UNCHANGED elsewhere /\ UNCHANGED <<at, bridge, holds, editing>>
        /\ spot' = [spot EXCEPT ![d] = 0]
        /\ sessions' = [sessions EXCEPT ![d] = others]
        /\ SayIf(d, p \in sessions[d] /\ mine[d].says # Silence,
                 IF others = {} THEN Silence ELSE [mine[d].says EXCEPT !.spot = 0])
    BY <2>1 DEF ClosePane, StopSession, Says
  <2>3. p \in sessions[d] => kind = "board" /\ mine[d].says.by = "board" /\ mine[d].says # Silence
    BY <1>0 DEF OpenAs, Silence
  <2>4. Say(d, says) \/ (UNCHANGED <<mine, sealing>> /\ says = mine[d].says)
    BY <2>2, <2>3 DEF SayIf
  <2>5. OnlyAt(d) /\ PartsType'
    BY <2>2 DEF OnlyAt, PresenceType, PartsType, elsewhere
  <2>6. sessions'[d] = others
    BY <2>2 DEF PresenceType, PartsType
  <2>7. says \in Claims
    BY <1>1 DEF Claims
  <2>8. OpenAs(kind, bridge'[d], at'[d], holds'[d], editing'[d], sessions'[d], phase[d], says)
    <3>1. CASE p \in sessions[d]
      <4>1. says = Silence \/ (others # {} /\ says.by = "board" /\ says.spot = 0)
        BY <3>1, <2>3, <1>1 DEF Claims
      <4>2. others = {} <=> says = Silence
        BY <3>1, <2>3, <1>1 DEF Claims, Silence
      <4> HIDE DEF says, others
      <4> QED BY <1>0, <2>2, <2>3, <2>6, <3>1, <4>1, <4>2 DEF OpenAs, Silence
    <3>2. CASE p \notin sessions[d]
      <4>1. others = sessions[d] /\ says = mine[d].says
        BY <3>2
      <4> HIDE DEF says, others
      <4> QED BY <1>0, <2>2, <2>6, <4>1
    <3> QED BY <3>1, <3>2
  <2> HIDE DEF says
  <2> QED BY <2>2, <2>4, <2>5, <2>7, <2>8, PartActs
<1>6. CASE \E p \in Spots \cup {0} : Point(d, p)
  <2>1. PICK p \in Spots \cup {0} : Point(d, p)
    BY <1>6
  <2>2. /\ UNCHANGED elsewhere /\ UNCHANGED <<at, bridge, holds, editing, sessions>>
        /\ spot' = [spot EXCEPT ![d] = p]
    BY <2>1 DEF Point, surfaces
  <2>3. OnlyAt(d) /\ PartsType'
    BY <1>0, <2>2 DEF OnlyAt, PresenceType, PartsType, elsewhere
  <2>4. CASE PointerGone(d, p)
    <3>1. Say(d, Said("note", 0)) /\ bridge[d] = "bound"
      BY <2>1, <2>4 DEF Point, SayIf, PointerGone
    <3>2. OpenAs(kind, bridge'[d], at'[d], holds'[d], editing'[d], sessions'[d], phase[d], Said("note", 0))
      BY <1>0, <2>2, <3>1 DEF OpenAs, Said, Silence
    <3> QED BY <1>1, <2>2, <2>3, <3>1, <3>2, PartActs
  <2>5. CASE ~PointerGone(d, p)
    <3>1. UNCHANGED <<mine, sealing>>
      BY <2>1, <2>5 DEF Point, SayIf
    <3>2. OpenAs(kind, bridge'[d], at'[d], holds'[d], editing'[d], sessions'[d], phase[d], mine[d].says)
      BY <1>0, <2>2
    <3> QED BY <1>1, <2>2, <2>3, <3>1, <3>2, PartActs
  <2> QED BY <2>4, <2>5
<1>7. CASE SetSharing(d)
  <2>1. UNCHANGED elsewhere /\ UNCHANGED <<mine, sealing, at, bridge, holds, editing, sessions, spot>>
    BY <1>7 DEF SetSharing, surfaces
  <2>2. OnlyAt(d) /\ PartsType'
    BY <2>1 DEF OnlyAt, PresenceType, PartsType, elsewhere
  <2>3. OpenAs(kind, bridge'[d], at'[d], holds'[d], editing'[d], sessions'[d], phase[d], mine[d].says)
    BY <1>0, <2>1
  <2> QED BY <1>1, <2>1, <2>2, <2>3, PartActs
<1> QED BY <1>2, <1>3, <1>4, <1>5, <1>6, <1>7 DEF Acts

\* Whatever the plugin says: one part at a time, over what the others said.
LEMMA SpeaksAsOpen ==
    ASSUME PresenceType, AllAsOpen, NEW d \in Devices, Speaks(d)
    PROVE  Voices(d) /\ PartsType' /\ AllAsOpen'
<1>0. /\ OpenAs(kind, bridge[d], at[d], holds[d], editing[d], sessions[d], phase[d], mine[d].says)
      /\ kind \in {"note", "base", "board"}
  BY PresenceAssumption DEF AllAsOpen, AsOpen, PresenceType, PartsType
<1>1. /\ mine[d].says \in Claims /\ Silence \in Claims
      /\ \A by \in Surfaces, where \in Places \cup {0} : Said(by, where) \in Claims
      /\ spot[d] \in Places \cup {0}
  BY SelfTyped, SilenceTyped DEF PresenceType, PartsType, Said, Claims
<1>s. ASSUME NEW says \in Claims, Say(d, says) \/ (UNCHANGED <<mine, sealing>> /\ says = mine[d].says),
             UNCHANGED elsewhere, UNCHANGED <<at, bridge, holds, editing, sessions, spot>>,
             OpenAs(kind, bridge[d], at[d], holds[d], editing[d], sessions[d], phase[d], says)
      PROVE  Voices(d) /\ PartsType' /\ AllAsOpen'
  <2>1. OnlyAt(d) /\ PartsType'
    BY <1>s DEF OnlyAt, PresenceType, PartsType, elsewhere
  <2>2. OpenAs(kind, bridge'[d], at'[d], holds'[d], editing'[d], sessions'[d], phase[d], says)
    BY <1>s
  <2> QED BY <1>s, <2>1, <2>2, PartActs
<1>h. ASSUME NEW says \in Claims, Say(d, says) \/ (UNCHANGED <<mine, sealing>> /\ says = mine[d].says),
             UNCHANGED elsewhere, UNCHANGED <<at, bridge, editing, sessions, spot>>,
             NEW held \in BOOLEAN, holds' = [holds EXCEPT ![d] = held],
             OpenAs(kind, bridge[d], at[d], held, editing[d], sessions[d], phase[d], says)
      PROVE  Voices(d) /\ PartsType' /\ AllAsOpen'
  <2>1. OnlyAt(d) /\ PartsType' /\ holds'[d] = held
    BY <1>h DEF OnlyAt, PresenceType, PartsType, elsewhere
  <2>2. OpenAs(kind, bridge'[d], at'[d], holds'[d], editing'[d], sessions'[d], phase[d], says)
    BY <1>h, <2>1
  <2> QED BY <1>h, <2>1, <2>2, PartActs
<1>n. Said("note", 0) \in Claims /\ Said("card", 0) \in Claims /\ Said("board", 0) \in Claims
  BY <1>1 DEF Surfaces
\* A note in the editor.
<1>2. CASE Bind(d)
  <2>1. /\ Say(d, Said("note", 0)) /\ UNCHANGED elsewhere
        /\ UNCHANGED <<at, holds, editing, sessions, spot>> /\ bridge[d] = "binding"
        /\ bridge' = [bridge EXCEPT ![d] = "bound"]
    BY <1>2 DEF Bind, person
  <2>2. OnlyAt(d) /\ PartsType' /\ bridge'[d] = "bound"
    BY <2>1 DEF OnlyAt, PresenceType, PartsType, elsewhere
  <2>3. OpenAs(kind, bridge'[d], at'[d], holds'[d], editing'[d], sessions'[d], phase[d], Said("note", 0))
    BY <1>0, <2>1, <2>2 DEF OpenAs, Said, Silence
  <2> QED BY <1>n, <2>1, <2>2, <2>3, PartActs
<1>3. CASE SendPointer(d)
  <2> DEFINE says == [mine[d].says EXCEPT !.spot = spot[d]]
  <2>1. /\ Say(d, says) /\ UNCHANGED elsewhere /\ UNCHANGED <<at, bridge, holds, editing, sessions, spot>>
        /\ bridge[d] = "bound"
    BY <1>3 DEF SendPointer, surfaces, person, Says
  <2>2. says \in Claims /\ says.by = mine[d].says.by
    BY <1>1 DEF Claims
  <2>3. OpenAs(kind, bridge[d], at[d], holds[d], editing[d], sessions[d], phase[d], says)
    <3> HIDE DEF says
    <3> QED BY <1>0, <2>1, <2>2 DEF OpenAs, Silence
  <2> HIDE DEF says
  <2> QED BY <2>1, <2>2, <2>3, <1>s
<1>4. CASE ClearPointer(d) \/ SyncProperties(d)
  <2>1. /\ Say(d, Said("note", 0)) /\ UNCHANGED elsewhere
        /\ UNCHANGED <<at, bridge, holds, editing, sessions, spot>>
        /\ bridge[d] \in {"binding", "bound"}
    BY <1>4 DEF ClearPointer, SyncProperties, surfaces, person
  <2>2. OpenAs(kind, bridge[d], at[d], holds[d], editing[d], sessions[d], phase[d], Said("note", 0))
    BY <1>0, <2>1 DEF OpenAs, Said, Silence
  <2> QED BY <1>n, <2>1, <2>2, <1>s
\* A note in another view.
<1>5. CASE HoldView(d)
  <2>1. /\ Say(d, Said("view", spot[d])) /\ UNCHANGED elsewhere
        /\ UNCHANGED <<at, bridge, editing, sessions, spot>>
        /\ holds' = [holds EXCEPT ![d] = TRUE]
        /\ kind = "note" /\ at[d] = "view" /\ phase[d] # "none"
    BY <1>5 DEF HoldView, ViewActive, ViewSays, Subscribed, person
  <2>2. Said("view", spot[d]) \in Claims
    BY <1>1 DEF Surfaces
  <2>3. OpenAs(kind, bridge[d], at[d], TRUE, editing[d], sessions[d], phase[d], Said("view", spot[d]))
    BY <1>0, <2>1 DEF OpenAs, Said, Silence
  <2> QED BY <2>1, <2>2, <2>3, <1>h
<1>6. CASE LeaveView(d)
  <2> DEFINE says == IF mine[d].says.by = "view" THEN Silence ELSE mine[d].says
  <2>1. /\ UNCHANGED elsewhere /\ UNCHANGED <<at, bridge, editing, sessions, spot>>
        /\ holds' = [holds EXCEPT ![d] = FALSE]
        /\ kind = "note"
        /\ SayIf(d, mine[d].says.by = "view" /\ mine[d].says # Silence, Silence)
    BY <1>6 DEF LeaveView, LetsGo, IsOurs, IsBy, Says, person
  <2>2. Say(d, says) \/ (UNCHANGED <<mine, sealing>> /\ says = mine[d].says)
    BY <2>1 DEF SayIf, Silence
  <2>3. says \in Claims
    BY <1>1
  <2>4. OpenAs(kind, bridge[d], at[d], FALSE, editing[d], sessions[d], phase[d], says)
    BY <1>0, <2>1 DEF OpenAs, Silence
  <2> HIDE DEF says
  <2> QED BY <2>1, <2>2, <2>3, <2>4, <1>h
\* A note in a card.
<1>7. CASE BindCard(d) \/ CardSaysAgain(d)
  <2>1. /\ UNCHANGED elsewhere /\ UNCHANGED <<at, bridge, holds, editing, sessions, spot>>
        /\ editing[d] /\ phase[d] # "none"
        /\ \/ UNCHANGED <<mine, sealing>>
           \/ Say(d, Said("card", 0)) /\ mine[d].says.by = "nobody"
    BY <1>7 DEF BindCard, CardSaysAgain, Reannounces, Announces, SayIf, IsBy, Says, Live, Subscribed,
                surfaces, person
  <2>2. CASE UNCHANGED <<mine, sealing>>
    BY <1>0, <1>1, <2>1, <2>2, <1>s
  <2>3. CASE Say(d, Said("card", 0)) /\ mine[d].says.by = "nobody"
    <3>1. editing[d] # FALSE
      BY <2>1
    <3>2. OpenAs(kind, bridge[d], at[d], holds[d], editing[d], sessions[d], phase[d], Said("card", 0))
      BY <1>0, <2>1, <2>3, <3>1 DEF OpenAs, Said, Silence
    <3> QED BY <1>n, <2>1, <2>3, <3>2, <1>s
  <2> QED BY <2>1, <2>2, <2>3
<1>8. CASE ReleaseCard(d)
  <2>1. /\ UNCHANGED elsewhere /\ UNCHANGED <<at, bridge, holds, editing, sessions, spot>>
        /\ Say(d, mine[d].says) \/ UNCHANGED <<mine, sealing>>
    BY <1>8 DEF ReleaseCard, SayIf, Says, person
  <2> QED BY <1>0, <1>1, <2>1, <1>s
\* A base.
<1>9. CASE HoldBase(d)
  <2>1. /\ Say(d, Said("base", spot[d])) /\ UNCHANGED elsewhere
        /\ UNCHANGED <<at, bridge, editing, sessions, spot>>
        /\ holds' = [holds EXCEPT ![d] = TRUE]
        /\ kind = "base" /\ phase[d] # "none"
    BY <1>9 DEF HoldBase, BaseSays, Subscribed, person
  <2>2. Said("base", spot[d]) \in Claims
    BY <1>1 DEF Surfaces
  <2>3. OpenAs(kind, bridge[d], at[d], TRUE, editing[d], sessions[d], phase[d], Said("base", spot[d]))
    BY <1>0, <2>1 DEF OpenAs, Said, Silence
  <2> QED BY <2>1, <2>2, <2>3, <1>h
<1>10. CASE ReleaseBase(d)
  <2>1. /\ UNCHANGED elsewhere /\ UNCHANGED <<at, bridge, editing, sessions, spot>>
        /\ holds' = [holds EXCEPT ![d] = FALSE] /\ kind = "base"
        /\ Say(d, Silence) \/ (UNCHANGED <<mine, sealing>> /\ Silence = mine[d].says)
    BY <1>10 DEF ReleaseBase, LetsGo, FallSilent, SayIf, person
  <2>2. OpenAs(kind, bridge[d], at[d], FALSE, editing[d], sessions[d], phase[d], Silence)
    BY <1>0, <2>1 DEF OpenAs, Silence
  <2> QED BY <1>1, <2>1, <2>2, <1>h
\* A board.
<1>11. CASE \E p \in Places : StartSession(d, p)
  <2>1. PICK p \in Places : StartSession(d, p)
    BY <1>11
  <2> DEFINE says == IF mine[d].says.by = "nobody" THEN Said("board", 0) ELSE mine[d].says
  <2>2. /\ UNCHANGED elsewhere /\ UNCHANGED <<at, bridge, holds, editing, spot>>
        /\ sessions' = [sessions EXCEPT ![d] = @ \cup {p}]
        /\ kind = "board" /\ phase[d] # "none"
        /\ Say(d, says) \/ (UNCHANGED <<mine, sealing>> /\ says = mine[d].says)
    BY <2>1 DEF StartSession, SayIf, IsBy, Says, Subscribed, person
  <2>3. OnlyAt(d) /\ sessions'[d] = sessions[d] \cup {p} /\ PartsType'
    BY <2>2 DEF OnlyAt, PresenceType, PartsType, Panes, elsewhere
  <2>4. says \in Claims
    BY <1>1, <1>n
  <2>5. says.by = "board" /\ says.spot \in sessions[d] \cup {0}
    BY <1>0, <2>2 DEF OpenAs, Said
  <2>6. OpenAs(kind, bridge'[d], at'[d], holds'[d], editing'[d], sessions'[d], phase[d], says)
    <3> HIDE DEF says
    <3> QED BY <1>0, <2>2, <2>3, <2>5 DEF OpenAs, Silence
  <2> HIDE DEF says
  <2> QED BY <2>2, <2>3, <2>4, <2>6, PartActs
<1>12. CASE \E p \in Places : SendFields(d, p)
  <2>1. PICK p \in Places : SendFields(d, p)
    BY <1>12
  <2> DEFINE says == Said("board", Fields(d, p))
  <2>2. /\ Say(d, says) /\ UNCHANGED elsewhere /\ UNCHANGED <<at, bridge, holds, editing, sessions, spot>>
        /\ kind = "board" /\ p \in sessions[d]
    BY <2>1 DEF SendFields, person
  <2>3. Fields(d, p) \in {p, 0}
    BY DEF Fields
  <2>4. says \in Claims /\ says.by = "board" /\ says.spot \in sessions[d] \cup {0}
    BY <1>1, <2>2, <2>3 DEF Said, Surfaces
  <2>5. OpenAs(kind, bridge[d], at[d], holds[d], editing[d], sessions[d], phase[d], says)
    <3> HIDE DEF says
    <3> QED BY <1>0, <2>2, <2>4 DEF OpenAs, Silence
  <2> HIDE DEF says
  <2> QED BY <2>2, <2>4, <2>5, <1>s
<1> QED BY <1>2, <1>3, <1>4, <1>5, <1>6, <1>7, <1>8, <1>9, <1>10, <1>11, <1>12 DEF Speaks

(***************************************************************************)
(* The whole.                                                              *)
(***************************************************************************)
PresenceInv == PresenceType /\ Truthful /\ Attended /\ AllAsOpen

LEMMA InitPresenceInv == PresenceInit => PresenceInv
<1> SUFFICES ASSUME PresenceInit
             PROVE  PresenceInv
  OBVIOUS
<1> DEFINE said == [d \in Devices |-> IF d \in Watching THEN [clock |-> 2, says |-> Said(kind, 0)] ELSE Quiet]
           FirstPane == {CHOOSE p \in Places : \A q \in Places : p <= q}
<1>0. kind \in Kinds /\ kind \in {"note", "base", "board"} /\ TransportInit(said)
  BY PresenceAssumption DEF PresenceInit
<1>1. \A d \in Devices : said[d] \in Known
  BY <1>0, SilenceTyped DEF Said, Known, Claims, Surfaces
<1>2. TransportType /\ Truthful
  <2>1. said \in [Devices -> Known]
    BY <1>1
  <2> HIDE DEF said
  <2> QED BY <1>0, <2>1, InitTruthful
<1>3. Attended
  <2> DEFINE known == [c \in Identities |-> IF c[2] = 1 /\ said[c[1]].says # Silence THEN said[c[1]] ELSE Unheard]
  <2>1. /\ vouched = known /\ link = [d \in Devices |-> "open"]
        /\ life = [d \in Devices |-> 1] /\ phase = [d \in Devices |-> "synced"]
        /\ sealing = [d \in Devices |-> << >>] /\ opening = [d \in Devices |-> << >>]
        /\ listeners = Devices
    BY <1>0 DEF TransportInit
  <2>2. \A c \in Identities : c = <<c[1], c[2]>> /\ c[1] \in Devices
    BY DEF Identities
  <2>3. \A c \in Present(vouched) : c[2] = 1 /\ c \in Identities
    BY <2>1 DEF Present, Unheard
  <2>4. NoGhosts
    BY <2>1, <2>2, <2>3 DEF NoGhosts, Online, Subscribed, Self
  <2> QED BY <2>1, <2>4, NoItems DEF Attended
<1>4. /\ at = [d \in Devices |-> IF kind = "note" /\ d \in Watching THEN "editor" ELSE "away"]
      /\ bridge = [d \in Devices |-> IF kind = "note" /\ d \in Watching THEN "bound" ELSE "idle"]
      /\ holds = [d \in Devices |-> kind = "base" /\ d \in Watching]
      /\ sessions = [d \in Devices |-> IF kind = "board" /\ d \in Watching THEN FirstPane ELSE {}]
      /\ editing = [d \in Devices |-> FALSE] /\ spot = [d \in Devices |-> 0]
  BY DEF PresenceInit
<1>5. PartsType
  <2>1. \A d \in Devices : holds[d] \in BOOLEAN
    BY <1>4
  <2>2. holds \in [Devices -> BOOLEAN]
    BY <1>4, <2>1
  <2> QED BY <1>0, <1>4, <2>2 DEF PartsType, Panes
<1>6. AllAsOpen
  <2> SUFFICES ASSUME NEW d \in Devices
               PROVE  OpenAs(kind, bridge[d], at[d], holds[d], editing[d], sessions[d], phase[d], mine[d].says)
    BY DEF AllAsOpen, AsOpen
  <2>1. phase[d] = "synced" /\ mine[d] = said[d]
    BY <1>0 DEF TransportInit
  <2>2. mine[d].says = IF d \in Watching THEN Said(kind, 0) ELSE Silence
    BY <2>1 DEF Quiet
  <2>3. holds[d] = TRUE <=> (kind = "base" /\ d \in Watching)
    BY <1>4
  <2>4. FirstPane # {}
    OBVIOUS
  <2> HIDE DEF said, FirstPane
  <2> QED BY <1>0, <1>4, <2>1, <2>2, <2>3, <2>4 DEF OpenAs, Said, Silence
<1> QED BY <1>2, <1>3, <1>5, <1>6 DEF PresenceInv, PresenceType

LEMMA NextPresenceInv == PresenceInv /\ [PresenceNext]_presenceVars => PresenceInv'
<1> SUFFICES ASSUME PresenceInv, [PresenceNext]_presenceVars
             PROVE  PresenceInv'
  OBVIOUS
<1>0. TransportType /\ PartsType /\ Truthful /\ Attended /\ AllAsOpen /\ PresenceType
  BY DEF PresenceInv, PresenceType
<1>m. ASSUME NEW d \in Devices, Moves(d), PartsType', AllAsOpen'
      PROVE  PresenceInv'
  BY <1>0, <1>m, MovesTyped, NextTruthful, NextAttended DEF PresenceInv, PresenceType
<1>1. CASE UNCHANGED presenceVars
  <2>1. /\ UNCHANGED <<link, epoch, life, phase, mine, peers, sealing, opening, listeners, vouched>>
        /\ UNCHANGED <<kind, at, bridge, holds, editing, sessions, spot>>
    BY <1>1 DEF presenceVars, transport, surfaces, person
  <2>2. TransportType' /\ PartsType'
    BY <1>0, <2>1 DEF TransportType, PartsType
  <2>3. Truthful'
    BY <1>0, <2>1 DEF Truthful, TruthIn
  <2>4. Attended'
    BY <1>0, <2>1 DEF Attended, NoGhosts, Online, Subscribed, Present, Self, OthersIn, SaysOfItself, CameHere
  <2>5. AllAsOpen'
    BY <1>0, <2>1 DEF AllAsOpen, AsOpen
  <2> QED BY <2>2, <2>3, <2>4, <2>5 DEF PresenceInv, PresenceType
<1>2. ASSUME NEW d \in Devices, Acts(d) \/ Speaks(d)
      PROVE  PresenceInv'
  <2>1. Voices(d) /\ PartsType' /\ AllAsOpen'
    BY <1>0, <1>2, ActsAsOpen, SpeaksAsOpen
  <2>2. Moves(d)
    BY <2>1 DEF Moves
  <2> QED BY <2>1, <2>2, <1>m
<1>3. ASSUME NEW d \in Devices, Carried(d)
      PROVE  PresenceInv'
  <2>1. /\ TransportStep(d)
        /\ UNCHANGED <<kind, at, bridge, holds, editing, sessions, spot>>
    BY <1>3 DEF Carried, surfaces, person
  <2>2. Moves(d)
    BY <1>0, <2>1, StepMoves
  <2>3. PartsType'
    BY <1>0, <2>1 DEF PartsType
  <2>4. \A x \in Devices : mine'[x].says = mine[x].says /\ (phase'[x] = "none" <=> phase[x] = "none")
    BY <1>0, <2>1, CarriedClaims
  <2>5. AllAsOpen'
    <3> SUFFICES ASSUME NEW x \in Devices
                 PROVE  AsOpen(x)'
      BY DEF AllAsOpen
    <3>1. OpenAs(kind, bridge[x], at[x], holds[x], editing[x], sessions[x], phase[x], mine[x].says)
      BY <1>0 DEF AllAsOpen, AsOpen
    <3>2. OpenAs(kind, bridge[x], at[x], holds[x], editing[x], sessions[x], phase'[x], mine'[x].says)
      BY <2>4, <3>1 DEF OpenAs
    <3> QED BY <2>1, <3>2 DEF AsOpen
  <2> QED BY <2>2, <2>3, <2>5, <1>m
<1>4. ASSUME NEW d \in Devices, CloseDocument(d)
      PROVE  PresenceInv'
  <2>1. /\ Unsubscribe(d) /\ UNCHANGED <<kind, at, editing, spot>>
        /\ holds' = [holds EXCEPT ![d] = FALSE]
        /\ bridge' = [bridge EXCEPT ![d] = IF @ = "idle" THEN "idle" ELSE "waiting"]
        /\ sessions' = [sessions EXCEPT ![d] = {}]
    BY <1>4 DEF CloseDocument, LetsGo, person
  <2>2. PartsType' /\ OnlyAt(d)
    BY <1>0, <2>1 DEF PartsType, OnlyAt
  <2>3. /\ \A x \in Devices \ {d} : mine'[x] = mine[x] /\ phase'[x] = phase[x]
        /\ mine'[d].says = Silence /\ phase'[d] = "none"
    BY <1>0, <2>1 DEF Unsubscribe, TransportType, Quiet
  <2>4. AsOpen(d)'
    <3>1. OpenAs(kind, bridge[d], at[d], holds[d], editing[d], sessions[d], phase[d], mine[d].says)
      BY <1>0 DEF AllAsOpen, AsOpen
    <3>2. /\ bridge'[d] = IF bridge[d] = "idle" THEN "idle" ELSE "waiting"
          /\ holds'[d] = FALSE /\ sessions'[d] = {}
      BY <1>0, <2>1 DEF PartsType
    <3>3. kind \in {"note", "base", "board"}
      BY <1>0, PresenceAssumption DEF PartsType
    <3>4. OpenAs(kind, bridge'[d], at[d], holds'[d], editing[d], sessions'[d], phase'[d], mine'[d].says)
      BY <2>3, <3>1, <3>2, <3>3 DEF OpenAs, Silence
    <3> QED BY <2>1, <3>4 DEF AsOpen
  <2>5. AllAsOpen'
    BY <1>0, <2>1, <2>2, <2>3, <2>4, OthersAsOpen
  <2>6. Moves(d)
    BY <2>1 DEF Moves
  <2> QED BY <2>2, <2>5, <2>6, <1>m
<1>5. ASSUME NEW d \in Devices, OpenDocument(d)
      PROVE  PresenceInv'
  <2>1. /\ Subscribe(d) /\ UNCHANGED <<kind, at, holds, editing, sessions, spot>>
        /\ bridge' = [bridge EXCEPT ![d] = IF @ = "waiting" THEN "binding" ELSE @]
    BY <1>5 DEF OpenDocument, person
  <2>2. PartsType' /\ OnlyAt(d)
    BY <1>0, <2>1 DEF PartsType, OnlyAt
  <2>3. /\ \A x \in Devices \ {d} : mine'[x] = mine[x] /\ phase'[x] = phase[x]
        /\ mine'[d].says = mine[d].says /\ phase'[d] = "loading" /\ phase[d] = "none"
    BY <1>0, <2>1 DEF Subscribe, Subscribed, TransportType
  <2>4. AsOpen(d)'
    <3>1. OpenAs(kind, bridge[d], at[d], holds[d], editing[d], sessions[d], phase[d], mine[d].says)
      BY <1>0 DEF AllAsOpen, AsOpen
    <3>2. bridge'[d] = IF bridge[d] = "waiting" THEN "binding" ELSE bridge[d]
      BY <1>0, <2>1 DEF PartsType
    <3>4. OpenAs(kind, bridge'[d], at[d], holds[d], editing[d], sessions[d], phase'[d], mine'[d].says)
      BY <2>3, <3>1, <3>2 DEF OpenAs, Silence
    <3> QED BY <2>1, <3>4 DEF AsOpen
  <2>5. AllAsOpen'
    BY <1>0, <2>1, <2>2, <2>3, <2>4, OthersAsOpen
  <2>6. Moves(d)
    BY <2>1 DEF Moves
  <2> QED BY <2>2, <2>5, <2>6, <1>m
<1> QED BY <1>1, <1>2, <1>3, <1>4, <1>5 DEF PresenceNext

\* Everything a device has said, has under way and shows, and every part that
\* speaks for its person, stay within their types.
THEOREM PresenceTyped == PresenceSpec => []PresenceType
<1>1. PresenceInv => PresenceType
  BY DEF PresenceInv
<1> QED BY <1>1, InitPresenceInv, NextPresenceInv, PTL DEF PresenceSpec

\* What a device shows of another under its latest clock is what that one says,
\* however long a statement was sealed, under way and opened, and whatever
\* sockets and subscriptions were lost meanwhile (presence-seal.ts and the two
\* chains of multiplexed-provider.ts).
THEOREM TruthIsShown == PresenceSpec => []ShownIsSaid
<1>1. PresenceInv => ShownIsSaid
  BY TruthShows DEF PresenceInv, PresenceType
<1> QED BY <1>1, InitPresenceInv, NextPresenceInv, PTL DEF PresenceSpec

\* The server vouches for nobody who is gone, and a device that cannot hear of
\* departures shows nobody: what a sealing chain still holds when a document
\* closes is not sent, and what an opening chain holds when the socket closes
\* does not count (the conditions of awarenessHandler and receivePresence).
THEOREM NobodyHaunts == PresenceSpec => []NoGhosts
<1>1. PresenceInv => NoGhosts
  BY DEF PresenceInv, Attended
<1> QED BY <1>1, InitPresenceInv, NextPresenceInv, PTL DEF PresenceSpec

\* The parts of the plugin that share one awareness state never speak for each
\* other: what is bound, held or in session is said by its own part, and what
\* is said has its part behind it, however the person and the ticks alternate.
THEOREM EachSpeaksForItself == PresenceSpec => []PresentAsOpen
<1>1. PresenceInv => PresentAsOpen
  BY AsOpenSays DEF PresenceInv
<1> QED BY <1>1, InitPresenceInv, NextPresenceInv, PTL DEF PresenceSpec
=============================================================================
