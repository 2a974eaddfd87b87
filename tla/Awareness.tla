------------------------------ MODULE Awareness ------------------------------
(***************************************************************************)
(* Who is where in one shared document, as the devices that share it tell  *)
(* each other: the presence half of multiplexed-provider.ts, with          *)
(* presence-seal.ts and, as external, y-protocols' Awareness and the sync  *)
(* server.                                                                 *)
(*                                                                         *)
(* Each subscription of the document has an Awareness of its own, under a  *)
(* client id of its own.  A device says what it says under a clock that    *)
(* grows with every statement; statements are sealed one after another     *)
(* before they go out, and opened one after another before they count.     *)
(* The server keeps the last statement of each client for as long as the   *)
(* socket it came by, passes statements on, and retracts for those it      *)
(* loses.  A frame reaches the other side at once, or not at all: what     *)
(* takes time is sealing and opening.                                      *)
(*                                                                         *)
(* Left out: a null said over a null, which tells nobody anything.         *)
(***************************************************************************)
EXTENDS Naturals, Sequences

CONSTANTS
    Devices,        \* the devices that share the document
    Places,         \* spots of a note or a base, panes of a board
    MaxLives,       \* subscriptions of the document, for each device
    MaxMishaps,     \* sockets and documents lost, statements that do not seal or open
    MaxUnswept      \* what a chain may hold when the sweep comes

ASSUME AwarenessAssumption ==
    /\ Places \subseteq Nat \ {0}
    /\ MaxLives \in Nat \ {0} /\ MaxMishaps \in Nat /\ MaxUnswept \in Nat

VARIABLES
    link,       \* the socket: "open", "waiting" for a retry, or "refused"
    epoch,      \* connectionEpoch
    life,       \* how many subscriptions of the document there have been
    phase,      \* "none" without one; "loading", "asked" and "synced" with one
    mine,       \* Awareness: this device's own statement, and its clock
    peers,      \* Awareness: the last statement accepted of each client
    sealing,    \* presenceSendChain, as what it still has to seal and send
    opening,    \* presenceRecvChain, as the frames it still has to open
    listeners,  \* the server: devices it sends the document's frames to
    vouched,    \* the server: the last statement of each client it vouches for
    mishaps     \* what has gone wrong so far

transport == <<link, epoch, life, phase, mine, peers, sealing, opening, listeners, vouched>>

Identities == Devices \X (1..MaxLives)
Self(d) == <<d, life[d]>>

\* What is said: on which surface the person is, and where on it.
Surfaces == {"nobody", "note", "card", "view", "base", "board"}
Claims == [by : Surfaces, spot : Places \cup {0}]
Silence == [by |-> "nobody", spot |-> 0]
Statement == [of : Identities, clock : Nat, says : Claims]
Outgoing == [sub : 1..MaxLives, statements : SUBSET Statement]
Incoming == [sub : 1..MaxLives, epoch : Nat, statements : SUBSET Statement]

Unheard == [clock |-> 0, says |-> Silence]
\* A new Awareness has said {}, and null at once, before anybody listens.
Quiet == [clock |-> 1, says |-> Silence]

Subscribed(d) == phase[d] # "none"
Online(d) == link[d] = "open"
Present(known) == {c \in Identities : known[c].says # Silence}
OthersIn(d) == Present(peers[d])
ChainsHold(n) == \A d \in Devices : Len(sealing[d]) <= n /\ Len(opening[d]) <= n

-----------------------------------------------------------------------------
(* What y-protocols accepts: a newer clock, or a null under the same one.  *)

Newer(statement, known) ==
    \/ statement.clock > known.clock
    \/ statement.clock = known.clock /\ statement.says = Silence

Accepted(known, statements) ==
    [c \in Identities |->
        IF \E s \in statements : s.of = c /\ Newer(s, known[c])
        THEN LET s == CHOOSE s \in statements : s.of = c /\ Newer(s, known[c])
             IN  [clock |-> s.clock, says |-> s.says]
        ELSE known[c]]

-----------------------------------------------------------------------------
(* The server. *)

\* What the others receive of a change that came by device d's socket.
Relayed(d, statements) ==
    [e \in Devices |->
        IF e # d /\ e \in listeners /\ Online(e) /\ Subscribed(e) /\ statements # {}
        THEN Append(opening[e], [sub |-> life[e], epoch |-> epoch[e], statements |-> statements])
        ELSE opening[e]]

Vouched(who) ==
    {[of |-> c, clock |-> vouched[c].clock, says |-> vouched[c].says] :
        c \in {c \in Identities : vouched[c].says # Silence /\ c[1] \in who}}

\* Statements arrive: whoever sends some is sent the others'.
Publish(d, statements) ==
    /\ listeners' = listeners \cup {d}
    /\ vouched' = Accepted(vouched, statements)
    /\ opening' = Relayed(d, statements)

\* The socket or the subscription is gone: nobody vouches for its clients.
Withdraw(d) ==
    /\ listeners' = listeners \ {d}
    /\ vouched' = [c \in Identities |-> IF c[1] = d THEN [vouched[c] EXCEPT !.says = Silence]
                                        ELSE vouched[c]]
    /\ opening' = Relayed(d, {[s EXCEPT !.says = Silence] : s \in Vouched({d})})

-----------------------------------------------------------------------------
(* Slips, for the properties to catch. *)

ClockReadLate(d, item) == {[s EXCEPT !.clock = mine[d].clock] : s \in item.statements}
AnySubscription(d, item) == Online(d)
AnyEpoch(d, frame) == frame.sub = life[d] /\ Subscribed(d)

-----------------------------------------------------------------------------
(* Saying. *)

\* awarenessHandler: states and clocks are captured here, unless nobody is
\* connected.
Captured(d, statements) ==
    IF Online(d) THEN [sealing EXCEPT ![d] = Append(@, [sub |-> life[d], statements |-> statements])]
    ELSE sealing

\* setLocalState.
Say(d, says) ==
    /\ mine' = [mine EXCEPT ![d] = [clock |-> @.clock + 1, says |-> says]]
    /\ sealing' = Captured(d, {[of |-> Self(d), clock |-> mine[d].clock + 1, says |-> says]})

SayIf(d, speaks, says) == IF speaks THEN Say(d, says) ELSE UNCHANGED <<mine, sealing>>

\* setLocalState(null): over a null it changes nothing.
FallSilent(d) == SayIf(d, mine[d].says # Silence, Silence)

\* A frame now, of a subscription since closed, would register this socket
\* with a document it has just told the server it closed.
StillWanted(d, item) == item.sub = life[d] /\ Subscribed(d) /\ Online(d)
Sealed(d, item) == item.statements

\* The head of the chain is sealed, and goes out if there is still reason to.
Seal(d) ==
    /\ sealing[d] # << >>
    /\ sealing' = [sealing EXCEPT ![d] = Tail(@)]
    /\ IF StillWanted(d, Head(sealing[d])) THEN Publish(d, Sealed(d, Head(sealing[d])))
       ELSE UNCHANGED <<listeners, vouched, opening>>
    /\ UNCHANGED <<link, epoch, life, phase, mine, peers, mishaps>>

\* No key for it: it is not sent.  A null needs none.
SealFails(d) ==
    /\ mishaps < MaxMishaps /\ mishaps' = mishaps + 1
    /\ sealing[d] # << >> /\ \E s \in Head(sealing[d]).statements : s.says # Silence
    /\ sealing' = [sealing EXCEPT ![d] = Tail(@)]
    /\ UNCHANGED <<link, epoch, life, phase, mine, peers, opening, listeners, vouched>>

\* The interval of 15 seconds in which what is said is said again.  Nothing
\* depends on when it comes except that somebody may be waiting for it.
SomebodyWaits(d) ==
    /\ sealing[d] = << >>
    /\ \E e \in Devices \ {d} :
          /\ e \in listeners /\ Online(e) /\ phase[e] = "synced"
          /\ peers[e][Self(d)].says # mine[d].says
          /\ \A i \in DOMAIN opening[e] : \A s \in opening[e][i].statements : s.of # Self(d)

Renew(d) ==
    /\ Online(d) /\ Subscribed(d) /\ mine[d].says # Silence
    /\ SomebodyWaits(d)
    /\ Say(d, mine[d].says)
    /\ UNCHANGED <<link, epoch, life, phase, peers, opening, listeners, vouched, mishaps>>

-----------------------------------------------------------------------------
(* Hearing. *)

\* Opened for the subscription and the connection it came by, or dropped.
Counts(d, frame) == frame.sub = life[d] /\ Subscribed(d) /\ frame.epoch = epoch[d]

\* Somebody else retracts what this device says: it keeps saying it, under a
\* newer clock, and tells nobody before it is renewed.
Contradicted(d, statements) ==
    \E s \in statements : s.of = Self(d) /\ Newer(s, mine[d]) /\ mine[d].says # Silence

HearFrom(d, statements) ==
    /\ opening' = [opening EXCEPT ![d] = Tail(@)]
    /\ IF Counts(d, Head(opening[d]))
       THEN /\ peers' = [peers EXCEPT ![d] = Accepted(@, {s \in statements : s.of # Self(d)})]
            /\ mine' = IF Contradicted(d, statements) THEN [mine EXCEPT ![d].clock = @ + 1] ELSE mine
       ELSE UNCHANGED <<peers, mine>>
    /\ UNCHANGED <<link, epoch, life, phase, sealing, listeners, vouched>>

OpenFrame(d) ==
    /\ opening[d] # << >>
    /\ HearFrom(d, Head(opening[d]).statements)
    /\ UNCHANGED mishaps

\* One statement of the frame is refused; the others still count.
OpenRefuses(d) ==
    /\ mishaps < MaxMishaps /\ mishaps' = mishaps + 1
    /\ opening[d] # << >>
    /\ \E s \in Head(opening[d]).statements :
          /\ s.says # Silence
          /\ HearFrom(d, Head(opening[d]).statements \ {s})

\* The sweep of what nobody has renewed for 30 seconds: retracted here, and
\* said to be to the others.  What is renewed is renewed every 15.
Renewed(c) == c = Self(c[1]) /\ Subscribed(c[1]) /\ Online(c[1]) /\ mine[c[1]].says # Silence

Sweep(d) ==
    LET swept == {c \in OthersIn(d) : ~Renewed(c)}
    IN  /\ swept # {} /\ ChainsHold(MaxUnswept)
        /\ peers' = [peers EXCEPT ![d] =
                        [c \in Identities |-> IF c \in swept THEN [@[c] EXCEPT !.says = Silence] ELSE @[c]]]
        /\ sealing' = Captured(d, {[of |-> c, clock |-> peers[d][c].clock, says |-> Silence] : c \in swept})
        /\ UNCHANGED <<link, epoch, life, phase, mine, opening, listeners, vouched, mishaps>>

-----------------------------------------------------------------------------
(* The socket. *)

\* onclose: nobody can be vouched for any more, so every peer is retracted,
\* here and for as long as the clock they had.  A session the server no longer
\* takes ends the retries; whatever else it closes for does not.
SocketCloses(d, next) ==
    /\ mishaps < MaxMishaps /\ mishaps' = mishaps + 1
    /\ Online(d)
    /\ link' = [link EXCEPT ![d] = next]
    /\ epoch' = [epoch EXCEPT ![d] = @ + 1]
    /\ phase' = [phase EXCEPT ![d] = IF Subscribed(d) THEN "loading" ELSE @]
    /\ peers' = [peers EXCEPT ![d] = [c \in Identities |-> [@[c] EXCEPT !.says = Silence]]]
    /\ Withdraw(d)
    /\ UNCHANGED <<life, mine, sealing>>

\* connect, after the session was recovered.
ConnectAgain(d) ==
    /\ link[d] = "refused"
    /\ link' = [link EXCEPT ![d] = "waiting"]
    /\ UNCHANGED <<epoch, life, phase, mine, peers, sealing, opening, listeners, vouched, mishaps>>

\* doConnect, from the timer of scheduleReconnect, and onopen.
SocketOpens(d) ==
    /\ link[d] = "waiting"
    /\ link' = [link EXCEPT ![d] = "open"]
    /\ UNCHANGED <<epoch, life, phase, mine, peers, sealing, opening, listeners, vouched, mishaps>>

\* sendSubscribe, once the read position is known.
SendSubscribe(d) ==
    /\ Online(d) /\ phase[d] = "loading"
    /\ phase' = [phase EXCEPT ![d] = "asked"]
    /\ listeners' = listeners \cup {d}
    /\ UNCHANGED <<link, epoch, life, mine, peers, sealing, opening, vouched, mishaps>>

\* completeSync: the catch-up ends, and who is here is asked for and answered.
CatchUpEnds(d) ==
    /\ Online(d) /\ phase[d] = "asked"
    /\ phase' = [phase EXCEPT ![d] = "synced"]
    /\ opening' = LET here == Vouched(Devices \ {d})
                  IN  IF here = {} THEN opening
                      ELSE [opening EXCEPT ![d] =
                               Append(@, [sub |-> life[d], epoch |-> epoch[d], statements |-> here])]
    /\ UNCHANGED <<link, epoch, life, mine, peers, sealing, listeners, vouched, mishaps>>

\* unsubscribe: the handlers go first, so the Awareness is destroyed in
\* silence; the server is told if it can be.
Unsubscribe(d) ==
    /\ mishaps < MaxMishaps /\ mishaps' = mishaps + 1
    /\ Subscribed(d)
    /\ phase' = [phase EXCEPT ![d] = "none"]
    /\ mine' = [mine EXCEPT ![d] = Quiet]
    /\ peers' = [peers EXCEPT ![d] = [c \in Identities |-> Unheard]]
    /\ IF Online(d) THEN Withdraw(d) ELSE UNCHANGED <<listeners, vouched, opening>>
    /\ UNCHANGED <<link, epoch, life, sealing>>

\* subscribe: a document, an Awareness and a client id of its own.
Subscribe(d) ==
    /\ ~Subscribed(d) /\ life[d] < MaxLives
    /\ life' = [life EXCEPT ![d] = @ + 1]
    /\ phase' = [phase EXCEPT ![d] = "loading"]
    /\ UNCHANGED <<link, epoch, mine, peers, sealing, opening, listeners, vouched, mishaps>>

\* The document is subscribed everywhere, and what each has said is known.
TransportInit(said) ==
    LET known == [c \in Identities |-> IF c[2] = 1 /\ said[c[1]].says # Silence THEN said[c[1]] ELSE Unheard]
    IN  /\ mine = said
        /\ peers = [d \in Devices |-> [c \in Identities |-> IF c[1] = d THEN Unheard ELSE known[c]]]
        /\ vouched = known
    /\ link = [d \in Devices |-> "open"]
    /\ epoch = [d \in Devices |-> 0]
    /\ life = [d \in Devices |-> 1]
    /\ phase = [d \in Devices |-> "synced"]
    /\ sealing = [d \in Devices |-> << >>]
    /\ opening = [d \in Devices |-> << >>]
    /\ listeners = Devices
    /\ mishaps = 0

TransportStep(d) ==
    \/ Seal(d) \/ SealFails(d) \/ Renew(d) \/ OpenFrame(d) \/ OpenRefuses(d) \/ Sweep(d)
    \/ \E next \in {"waiting", "refused"} : SocketCloses(d, next)
    \/ ConnectAgain(d) \/ SocketOpens(d) \/ SendSubscribe(d) \/ CatchUpEnds(d)

-----------------------------------------------------------------------------
(* What must hold of it. *)

\* What a device shows of another, under the clock the other is at, is what
\* the other says; and nobody is shown under a clock not reached yet.  A
\* statement bound to the wrong moment would be shown until the next one.
ShownIsSaid ==
    \A d, e \in Devices :
        d # e /\ Subscribed(e) =>
            LET shown == peers[d][Self(e)]
            IN  /\ shown.clock <= mine[e].clock
                /\ shown.clock = mine[e].clock /\ shown.says # Silence => shown.says = mine[e].says

\* Nobody is vouched for who is not there: no device that closed the document
\* is sent its frames, no client of a closed subscription stays with the
\* server, and a device that cannot hear of departures shows nobody.
NoGhosts ==
    /\ \A d \in listeners : Online(d) /\ Subscribed(d)
    /\ \A c \in Present(vouched) : Subscribed(c[1]) /\ Online(c[1]) /\ c = Self(c[1])
    /\ \A d \in Devices : ~Online(d) => OthersIn(d) = {}
=============================================================================
