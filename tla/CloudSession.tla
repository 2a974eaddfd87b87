----------------------------- MODULE CloudSession -----------------------------
(***************************************************************************)
(* The Cloud session of one vault: the tokens main.ts stores, the refresh  *)
(* that rotates them, the callers that decide from a refused request       *)
(* whether the session is over, and the person who signs in and out        *)
(* meanwhile.  RefreshGate supplies the gate, signed-out.ts the decision   *)
(* of a refused connection; the identity service is external.              *)
(*                                                                         *)
(* Refresh tokens rotate: the n-th of a session is <<sid, n>>, only the    *)
(* latest is good, and presenting an older one ends the session.  An       *)
(* access token may be refused at any time, being short-lived.             *)
(*                                                                         *)
(* A promise that settles runs its continuations before any other event of *)
(* the client: "Busy" holds the other events back while one is due.        *)
(***************************************************************************)
EXTENDS RefreshGate

CONSTANTS
    Procedure,  \* which decision each caller runs
    Sids,       \* sessions the service may create for this install
    First,      \* the session the vault starts with
    Beside,     \* the callers at work when the person signs in and out
    MaxAsks,    \* how many procedures may be started
    MaxLost     \* how many requests the network may lose

Procedures == {"pane", "memberships", "expired", "connection", "release"}

ASSUME SessionAssumption ==
    /\ Procedure \in [Callers -> Procedures]
    /\ First \in Sids
    /\ Beside \subseteq Callers
    /\ MaxAsks \in Nat /\ MaxLost \in Nat
    /\ None \notin Sids \cup Nat

VARIABLES
    live,       \* the service: the sessions it honours
    latest,     \* the service: each session's last refresh token
    settings,   \* what the vault has stored
    sessionGeneration,
    signingIn,
    tokenOnlySinceFull,
    run,        \* the refresh under way
    pc,         \* where each caller's procedure is
    tok,        \* the access token its request carried
    gen,        \* the generation it captured
    reply,      \* what its request or its refresh came back with
    acting,     \* the person may sign in and out
    person,     \* a sign-in or sign-out under way
    asks, lost  \* procedures started, requests lost

serviceVars == <<live, latest>>
clientVars  == <<settings, sessionGeneration, signingIn, tokenOnlySinceFull>>
callerVars  == <<pc, tok, gen, reply>>
sessionVars == <<gateVars, serviceVars, clientVars, run, callerVars, acting, person, asks, lost>>

Token == Sids \X Nat

\* The request a procedure stands or falls by, and what becomes of it.
Steps == {"idle", "loader", "me", "probe", "shard", "release", "establishing"}
Answers == {"true", "false", "throw"}
Replies == {"none", "alive", "refused", "unreachable", "refreshing"} \cup Answers

NoRun == [phase |-> "none", token |-> None, gen |-> 0]
NoOne == [phase |-> "none", sid |-> None]

SessionTypeOK ==
    /\ GateTypeOK
    /\ live \subseteq Sids
    /\ latest \in [Sids -> Nat \cup {None}]
    /\ settings \in [identity : BOOLEAN, access : Token \cup {None},
                     refresh : Token \cup {None}, members : BOOLEAN]
    /\ sessionGeneration \in Nat
    /\ signingIn \in BOOLEAN
    /\ tokenOnlySinceFull \in BOOLEAN
    /\ run \in [phase : {"none", "tokenless", "sent", "accepted", "refused", "failed", "applying"},
                token : Token \cup {None}, gen : Nat]
    /\ pc \in [Callers -> Steps]
    /\ tok \in [Callers -> Token \cup {None}]
    /\ gen \in [Callers -> Nat]
    /\ reply \in [Callers -> Replies]
    /\ acting \in BOOLEAN
    /\ person \in [phase : {"none", "granted", "applying", "logout", "loggedOut"},
                   sid : Sids \cup {None}]
    /\ asks \in 0..MaxAsks
    /\ lost \in 0..MaxLost

SignedIn(t) == [identity |-> TRUE, access |-> t, refresh |-> t, members |-> FALSE]
SignedOut   == [identity |-> FALSE, access |-> None, refresh |-> None, members |-> FALSE]

Init ==
    /\ GateInit
    /\ live = {First}
    /\ latest = [s \in Sids |-> IF s = First THEN 0 ELSE None]
    /\ settings = [SignedIn(<<First, 0>>) EXCEPT !.members = TRUE]
    /\ sessionGeneration = 0
    /\ signingIn = FALSE
    /\ tokenOnlySinceFull = FALSE
    /\ run = NoRun
    /\ pc = [c \in Callers |-> "idle"]
    /\ tok = [c \in Callers |-> None]
    /\ gen = [c \in Callers |-> 0]
    /\ reply = [c \in Callers |-> "none"]
    /\ acting \in {FALSE, Beside # {}}
    /\ person = NoOne
    /\ asks = 0 /\ lost = 0

\* A continuation is due: a refresh has settled, or woken a caller behind it.
Busy == \/ run.phase = "tokenless"
        \/ \E c \in Callers : reply[c] \in Answers \/ at[c] = "woken"

Lose == ~acting /\ lost < MaxLost /\ lost' = lost + 1

(***************************************************************************)
(* The identity service (external).                                        *)
(***************************************************************************)
Good(t) == t # None /\ t[1] \in live /\ t[2] = latest[t[1]]

\* Answers a request made with an access token; one of a live session may have
\* expired.
ServeRequest(c) ==
    /\ pc[c] \in {"loader", "me", "probe", "release"} /\ reply[c] = "none"
    /\ \/ /\ tok[c] # None /\ tok[c][1] \in live
          /\ reply' = [reply EXCEPT ![c] = "alive"] /\ UNCHANGED lost
       \/ reply' = [reply EXCEPT ![c] = "refused"] /\ UNCHANGED lost
       \/ reply' = [reply EXCEPT ![c] = "unreachable"] /\ Lose
    /\ UNCHANGED <<gateVars, serviceVars, clientVars, run, pc, tok, gen, acting, person, asks>>

\* Rotates a good refresh token; one already rotated out ends its session.
ServeRefresh ==
    /\ run.phase = "sent"
    /\ LET sid == run.token[1] IN
       \/ /\ Good(run.token)
          /\ latest' = [latest EXCEPT ![sid] = @ + 1]
          /\ run' = [run EXCEPT !.phase = "accepted", !.token = <<sid, @[2] + 1>>]
          /\ UNCHANGED <<live, lost>>
       \/ /\ ~Good(run.token)
          /\ live' = live \ {sid}
          /\ run' = [run EXCEPT !.phase = "refused"]
          /\ UNCHANGED <<latest, lost>>
       \/ /\ Lose
          /\ run' = [run EXCEPT !.phase = "failed"]
          /\ UNCHANGED serviceVars
    /\ UNCHANGED <<gateVars, clientVars, callerVars, acting, person, asks>>

\* The session is ended from another device.
EndedElsewhere ==
    /\ \E sid \in live : live' = live \ {sid}
    /\ UNCHANGED <<gateVars, latest, clientVars, run, callerVars, acting, person, asks, lost>>

\* A sign-in from this install is granted, and retires its earlier session.
Granted ==
    /\ acting /\ person = NoOne
    /\ \E sid \in Sids :
          /\ latest[sid] = None
          /\ latest' = [latest EXCEPT ![sid] = 0]
          /\ live' = {sid}
          /\ person' = [phase |-> "granted", sid |-> sid]
    /\ UNCHANGED <<gateVars, clientVars, run, callerVars, acting, asks, lost>>

\* The logout a person's sign-out sends ends the session, or is lost.
ServeLogout ==
    /\ person.phase = "logout"
    /\ person' = [person EXCEPT !.phase = "loggedOut"]
    /\ \/ live' = live \ {person.sid} /\ UNCHANGED lost
       \/ Lose /\ UNCHANGED live
    /\ UNCHANGED <<gateVars, latest, clientVars, run, callerVars, acting, asks>>

(***************************************************************************)
(* Slips: decisions of the client as a plausible change would break them,  *)
(* for the properties to catch.                                            *)
(***************************************************************************)
AlwaysCurrent(c) == TRUE
OldTokenKept(t) == [settings EXCEPT !.access = t]
StoresAnyway == TRUE
IgnoresRefusal(c) == FALSE
AnyFailureSignsOut(c) == reply[c] # "true" /\ pc[c] # "release"

(***************************************************************************)
(* Applying a sign-in, and signing out.                                    *)
(***************************************************************************)
\* applyCloudSignIn, up to its session calls to the sync servers.
Apply(t) ==
    /\ sessionGeneration' = sessionGeneration + 1
    /\ signingIn' = TRUE
    /\ tokenOnlySinceFull' = FALSE
    /\ settings' = [settings EXCEPT !.identity = TRUE, !.access = t, !.refresh = t]

\* The memberships are established, and syncing starts.
Established ==
    /\ signingIn' = FALSE
    /\ settings' = [settings EXCEPT !.members = TRUE]
    /\ UNCHANGED <<sessionGeneration, tokenOnlySinceFull>>

\* signOutCloud with skipLogout: nothing is awaited before the tokens go.
ForceSignOut ==
    /\ sessionGeneration' = sessionGeneration + 1
    /\ settings' = SignedOut
    /\ UNCHANGED <<signingIn, tokenOnlySinceFull>>

SignInApplies ==
    /\ person.phase = "granted" /\ ~Busy
    /\ Apply(<<person.sid, 0>>)
    /\ person' = [person EXCEPT !.phase = "applying"]
    /\ UNCHANGED <<gateVars, serviceVars, run, callerVars, acting, asks, lost>>

SignInApplied ==
    /\ person.phase = "applying" /\ ~Busy
    /\ Established
    /\ person' = NoOne
    /\ UNCHANGED <<gateVars, serviceVars, run, callerVars, acting, asks, lost>>

\* signOutCloud as the person asks for it: the service is told first.
SignOutStarts ==
    /\ acting /\ person = NoOne /\ settings.identity /\ ~Busy
    /\ sessionGeneration' = sessionGeneration + 1
    /\ person' = IF settings.refresh = None THEN [phase |-> "loggedOut", sid |-> None]
                 ELSE [phase |-> "logout", sid |-> settings.refresh[1]]
    /\ UNCHANGED <<gateVars, serviceVars, settings, signingIn, tokenOnlySinceFull,
                   run, callerVars, acting, asks, lost>>

SignOutEnds ==
    /\ person.phase = "loggedOut" /\ ~Busy
    /\ settings' = SignedOut
    /\ person' = NoOne
    /\ UNCHANGED <<gateVars, serviceVars, sessionGeneration, signingIn,
                   tokenOnlySinceFull, run, callerVars, acting, asks, lost>>

(***************************************************************************)
(* refreshCloudSession and the two kinds of run behind the gate.           *)
(***************************************************************************)
StartRun == run' = [phase |-> IF settings.refresh = None THEN "tokenless" ELSE "sent",
                    token |-> settings.refresh, gen |-> sessionGeneration]

\* A refresh landed since caller c's request, and it is enough for kind k.
Superseded(c, k) ==
    tok[c] # settings.access /\ (k = "token" \/ ~tokenOnlySinceFull)

\* Go through the gate, and start the run if none is under way.
ThroughGate(c, k) ==
    /\ Ask(c, k)
    /\ reply' = [reply EXCEPT ![c] = "refreshing"]
    /\ IF at'[c] = "running" THEN StartRun ELSE UNCHANGED run

RefreshCloudSession(c, k) ==
    IF Superseded(c, k)
    THEN /\ reply' = [reply EXCEPT ![c] = "true"]
         /\ UNCHANGED <<gateVars, run>>
    ELSE ThroughGate(c, k)

\* A caller that waited behind another's run goes round the gate's loop.
GoesRound(c) ==
    /\ Resume(c)
    /\ IF at'[c] = "running" THEN StartRun ELSE UNCHANGED run
    /\ UNCHANGED <<serviceVars, clientVars, callerVars, acting, person, asks, lost>>

\* The run settles: everyone who shared it gets the same answer.
SettleRun(answer) ==
    /\ Settle
    /\ run' = NoRun
    /\ reply' = [c \in Callers |->
                   IF at[c] \in {"joined", "running"} THEN answer ELSE reply[c]]
    /\ UNCHANGED <<serviceVars, pc, tok, gen, acting, person, asks, lost>>

\* Whether a rotation's tokens are still this vault's (doRotateCloudTokens).
StillOurs == run.gen = sessionGeneration /\ settings.identity

Rotated(t) == [settings EXCEPT !.access = t, !.refresh = t]

TokensRotated ==
    /\ run.phase = "accepted" /\ inflight = "token" /\ ~Busy
    /\ IF StillOurs
       THEN /\ settings' = Rotated(run.token)
            /\ tokenOnlySinceFull' = TRUE
            /\ UNCHANGED <<sessionGeneration, signingIn>>
            /\ SettleRun("true")
       ELSE UNCHANGED clientVars /\ SettleRun("false")

RefreshApplies ==
    /\ run.phase = "accepted" /\ inflight = "full" /\ ~Busy
    /\ Apply(run.token)
    /\ run' = [run EXCEPT !.phase = "applying"]
    /\ UNCHANGED <<gateVars, serviceVars, callerVars, acting, person, asks, lost>>

RefreshApplied ==
    /\ run.phase = "applying" /\ ~Busy
    /\ Established
    /\ SettleRun("true")

RefreshRefused ==
    /\ run.phase = "tokenless" \/ (run.phase = "refused" /\ ~Busy)
    /\ UNCHANGED clientVars
    /\ SettleRun("false")

RefreshFailed ==
    /\ run.phase = "failed" /\ ~Busy
    /\ UNCHANGED clientVars
    /\ SettleRun("throw")

(***************************************************************************)
(* The callers.                                                            *)
(***************************************************************************)
Sends(c, request) ==
    /\ pc' = [pc EXCEPT ![c] = request]
    /\ tok' = [tok EXCEPT ![c] = settings.access]
    /\ reply' = [reply EXCEPT ![c] = "none"]

Returns(c) ==
    /\ pc' = [pc EXCEPT ![c] = "idle"]
    /\ tok' = [tok EXCEPT ![c] = None]
    /\ gen' = [gen EXCEPT ![c] = 0]
    /\ reply' = [reply EXCEPT ![c] = "none"]

\* A procedure starts: a settings pane loader, refreshMemberships, the hourly
\* release check, the probe behind a closed connection.
Begins(c) ==
    /\ pc[c] = "idle" /\ asks < MaxAsks /\ ~Busy
    /\ acting => c \in Beside
    /\ asks' = asks + 1
    /\ \/ Procedure[c] = "pane" /\ settings.identity /\ Sends(c, "loader") /\ UNCHANGED gen
       \/ Procedure[c] = "memberships" /\ settings.identity /\ Sends(c, "me") /\ UNCHANGED gen
       \/ Procedure[c] = "release" /\ settings.identity /\ Sends(c, "release") /\ UNCHANGED gen
       \/ /\ Procedure[c] = "connection" /\ settings.members /\ ~signingIn
          /\ Sends(c, "probe")
          /\ gen' = [gen EXCEPT ![c] = sessionGeneration]
    /\ UNCHANGED <<gateVars, serviceVars, clientVars, run, acting, person, lost>>

\* handleSessionExpired: a sync server refused its session.
ShardRefuses(c) ==
    /\ pc[c] = "idle" /\ Procedure[c] = "expired" /\ settings.members
    /\ asks < MaxAsks /\ ~Busy
    /\ acting => c \in Beside
    /\ asks' = asks + 1
    /\ pc' = [pc EXCEPT ![c] = "shard"]
    /\ ThroughGate(c, "full")
    /\ UNCHANGED <<serviceVars, clientVars, tok, gen, acting, person, lost>>

\* handleSignedOutConnection's guard, between every two awaits.
StillCurrent(c) == gen[c] = sessionGeneration /\ ~signingIn

Served(c) == reply[c] \in {"alive", "refused", "unreachable"} /\ ~Busy

\* A loader's request answered: recoverIdentitySession for one refused.
LoaderAnswered(c) ==
    /\ pc[c] = "loader" /\ Served(c)
    /\ IF reply[c] = "refused" /\ settings.identity
       THEN RefreshCloudSession(c, "full") /\ UNCHANGED <<pc, tok, gen>>
       ELSE Returns(c) /\ UNCHANGED <<gateVars, run>>
    /\ UNCHANGED <<serviceVars, clientVars, acting, person, asks, lost>>

ReleaseAnswered(c) ==
    /\ pc[c] = "release" /\ Served(c)
    /\ IF reply[c] = "refused"
       THEN RefreshCloudSession(c, "token") /\ UNCHANGED <<pc, tok, gen>>
       ELSE Returns(c) /\ UNCHANGED <<gateVars, run>>
    /\ UNCHANGED <<serviceVars, clientVars, acting, person, asks, lost>>

\* refreshMemberships' request answered. The identity is written as it stands.
MeAnswered(c) ==
    /\ pc[c] = "me" /\ Served(c)
    /\ CASE reply[c] = "alive" ->
              /\ settings' = [settings EXCEPT !.identity = TRUE]
              /\ pc' = [pc EXCEPT ![c] = "establishing"]
              /\ reply' = [reply EXCEPT ![c] = "none"]
              /\ UNCHANGED <<gateVars, run, tok, gen>>
         [] reply[c] = "refused" ->
              /\ RefreshCloudSession(c, "full")
              /\ UNCHANGED <<settings, pc, tok, gen>>
         [] reply[c] = "unreachable" ->
              Returns(c) /\ UNCHANGED <<gateVars, run, settings>>
    /\ UNCHANGED <<serviceVars, sessionGeneration, signingIn, tokenOnlySinceFull,
                   acting, person, asks, lost>>

MembershipsEstablished(c) ==
    /\ pc[c] = "establishing" /\ ~Busy
    /\ settings' = [settings EXCEPT !.members = TRUE]
    /\ Returns(c)
    /\ UNCHANGED <<gateVars, serviceVars, sessionGeneration, signingIn,
                   tokenOnlySinceFull, run, acting, person, asks, lost>>

\* recoverSignedOutConnection after its probe: alive, it fetches fresh sessions
\* (refreshMemberships, if still signed in); refused, it refreshes.
ProbeAnswered(c) ==
    /\ pc[c] = "probe" /\ Served(c)
    /\ CASE reply[c] = "unreachable" \/ ~StillCurrent(c) \/ (reply[c] = "alive" /\ ~settings.identity) ->
              Returns(c) /\ UNCHANGED <<gateVars, run>>
         [] reply[c] = "alive" /\ StillCurrent(c) /\ settings.identity ->
              Sends(c, "me") /\ UNCHANGED <<gateVars, run, gen>>
         [] reply[c] = "refused" /\ StillCurrent(c) ->
              ThroughGate(c, "full") /\ UNCHANGED <<pc, tok, gen>>
    /\ UNCHANGED <<serviceVars, clientVars, acting, person, asks, lost>>

\* Whether a refresh that was refused makes caller c sign the vault out: the
\* release check never does, the connection only if nobody moved the session on.
SignsOut(c) ==
    /\ reply[c] = "false"
    /\ pc[c] # "release"
    /\ pc[c] = "probe" => StillCurrent(c)

Refreshed(c) ==
    /\ reply[c] \in Answers
    /\ IF SignsOut(c) THEN ForceSignOut ELSE UNCHANGED clientVars
    /\ Returns(c)
    /\ UNCHANGED <<gateVars, serviceVars, run, acting, person, asks, lost>>

(***************************************************************************)
(* The specification.                                                      *)
(***************************************************************************)
Client(c) ==
    \/ GoesRound(c) \/ LoaderAnswered(c) \/ ReleaseAnswered(c) \/ MeAnswered(c)
    \/ MembershipsEstablished(c) \/ ProbeAnswered(c) \/ Refreshed(c)

Run == TokensRotated \/ RefreshApplies \/ RefreshApplied \/ RefreshRefused \/ RefreshFailed

Person == Granted \/ SignInApplies \/ SignInApplied \/ SignOutStarts \/ SignOutEnds

Next ==
    \/ \E c \in Callers : Begins(c) \/ ShardRefuses(c) \/ ServeRequest(c) \/ Client(c)
    \/ ServeRefresh \/ ServeLogout \/ EndedElsewhere
    \/ Run \/ Person

Spec == Init /\ [][Next]_sessionVars

\* Requests are answered or fail, and promises run their continuations.
FairSpec ==
    /\ Spec
    /\ WF_sessionVars(ServeRefresh) /\ WF_sessionVars(Run)
    /\ \A c \in Callers : WF_sessionVars(ServeRequest(c)) /\ WF_sessionVars(Client(c))

(***************************************************************************)
(* What must hold.                                                         *)
(***************************************************************************)
\* The stored refresh token is the one the service last issued, whenever a
\* refresh is yet to reach the service or none is under way: the next one never
\* presents a token rotated out, which would end the session (RefreshGate,
\* doRotateCloudTokens, applySignIn).
Unusable(t) == t = None \/ t[1] \notin live
TokensCurrent ==
    (run.phase \in {"none", "sent"} /\ person.phase \notin {"logout", "loggedOut"})
        => Unusable(settings.refresh) \/ Good(settings.refresh)

Forced == settings.identity /\ ~settings'.identity /\ person.phase # "loggedOut"

\* A vault is never signed out over a refused request while the session it
\* holds is one the service still honours (recoverIdentitySession,
\* handleSessionExpired, refreshMemberships), as long as nobody signs in or out.
ForcedOnlyWhenDead == [][Forced /\ ~acting => Unusable(settings.refresh)]_sessionVars

\* The same, of the decision behind a refused connection: whoever signed in
\* while it was asking keeps the session (signed-out.ts).
ConnectionSparesNewSession ==
    [][\A c \in Callers :
          Forced /\ pc[c] = "probe" /\ pc'[c] = "idle" => Unusable(settings.refresh)]_sessionVars

\* A token-only rotation answered after the person signed out, or out and in
\* again, puts no tokens in a signed-out vault and replaces no other session's
\* (doRotateCloudTokens; what a membership refresh or a full one writes back is
\* not its subject).
RotationKeepsSession ==
    [][(inflight = "token" /\ inflight' = None /\ settings' # settings)
         => /\ settings.identity
            /\ settings.refresh = None \/ settings'.refresh[1] = settings.refresh[1]]_sessionVars

\* Once a loader is refused over a session that has ended, and no refresh from
\* before the end is there to be joined, the vault stops looking signed in, or
\* the refusal comes to nothing on the network (recoverIdentitySession).
EndedIsNoticed ==
    \A c \in Callers :
        (/\ pc[c] = "loader" /\ reply[c] = "refused" /\ tok[c] = settings.access
         /\ Unusable(settings.refresh) /\ inflight = None)
            ~> (~settings.identity \/ lost > 0)
=============================================================================
