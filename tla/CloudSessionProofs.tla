------------------------- MODULE CloudSessionProofs -------------------------
(***************************************************************************)
(* The Cloud session, for any callers, sessions and bounds.  Every step of *)
(* the session is a step of the gate or leaves it alone, so what the gate  *)
(* promises its callers holds of the session's.  On that rests the rest:   *)
(* one refresh at a time, and what it holds against what the vault holds.  *)
(***************************************************************************)
EXTENDS CloudSession, TLAPS

(***************************************************************************)
(* The gate, for any number of callers.                                    *)
(***************************************************************************)
\* Whoever is in run() has asked for something, and whoever shares a run shares
\* one under way, of a kind that will do.
Engaged ==
    \A c \in Callers :
        /\ at[c] # "idle" => kind[c] \in Kinds
        /\ at[c] = "joined" => inflight \in Kinds
        /\ at[c] = "joined" /\ kind[c] = "full" => inflight = "full"

GateInv == GateTypeOK /\ Engaged /\ OneAtATime /\ FullTakesFull

\* Before anyone asks.
LEMMA GateInitInv == GateInit => GateInv
BY NoneAssumption DEF GateInit, GateInv, GateTypeOK, Engaged, OneAtATime, FullTakesFull, Kinds

\* Going round the loop preserves what holds of the gate and its callers,
\* whoever does it and whatever they ask for.
LEMMA TurnCases ==
    ASSUME NEW k \in Kinds, NEW c \in Callers, inflight \in Kinds \cup {None}
    PROVE  \/ /\ Turn(c, k) = "joined" /\ inflight \in Kinds
              /\ k = "full" => inflight = "full"
           \/ Turn(c, k) = "waiting" /\ inflight \in Kinds
           \/ Turn(c, k) = "running" /\ inflight = None
BY NoneAssumption DEF Turn, Joins, Kinds

LEMMA AskInv ==
    ASSUME GateInv, NEW c \in Callers, NEW k \in Kinds, Ask(c, k)
    PROVE  GateInv'
<1> USE DEF Kinds
<1>1. /\ at' = [at EXCEPT ![c] = Turn(c, k)]
      /\ inflight' = IF Turn(c, k) = "running" THEN k ELSE inflight
      /\ kind' = [kind EXCEPT ![c] = k]
      /\ took' = [took EXCEPT ![c] = None]
      /\ at[c] = "idle"
  BY DEF Ask, Enter
<1>2. \/ /\ Turn(c, k) = "joined" /\ inflight \in Kinds
         /\ k = "full" => inflight = "full"
      \/ Turn(c, k) = "waiting" /\ inflight \in Kinds
      \/ Turn(c, k) = "running" /\ inflight = None
  BY TurnCases DEF GateInv, GateTypeOK
<1>3. GateTypeOK'
  BY <1>1, <1>2 DEF GateInv, GateTypeOK
<1>4. Engaged'
  BY <1>1, <1>2, NoneAssumption DEF GateInv, GateTypeOK, Engaged
<1>5. OneAtATime'
  BY <1>1, <1>2, NoneAssumption DEF GateInv, GateTypeOK, Engaged, OneAtATime
<1>6. FullTakesFull'
  BY <1>1 DEF GateInv, GateTypeOK, FullTakesFull
<1> QED BY <1>3, <1>4, <1>5, <1>6 DEF GateInv

LEMMA ResumeInv ==
    ASSUME GateInv, NEW c \in Callers, Resume(c)
    PROVE  GateInv'
<1> USE DEF Kinds
<1> DEFINE k == kind[c]
<1>0. k \in Kinds
  BY DEF GateInv, Engaged, Resume
<1>1. /\ at' = [at EXCEPT ![c] = Turn(c, k)]
      /\ inflight' = IF Turn(c, k) = "running" THEN k ELSE inflight
      /\ kind' = kind /\ took' = took
      /\ at[c] = "woken"
  BY DEF Resume, Enter
<1>2. \/ /\ Turn(c, k) = "joined" /\ inflight \in Kinds
         /\ k = "full" => inflight = "full"
      \/ Turn(c, k) = "waiting" /\ inflight \in Kinds
      \/ Turn(c, k) = "running" /\ inflight = None
  BY <1>0, TurnCases DEF GateInv, GateTypeOK
<1>3. GateTypeOK'
  BY <1>0, <1>1, <1>2 DEF GateInv, GateTypeOK
<1>4. Engaged'
  BY <1>0, <1>1, <1>2, NoneAssumption DEF GateInv, GateTypeOK, Engaged
<1>5. OneAtATime'
  BY <1>0, <1>1, <1>2, NoneAssumption DEF GateInv, GateTypeOK, Engaged, OneAtATime
<1>6. FullTakesFull'
  BY <1>1 DEF GateInv, FullTakesFull
<1> QED BY <1>3, <1>4, <1>5, <1>6 DEF GateInv

\* A settled run leaves nobody running, and answers those who joined it with its
\* own kind.
LEMMA SettleInv ==
    ASSUME GateInv, Settle
    PROVE  GateInv'
<1> USE DEF Kinds
<1>1. /\ inflight \in Kinds
      /\ inflight' = None
      /\ kind' = kind
      /\ at' \in [Callers -> {"idle", "woken"}]
      /\ \A c \in Callers : at'[c] = "woken" => at[c] \in {"waiting", "woken"}
      /\ took' = [c \in Callers |->
                    IF at[c] \in {"joined", "running"} THEN inflight ELSE took[c]]
  BY DEF GateInv, GateTypeOK, Settle
<1>2. GateTypeOK'
  BY <1>1 DEF GateInv, GateTypeOK
<1>3. Engaged' /\ OneAtATime'
  BY <1>1 DEF GateInv, GateTypeOK, Engaged, OneAtATime
<1>4. FullTakesFull'
  BY <1>1 DEF GateInv, GateTypeOK, Engaged, OneAtATime, FullTakesFull
<1> QED BY <1>2, <1>3, <1>4 DEF GateInv

LEMMA GateNextInv == GateInv /\ [GateNext]_gateVars => GateInv'
<1> SUFFICES ASSUME GateInv, [GateNext]_gateVars PROVE GateInv'
  OBVIOUS
<1>1. ASSUME NEW c \in Callers, NEW k \in Kinds, Ask(c, k) PROVE GateInv'
  BY <1>1, AskInv
<1>2. ASSUME NEW c \in Callers, Resume(c) PROVE GateInv'
  BY <1>2, ResumeInv
<1>3. CASE Settle
  BY <1>3, SettleInv
<1>4. CASE UNCHANGED gateVars
  BY <1>4 DEF gateVars, GateInv, GateTypeOK, Engaged, OneAtATime, FullTakesFull
<1> QED BY <1>1, <1>2, <1>3, <1>4 DEF GateNext

\* Whatever the callers and however they interleave: never two refreshes under
\* way (OneAtATime), and a caller that needs a full refresh is answered by one
\* (FullTakesFull).
THEOREM GateCorrect == GateSpec => [](GateTypeOK /\ OneAtATime /\ FullTakesFull)
<1>1. GateInv => GateTypeOK /\ OneAtATime /\ FullTakesFull
  BY DEF GateInv
<1> QED BY <1>1, GateInitInv, GateNextInv, PTL DEF GateSpec

(***************************************************************************)
(* The session keeps to the gate.                                          *)
(***************************************************************************)
\* What a step of a caller or of the run does at the gate.
LEMMA RefreshAsks ==
    ASSUME NEW c \in Callers, NEW k \in Kinds, RefreshCloudSession(c, k)
    PROVE  [GateNext]_gateVars
<1>1. CASE Superseded(c, k)
  BY <1>1 DEF RefreshCloudSession
<1>2. CASE ~Superseded(c, k)
  <2>1. Ask(c, k)
    BY <1>2 DEF RefreshCloudSession, ThroughGate
  <2> QED BY <2>1 DEF GateNext
<1> QED BY <1>1, <1>2

LEMMA ClientGates ==
    ASSUME NEW c \in Callers, Begins(c) \/ ShardRefuses(c) \/ ServeRequest(c) \/ Client(c)
    PROVE  [GateNext]_gateVars
<1>0. "full" \in Kinds /\ "token" \in Kinds
  BY DEF Kinds
<1>1. CASE Begins(c) \/ ServeRequest(c) \/ MembershipsEstablished(c) \/ Refreshed(c)
  BY <1>1 DEF Begins, ServeRequest, MembershipsEstablished, Refreshed
<1>2. CASE ShardRefuses(c)
  <2>1. Ask(c, "full")
    BY <1>2 DEF ShardRefuses, ThroughGate
  <2> QED BY <1>0, <2>1 DEF GateNext
<1>3. CASE GoesRound(c)
  BY <1>3 DEF GoesRound, GateNext
<1>4. CASE LoaderAnswered(c)
  <2>1. RefreshCloudSession(c, "full") \/ UNCHANGED gateVars
    BY <1>4 DEF LoaderAnswered
  <2> QED BY <1>0, <2>1, RefreshAsks
<1>5. CASE ReleaseAnswered(c)
  <2>1. RefreshCloudSession(c, "token") \/ UNCHANGED gateVars
    BY <1>5 DEF ReleaseAnswered
  <2> QED BY <1>0, <2>1, RefreshAsks
<1>6. CASE MeAnswered(c)
  <2>0. reply[c] \in {"alive", "refused", "unreachable"}
    BY <1>6 DEF MeAnswered, Served
  <2>1. RefreshCloudSession(c, "full") \/ UNCHANGED gateVars
    BY <1>6, <2>0 DEF MeAnswered
  <2> QED BY <1>0, <2>1, RefreshAsks
<1>7. CASE ProbeAnswered(c)
  <2>0. reply[c] \in {"alive", "refused", "unreachable"}
    BY <1>7 DEF ProbeAnswered, Served
  <2>1. Ask(c, "full") \/ UNCHANGED gateVars
    BY <1>7, <2>0 DEF ProbeAnswered, ThroughGate
  <2> QED BY <1>0, <2>1 DEF GateNext
<1> QED BY <1>1, <1>2, <1>3, <1>4, <1>5, <1>6, <1>7 DEF Client

LEMMA NextGates == [Next]_sessionVars => [GateNext]_gateVars
<1> SUFFICES ASSUME [Next]_sessionVars PROVE [GateNext]_gateVars
  OBVIOUS
<1>1. CASE UNCHANGED sessionVars
  BY <1>1 DEF sessionVars
<1>2. CASE Run
  <2>1. CASE RefreshApplies
    BY <2>1 DEF RefreshApplies
  <2>2. CASE ~RefreshApplies
    <3>1. Settle
      BY <1>2, <2>2 DEF Run, TokensRotated, RefreshApplied, RefreshRefused, RefreshFailed, SettleRun
    <3> QED BY <3>1 DEF GateNext
  <2> QED BY <2>1, <2>2
<1>3. CASE ServeRefresh \/ ServeLogout \/ EndedElsewhere \/ Person
  BY <1>3 DEF ServeRefresh, ServeLogout, EndedElsewhere, Person, Granted, SignInApplies,
     SignInApplied, SignOutStarts, SignOutEnds
<1>4. CASE \E c \in Callers : Begins(c) \/ ShardRefuses(c) \/ ServeRequest(c) \/ Client(c)
  BY <1>4, ClientGates
<1> QED BY <1>1, <1>2, <1>3, <1>4 DEF Next

\* The session of a vault implements the gate: whatever the callers, the person
\* and the service do, each step is one of the gate's or leaves it alone
\* (refreshCloudSession, recoverSignedOutConnection and handleSessionExpired go
\* through RefreshGate.run and nothing else touches it).
THEOREM SessionGated == Spec => GateSpec
<1>1. Init => GateInit
  BY DEF Init
<1> QED BY <1>1, NextGates, PTL DEF Spec, GateSpec

\* A caller of the session that needs a full refresh is never answered by one
\* that only rotated the tokens, and there is one refresh at a time.
THEOREM FullIsFull == Spec => [](GateTypeOK /\ OneAtATime /\ FullTakesFull)
BY SessionGated, GateCorrect, PTL

(***************************************************************************)
(* Types.                                                                  *)
(***************************************************************************)
SettingsOf(T) == [identity : BOOLEAN, access : T, refresh : T, members : BOOLEAN]
Settings == SettingsOf(Token \cup {None})
Runs == [phase : {"none", "tokenless", "sent", "accepted", "refused", "failed", "applying"},
         token : Token \cup {None}, gen : Nat]
Persons == [phase : {"none", "granted", "applying", "logout", "loggedOut"}, sid : Sids \cup {None}]

ServiceType == live \subseteq Sids /\ latest \in [Sids -> Nat \cup {None}]
ClientType ==
    /\ settings \in Settings /\ sessionGeneration \in Nat
    /\ signingIn \in BOOLEAN /\ tokenOnlySinceFull \in BOOLEAN
CallerType ==
    /\ pc \in [Callers -> Steps] /\ tok \in [Callers -> Token \cup {None}]
    /\ gen \in [Callers -> Nat] /\ reply \in [Callers -> Replies]
BoundsType == asks \in 0..MaxAsks /\ lost \in 0..MaxLost

SessionType ==
    /\ ServiceType /\ ClientType /\ CallerType /\ BoundsType
    /\ run \in Runs /\ acting \in BOOLEAN /\ person \in Persons
    /\ person.phase = "granted" => person.sid \in Sids

LEMMA TypeParts == GateTypeOK /\ SessionType => SessionTypeOK
  BY DEF SessionTypeOK, SessionType, ServiceType, ClientType, CallerType, BoundsType,
     Settings, SettingsOf, Runs, Persons

LEMMA InitTypes == Init => SessionType
<1> SUFFICES ASSUME Init PROVE SessionType
  OBVIOUS
<1>1. <<First, 0>> \in Token /\ First \in Sids
  BY SessionAssumption DEF Token
<1>2. settings \in Settings
  BY <1>1 DEF Init, Settings, SettingsOf, SignedIn
<1>3. ServiceType
  BY <1>1 DEF Init, ServiceType
<1>4. CallerType /\ BoundsType
  BY SessionAssumption DEF Init, CallerType, BoundsType, Steps, Replies
<1>5. run \in Runs /\ person \in Persons
  BY DEF Init, NoRun, NoOne, Runs, Persons
<1>6. acting \in BOOLEAN /\ person.phase # "granted"
  BY DEF Init, NoOne
<1> QED BY <1>2, <1>3, <1>4, <1>5, <1>6 DEF Init, SessionType, ClientType

LEMMA LoseType == ASSUME BoundsType, Lose PROVE lost' \in 0..MaxLost
  BY SessionAssumption DEF BoundsType, Lose

LEMMA StartType == ASSUME SessionType, StartRun PROVE run' \in Runs
  BY DEF SessionType, ClientType, StartRun, Settings, SettingsOf, Runs

LEMMA SettingsSet ==
    ASSUME NEW T, NEW r \in SettingsOf(T), NEW t \in T
    PROVE  [r EXCEPT !.identity = TRUE, !.access = t, !.refresh = t] \in SettingsOf(T)
  BY ZenonT(60) DEF SettingsOf

LEMMA ApplyType ==
    ASSUME SessionType, NEW t \in Token \cup {None}, Apply(t) PROVE ClientType'
<1>1. settings \in SettingsOf(Token \cup {None}) /\ sessionGeneration \in Nat
  BY DEF SessionType, ClientType, Settings
<1>2. [settings EXCEPT !.identity = TRUE, !.access = t, !.refresh = t] \in Settings
  BY <1>1, SettingsSet DEF Settings
<1>3. settings' = [settings EXCEPT !.identity = TRUE, !.access = t, !.refresh = t]
  BY Zenon DEF Apply
<1>4. settings' \in Settings
  BY <1>2, <1>3, Zenon
<1>5. /\ sessionGeneration' = sessionGeneration + 1
      /\ signingIn' = TRUE /\ tokenOnlySinceFull' = FALSE
  BY Zenon DEF Apply
<1>6. sessionGeneration' \in Nat
  BY <1>1, <1>5
<1> QED BY <1>4, <1>5, <1>6, Zenon DEF ClientType

LEMMA EstablishedType == ASSUME SessionType, Established PROVE ClientType'
  BY DEF SessionType, ClientType, Established, Settings, SettingsOf

LEMMA ForceType == ASSUME SessionType, ForceSignOut PROVE ClientType'
  BY DEF SessionType, ClientType, ForceSignOut, SignedOut, Settings, SettingsOf

LEMMA ReturnType == ASSUME SessionType, NEW c \in Callers, Returns(c) PROVE CallerType'
  BY DEF SessionType, CallerType, Returns, Steps, Replies

LEMMA SendType ==
    ASSUME SessionType, NEW c \in Callers, NEW request \in Steps, Sends(c, request),
           gen' \in [Callers -> Nat]
    PROVE  CallerType'
  BY DEF SessionType, ClientType, Settings, SettingsOf, CallerType, Sends, Replies

LEMMA GateType ==
    ASSUME SessionType, NEW c \in Callers, NEW k \in Kinds, ThroughGate(c, k)
    PROVE  run' \in Runs /\ reply' \in [Callers -> Replies]
<1>1. run' \in Runs
  BY StartType DEF ThroughGate, SessionType
<1>2. reply' \in [Callers -> Replies]
  BY DEF ThroughGate, SessionType, CallerType, Replies
<1> QED BY <1>1, <1>2

LEMMA RefreshType ==
    ASSUME SessionType, NEW c \in Callers, NEW k \in Kinds, RefreshCloudSession(c, k)
    PROVE  run' \in Runs /\ reply' \in [Callers -> Replies]
<1>1. CASE Superseded(c, k)
  BY <1>1 DEF RefreshCloudSession, SessionType, CallerType, Replies, Answers
<1>2. CASE ~Superseded(c, k)
  BY <1>2, GateType DEF RefreshCloudSession
<1> QED BY <1>1, <1>2

LEMMA SettleType ==
    ASSUME SessionType, NEW answer \in Answers, SettleRun(answer)
    PROVE  /\ run' \in Runs /\ CallerType' /\ ServiceType' /\ BoundsType'
           /\ UNCHANGED <<acting, person>>
<1>1. run' \in Runs
  BY DEF SettleRun, NoRun, Runs
<1>2. reply' \in [Callers -> Replies]
  BY DEF SettleRun, SessionType, CallerType, Replies
<1> QED BY <1>1, <1>2 DEF SettleRun, serviceVars, SessionType, CallerType, ServiceType, BoundsType

LEMMA CallerTypes ==
    ASSUME SessionType, NEW c \in Callers, Begins(c) \/ ShardRefuses(c) \/ ServeRequest(c) \/ Client(c)
    PROVE  SessionType'
<1>0. /\ "full" \in Kinds /\ "token" \in Kinds
      /\ {"loader", "me", "release", "probe", "shard", "establishing"} \subseteq Steps
      /\ gen \in [Callers -> Nat] /\ sessionGeneration \in Nat /\ pc \in [Callers -> Steps]
  BY DEF Kinds, Steps, SessionType, CallerType, ClientType
<1>1. CASE Begins(c)
  <2>1. asks' \in 0..MaxAsks
    BY <1>1, SessionAssumption DEF Begins, SessionType, BoundsType
  <2>2. CallerType'
    <3>1. gen' \in [Callers -> Nat]
      BY <1>0, <1>1 DEF Begins
    <3>2. Sends(c, "loader") \/ Sends(c, "me") \/ Sends(c, "release") \/ Sends(c, "probe")
      BY <1>1 DEF Begins
    <3> QED BY <1>0, <3>1, <3>2, SendType
  <2> QED BY <1>1, <2>1, <2>2 DEF Begins, SessionType, serviceVars, clientVars, ServiceType,
         ClientType, BoundsType
<1>2. CASE ShardRefuses(c)
  <2>1. asks' \in 0..MaxAsks
    BY <1>2, SessionAssumption DEF ShardRefuses, SessionType, BoundsType
  <2>2. run' \in Runs /\ reply' \in [Callers -> Replies]
    BY <1>0, <1>2, GateType DEF ShardRefuses
  <2>3. pc' \in [Callers -> Steps]
    BY <1>0, <1>2 DEF ShardRefuses
  <2> QED BY <1>2, <2>1, <2>2, <2>3 DEF ShardRefuses, SessionType, serviceVars, clientVars,
         ServiceType, ClientType, CallerType, BoundsType
<1>3. CASE ServeRequest(c)
  <2>1. reply' \in [Callers -> Replies] /\ lost' \in 0..MaxLost
    BY <1>3, LoseType DEF ServeRequest, SessionType, CallerType, BoundsType, Replies
  <2> QED BY <1>3, <2>1 DEF ServeRequest, SessionType, serviceVars, clientVars,
         ServiceType, ClientType, CallerType, BoundsType
<1>4. CASE GoesRound(c)
  <2>1. run' \in Runs
    BY <1>4, StartType DEF GoesRound, SessionType
  <2> QED BY <1>4, <2>1 DEF GoesRound, SessionType, serviceVars, clientVars, callerVars,
         ServiceType, ClientType, CallerType, BoundsType
<1>5. CASE LoaderAnswered(c)
  <2>1. run' \in Runs /\ CallerType'
    <3>1. CASE RefreshCloudSession(c, "full") /\ UNCHANGED <<pc, tok, gen>>
      BY <1>0, <3>1, RefreshType DEF SessionType, CallerType
    <3>2. CASE Returns(c) /\ UNCHANGED run
      BY <3>2, ReturnType DEF SessionType
    <3> QED BY <1>5, <3>1, <3>2 DEF LoaderAnswered
  <2> QED BY <1>5, <2>1 DEF LoaderAnswered, SessionType, serviceVars, clientVars,
         ServiceType, ClientType, BoundsType
<1>6. CASE ReleaseAnswered(c)
  <2>1. run' \in Runs /\ CallerType'
    <3>1. CASE RefreshCloudSession(c, "token") /\ UNCHANGED <<pc, tok, gen>>
      BY <1>0, <3>1, RefreshType DEF SessionType, CallerType
    <3>2. CASE Returns(c) /\ UNCHANGED run
      BY <3>2, ReturnType DEF SessionType
    <3> QED BY <1>6, <3>1, <3>2 DEF ReleaseAnswered
  <2> QED BY <1>6, <2>1 DEF ReleaseAnswered, SessionType, serviceVars, clientVars,
         ServiceType, ClientType, BoundsType
<1>7. CASE MeAnswered(c)
  <2>0. /\ reply[c] \in {"alive", "refused", "unreachable"}
        /\ UNCHANGED <<serviceVars, sessionGeneration, signingIn, tokenOnlySinceFull,
                       acting, person, asks, lost>>
    BY <1>7 DEF MeAnswered, Served
  <2>1. CASE reply[c] = "alive"
    <3>1. /\ settings' = [settings EXCEPT !.identity = TRUE] /\ pc' = [pc EXCEPT ![c] = "establishing"]
          /\ reply' = [reply EXCEPT ![c] = "none"] /\ UNCHANGED <<run, tok, gen>>
      BY <1>7, <2>1 DEF MeAnswered
    <3>2. settings' \in Settings
      BY <3>1 DEF SessionType, ClientType, Settings, SettingsOf
    <3>3. CallerType'
      BY <1>0, <3>1 DEF SessionType, CallerType, Replies
    <3> QED BY <2>0, <3>1, <3>2, <3>3 DEF SessionType, serviceVars, ServiceType, ClientType, BoundsType
  <2>2. CASE reply[c] = "refused"
    <3>1. RefreshCloudSession(c, "full") /\ UNCHANGED <<settings, pc, tok, gen>>
      BY <1>7, <2>2 DEF MeAnswered
    <3>2. run' \in Runs /\ reply' \in [Callers -> Replies]
      BY <1>0, <3>1, RefreshType
    <3> QED BY <2>0, <3>1, <3>2 DEF SessionType, serviceVars, ServiceType, ClientType, CallerType,
           BoundsType
  <2>3. CASE reply[c] = "unreachable"
    <3>1. Returns(c) /\ UNCHANGED <<run, settings>>
      BY <1>7, <2>3 DEF MeAnswered
    <3>2. CallerType'
      BY <3>1, ReturnType
    <3> QED BY <2>0, <3>1, <3>2 DEF SessionType, serviceVars, ServiceType, ClientType, BoundsType
  <2> QED BY <2>0, <2>1, <2>2, <2>3
<1>8. CASE MembershipsEstablished(c)
  <2>1. CallerType' /\ settings' \in Settings
    BY <1>8, ReturnType DEF MembershipsEstablished, SessionType, ClientType, Settings, SettingsOf
  <2> QED BY <1>8, <2>1 DEF MembershipsEstablished, SessionType, serviceVars, ServiceType,
         ClientType, BoundsType
<1>9. CASE ProbeAnswered(c)
  <2>0. /\ reply[c] \in {"alive", "refused", "unreachable"}
        /\ UNCHANGED <<serviceVars, clientVars, acting, person, asks, lost>>
    BY <1>9 DEF ProbeAnswered, Served
  <2>1. \/ Returns(c) /\ UNCHANGED run
        \/ Sends(c, "me") /\ UNCHANGED <<run, gen>>
        \/ ThroughGate(c, "full") /\ UNCHANGED <<pc, tok, gen>>
    BY <1>9, <2>0 DEF ProbeAnswered
  <2>2. run' \in Runs /\ CallerType'
    <3>1. CASE Returns(c) /\ UNCHANGED run
      BY <3>1, ReturnType DEF SessionType
    <3>2. CASE Sends(c, "me") /\ UNCHANGED <<run, gen>>
      BY <1>0, <3>2, SendType DEF SessionType
    <3>3. CASE ThroughGate(c, "full") /\ UNCHANGED <<pc, tok, gen>>
      BY <1>0, <3>3, GateType DEF SessionType, CallerType
    <3> QED BY <2>1, <3>1, <3>2, <3>3
  <2> QED BY <2>0, <2>2 DEF SessionType, serviceVars, clientVars, ServiceType, ClientType, BoundsType
<1>10. CASE Refreshed(c)
  <2>1. CallerType' /\ ClientType'
    BY <1>10, ReturnType, ForceType DEF Refreshed, SessionType, ClientType, clientVars
  <2> QED BY <1>10, <2>1 DEF Refreshed, SessionType, serviceVars, ServiceType, BoundsType
<1> QED BY <1>1, <1>2, <1>3, <1>4, <1>5, <1>6, <1>7, <1>8, <1>9, <1>10 DEF Client

LEMMA OtherTypes ==
    ASSUME SessionType, ServeRefresh \/ ServeLogout \/ EndedElsewhere \/ Run \/ Person
    PROVE  SessionType'
<1>0. /\ settings \in Settings /\ run \in Runs /\ person \in Persons /\ sessionGeneration \in Nat
      /\ ServiceType /\ BoundsType
  BY DEF SessionType, ClientType
<1>1. CASE ServeRefresh
  <2>1. /\ ServiceType' /\ run' \in Runs /\ lost' \in 0..MaxLost
    <3>1. CASE Lose /\ run' = [run EXCEPT !.phase = "failed"] /\ UNCHANGED serviceVars
      BY <1>0, <3>1, LoseType DEF serviceVars, ServiceType, Runs
    <3>2. CASE /\ live' = live \ {run.token[1]} /\ run' = [run EXCEPT !.phase = "refused"]
               /\ UNCHANGED <<latest, lost>>
      BY <1>0, <3>2 DEF ServiceType, Runs, BoundsType
    <3>3. CASE /\ Good(run.token) /\ latest' = [latest EXCEPT ![run.token[1]] = @ + 1]
               /\ run' = [run EXCEPT !.phase = "accepted", !.token = <<run.token[1], @[2] + 1>>]
               /\ UNCHANGED <<live, lost>>
      <4>1. /\ run.token \in Token /\ run.token[1] \in Sids /\ run.token[2] \in Nat
            /\ latest[run.token[1]] = run.token[2]
        BY <1>0, <3>3 DEF Good, Runs, Token
      <4>2. <<run.token[1], run.token[2] + 1>> \in Token
        BY <4>1 DEF Token
      <4>3. latest' \in [Sids -> Nat \cup {None}]
        BY <1>0, <3>3, <4>1 DEF ServiceType
      <4> QED BY <1>0, <3>3, <4>2, <4>3 DEF ServiceType, Runs, BoundsType
    <3> QED BY <1>1, <3>1, <3>2, <3>3 DEF ServeRefresh
  <2> QED BY <1>0, <1>1, <2>1 DEF ServeRefresh, SessionType, clientVars, callerVars, ClientType,
         CallerType, BoundsType
<1>2. CASE ServeLogout
  <2>1. person' \in Persons /\ live' \subseteq Sids /\ lost' \in 0..MaxLost
    BY <1>0, <1>2, LoseType DEF ServeLogout, Persons, ServiceType, BoundsType
  <2> QED BY <1>0, <1>2, <2>1 DEF ServeLogout, SessionType, clientVars, callerVars, ClientType,
         CallerType, ServiceType, BoundsType
<1>3. CASE EndedElsewhere
  BY <1>0, <1>3 DEF EndedElsewhere, SessionType, clientVars, callerVars, ClientType,
         CallerType, ServiceType, BoundsType
<1>4. CASE Run
  <2>0. {"true", "false", "throw"} \subseteq Answers
    BY DEF Answers
  <2>1. CASE TokensRotated
    <3>1. SettleRun("true") \/ SettleRun("false")
      BY <2>1 DEF TokensRotated
    <3>2. ClientType'
      BY <1>0, <2>1 DEF TokensRotated, Rotated, SessionType, ClientType, clientVars, Settings, SettingsOf, Runs
    <3> QED BY <2>0, <3>1, <3>2, SettleType DEF SessionType
  <2>2. CASE RefreshApplies
    <3>1. ClientType'
      BY <1>0, <2>2, ApplyType DEF RefreshApplies, Runs
    <3>2. run' \in Runs
      BY <1>0, <2>2 DEF RefreshApplies, Runs
    <3> QED BY <1>0, <2>2, <3>1, <3>2 DEF RefreshApplies, SessionType, serviceVars, callerVars,
           CallerType, ServiceType, BoundsType
  <2>3. CASE RefreshApplied
    <3>1. SettleRun("true") /\ Established
      BY <2>3 DEF RefreshApplied
    <3> QED BY <2>0, <3>1, SettleType, EstablishedType DEF SessionType
  <2>4. CASE RefreshRefused \/ RefreshFailed
    <3>1. (SettleRun("false") \/ SettleRun("throw")) /\ UNCHANGED clientVars
      BY <2>4 DEF RefreshRefused, RefreshFailed
    <3> QED BY <2>0, <3>1, SettleType DEF SessionType, clientVars, ClientType
  <2> QED BY <1>4, <2>1, <2>2, <2>3, <2>4 DEF Run
<1>5. CASE Granted
  <2>1. ServiceType' /\ person' \in Persons
    BY <1>0, <1>5 DEF Granted, ServiceType, Persons
  <2> QED BY <1>0, <1>5, <2>1 DEF Granted, SessionType, clientVars, callerVars, ClientType,
         CallerType, BoundsType
<1>6. CASE SignInApplies
  <2>1. person' \in Persons
    BY <1>0, <1>6 DEF SignInApplies, Persons
  <2>2. ClientType'
    <3>1. <<person.sid, 0>> \in Token
      BY <1>6 DEF SignInApplies, SessionType, Token
    <3> QED BY <1>6, <3>1, ApplyType DEF SignInApplies
  <2> QED BY <1>0, <1>6, <2>1, <2>2 DEF SignInApplies, SessionType, serviceVars, callerVars,
         CallerType, ServiceType, BoundsType
<1>7. CASE SignInApplied
  <2>1. ClientType' /\ person' \in Persons
    BY <1>7, EstablishedType DEF SignInApplied, NoOne, Persons
  <2> QED BY <1>0, <1>7, <2>1 DEF SignInApplied, NoOne, SessionType, serviceVars, callerVars,
         CallerType, ServiceType, BoundsType
<1>8. CASE SignOutStarts
  <2>1. person' \in Persons
    BY <1>0, <1>8 DEF SignOutStarts, Persons, Settings, SettingsOf, Token
  <2> QED BY <1>0, <1>8, <2>1 DEF SignOutStarts, SessionType, serviceVars, callerVars, ClientType,
         CallerType, ServiceType, BoundsType
<1>9. CASE SignOutEnds
  <2>1. settings' \in Settings /\ person' \in Persons
    BY <1>9 DEF SignOutEnds, SignedOut, Settings, SettingsOf, NoOne, Persons
  <2> QED BY <1>0, <1>9, <2>1 DEF SignOutEnds, NoOne, SessionType, serviceVars, callerVars, ClientType,
         CallerType, ServiceType, BoundsType
<1> QED BY <1>1, <1>2, <1>3, <1>4, <1>5, <1>6, <1>7, <1>8, <1>9 DEF Person

LEMMA NextTypes == SessionType /\ [Next]_sessionVars => SessionType'
<1> SUFFICES ASSUME SessionType, [Next]_sessionVars PROVE SessionType'
  OBVIOUS
<1>1. CASE UNCHANGED sessionVars
  BY <1>1 DEF sessionVars, SessionType, serviceVars, clientVars, callerVars, ServiceType,
     ClientType, CallerType, BoundsType
<1>2. CASE Next
  BY <1>2, CallerTypes, OtherTypes DEF Next
<1> QED BY <1>1, <1>2

(***************************************************************************)
(* The tokens.                                                             *)
(***************************************************************************)
\* A token that ends no session when it is presented.
Honoured(t) == Unusable(t) \/ Good(t)

LoggingOut == person.phase \in {"logout", "loggedOut"}

\* A token of a session the service has created.
Known(t) == t # None => t \in Token /\ latest[t[1]] \in Nat
TokensKnown == Known(settings.refresh) /\ Known(run.token)

RunGated ==
    /\ inflight = None => run = NoRun
    /\ run.phase = "applying" => inflight = "full"

HeldSignedIn == settings.refresh # None => settings.identity

\* A session granted and not yet stored is the only one alive, and nothing of
\* the vault's belongs to it.
GrantApart ==
    person.phase = "granted" =>
        /\ person.sid \in Sids /\ latest[person.sid] = 0 /\ live \subseteq {person.sid}
        /\ settings.refresh = None \/ settings.refresh[1] # person.sid
        /\ run.token = None \/ run.token[1] # person.sid

RunFits ==
    /\ run.phase = "tokenless" => settings.refresh = None
    /\ run.phase \in {"sent", "refused"} => run.token # None
    /\ run.phase \in {"accepted", "applying"} => Honoured(run.token)
    /\ run.phase = "refused" => Unusable(run.token)

\* What the vault will store when the run is answered.
WillStore == inflight = "full" \/ run.gen = sessionGeneration

\* A run that will rotate the token the vault holds will also replace it.
Owed ==
    (/\ run.phase = "sent" /\ ~LoggingOut
     /\ settings.refresh # None /\ settings.refresh[1] = run.token[1])
        => WillStore

\* The token held is one to present, or its successor is about to be stored.
HeldCurrent ==
    \/ LoggingOut
    \/ Honoured(settings.refresh)
    \/ run.phase = "accepted" /\ WillStore

\* While a run is out and nothing moved the session on, the token held is of
\* the session the run refreshes.
SameSession ==
    run.phase \in {"sent", "accepted"} =>
        /\ run.gen <= sessionGeneration
        /\ run.gen = sessionGeneration =>
              settings.refresh = None \/ settings.refresh[1] = run.token[1]

TokensInv ==
    /\ TokensKnown /\ RunGated /\ HeldSignedIn /\ GrantApart
    /\ RunFits /\ Owed /\ HeldCurrent /\ SameSession

(***************************************************************************)
(* The kinds of steps.                                                     *)
(***************************************************************************)
\* Nothing moves that the tokens depend on.
Stays ==
    /\ UNCHANGED <<live, latest, sessionGeneration, run, inflight>>
    /\ settings'.refresh = settings.refresh /\ (settings.identity => settings'.identity)

\* The gate opens a run with the token held.
Starts ==
    /\ UNCHANGED <<live, latest, settings, sessionGeneration>>
    /\ inflight = None /\ inflight' \in Kinds /\ StartRun

\* The vault is signed out.
Drops ==
    /\ UNCHANGED <<live, latest, run, inflight>> /\ ForceSignOut

LEMMA GateKinds ==
    ASSUME GateInv, NEW c \in Callers, NEW k \in Kinds, Enter(c, k),
           IF at'[c] = "running" THEN StartRun ELSE UNCHANGED run
    PROVE  \/ inflight' = inflight /\ run' = run
           \/ inflight = None /\ inflight' \in Kinds /\ StartRun
<1>1. /\ at' = [at EXCEPT ![c] = Turn(c, k)] /\ c \in DOMAIN at
      /\ inflight' = IF Turn(c, k) = "running" THEN k ELSE inflight
  BY DEF Enter, GateInv, GateTypeOK
<1>2. at'[c] = Turn(c, k)
  BY <1>1
<1>3. \/ Turn(c, k) \in {"joined", "waiting"}
      \/ Turn(c, k) = "running" /\ inflight = None
  BY TurnCases DEF GateInv, GateTypeOK
<1> QED BY <1>1, <1>2, <1>3

LEMMA AskKinds ==
    ASSUME GateInv, NEW c \in Callers, NEW k \in Kinds, UNCHANGED <<serviceVars, clientVars>>,
           ThroughGate(c, k) \/ RefreshCloudSession(c, k)
    PROVE  Stays \/ Starts
<1>1. CASE ThroughGate(c, k)
  <2>1. Enter(c, k) /\ IF at'[c] = "running" THEN StartRun ELSE UNCHANGED run
    BY <1>1 DEF ThroughGate, Ask
  <2> QED BY <2>1, GateKinds DEF Stays, Starts, serviceVars, clientVars
<1>2. CASE ~ThroughGate(c, k)
  BY <1>2 DEF RefreshCloudSession, Stays, serviceVars, clientVars, gateVars
<1> QED BY <1>1, <1>2

LEMMA CallerKinds ==
    ASSUME GateInv, SessionType, NEW c \in Callers,
           Begins(c) \/ ShardRefuses(c) \/ ServeRequest(c) \/ Client(c)
    PROVE  UNCHANGED <<person, acting>> /\ (Stays \/ Starts \/ Drops)
<1>0. "full" \in Kinds /\ "token" \in Kinds
  BY DEF Kinds
<1>1. CASE Begins(c) \/ ServeRequest(c)
  BY <1>1 DEF Begins, ServeRequest, Stays, serviceVars, clientVars, gateVars
<1>2. CASE ShardRefuses(c)
  BY <1>0, <1>2, AskKinds DEF ShardRefuses
<1>3. CASE GoesRound(c)
  <2>1. Enter(c, kind[c]) /\ IF at'[c] = "running" THEN StartRun ELSE UNCHANGED run
    BY <1>3 DEF GoesRound, Resume
  <2>2. kind[c] \in Kinds
    BY <1>3 DEF GoesRound, Resume, GateInv, Engaged
  <2>3. UNCHANGED <<serviceVars, clientVars, person, acting>>
    BY <1>3 DEF GoesRound
  <2> QED BY <2>1, <2>2, <2>3, GateKinds DEF Stays, Starts, serviceVars, clientVars
<1>4. CASE LoaderAnswered(c)
  <2>1. UNCHANGED <<serviceVars, clientVars, person, acting>>
    BY <1>4 DEF LoaderAnswered
  <2>2. RefreshCloudSession(c, "full") \/ UNCHANGED <<gateVars, run>>
    BY <1>4 DEF LoaderAnswered
  <2> QED BY <1>0, <2>1, <2>2, AskKinds DEF Stays, serviceVars, clientVars, gateVars
<1>5. CASE ReleaseAnswered(c)
  <2>1. UNCHANGED <<serviceVars, clientVars, person, acting>>
    BY <1>5 DEF ReleaseAnswered
  <2>2. RefreshCloudSession(c, "token") \/ UNCHANGED <<gateVars, run>>
    BY <1>5 DEF ReleaseAnswered
  <2> QED BY <1>0, <2>1, <2>2, AskKinds DEF Stays, serviceVars, clientVars, gateVars
<1>6. CASE MeAnswered(c)
  <2>0. /\ reply[c] \in {"alive", "refused", "unreachable"}
        /\ UNCHANGED <<serviceVars, sessionGeneration, signingIn, tokenOnlySinceFull, person, acting>>
    BY <1>6 DEF MeAnswered, Served
  <2>1. CASE reply[c] = "alive"
    <3>1. settings' = [settings EXCEPT !.identity = TRUE] /\ UNCHANGED <<gateVars, run>>
      BY <1>6, <2>1 DEF MeAnswered
    <3>2. settings'.refresh = settings.refresh /\ settings'.identity
      BY <3>1 DEF SessionType, ClientType, Settings, SettingsOf
    <3> QED BY <2>0, <3>1, <3>2 DEF Stays, serviceVars, gateVars
  <2>2. CASE reply[c] = "refused"
    <3>1. RefreshCloudSession(c, "full") /\ UNCHANGED settings
      BY <1>6, <2>2 DEF MeAnswered
    <3>2. UNCHANGED clientVars
      BY <2>0, <3>1 DEF clientVars
    <3> QED BY <1>0, <2>0, <3>1, <3>2, AskKinds
  <2>3. CASE reply[c] = "unreachable"
    BY <1>6, <2>0, <2>3 DEF MeAnswered, Stays, serviceVars, gateVars
  <2> QED BY <2>0, <2>1, <2>2, <2>3
<1>7. CASE MembershipsEstablished(c)
  <2>1. settings' = [settings EXCEPT !.members = TRUE]
    BY <1>7 DEF MembershipsEstablished
  <2>2. settings'.refresh = settings.refresh /\ settings'.identity = settings.identity
    BY <2>1 DEF SessionType, ClientType, Settings, SettingsOf
  <2> QED BY <1>7, <2>2 DEF MembershipsEstablished, Stays, serviceVars, gateVars
<1>8. CASE ProbeAnswered(c)
  <2>0. /\ reply[c] \in {"alive", "refused", "unreachable"}
        /\ UNCHANGED <<serviceVars, clientVars, person, acting>>
    BY <1>8 DEF ProbeAnswered, Served
  <2>1. ThroughGate(c, "full") \/ UNCHANGED <<gateVars, run>>
    BY <1>8, <2>0 DEF ProbeAnswered
  <2> QED BY <1>0, <2>0, <2>1, AskKinds DEF Stays, serviceVars, clientVars, gateVars
<1>9. CASE Refreshed(c)
  <2>1. UNCHANGED <<gateVars, serviceVars, run, person, acting>>
    BY <1>9 DEF Refreshed
  <2>2. ForceSignOut \/ UNCHANGED clientVars
    BY <1>9 DEF Refreshed
  <2> QED BY <2>1, <2>2 DEF Stays, Drops, serviceVars, clientVars, gateVars
<1> QED BY <1>1, <1>2, <1>3, <1>4, <1>5, <1>6, <1>7, <1>8, <1>9 DEF Client

\* What SettleRun leaves.
LEMMA RunSettles ==
    ASSUME NEW answer, SettleRun(answer)
    PROVE  inflight' = None /\ run' = NoRun /\ UNCHANGED <<live, latest, person, acting>>
  BY DEF SettleRun, Settle, serviceVars

(***************************************************************************)
(* The tokens through every kind of step.                                  *)
(***************************************************************************)
LEMMA InitTokens == Init => TokensInv
<1> SUFFICES ASSUME Init PROVE TokensInv
  OBVIOUS
<1>1. /\ First \in Sids /\ latest[First] = 0 /\ live = {First} /\ latest \in [Sids -> Nat \cup {None}]
      /\ settings.refresh = <<First, 0>> /\ settings.identity /\ <<First, 0>> \in Token
  BY SessionAssumption DEF Init, SignedIn, Token
<1>2. /\ run.phase = "none" /\ run.token = None /\ run = NoRun
      /\ person.phase = "none"
  BY DEF Init, NoRun, NoOne
<1>3. TokensKnown
  BY <1>1, <1>2 DEF TokensKnown, Known
<1>4. Honoured(settings.refresh)
  BY <1>1 DEF Honoured, Unusable, Good
<1> QED BY <1>1, <1>2, <1>3, <1>4 DEF TokensInv, RunGated, HeldSignedIn, GrantApart, RunFits,
       Owed, HeldCurrent, SameSession

LEMMA StaysTokens ==
    ASSUME SessionType, TokensInv, Stays,
           \/ person' = person
           \/ person.phase = "applying" /\ person' = NoOne
    PROVE  TokensInv'
  BY DEF TokensInv, Stays, TokensKnown, Known, RunGated, HeldSignedIn, GrantApart, RunFits,
     Owed, HeldCurrent, SameSession, Honoured, Unusable, Good, LoggingOut, WillStore, NoOne

LEMMA StartsTokens ==
    ASSUME SessionType, TokensInv, Starts, UNCHANGED person PROVE TokensInv'
<1>1. /\ run.phase = "none" /\ run.token = None
      /\ run'.token = settings.refresh /\ run'.gen = sessionGeneration
      /\ run'.phase = IF settings.refresh = None THEN "tokenless" ELSE "sent"
      /\ inflight' \in Kinds /\ None \notin Kinds
      /\ UNCHANGED <<live, latest, settings, sessionGeneration, person>>
  BY NoneAssumption DEF TokensInv, RunGated, Starts, StartRun, NoRun, Kinds
<1>2. TokensKnown' /\ RunGated' /\ HeldSignedIn' /\ GrantApart'
  BY <1>1 DEF TokensInv, TokensKnown, Known, RunGated, HeldSignedIn, GrantApart
<1>3. RunFits' /\ Owed'
  BY <1>1 DEF RunFits, Owed, WillStore
<1>4. HeldCurrent'
  BY <1>1 DEF TokensInv, HeldCurrent, Honoured, Unusable, Good, LoggingOut
<1>5. SameSession'
  BY <1>1 DEF SessionType, ClientType, SameSession
<1> QED BY <1>2, <1>3, <1>4, <1>5 DEF TokensInv

LEMMA DropsTokens ==
    ASSUME SessionType, TokensInv, Drops, UNCHANGED person PROVE TokensInv'
<1>1. /\ UNCHANGED <<live, latest, run, inflight, person>>
      /\ settings'.refresh = None /\ sessionGeneration' = sessionGeneration + 1
      /\ sessionGeneration \in Nat /\ run.gen \in Nat
  BY DEF Drops, ForceSignOut, SignedOut, SessionType, ClientType, Runs
<1> QED BY <1>1 DEF TokensInv, TokensKnown, Known, RunGated, HeldSignedIn, GrantApart, RunFits,
       Owed, HeldCurrent, SameSession, Honoured, Unusable, Good, LoggingOut

\* A run settles: either what the vault holds stands, or it stores what the run
\* brought.
LEMMA SettlesTokens ==
    ASSUME SessionType, TokensInv, NEW answer, SettleRun(answer), UNCHANGED sessionGeneration,
           \/ /\ settings'.refresh = settings.refresh /\ (settings.identity => settings'.identity)
              /\ LoggingOut \/ Honoured(settings.refresh)
           \/ /\ settings'.refresh = run.token /\ settings'.identity /\ Honoured(run.token)
    PROVE  TokensInv'
<1>1. /\ inflight' = None /\ run'.phase = "none" /\ run'.token = None /\ run' = NoRun
      /\ UNCHANGED <<live, latest, person>>
  BY RunSettles DEF NoRun
<1>2. TokensKnown' /\ RunGated' /\ HeldSignedIn' /\ GrantApart'
  BY <1>1 DEF TokensInv, TokensKnown, Known, RunGated, HeldSignedIn, GrantApart
<1>3. RunFits' /\ Owed' /\ SameSession'
  BY <1>1 DEF RunFits, Owed, SameSession
<1>4. HeldCurrent'
  BY <1>1 DEF HeldCurrent, LoggingOut, Honoured, Unusable, Good
<1> QED BY <1>2, <1>3, <1>4 DEF TokensInv

LEMMA RunTokens == ASSUME SessionType, TokensInv, Run PROVE TokensInv'
<1>0. /\ settings \in Settings /\ run \in Runs /\ sessionGeneration \in Nat
  BY DEF SessionType, ClientType
<1>1. CASE TokensRotated
  <2>1. CASE StillOurs
    <3>1. settings' = Rotated(run.token) /\ UNCHANGED sessionGeneration /\ SettleRun("true")
      BY <1>1, <2>1 DEF TokensRotated
    <3>2. settings'.refresh = run.token /\ settings'.identity
      BY <1>0, <2>1, <3>1 DEF Rotated, StillOurs, Settings, SettingsOf
    <3>3. Honoured(run.token)
      BY <1>1 DEF TokensRotated, TokensInv, RunFits
    <3> QED BY <3>1, <3>2, <3>3, SettlesTokens
  <2>2. CASE ~StillOurs
    <3>1. UNCHANGED clientVars /\ SettleRun("false")
      BY <1>1, <2>2 DEF TokensRotated
    <3>2. LoggingOut \/ Honoured(settings.refresh)
      <4>1. settings.refresh = None => Honoured(settings.refresh)
        BY DEF Honoured, Unusable
      <4>2. inflight # "full"
        BY <1>1 DEF TokensRotated
      <4> QED BY <2>2, <4>1, <4>2 DEF StillOurs, TokensInv, HeldCurrent, HeldSignedIn, WillStore
    <3> QED BY <3>1, <3>2, SettlesTokens DEF clientVars
  <2> QED BY <2>1, <2>2
<1>2. CASE RefreshApplies
  <2>1. /\ settings' = [settings EXCEPT !.identity = TRUE, !.access = run.token, !.refresh = run.token]
        /\ sessionGeneration' = sessionGeneration + 1
        /\ run' = [run EXCEPT !.phase = "applying"] /\ inflight = "full"
        /\ run.phase = "accepted" /\ UNCHANGED <<live, latest, person, inflight>>
    BY <1>2 DEF RefreshApplies, Apply, gateVars, serviceVars
  <2>2. settings'.refresh = run.token /\ settings'.identity
    BY <1>0, <2>1 DEF Settings, SettingsOf
  <2>3. run'.phase = "applying" /\ run'.token = run.token
    BY <1>0, <2>1 DEF Runs
  <2>4. Honoured(run.token)
    BY <2>1 DEF TokensInv, RunFits
  <2>5. TokensKnown' /\ HeldSignedIn' /\ GrantApart'
    BY <2>1, <2>2, <2>3 DEF TokensInv, TokensKnown, Known, HeldSignedIn, GrantApart
  <2>6. RunGated' /\ Owed' /\ SameSession'
    BY <2>1, <2>3, NoneAssumption DEF RunGated, Owed, SameSession
  <2>7. RunFits' /\ HeldCurrent'
    BY <2>1, <2>2, <2>3, <2>4 DEF RunFits, HeldCurrent, Honoured, Unusable, Good
  <2> QED BY <2>5, <2>6, <2>7 DEF TokensInv
<1>3. ASSUME run.phase # "accepted" PROVE LoggingOut \/ Honoured(settings.refresh)
  BY <1>3 DEF TokensInv, HeldCurrent
<1>4. CASE RefreshApplied
  <2>1. /\ SettleRun("true") /\ UNCHANGED sessionGeneration /\ run.phase = "applying"
        /\ settings' = [settings EXCEPT !.members = TRUE]
    BY <1>4 DEF RefreshApplied, Established
  <2>2. settings'.refresh = settings.refresh /\ settings'.identity = settings.identity
    BY <1>0, <2>1 DEF Settings, SettingsOf
  <2> QED BY <1>3, <2>1, <2>2, SettlesTokens
<1>5. CASE RefreshRefused
  BY <1>3, <1>5, SettlesTokens DEF RefreshRefused, clientVars
<1>6. CASE RefreshFailed
  BY <1>3, <1>6, SettlesTokens DEF RefreshFailed, clientVars
<1> QED BY <1>1, <1>2, <1>4, <1>5, <1>6 DEF Run

\* A session that ends takes nothing from the tokens of the others.
LEMMA EndsTokens ==
    ASSUME SessionType, TokensInv, live' \subseteq live,
           UNCHANGED <<latest, settings, sessionGeneration, run, inflight>>,
           person' = person \/ (LoggingOut /\ LoggingOut')
    PROVE  TokensInv'
<1>1. TokensKnown' /\ RunGated' /\ HeldSignedIn' /\ SameSession'
  BY DEF TokensInv, TokensKnown, Known, RunGated, HeldSignedIn, SameSession
<1>2. GrantApart'
  BY DEF TokensInv, GrantApart, LoggingOut
<1>3. RunFits' /\ Owed'
  BY DEF TokensInv, RunFits, Owed, WillStore, LoggingOut, Honoured, Unusable, Good
<1>4. HeldCurrent'
  BY DEF TokensInv, HeldCurrent, WillStore, LoggingOut, Honoured, Unusable, Good
<1> QED BY <1>1, <1>2, <1>3, <1>4 DEF TokensInv

LEMMA ServedTokens == ASSUME SessionType, TokensInv, ServeRefresh PROVE TokensInv'
<1>0. /\ run \in Runs /\ latest \in [Sids -> Nat \cup {None}] /\ run.phase = "sent"
      /\ run.token \in Token /\ run.token[1] \in Sids
      /\ run.token[2] \in Nat /\ run.token # None /\ inflight # None
      /\ UNCHANGED <<settings, sessionGeneration, inflight, person>>
  BY DEF SessionType, ServiceType, ServeRefresh, TokensInv, RunFits, RunGated, NoRun, Runs, Token,
     gateVars, clientVars
<1>1. ASSUME Good(run.token), UNCHANGED live,
             latest' = [latest EXCEPT ![run.token[1]] = @ + 1],
             run' = [run EXCEPT !.phase = "accepted", !.token = <<run.token[1], @[2] + 1>>]
      PROVE  TokensInv'
  <2> DEFINE sid == run.token[1]
             n == run.token[2]
  <2>1. sid \in Sids /\ n \in Nat /\ sid \in live /\ latest[sid] = n /\ run.token = <<sid, n>>
    BY <1>0, <1>1 DEF Good, Token
  <2>2. /\ run'.phase = "accepted" /\ run'.token = <<sid, n + 1>> /\ run'.gen = run.gen
        /\ run' # NoRun
    BY <1>0, <1>1 DEF Runs, NoRun
  <2>3. latest' = [latest EXCEPT ![sid] = n + 1]
    BY <1>1, <2>1
  <2>4. person.phase # "granted"
    BY <1>0, <2>1 DEF TokensInv, GrantApart
  <2>5. <<sid, n + 1>> \in Token
    BY <2>1 DEF Token
  <2> HIDE DEF sid, n
  <2>6. TokensKnown'
    <3>1. Known(settings.refresh)'
      BY <1>0, <2>1, <2>3 DEF TokensInv, TokensKnown, Known, Token
    <3>2. Known(run.token)'
      BY <1>0, <2>1, <2>2, <2>3, <2>5 DEF Known
    <3> QED BY <3>1, <3>2 DEF TokensKnown
  <2>7. Honoured(run.token)'
    BY <1>0, <1>1, <2>1, <2>2, <2>3 DEF Honoured, Unusable, Good
  <2>8. HeldCurrent'
    <3>1. CASE LoggingOut
      BY <1>0, <3>1 DEF HeldCurrent, LoggingOut
    <3>2. CASE settings.refresh = None
      BY <1>0, <3>2 DEF HeldCurrent, Honoured, Unusable
    <3>3. CASE ~LoggingOut /\ settings.refresh # None /\ settings.refresh[1] = sid
      <4>1. WillStore
        BY <1>0, <2>1, <3>3 DEF TokensInv, Owed
      <4> QED BY <1>0, <2>2, <4>1 DEF HeldCurrent, WillStore
    <3>4. CASE ~LoggingOut /\ settings.refresh # None /\ settings.refresh[1] # sid
      <4>1. Honoured(settings.refresh) /\ settings.refresh \in Token
        BY <1>0, <3>4 DEF TokensInv, HeldCurrent, TokensKnown, Known
      <4>2. latest'[settings.refresh[1]] = latest[settings.refresh[1]]
        BY <1>0, <2>3, <3>4, <4>1 DEF Token
      <4> QED BY <1>0, <1>1, <4>1, <4>2 DEF HeldCurrent, Honoured, Unusable, Good
    <3> QED BY <3>1, <3>2, <3>3, <3>4
  <2>9. RunGated' /\ HeldSignedIn' /\ GrantApart'
    BY <1>0, <2>2, <2>4 DEF TokensInv, RunGated, HeldSignedIn, GrantApart
  <2>10. RunFits' /\ Owed'
    BY <2>2, <2>7 DEF RunFits, Owed
  <2>11. SameSession'
    BY <1>0, <2>1, <2>2 DEF TokensInv, SameSession
  <2> QED BY <2>6, <2>8, <2>9, <2>10, <2>11 DEF TokensInv
<1>2. ASSUME NEW ph \in {"refused", "failed"}, run' = [run EXCEPT !.phase = ph], UNCHANGED latest,
             live' \subseteq live, ph = "refused" => run.token[1] \notin live'
      PROVE  TokensInv'
  <2>1. run'.phase = ph /\ run'.token = run.token /\ run' # NoRun
    BY <1>0, <1>2 DEF Runs, NoRun
  <2>2. TokensKnown' /\ RunGated' /\ HeldSignedIn' /\ GrantApart'
    BY <1>0, <1>2, <2>1 DEF TokensInv, TokensKnown, Known, RunGated, HeldSignedIn, GrantApart
  <2>3. RunFits' /\ Owed' /\ SameSession'
    BY <1>0, <1>2, <2>1 DEF RunFits, Owed, SameSession, Unusable
  <2>4. HeldCurrent'
    BY <1>0, <1>2 DEF TokensInv, HeldCurrent, LoggingOut, Honoured, Unusable, Good
  <2> QED BY <2>2, <2>3, <2>4 DEF TokensInv
<1>3. \/ /\ Good(run.token) /\ UNCHANGED live
         /\ latest' = [latest EXCEPT ![run.token[1]] = @ + 1]
         /\ run' = [run EXCEPT !.phase = "accepted", !.token = <<run.token[1], @[2] + 1>>]
      \/ /\ live' = live \ {run.token[1]} /\ UNCHANGED latest
         /\ run' = [run EXCEPT !.phase = "refused"]
      \/ run' = [run EXCEPT !.phase = "failed"] /\ UNCHANGED <<live, latest>>
  BY DEF ServeRefresh, serviceVars
<1> QED BY <1>1, <1>2, <1>3

LEMMA GrantedTokens == ASSUME SessionType, TokensInv, Granted PROVE TokensInv'
<1>1. PICK sid \in Sids :
          /\ latest[sid] = None /\ latest' = [latest EXCEPT ![sid] = 0]
          /\ live' = {sid} /\ person' = [phase |-> "granted", sid |-> sid]
  BY DEF Granted
<1>2. /\ UNCHANGED <<settings, sessionGeneration, run, inflight>> /\ ~LoggingOut /\ ~LoggingOut'
      /\ latest \in [Sids -> Nat \cup {None}]
  BY <1>1 DEF Granted, gateVars, clientVars, LoggingOut, NoOne, SessionType, ServiceType
<1>3. \A t : Known(t) => Known(t)' /\ Unusable(t)' /\ (t # None => t[1] # sid)
  BY <1>1, <1>2, SessionAssumption DEF Known, Unusable, Token
<1>4. TokensKnown' /\ RunGated' /\ HeldSignedIn'
  BY <1>2, <1>3 DEF TokensInv, TokensKnown, RunGated, HeldSignedIn
<1>5. GrantApart'
  BY <1>1, <1>2, <1>3 DEF TokensInv, TokensKnown, GrantApart
<1>6. Unusable(settings.refresh)' /\ Unusable(run.token)'
  BY <1>2, <1>3 DEF TokensInv, TokensKnown
<1>7. RunFits' /\ HeldCurrent'
  BY <1>2, <1>6 DEF TokensInv, RunFits, HeldCurrent, Honoured
<1>8. Owed' /\ SameSession'
  BY <1>2 DEF TokensInv, Owed, SameSession, WillStore
<1> QED BY <1>4, <1>5, <1>7, <1>8 DEF TokensInv

LEMMA PersonTokens == ASSUME SessionType, TokensInv, Person, ~Granted PROVE TokensInv'
<1>0. /\ settings \in Settings /\ run.gen \in Nat /\ sessionGeneration \in Nat
  BY DEF SessionType, ClientType, Runs
<1>1. CASE SignInApplies
  <2>1. /\ settings' = [settings EXCEPT !.identity = TRUE, !.access = <<person.sid, 0>>,
                                        !.refresh = <<person.sid, 0>>]
        /\ sessionGeneration' = sessionGeneration + 1
        /\ person.phase = "granted" /\ person'.phase = "applying" /\ run.phase # "tokenless"
        /\ UNCHANGED <<live, latest, run, inflight>>
    BY <1>1 DEF SignInApplies, Apply, Busy, gateVars, serviceVars, SessionType, Persons
  <2>2. settings'.refresh = <<person.sid, 0>> /\ settings'.identity
    BY <1>0, <2>1 DEF Settings, SettingsOf
  <2>3. /\ person.sid \in Sids /\ latest[person.sid] = 0
        /\ run.token = None \/ run.token[1] # person.sid
    BY <2>1 DEF TokensInv, GrantApart
  <2>4. TokensKnown' /\ RunGated' /\ HeldSignedIn' /\ GrantApart'
    BY <2>1, <2>2, <2>3 DEF TokensInv, TokensKnown, Known, RunGated, HeldSignedIn, GrantApart, Token
  <2>5. RunFits'
    BY <2>1 DEF TokensInv, RunFits, Honoured, Unusable, Good
  <2>6. Owed'
    BY <2>1, <2>2, <2>3 DEF TokensInv, RunFits, Owed
  <2>7. HeldCurrent'
    BY <2>1, <2>2, <2>3 DEF HeldCurrent, Honoured, Unusable, Good
  <2>8. SameSession'
    BY <1>0, <2>1 DEF TokensInv, SameSession
  <2> QED BY <2>4, <2>5, <2>6, <2>7, <2>8 DEF TokensInv
<1>2. CASE SignInApplied
  <2>1. settings' = [settings EXCEPT !.members = TRUE]
    BY <1>2 DEF SignInApplied, Established
  <2>2. settings'.refresh = settings.refresh /\ settings'.identity = settings.identity
    BY <1>0, <2>1 DEF Settings, SettingsOf
  <2>3. Stays /\ person.phase = "applying" /\ person' = NoOne
    BY <1>2, <2>2 DEF SignInApplied, Established, Stays, gateVars, serviceVars
  <2> QED BY <2>3, StaysTokens
<1>3. CASE SignOutStarts
  <2>1. /\ UNCHANGED <<live, latest, settings, run, inflight>>
        /\ sessionGeneration' = sessionGeneration + 1 /\ LoggingOut'
        /\ person'.phase # "granted"
    BY <1>3 DEF SignOutStarts, LoggingOut, gateVars, serviceVars
  <2> QED BY <1>0, <2>1 DEF TokensInv, TokensKnown, Known, RunGated, HeldSignedIn, GrantApart, RunFits,
         Owed, HeldCurrent, SameSession, Honoured, Unusable, Good
<1>4. CASE SignOutEnds
  <2>1. /\ UNCHANGED <<live, latest, sessionGeneration, run, inflight>>
        /\ settings'.refresh = None /\ person'.phase = "none"
    BY <1>4 DEF SignOutEnds, SignedOut, NoOne, gateVars, serviceVars
  <2> QED BY <1>0, <2>1 DEF TokensInv, TokensKnown, Known, RunGated, HeldSignedIn, GrantApart, RunFits,
         Owed, HeldCurrent, SameSession, Honoured, Unusable, Good
<1> QED BY <1>1, <1>2, <1>3, <1>4 DEF Person

LEMMA NextTokens == GateInv /\ SessionType /\ TokensInv /\ [Next]_sessionVars => TokensInv'
<1> SUFFICES ASSUME GateInv, SessionType, TokensInv, [Next]_sessionVars PROVE TokensInv'
  OBVIOUS
<1>1. CASE UNCHANGED sessionVars
  <2>1. Stays /\ person' = person
    BY <1>1 DEF sessionVars, Stays, gateVars, serviceVars, clientVars
  <2> QED BY <2>1, StaysTokens
<1>2. ASSUME NEW c \in Callers, Begins(c) \/ ShardRefuses(c) \/ ServeRequest(c) \/ Client(c)
      PROVE  TokensInv'
  BY <1>2, CallerKinds, StaysTokens, StartsTokens, DropsTokens
<1>3. CASE ServeLogout \/ EndedElsewhere
  <2>1. /\ live' \subseteq live /\ UNCHANGED <<latest, settings, sessionGeneration, run, inflight>>
        /\ person' = person \/ (LoggingOut /\ LoggingOut')
    BY <1>3 DEF ServeLogout, EndedElsewhere, LoggingOut, gateVars, clientVars, SessionType, Persons
  <2> QED BY <2>1, EndsTokens
<1> QED BY <1>1, <1>2, <1>3, ServedTokens, RunTokens, GrantedTokens, PersonTokens DEF Next, Person

\* The whole of it, for the theorems.
SessionInv == GateInv /\ SessionType /\ TokensInv

LEMMA InitSession == Init => SessionInv
<1>1. Init => GateInit
  BY DEF Init
<1> QED BY <1>1, GateInitInv, InitTypes, InitTokens DEF SessionInv

LEMMA NextSession == SessionInv /\ [Next]_sessionVars => SessionInv'
  BY NextGates, GateNextInv, NextTypes, NextTokens DEF SessionInv

\* The session's state is of its types: tokens belong to sessions the service
\* may create, and the counters stay within their bounds.
THEOREM SessionTypeCorrect == Spec => []SessionTypeOK
<1>1. SessionInv => SessionTypeOK
  BY TypeParts DEF SessionInv, GateInv
<1> QED BY <1>1, InitSession, NextSession, PTL DEF Spec

\* Whenever a refresh is yet to reach the service, or none is under way, the
\* refresh token in the vault is the last one issued or its session is dead:
\* no interleaving of callers, rotations, full refreshes, sign-ins and sign-outs
\* leaves one that was rotated out, which would end the session when it is
\* presented (single-flight.ts; main.ts, doRotateCloudTokens, applySignIn,
\* signOutCloud).
THEOREM TokensStayCurrent == Spec => []TokensCurrent
<1>1. SessionInv => TokensCurrent
  BY DEF SessionInv, TokensInv, HeldCurrent, TokensCurrent, LoggingOut, Honoured
<1> QED BY <1>1, InitSession, NextSession, PTL DEF Spec

\* What a token-only rotation stores.
LEMMA RotationStores ==
    ASSUME SessionInv, [Next]_sessionVars,
           inflight = "token", inflight' = None, settings' # settings
    PROVE  /\ settings.identity
           /\ settings.refresh = None \/ settings'.refresh[1] = settings.refresh[1]
<1>0. "token" # None
  BY NoneAssumption
<1>1. Run
  <2>1. ~UNCHANGED inflight
    BY <1>0
  <2>2. ASSUME NEW c \in Callers,
               Begins(c) \/ ShardRefuses(c) \/ ServeRequest(c) \/ Client(c)
        PROVE  FALSE
    BY <1>0, <2>2, CallerKinds DEF SessionInv, Stays, Starts, Drops
  <2>3. ~ServeRefresh /\ ~ServeLogout /\ ~EndedElsewhere /\ ~Person /\ ~UNCHANGED sessionVars
    BY <2>1 DEF ServeRefresh, ServeLogout, EndedElsewhere, Person, Granted, SignInApplies,
       SignInApplied, SignOutStarts, SignOutEnds, sessionVars, gateVars
  <2> QED BY <2>2, <2>3 DEF Next
<1>2. TokensRotated /\ StillOurs
  <2>1. ~RefreshApplies /\ ~RefreshApplied
    BY NoneAssumption DEF RefreshApplies, RefreshApplied, SessionInv, TokensInv, RunGated
  <2>2. TokensRotated
    BY <1>1, <2>1 DEF Run, RefreshRefused, RefreshFailed, clientVars
  <2> QED BY <2>2 DEF TokensRotated, clientVars
<1>3. settings' = Rotated(run.token) /\ run.phase = "accepted" /\ run.gen = sessionGeneration
      /\ settings.identity
  BY <1>2 DEF TokensRotated, StillOurs
<1>4. settings'.refresh = run.token
  BY <1>3 DEF Rotated, SessionInv, SessionType, ClientType, Settings, SettingsOf
<1> QED BY <1>3, <1>4 DEF SessionInv, TokensInv, SameSession

\* A token-only rotation that is answered after the person signed out, or out
\* and in again, stores nothing in a signed-out vault and nothing over another
\* session's tokens (main.ts, doRotateCloudTokens).
THEOREM RotationsKeepTheSession == Spec => RotationKeepsSession
<1>1. SessionInv /\ [Next]_sessionVars =>
        [(inflight = "token" /\ inflight' = None /\ settings' # settings)
            => /\ settings.identity
               /\ settings.refresh = None \/ settings'.refresh[1] = settings.refresh[1]]_sessionVars
  BY RotationStores
<1> QED BY <1>1, InitSession, NextSession, PTL DEF Spec, RotationKeepsSession

(***************************************************************************)
(* Who is signed out against their will.                                   *)
(***************************************************************************)
\* A vault nobody signs in or out of has tokens of one session only, and a run
\* that was overtaken was overtaken by a sign-out.
Alone ==
    ~acting =>
        /\ person = NoOne
        /\ settings.refresh = None \/ settings.refresh[1] = First
        /\ run.token = None \/ run.token[1] = First
        /\ run.phase \notin {"none", "applying"} /\ run.gen # sessionGeneration
              => settings.refresh = None

\* A refresh is refused only over a session that is dead.
RefusedIsDead ==
    ~acting /\ (\E c \in Callers : reply[c] = "false") => Unusable(settings.refresh)

DeadInv == Alone /\ RefusedIsDead

LEMMA InitDead == Init => DeadInv
<1> SUFFICES ASSUME Init PROVE DeadInv
  OBVIOUS
<1>1. settings.refresh[1] = First /\ run.token = None /\ run.phase = "none"
  BY DEF Init, SignedIn, NoRun
<1>2. \A c \in Callers : reply[c] # "false"
  BY DEF Init
<1> QED BY <1>1, <1>2 DEF Init, DeadInv, Alone, RefusedIsDead

\* No caller's step makes a refresh come back refused: that is the run's.
LEMMA CallerReplies ==
    ASSUME SessionType, NEW c \in Callers,
           Begins(c) \/ ShardRefuses(c) \/ ServeRequest(c) \/ Client(c), NEW d \in Callers,
           reply'[d] = "false"
    PROVE  reply[d] = "false"
<1>0. reply \in [Callers -> Replies]
  BY DEF SessionType, CallerType
<1>1. \/ reply' = reply
      \/ \E r \in {"none", "alive", "refused", "unreachable", "refreshing", "true"} :
             reply' = [reply EXCEPT ![c] = r]
  <2>1. CASE Begins(c)
    BY <2>1 DEF Begins, Sends
  <2>2. CASE ShardRefuses(c)
    BY <2>2 DEF ShardRefuses, ThroughGate
  <2>3. CASE ServeRequest(c)
    BY <2>3 DEF ServeRequest
  <2>4. CASE GoesRound(c)
    BY <2>4 DEF GoesRound, callerVars
  <2>5. CASE LoaderAnswered(c)
    BY <2>5 DEF LoaderAnswered, RefreshCloudSession, ThroughGate, Returns
  <2>6. CASE ReleaseAnswered(c)
    BY <2>6 DEF ReleaseAnswered, RefreshCloudSession, ThroughGate, Returns
  <2>7. CASE MeAnswered(c)
    <3>1. reply[c] \in {"alive", "refused", "unreachable"}
      BY <2>7 DEF MeAnswered, Served
    <3> QED BY <2>7, <3>1 DEF MeAnswered, RefreshCloudSession, ThroughGate, Returns
  <2>8. CASE MembershipsEstablished(c)
    BY <2>8 DEF MembershipsEstablished, Returns
  <2>9. CASE ProbeAnswered(c)
    <3>1. reply[c] \in {"alive", "refused", "unreachable"}
      BY <2>9 DEF ProbeAnswered, Served
    <3> QED BY <2>9, <3>1 DEF ProbeAnswered, ThroughGate, Returns, Sends
  <2>10. CASE Refreshed(c)
    BY <2>10 DEF Refreshed, Returns
  <2> QED BY <2>1, <2>2, <2>3, <2>4, <2>5, <2>6, <2>7, <2>8, <2>9, <2>10 DEF Client
<1> QED BY <1>0, <1>1

LEMMA CallerDead ==
    ASSUME GateInv, SessionType, TokensInv, DeadInv, ~acting, NEW c \in Callers,
           Begins(c) \/ ShardRefuses(c) \/ ServeRequest(c) \/ Client(c)
    PROVE  DeadInv'
<1>1. UNCHANGED <<person, acting>> /\ (Stays \/ Starts \/ Drops)
  BY CallerKinds
<1>2. \A d \in Callers : reply'[d] = "false" => reply[d] = "false"
  BY CallerReplies
<1>3. CASE Stays
  BY <1>1, <1>2, <1>3 DEF Stays, DeadInv, Alone, RefusedIsDead, Unusable
<1>4. CASE Starts
  <2>1. run'.token = settings.refresh /\ run'.gen = sessionGeneration
        /\ UNCHANGED <<live, settings, sessionGeneration>>
    BY <1>4 DEF Starts, StartRun
  <2> QED BY <1>1, <1>2, <2>1 DEF DeadInv, Alone, RefusedIsDead, Unusable
<1>5. CASE Drops
  <2>1. settings'.refresh = None /\ UNCHANGED run
    BY <1>5 DEF Drops, ForceSignOut, SignedOut
  <2> QED BY <1>1, <2>1 DEF DeadInv, Alone, RefusedIsDead, Unusable
<1> QED BY <1>1, <1>3, <1>4, <1>5

\* A run that settles while no continuation is due: nobody has been refused but
\* by its own answer.
LEMMA SettlesDead ==
    ASSUME SessionType, DeadInv, ~acting, NEW answer, SettleRun(answer),
           settings'.refresh = None \/ settings'.refresh[1] = First,
           \/ answer # "false" /\ ~Busy
           \/ UNCHANGED settings /\ Unusable(settings.refresh)
    PROVE  DeadInv'
<1>1. inflight' = None /\ run'.phase = "none" /\ run'.token = None
      /\ UNCHANGED <<live, latest, person, acting>>
  BY RunSettles DEF NoRun
<1>2. Alone'
  BY <1>1 DEF DeadInv, Alone
<1>3. RefusedIsDead'
  <2>1. CASE answer # "false" /\ ~Busy
    <3>1. \A c \in Callers : reply[c] # "false"
      BY <2>1 DEF Busy, Answers
    <3>2. \A c \in Callers : reply'[c] \in {answer, reply[c]}
      BY DEF SettleRun
    <3> QED BY <2>1, <3>1, <3>2 DEF RefusedIsDead
  <2>2. CASE UNCHANGED settings /\ Unusable(settings.refresh)
    BY <1>1, <2>2 DEF RefusedIsDead, Unusable
  <2> QED BY <2>1, <2>2
<1> QED BY <1>2, <1>3 DEF DeadInv

LEMMA RunDead ==
    ASSUME SessionType, TokensInv, DeadInv, ~acting, Run PROVE DeadInv'
<1>0. /\ settings \in Settings /\ run \in Runs
      /\ settings.refresh = None \/ settings.refresh[1] = First
      /\ run.token = None \/ run.token[1] = First
  BY DEF SessionType, ClientType, DeadInv, Alone
<1>1. CASE TokensRotated /\ StillOurs
  <2>1. SettleRun("true") /\ settings' = Rotated(run.token) /\ ~Busy
    BY <1>1 DEF TokensRotated
  <2>2. settings'.refresh = run.token
    BY <1>0, <2>1 DEF Rotated, Settings, SettingsOf
  <2> QED BY <1>0, <2>1, <2>2, SettlesDead
<1>2. CASE TokensRotated /\ ~StillOurs
  <2>1. SettleRun("false") /\ UNCHANGED settings /\ run.phase = "accepted"
    BY <1>2 DEF TokensRotated, clientVars
  <2>2. settings.refresh = None
    BY <1>2, <2>1 DEF StillOurs, DeadInv, Alone, TokensInv, HeldSignedIn
  <2>3. Unusable(settings.refresh)
    BY <2>2 DEF Unusable
  <2> QED BY <1>0, <2>1, <2>3, SettlesDead
<1>3. CASE RefreshApplies
  <2>1. /\ settings' = [settings EXCEPT !.identity = TRUE, !.access = run.token, !.refresh = run.token]
        /\ run' = [run EXCEPT !.phase = "applying"] /\ ~Busy
        /\ UNCHANGED <<person, acting, reply>>
    BY <1>3 DEF RefreshApplies, Apply, callerVars
  <2>2. settings'.refresh = run.token /\ run'.phase = "applying" /\ run'.token = run.token
    BY <1>0, <2>1 DEF Settings, SettingsOf, Runs
  <2>3. \A c \in Callers : reply[c] # "false"
    BY <2>1 DEF Busy, Answers
  <2> QED BY <1>0, <2>1, <2>2, <2>3 DEF DeadInv, Alone, RefusedIsDead
<1>4. CASE RefreshApplied
  <2>1. SettleRun("true") /\ settings' = [settings EXCEPT !.members = TRUE] /\ ~Busy
    BY <1>4 DEF RefreshApplied, Established
  <2>2. settings'.refresh = settings.refresh
    BY <1>0, <2>1 DEF Settings, SettingsOf
  <2> QED BY <1>0, <2>1, <2>2, SettlesDead
<1>5. CASE RefreshRefused
  <2>1. SettleRun("false") /\ UNCHANGED settings /\ run.phase \in {"tokenless", "refused"}
    BY <1>5 DEF RefreshRefused, clientVars
  <2>2. Unusable(settings.refresh)
    BY <1>0, <2>1 DEF TokensInv, RunFits, Unusable
  <2> QED BY <1>0, <2>1, <2>2, SettlesDead
<1>6. CASE RefreshFailed
  BY <1>0, <1>6, SettlesDead DEF RefreshFailed, clientVars
<1> QED BY <1>1, <1>2, <1>3, <1>4, <1>5, <1>6 DEF Run

LEMMA ServiceDead ==
    ASSUME SessionType, TokensInv, DeadInv, ~acting, ServeRefresh \/ ServeLogout \/ EndedElsewhere
    PROVE  DeadInv'
<1>1. ~ServeLogout
  BY DEF DeadInv, Alone, ServeLogout, NoOne
<1>2. /\ live' \subseteq live /\ UNCHANGED <<settings, sessionGeneration, reply, acting, person>>
  BY <1>1 DEF ServeRefresh, EndedElsewhere, serviceVars, clientVars, callerVars
<1>3. RefusedIsDead'
  BY <1>2 DEF DeadInv, RefusedIsDead, Unusable
<1>4. Alone'
  <2>1. CASE EndedElsewhere
    BY <1>2, <2>1 DEF EndedElsewhere, DeadInv, Alone
  <2>2. CASE ServeRefresh
    <3>1. /\ run \in Runs /\ run.phase = "sent" /\ run.token # None
      BY <2>2 DEF SessionType, ServeRefresh, TokensInv, RunFits
    <3>2. CASE \E ph \in {"refused", "failed"} : run' = [run EXCEPT !.phase = ph]
      <4>1. run'.gen = run.gen /\ run'.token = run.token
        BY <3>1, <3>2 DEF Runs
      <4> QED BY <1>2, <3>1, <4>1 DEF DeadInv, Alone
    <3>3. CASE \E n : run' = [run EXCEPT !.phase = "accepted", !.token = <<run.token[1], n>>]
      <4>1. run'.gen = run.gen /\ run'.token[1] = run.token[1]
        BY <3>1, <3>3 DEF Runs
      <4> QED BY <1>2, <3>1, <4>1 DEF DeadInv, Alone
    <3>4. \/ \E ph \in {"refused", "failed"} : run' = [run EXCEPT !.phase = ph]
          \/ \E n : run' = [run EXCEPT !.phase = "accepted", !.token = <<run.token[1], n>>]
      BY <2>2 DEF ServeRefresh
    <3> QED BY <3>2, <3>3, <3>4
  <2> QED BY <1>1, <2>1, <2>2
<1> QED BY <1>3, <1>4 DEF DeadInv

LEMMA NextDead == SessionInv /\ DeadInv /\ [Next]_sessionVars => DeadInv'
<1> SUFFICES ASSUME SessionInv, DeadInv, [Next]_sessionVars PROVE DeadInv'
  OBVIOUS
<1>0. GateInv /\ SessionType /\ TokensInv
  BY DEF SessionInv
<1>1. CASE acting
  <2>1. acting' = acting
    <3>1. ASSUME NEW c \in Callers, Begins(c) \/ ShardRefuses(c) \/ ServeRequest(c) \/ Client(c)
          PROVE  acting' = acting
      BY <1>0, <3>1, CallerKinds
    <3>2. CASE Run
      BY <3>2 DEF Run, TokensRotated, RefreshApplies, RefreshApplied, RefreshRefused, RefreshFailed,
         SettleRun
    <3>3. CASE ServeRefresh \/ ServeLogout \/ EndedElsewhere \/ Person \/ UNCHANGED sessionVars
      BY <3>3 DEF ServeRefresh, ServeLogout, EndedElsewhere, Person, Granted, SignInApplies,
         SignInApplied, SignOutStarts, SignOutEnds, sessionVars
    <3> QED BY <3>1, <3>2, <3>3 DEF Next
  <2> QED BY <1>1, <2>1 DEF DeadInv, Alone, RefusedIsDead
<1>2. CASE ~acting
  <2>1. ~Person
    BY <1>2 DEF Person, DeadInv, Alone, NoOne, Granted, SignInApplies, SignInApplied, SignOutStarts,
       SignOutEnds
  <2>2. CASE UNCHANGED sessionVars
    BY <2>2 DEF sessionVars, serviceVars, clientVars, callerVars, DeadInv, Alone, RefusedIsDead, Unusable
  <2> QED BY <1>0, <1>2, <2>1, <2>2, CallerDead, RunDead, ServiceDead DEF Next
<1> QED BY <1>1, <1>2

\* A step that signs the vault out, other than the person's own sign-out, is a
\* caller's whose refresh was refused.
LEMMA ForcedByRefusal ==
    ASSUME SessionInv, DeadInv, [Next]_sessionVars, Forced, ~acting
    PROVE  Unusable(settings.refresh)
<1>0. /\ settings.identity /\ ~settings'.identity /\ settings \in Settings
      /\ GateInv /\ SessionType
  BY DEF Forced, SessionInv, SessionType, ClientType
<1>1. PICK c \in Callers : Begins(c) \/ ShardRefuses(c) \/ ServeRequest(c) \/ Client(c)
  <2>1. CASE Run
    <3>1. CASE TokensRotated
      BY <1>0, <3>1 DEF TokensRotated, Rotated, clientVars, Settings, SettingsOf
    <3>2. CASE RefreshApplies
      BY <1>0, <3>2 DEF RefreshApplies, Apply, Settings, SettingsOf
    <3>3. CASE RefreshApplied
      BY <1>0, <3>3 DEF RefreshApplied, Established, Settings, SettingsOf
    <3>4. CASE RefreshRefused \/ RefreshFailed
      BY <1>0, <3>4 DEF RefreshRefused, RefreshFailed, clientVars
    <3> QED BY <2>1, <3>1, <3>2, <3>3, <3>4 DEF Run
  <2>2. CASE ServeRefresh \/ ServeLogout \/ EndedElsewhere \/ UNCHANGED sessionVars
    BY <1>0, <2>2 DEF ServeRefresh, ServeLogout, EndedElsewhere, sessionVars, clientVars
  <2>3. ~Person
    BY DEF Person, DeadInv, Alone, NoOne, Granted, SignInApplies, SignInApplied, SignOutStarts,
       SignOutEnds
  <2> QED BY <2>1, <2>2, <2>3 DEF Next
<1>2. Drops
  BY <1>0, <1>1, CallerKinds DEF Stays, Starts
<1>3. reply[c] = "false"
  <2>1. CASE Refreshed(c)
    BY <1>0, <2>1 DEF Refreshed, SignsOut, clientVars
  <2>2. CASE MeAnswered(c)
    <3>1. reply[c] \in {"alive", "refused", "unreachable"}
      BY <2>2 DEF MeAnswered, Served
    <3>2. settings' = [settings EXCEPT !.identity = TRUE] \/ UNCHANGED settings
      BY <2>2, <3>1 DEF MeAnswered
    <3> QED BY <1>0, <3>2 DEF Settings, SettingsOf
  <2>3. CASE MembershipsEstablished(c)
    BY <1>0, <2>3 DEF MembershipsEstablished, Settings, SettingsOf
  <2>4. CASE ~Refreshed(c) /\ ~MeAnswered(c) /\ ~MembershipsEstablished(c)
    BY <1>0, <1>1, <2>4 DEF Begins, ShardRefuses, ServeRequest, Client, GoesRound, LoaderAnswered,
       ReleaseAnswered, ProbeAnswered, clientVars
  <2> QED BY <2>1, <2>2, <2>3, <2>4
<1> QED BY <1>3 DEF DeadInv, RefusedIsDead

\* While nobody signs in or out, the vault is signed out over a refused request
\* only when the session it holds is dead, however many callers ask at once and
\* whichever refresh they share (main.ts, recoverIdentitySession,
\* handleSessionExpired, refreshMemberships; signed-out.ts).
THEOREM SignedOutOnlyWhenDead == Spec => ForcedOnlyWhenDead
<1>1. SessionInv /\ DeadInv /\ [Next]_sessionVars =>
        [Forced /\ ~acting => Unusable(settings.refresh)]_sessionVars
  BY ForcedByRefusal
<1> QED BY <1>1, InitSession, NextSession, InitDead, NextDead, PTL DEF Spec, ForcedOnlyWhenDead
=============================================================================
