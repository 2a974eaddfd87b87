----------------------------- MODULE RefreshGate -----------------------------
(***************************************************************************)
(* RefreshGate of packages/plugin/src/single-flight.ts: one run of the     *)
(* session refresh at a time, and callers that join it or wait behind it.  *)
(*                                                                         *)
(* A run presents the device's refresh token.  Tokens rotate, and          *)
(* presenting one that was rotated out ends the session, so two runs must  *)
(* never be under way together.  A "token" run only rotates the tokens; a  *)
(* caller that asked for a "full" one must not be answered by it.          *)
(***************************************************************************)
EXTENDS Naturals

CONSTANTS Callers,      \* the places that ask for a refresh
          None          \* no run, no kind

ASSUME NoneAssumption == None \notin {"full", "token"}

VARIABLES inflight,     \* the kind of the run under way, or None
          kind,         \* what each caller last asked for
          at,           \* where each caller is in run()
          took          \* the kind of run that last answered it

gateVars == <<inflight, kind, at, took>>

Kinds == {"full", "token"}

GateTypeOK ==
    /\ inflight \in Kinds \cup {None}
    /\ kind \in [Callers -> Kinds \cup {None}]
    /\ at \in [Callers -> {"idle", "joined", "waiting", "woken", "running"}]
    /\ took \in [Callers -> Kinds \cup {None}]

GateInit ==
    /\ inflight = None
    /\ kind = [c \in Callers |-> None]
    /\ at = [c \in Callers |-> "idle"]
    /\ took = [c \in Callers |-> None]

\* Slips the properties must catch: the plain SingleFlight that anyone joins, and
\* a wait that is not a loop.
JoinsAny(k) == inflight # None
RunsOnceWoken(c, k) == IF inflight = None \/ at[c] = "woken" THEN "running"
                       ELSE IF k = "token" THEN "joined" ELSE "waiting"

\* Whether a caller of kind k takes the run under way for its own.
Joins(k) == inflight # None /\ (k = "token" \/ inflight = "full")

\* One turn of run()'s loop for caller c: join, wait, or start a run.
Turn(c, k) == CASE Joins(k) -> "joined"
                [] ~Joins(k) /\ inflight # None -> "waiting"
                [] inflight = None -> "running"

Enter(c, k) ==
    /\ at' = [at EXCEPT ![c] = Turn(c, k)]
    /\ inflight' = IF Turn(c, k) = "running" THEN k ELSE inflight

\* A caller calls run(). Those a settled run woke go first: they resume before
\* anything else is started.
Ask(c, k) ==
    /\ at[c] = "idle"
    /\ \A d \in Callers : at[d] # "woken"
    /\ kind' = [kind EXCEPT ![c] = k]
    /\ took' = [took EXCEPT ![c] = None]
    /\ Enter(c, k)

\* A caller that waited goes round the loop again.
Resume(c) ==
    /\ at[c] = "woken"
    /\ Enter(c, kind[c])
    /\ UNCHANGED <<kind, took>>

\* The run settles, fulfilled or rejected: the gate is cleared first, then the
\* callers that shared it are answered and those behind it woken.
Settle ==
    /\ inflight # None
    /\ inflight' = None
    /\ at' = [c \in Callers |->
                CASE at[c] \in {"joined", "running"} -> "idle"
                  [] at[c] = "waiting" -> "woken"
                  [] at[c] \in {"idle", "woken"} -> at[c]]
    /\ took' = [c \in Callers |->
                  IF at[c] \in {"joined", "running"} THEN inflight ELSE took[c]]
    /\ UNCHANGED kind

GateNext == \/ \E c \in Callers, k \in Kinds : Ask(c, k)
            \/ \E c \in Callers : Resume(c)
            \/ Settle

GateSpec == GateInit /\ [][GateNext]_gateVars

\* One run at a time, and it is the one the gate holds: two would present the
\* same refresh token and end the session.
OneAtATime ==
    /\ \A c, d \in Callers : at[c] = "running" /\ at[d] = "running" => c = d
    /\ \A c \in Callers : at[c] = "running" => inflight = kind[c]

\* A caller that asked for a full refresh is never answered by a run that only
\* rotated the tokens: told it had, it would skip the work it came for.
FullTakesFull ==
    \A c \in Callers : kind[c] = "full" /\ took[c] # None => took[c] = "full"
=============================================================================
