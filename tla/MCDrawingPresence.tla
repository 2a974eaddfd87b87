------------------------- MODULE MCDrawingPresence --------------------------
(* For TLC, a drawing and, beside it, who is at a note, a base or a board.   *)
(* The two share no state: part says which of them a behaviour is of, so     *)
(* that neither multiplies the states of the other.                          *)
EXTENDS DrawingLive, Presence, TLC

CONSTANTS near, far

VARIABLE part

\* One person acts, and on a board only when all is said that was to say.
MCActs == [k \in Kinds |-> near :> 2 @@ far :> 0]
MCQueued == [k \in Kinds |-> IF k = "board" THEN 0 ELSE 1]

MCInit ==
    /\ part \in {"drawing", "presence"} /\ Init /\ PresenceInit
    /\ part = "drawing" => kind = "base"
MCNext ==
    \/ part = "drawing" /\ Next /\ UNCHANGED <<part, presenceVars>>
    \/ part = "presence" /\ PresenceNext /\ UNCHANGED <<part, vars>>
MCSpec == MCInit /\ [][MCNext]_<<part, vars, presenceVars>> /\ PresenceFairness
=============================================================================
