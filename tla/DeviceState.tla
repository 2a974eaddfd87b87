----------------------------- MODULE DeviceState -----------------------------
(***************************************************************************)
(* What a device has learned about its own limits and keeps across being   *)
(* killed: packages/plugin/src/device-state.ts.                            *)
(*                                                                         *)
(* Large files are of one size, at or above the floor below which a kill   *)
(* teaches nothing: a budget either covers them or it does not.  A save    *)
(* writes a file of its own, removes the old one and renames the new one   *)
(* into place; saves queue, and a caller that awaits its save waits for    *)
(* those before it.                                                        *)
(***************************************************************************)
EXTENDS Naturals, Sequences

CONSTANTS
    Vaults,     \* the devices, one vault each
    Paths       \* the attachments of the folder

VARIABLES
    device,     \* DeviceStateStore.state
    saves,      \* DeviceStateStore.chain: what is still to be written, and the
                \* path whose download awaits it
    stateFile   \* device-state.json: one state, or none while there is no file

deviceVars == <<device, saves, stateFile>>

DeviceRecord == [attempt : SUBSET Paths, skipped : [Paths -> {"no", "declined", "crashed"}],
                 lowered : BOOLEAN]
NoPath == "no path"

emptyState == [attempt |-> {}, skipped |-> [p \in Paths |-> "no"], lowered |-> FALSE]

isSkipped(v, p) == device[v].skipped[p] # "no"

\* save: the state as it is now, for the path whose download asked.
Save(v, state, p) ==
    /\ device' = [device EXCEPT ![v] = state]
    /\ saves' = [saves EXCEPT ![v] = Append(@, [state |-> state, awaits |-> p])]
    /\ UNCHANGED stateFile

Awaited(v, p) == \E i \in DOMAIN saves[v] : saves[v][i].awaits = p

-----------------------------------------------------------------------------
(* Slips: decisions of the code as a plausible change would break them,    *)
(* for the properties to catch.                                            *)

LeavesAttempt(v, p) == UNCHANGED deviceVars

-----------------------------------------------------------------------------
beginAttempt(v, p) == Save(v, [device[v] EXCEPT !.attempt = {p}], p)

\* Whichever attempt is on record, this one or that of another download.
endAttempt(v, p) ==
    IF device[v].attempt = {} THEN UNCHANGED deviceVars
    ELSE Save(v, [device[v] EXCEPT !.attempt = {}], p)

recordSuccess(v, p) == Save(v, [device[v] EXCEPT !.lowered = FALSE], p)

decline(v, p) == Save(v, [device[v] EXCEPT !.skipped[p] = "declined"], p)

retry(v, p) ==
    Save(v, [device[v] EXCEPT !.skipped[p] = "no", !.lowered = FALSE], p)

\* An attempt that outlived the app: the file is skipped, the budget lowered.
learnFromCrash(v, state) ==
    IF state.attempt = {} THEN state
    ELSE [attempt |-> {}, lowered |-> TRUE,
          skipped |-> [p \in Paths |-> IF p \in state.attempt THEN "crashed"
                                       ELSE state.skipped[p]]]

\* At the start of the app.
openDeviceState(v) ==
    LET found == IF stateFile[v] = << >> THEN emptyState ELSE stateFile[v][1]
        learned == learnFromCrash(v, found)
    IN  IF learned = found
        THEN /\ device' = [device EXCEPT ![v] = found]
             /\ saves' = [saves EXCEPT ![v] = << >>]
             /\ UNCHANGED stateFile
        ELSE /\ device' = [device EXCEPT ![v] = learned]
             /\ saves' = [saves EXCEPT ![v] = <<[state |-> learned, awaits |-> NoPath]>>]
             /\ UNCHANGED stateFile

\* The queue of saves, one at a time.
WriteNext(v) ==
    /\ saves[v] # << >>
    /\ stateFile' = [stateFile EXCEPT ![v] = <<Head(saves[v]).state>>]
    /\ saves' = [saves EXCEPT ![v] = Tail(@)]
    /\ UNCHANGED device

\* The app is killed: what is in memory goes, and the file with it where the
\* old one was removed and the new one not renamed yet.
Killed(v) ==
    /\ device' = [device EXCEPT ![v] = emptyState]
    /\ saves' = [saves EXCEPT ![v] = << >>]
    /\ \/ UNCHANGED stateFile
       \/ saves[v] # << >> /\ stateFile' = [stateFile EXCEPT ![v] = << >>]

\* It is closed: onunload ends the attempt, and the queue is written out.
Closed(v) ==
    /\ device' = [device EXCEPT ![v] = emptyState]
    /\ saves' = [saves EXCEPT ![v] = << >>]
    /\ stateFile' = [stateFile EXCEPT ![v] =
           IF saves[v] = << >> /\ device[v].attempt = {} THEN @
           ELSE <<[device[v] EXCEPT !.attempt = {}]>>]

DeviceTypeOK ==
    /\ device \in [Vaults -> DeviceRecord]
    /\ \A v \in Vaults :
         /\ Len(stateFile[v]) \in {0, 1}
         /\ \A i \in DOMAIN stateFile[v] : stateFile[v][i] \in DeviceRecord
         /\ \A i \in DOMAIN saves[v] : saves[v][i].state \in DeviceRecord

DeviceInit ==
    /\ device = [v \in Vaults |-> emptyState]
    /\ saves = [v \in Vaults |-> << >>]
    /\ stateFile = [v \in Vaults |-> << >>]
=============================================================================
