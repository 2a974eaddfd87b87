-------------------------------- MODULE DocLog --------------------------------
(***************************************************************************)
(* What a shared document promises the person who writes in it, with       *)
(* nothing said of sockets, sequence numbers, batches or checkpoints.      *)
(* There is what this device holds, what the service keeps for everyone,   *)
(* and whether this device says that the note is synchronised.             *)
(*                                                                         *)
(* The service never loses an edit; a device takes over only what the      *)
(* service keeps, and hands over only what it holds; it may go back to     *)
(* "not synchronised" whenever it likes, and says "synchronised" only when *)
(* the service has all that was written here.                              *)
(*                                                                         *)
(* DocSync, the provider of multiplexed-provider.ts, implements it.        *)
(***************************************************************************)
CONSTANTS Mine, Theirs      \* edits made on this device, edits made elsewhere

VARIABLES
    held,       \* what this device's document holds
    served,     \* what the service keeps
    settled     \* the device says the note is synchronised

logVars == <<held, served, settled>>

LogInit ==
    /\ held = {}
    /\ served = {}
    /\ settled = FALSE

\* Saying that the note is not synchronised needs no reason.
MayDoubt == settled' \in {settled, FALSE}

\* The person writes.
Write ==
    /\ \E e \in Mine \ held : held' = held \cup {e}
    /\ settled' = FALSE
    /\ UNCHANGED served

\* The service takes over some of what this device holds.
Publish ==
    /\ \E edits \in SUBSET held : served' = served \cup edits
    /\ MayDoubt
    /\ UNCHANGED held

\* Somebody else's edit reaches the service.
OthersWrite ==
    /\ \E e \in Theirs : served' = served \cup {e}
    /\ UNCHANGED <<held, settled>>

\* This device takes over some of what the service keeps.
Fetch ==
    /\ \E edits \in SUBSET served : held' = held \cup edits
    /\ MayDoubt
    /\ UNCHANGED served

\* The promise: all that was written here is kept.
Settle ==
    /\ held \cap Mine \subseteq served
    /\ settled' = TRUE
    /\ UNCHANGED <<held, served>>

Doubt ==
    /\ settled' = FALSE
    /\ UNCHANGED <<held, served>>

\* A crash: what had reached the disk is all the device still holds.
Crash ==
    /\ \E edits \in SUBSET held : held' = edits
    /\ settled' = FALSE
    /\ UNCHANGED served

LogNext == Write \/ Publish \/ OthersWrite \/ Fetch \/ Settle \/ Doubt \/ Crash

LogSpec == LogInit /\ [][LogNext]_logVars

\* While the device says so, all that was written here is kept: a consequence
\* of LogSpec, and what the person relies on.
SettledIsKept == settled => held \cap Mine \subseteq served
===============================================================================
