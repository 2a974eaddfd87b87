------------------------------- MODULE DocSync -------------------------------
(***************************************************************************)
(* One document of the multiplexed provider: the client's subscription, as *)
(* packages/plugin/src/multiplexed-provider.ts keeps it, the checkpoint of *)
(* seq-checkpoint.ts that a restart resumes from, and the sync server the  *)
(* client talks to (external: its behaviour is what the client's code and  *)
(* comments rely on).                                                      *)
(*                                                                         *)
(* A Yjs update is abstracted to a set of edits, a document to the set of  *)
(* edits it holds; applying an update is set union, which is what makes    *)
(* updates idempotent and commutative.  An edit is an insertion or a       *)
(* deletion: a Yjs state vector counts insertions only, and an encoded     *)
(* delta always carries the whole delete set.                              *)
(*                                                                         *)
(* The server handles a client's message in the step that sends it; a      *)
(* message lost with its socket is a push the server dropped.  What the    *)
(* server sends waits in "net" until the socket delivers it and then in    *)
(* "recv", the receive chain, until it has been decrypted.                 *)
(***************************************************************************)
EXTENDS Naturals, Sequences

CONSTANTS
    LocalIns, LocalDel,     \* edits this client may make
    PeerIns, PeerDel,       \* edits the other clients may make
    Big,                    \* insertions too large to push (MAX_PUSH_BYTES)
    Persisted,              \* the document has its IndexedDB and its SeqStore
    Compaction,             \* the log is long enough for snapshots
    Faults,                 \* the kinds of fault the environment may inject
    MaxFaults,              \* how many of them, over a behaviour
    MaxNet                  \* frames under way, above which nobody sends more

FaultKinds == {"close", "restart", "drop", "decrypt",
               "encryptFlush", "encryptDelta", "encryptSnapshot"}

\* Three things the code does against its own comments (README, section 4).
\* What they lead to is not asked of the properties; nothing reads them.
\*   skipped    a live update taken before the catch-up moves the read position
\*              over updates this socket was never sent (receive)
\*   stranded   a cold start that was cut off goes on without the reconcile its
\*              document needs (doSendSubscribe, pushLocalDelta)
\*   forgotten  a checkpoint is trusted past a snapshot made here that has an
\*              edit the document restored has not (sendSnapshot)
FlawKinds == {"skipped", "stranded", "forgotten"}

Ins == LocalIns \cup PeerIns
Del == LocalDel \cup PeerDel
Local == LocalIns \cup LocalDel
Peer == PeerIns \cup PeerDel
Edits == Ins \cup Del

ASSUME EditsAssumption == /\ Ins \cap Del = {}
                          /\ Local \cap Peer = {}
                          /\ Big \subseteq LocalIns
ASSUME BoundsAssumption == /\ Persisted \in BOOLEAN
                           /\ Compaction \in BOOLEAN
                           /\ Faults \subseteq FaultKinds
                           /\ MaxFaults \in Nat
                           /\ MaxNet \in Nat \ {0}

VARIABLES
    log,        \* every update the server ever recorded, by sequence
    snap,       \* the server's snapshot; it has deleted the log up to snap.seq
    registered, \* the server broadcasts this document to the client's socket
    open,       \* the client's socket is open
    net,        \* frames the server has sent on that socket
    sub,        \* the DocSubscription
    unacked,    \* pushes committed to and not yet acknowledged
    recv,       \* tasks on sub.recvChain
    chain,      \* tasks on sub.chain
    batch,      \* what the flush at the head of the chain is encrypting
    deltas,     \* reconnect deltas being encrypted, off the chain
    poisoned,   \* a task on sub.chain rejected: nothing behind it runs
    idb,        \* the edits y-indexeddb has persisted
    ckpt,       \* the stored checkpoint
    made,       \* the local edits made so far
    faults,     \* faults injected so far
    restored,   \* history: this device's edits that a launch took from IndexedDB
                \* and no reconcile has compared with the server's
    flaws       \* history: which of FlawKinds have happened

serverVars == <<log, snap, registered>>
wireVars   == <<open, net>>
sendVars   == <<chain, batch, deltas, poisoned>>
diskVars   == <<idb, ckpt>>
histVars   == <<restored, flaws>>
vars == <<log, snap, registered, open, net, sub, unacked, recv, chain, batch,
          deltas, poisoned, idb, ckpt, made, faults, restored, flaws>>

(***************************************************************************)
(* Types.                                                                  *)
(***************************************************************************)
Payload == SUBSET Edits

Frame == [k : {"snapshot", "catchup", "update", "ack", "compact", "status"},
          seq : Nat, payload : Payload, live : BOOLEAN]

Task == [k : {"flush", "reconcile", "retry", "snapshot"},
         seq : Nat, payload : Payload]

Delta == [payload : Payload, live : BOOLEAN, held : BOOLEAN]

DocSubscription ==
    [ydoc : Payload, synced : BOOLEAN, lastSeq : Nat, pending : Payload,
     flushing : BOOLEAN, hasUnsentWork : BOOLEAN, reconciling : BOOLEAN,
     owesReconcile : BOOLEAN, catchUp : Payload, serverSV : Payload,
     catchUpFrom : Nat, decryptGapSeq : Nat, oversizedPush : BOOLEAN,
     seqReady : BOOLEAN, seqSaveTimer : BOOLEAN, deltaRetryTimer : BOOLEAN]

TypeOK ==
    /\ log \in Seq(Payload)
    /\ snap \in [seq : Nat, content : Payload]
    /\ registered \in BOOLEAN
    /\ open \in BOOLEAN
    /\ net \in Seq(Frame)
    /\ sub \in DocSubscription
    /\ unacked \in Nat
    /\ recv \in Seq(Frame)
    /\ chain \in Seq(Task)
    /\ batch \in Payload
    /\ deltas \in Seq(Delta)
    /\ poisoned \in BOOLEAN
    /\ idb \in Payload
    /\ ckpt \in [seq : Nat, sv : SUBSET Ins]
    /\ made \in SUBSET Local
    /\ faults \in Nat
    /\ restored \in SUBSET LocalIns
    /\ flaws \in SUBSET FlawKinds

(***************************************************************************)
(* Yjs, as far as the provider uses it.                                    *)
(***************************************************************************)
\* Y.encodeStateVector: counts each client's insertions, and no deletion.
StateVector(doc) == doc \cap Ins

\* Y.encodeStateAsUpdate(ydoc, sv): the insertions sv lacks, every deletion.
StateAsUpdate(doc, sv) == ((doc \cap Ins) \ sv) \cup (doc \cap Del)

\* An encrypted push over MAX_PUSH_BYTES.
FlushTooLarge(payload) == payload \cap Big # {}

\* The same for a delta, encoded from the document: once the note has been
\* trimmed by a deletion the content is collected and the delta fits.
DeltaTooLarge(payload) == payload \cap Big # {} /\ payload \cap LocalDel = {}

Larger(m, n) == IF m >= n THEN m ELSE n

(***************************************************************************)
(* The server (external).                                                  *)
(***************************************************************************)
\* All the server still holds.
ServerDoc == snap.content \cup UNION {log[i] : i \in (snap.seq + 1)..Len(log)}

Logged == UNION {log[i] : i \in 1..Len(log)}

\* The insertions a client at this sequence should have been sent.
SentUpTo(n) == Ins \cap ((IF snap.seq <= n THEN snap.content ELSE {})
                            \cup UNION {log[i] : i \in 1..n})

MkFrame(k, n, p) == [k |-> k, seq |-> n, payload |-> p, live |-> TRUE]

\* The reply to a Subscribe: the snapshot if it is newer than what was asked
\* for, the log behind it, and the SyncStatus that ends the catch-up.
CatchUpFrames(from) ==
    LET base == Larger(from, snap.seq)
    IN  (IF from < snap.seq
         THEN <<MkFrame("snapshot", snap.seq, snap.content)>> ELSE <<>>)
        \o [i \in 1..(Len(log) - base) |-> MkFrame("catchup", base + i, log[base + i])]
        \o <<MkFrame("status", Len(log), {})>>

ServerSubscribe(from) ==
    /\ registered' = TRUE
    /\ net' = net \o CatchUpFrames(from)
    /\ UNCHANGED <<log, snap>>

Inject(kind) == kind \in Faults /\ faults < MaxFaults /\ faults' = faults + 1

\* A Push is recorded and acknowledged, and registers the socket (NEC-87); or
\* it is dropped without a word.
ServerPush(payload) ==
    \/ /\ log' = Append(log, payload)
       /\ net' = Append(net, MkFrame("ack", Len(log) + 1, {}))
       /\ registered' = TRUE
       /\ UNCHANGED <<snap, faults>>
    \/ /\ Inject("drop")
       /\ UNCHANGED <<log, snap, registered, net>>

\* A PutSnapshot replaces an older one and deletes the log it claims to cover;
\* a stale one is refused.
ServerPutSnapshot(n, content) ==
    \/ snap' = IF n > snap.seq THEN [seq |-> n, content |-> content] ELSE snap
    \/ UNCHANGED snap

\* Another client's edit is recorded, and broadcast to a registered socket.
PeerUpdate ==
    /\ Len(net) < MaxNet
    /\ \E e \in Peer \ Logged :
          /\ log' = Append(log, {e})
          /\ net' = IF open /\ registered
                    THEN Append(net, MkFrame("update", Len(log) + 1, {e})) ELSE net
    /\ UNCHANGED <<snap, registered, open, sub, unacked, recv, chain, batch,
                   deltas, poisoned, idb, ckpt, made, faults, histVars>>

\* The server asks a subscribed client for a snapshot, one at a time (a bound).
RequestCompaction ==
    /\ Compaction /\ open /\ registered /\ Len(net) < MaxNet
    /\ snap.seq < Len(log)
    /\ \A i \in 1..Len(net) : net[i].k # "compact"
    /\ \A i \in 1..Len(recv) : recv[i].k # "compact"
    /\ \A i \in 1..Len(chain) : chain[i].k # "snapshot"
    /\ net' = Append(net, MkFrame("compact", 0, {}))
    /\ UNCHANGED <<log, snap, registered, open, sub, unacked, recv, chain,
                   batch, deltas, poisoned, idb, ckpt, made, faults, histVars>>

(***************************************************************************)
(* The decisions again, as a plausible slip would make them.  Nothing here *)
(* is part of the model: each is the mutant that shows a property to say   *)
(* something about the decision it replaces.                               *)
(***************************************************************************)
SaveDespiteDebt(s) == s.decryptGapSeq = 0 /\ s.synced
AckAdvancesAlways(s) == s.decryptGapSeq = 0
ReadWhenSent(t) == sub.lastSeq
CloseForgetsPushes(s) ==
    [s EXCEPT !.synced = FALSE, !.reconciling = FALSE, !.deltaRetryTimer = FALSE]
ClearsAnyHold(d) == TRUE
AssumeServerHasAll(s) == s.ydoc \cap Ins
RetryNever(s) == s

(***************************************************************************)
(* The subscription's decisions, each a predicate or a function of the     *)
(* subscription record.                                                    *)
(***************************************************************************)
FreshSubscription(doc) ==
    [ydoc |-> doc, synced |-> FALSE, lastSeq |-> 0, pending |-> {},
     flushing |-> FALSE, hasUnsentWork |-> FALSE, reconciling |-> FALSE,
     owesReconcile |-> FALSE, catchUp |-> {}, serverSV |-> {},
     catchUpFrom |-> 0, decryptGapSeq |-> 0, oversizedPush |-> FALSE,
     seqReady |-> FALSE, seqSaveTimer |-> FALSE, deltaRetryTimer |-> FALSE]

\* This document may hold work the server has not confirmed.
OwesServer(s) ==
    \/ ~s.synced
    \/ s.pending # {}
    \/ s.flushing
    \/ s.hasUnsentWork
    \/ s.reconciling
    \/ s.owesReconcile
    \/ unacked > 0

\* scheduleSeqSave: one timer, left alone when already armed.
ScheduleSeqSave(s) == [s EXCEPT !.seqSaveTimer = Persisted]

\* The timer's checks (SAFE-A10).
SaveAllowed(s) == s.decryptGapSeq = 0 /\ ~OwesServer(s)

\* loadSeqCheckpoint: trusted only if the document restored is the one recorded.
LoadSeqCheckpoint(doc) == IF ckpt.sv = StateVector(doc) THEN ckpt.seq ELSE 0

\* The position a Subscribe asks from.
SubscribeFrom(s) == IF s.hasUnsentWork \/ s.owesReconcile THEN 0 ELSE s.lastSeq

\* Whether a completed catch-up pushes the local delta (NEC-105).
MustReconcile(s) == s.hasUnsentWork \/ s.owesReconcile \/ s.catchUpFrom = 0

\* Whether a sequence learnt from the server may move the read position.
MayAdvance(s) == s.decryptGapSeq = 0

\* The same for an Ack: only once the catch-up has arrived (NEC-87).
AckAdvances(s) == s.synced /\ MayAdvance(s)

Advance(s, n) ==
    IF MayAdvance(s)
    THEN ScheduleSeqSave([s EXCEPT !.lastSeq = Larger(s.lastSeq, n)]) ELSE s

\* settleAck: what is left of the count, and what it does to the subscription.
SettledCount == IF unacked > 0 THEN unacked - 1 ELSE 0
SettleAck(s) == IF unacked <= 1 /\ s.synced THEN ScheduleSeqSave(s) ELSE s

\* Whether an Ack or a delta counted on an earlier socket pays off a push.
Settles(live) == live

\* A task queued behind a rejected one never runs.
Enqueue(k, n, p) ==
    chain' = IF poisoned THEN chain
             ELSE Append(chain, [k |-> k, seq |-> n, payload |-> p])

\* sendSnapshot's refusals: a known hole, or no socket.
MayCompact(s) == s.synced /\ s.decryptGapSeq = 0 /\ open

\* The capture: the read position and the document, in one block.
SendSnapshot(s) == Enqueue("snapshot", s.lastSeq, s.ydoc)

\* maybeCompact: the tail threshold and the election among the peers in view
\* are abstracted to a choice, taken only while no snapshot is queued (a bound).
SnapshotQueued == \E i \in 1..Len(chain) : chain[i].k = "snapshot"
MaybeCompact(s) ==
    \/ UNCHANGED chain
    \/ Compaction /\ MayCompact(s) /\ ~SnapshotQueued /\ SendSnapshot(s)

\* holdOversized. Every delta still being encrypted predates this hold.
Held(s) == [s EXCEPT !.oversizedPush = TRUE, !.owesReconcile = TRUE]
MarkHeld(ds) == [i \in 1..Len(ds) |-> [ds[i] EXCEPT !.held = TRUE]]

\* What the close handler does to the subscription.
ClosedSubscription(s) ==
    [s EXCEPT !.synced = FALSE,
              !.owesReconcile = s.owesReconcile \/ unacked > 0,
              !.reconciling = FALSE,
              !.deltaRetryTimer = FALSE]

Stale(q) == [i \in 1..Len(q) |-> [q[i] EXCEPT !.live = FALSE]]

(***************************************************************************)
(* The subscription's life: the socket, the checkpoint, a restart.         *)
(***************************************************************************)
Init ==
    /\ log = <<>>
    /\ snap = [seq |-> 0, content |-> {}]
    /\ registered = FALSE
    /\ open = FALSE
    /\ net = <<>>
    /\ sub = FreshSubscription({})
    /\ unacked = 0
    /\ recv = <<>>
    /\ chain = <<>> /\ batch = {} /\ deltas = <<>> /\ poisoned = FALSE
    /\ idb = {}
    /\ ckpt = [seq |-> 0, sv |-> {}]
    /\ made = {}
    /\ faults = 0
    /\ restored = {} /\ flaws = {}

Mark(kind, happens) == IF happens THEN {kind} ELSE {}

\* The server has all that was taken from the disk.
RestoredIsServed == restored \subseteq ServerDoc

\* A Subscribe from above 0, whose catch-up ends without a reconcile.
Strands(s) == SubscribeFrom(s) > 0 /\ ~RestoredIsServed

\* The position a checkpoint gives is past a snapshot the document lacks.
Forgets(n) == n > 0 /\ n >= snap.seq /\ ~(snap.content \cap Ins \subseteq sub.ydoc \cup Logged)

\* Send the Subscribe of subscription s, which becomes the current one.
DoSendSubscribe(s) ==
    /\ sub' = [s EXCEPT !.catchUpFrom = SubscribeFrom(s)]
    /\ ServerSubscribe(SubscribeFrom(s))

\* onopen. The Subscribe waits for the stored checkpoint to have been read.
Opened ==
    /\ ~open
    /\ open' = TRUE
    /\ LET s == [sub EXCEPT !.synced = FALSE]
       IN  /\ IF s.seqReady THEN DoSendSubscribe(s)
              ELSE sub' = s /\ UNCHANGED <<serverVars, net>>
           /\ flaws' = flaws \cup Mark("stranded", s.seqReady /\ Strands(s))
    /\ UNCHANGED <<unacked, recv, sendVars, diskVars, made, faults, restored>>

\* seqReady resolves, and with it the Subscribe that waited for it.
SeqLoaded ==
    /\ ~sub.seqReady
    /\ LET n == LoadSeqCheckpoint(sub.ydoc)
           s == [sub EXCEPT !.seqReady = TRUE, !.lastSeq = Larger(@, n)]
       IN  /\ IF open THEN DoSendSubscribe(s)
              ELSE sub' = s /\ UNCHANGED <<serverVars, net>>
           /\ flaws' = flaws \cup Mark("forgotten", Forgets(n))
                             \cup Mark("stranded", open /\ Strands(s))
    /\ UNCHANGED <<open, unacked, recv, sendVars, diskVars, made, faults, restored>>

\* onclose: frames still on the wire are lost, tasks already queued are not.
Closed ==
    /\ open /\ Inject("close")
    /\ open' = FALSE
    /\ registered' = FALSE
    /\ net' = <<>>
    /\ sub' = ClosedSubscription(sub)
    /\ unacked' = 0
    /\ recv' = Stale(recv)
    /\ deltas' = Stale(deltas)
    /\ UNCHANGED <<log, snap, chain, batch, poisoned, diskVars, made, histVars>>

\* Obsidian quits or crashes: memory is lost, IndexedDB is not. The next launch
\* subscribes with the document IndexedDB restores.
Restart ==
    /\ Inject("restart")
    /\ open' = FALSE
    /\ registered' = FALSE
    /\ net' = <<>>
    /\ sub' = FreshSubscription(idb)
    /\ unacked' = 0
    /\ recv' = <<>>
    /\ chain' = <<>> /\ batch' = {} /\ deltas' = <<>> /\ poisoned' = FALSE
    /\ restored' = idb \cap LocalIns
    /\ UNCHANGED <<log, snap, diskVars, made, flaws>>

\* y-indexeddb persists one more update, some time after it was applied.
Persist ==
    /\ Persisted
    /\ \E e \in sub.ydoc \ idb : idb' = idb \cup {e}
    /\ UNCHANGED <<serverVars, wireVars, sub, unacked, recv, sendVars, ckpt,
                   made, faults, histVars>>

\* The save timer fires.
SeqSaveFires ==
    /\ sub.seqSaveTimer
    /\ sub' = [sub EXCEPT !.seqSaveTimer = FALSE]
    /\ ckpt' = IF SaveAllowed(sub) /\ sub.lastSeq > 0
               THEN [seq |-> sub.lastSeq, sv |-> StateVector(sub.ydoc)] ELSE ckpt
    /\ UNCHANGED <<serverVars, wireVars, unacked, recv, sendVars, idb, made, faults, histVars>>

(***************************************************************************)
(* Sending: the update handler, the flush, the delta, the snapshot.        *)
(***************************************************************************)
\* The Yjs update handler. An edit over the limit held back earlier may fit
\* now, so the edit also arms the delta's timer (SAFE-A11).
LocalEdit ==
    \E e \in Local \ made :
        LET s == [sub EXCEPT !.ydoc = @ \cup {e}, !.pending = @ \cup {e},
                             !.hasUnsentWork = TRUE]
        IN  /\ made' = made \cup {e}
            /\ IF ~open
               THEN sub' = s /\ UNCHANGED chain
               ELSE /\ sub' = [s EXCEPT !.flushing = TRUE,
                                        !.deltaRetryTimer = @ \/ s.oversizedPush]
                    /\ IF s.flushing THEN UNCHANGED chain
                       ELSE Enqueue("flush", 0, {})
            /\ UNCHANGED <<serverVars, wireVars, unacked, recv, batch, deltas,
                           poisoned, diskVars, faults, histVars>>

Running(k) == ~poisoned /\ chain # <<>> /\ Head(chain).k = k

\* The flush's loop, from subscription s: take what is pending, or end.
NextBatch(s) ==
    CASE s.pending = {} ->
           /\ sub' = [s EXCEPT !.hasUnsentWork = FALSE, !.flushing = FALSE]
           /\ batch' = {} /\ chain' = Tail(chain)
      [] s.pending # {} /\ open ->
           /\ sub' = [s EXCEPT !.pending = {}]
           /\ batch' = s.pending /\ UNCHANGED chain
      [] s.pending # {} /\ ~open ->
           /\ sub' = [s EXCEPT !.flushing = FALSE]
           /\ batch' = {} /\ chain' = Tail(chain)

FlushStarts ==
    /\ Running("flush") /\ batch = {}
    /\ NextBatch(sub)
    /\ UNCHANGED <<serverVars, wireVars, unacked, recv, deltas, poisoned,
                   diskVars, made, faults, histVars>>

\* A flush that ends early puts its batch back in the queue; one whose encrypt
\* threw says so as well.
PutBack(s) == [s EXCEPT !.pending = @ \cup batch, !.flushing = FALSE]
FailedFlush(s) == [PutBack(s) EXCEPT !.hasUnsentWork = TRUE]

\* The batch is encrypted: put back if the socket went meanwhile, held back if
\* too large, sent otherwise; then the loop goes on.
FlushEncrypted ==
    /\ Running("flush") /\ batch # {}
    /\ CASE ~open ->
              /\ sub' = PutBack(sub)
              /\ batch' = {} /\ chain' = Tail(chain)
              /\ UNCHANGED <<serverVars, net, unacked, deltas, faults>>
         [] open /\ FlushTooLarge(batch) ->
              /\ NextBatch(Held(sub))
              /\ deltas' = MarkHeld(deltas)
              /\ UNCHANGED <<serverVars, net, unacked, faults>>
         [] open /\ ~FlushTooLarge(batch) ->
              /\ ServerPush(batch)
              /\ unacked' = unacked + 1
              /\ NextBatch(sub)
              /\ UNCHANGED deltas
    /\ UNCHANGED <<open, recv, poisoned, diskVars, made, histVars>>

FlushFails ==
    /\ Running("flush") /\ batch # {}
    /\ Inject("encryptFlush")
    /\ sub' = FailedFlush(sub)
    /\ batch' = {} /\ chain' = Tail(chain)
    /\ UNCHANGED <<serverVars, wireVars, unacked, recv, deltas, poisoned,
                   diskVars, made, histVars>>

\* sendDelta against sv, from subscription s.
SendDelta(s, sv) ==
    LET sent  == [s EXCEPT !.pending = {}, !.hasUnsentWork = FALSE,
                           !.owesReconcile = FALSE]
        delta == StateAsUpdate(s.ydoc, sv)
    IN  CASE ~open -> sub' = s /\ UNCHANGED <<unacked, deltas>>
          [] open /\ delta = {} ->
               /\ sub' = LET clear == [sent EXCEPT !.oversizedPush = FALSE]
                         IN  IF s.synced THEN ScheduleSeqSave(clear) ELSE clear
               /\ UNCHANGED <<unacked, deltas>>
          [] open /\ delta # {} ->
               /\ sub' = sent
               /\ unacked' = unacked + 1
               /\ deltas' = Append(deltas, [payload |-> delta, live |-> TRUE,
                                            held |-> FALSE])

\* What the last catch-up proves the server to hold.
ServerStateVector(s) == StateVector(s.catchUp)

\* pushLocalDelta, the task a completed catch-up queues.
Reconcile ==
    /\ Running("reconcile")
    /\ LET s == [sub EXCEPT !.reconciling = FALSE]
       IN  IF open
           THEN SendDelta([s EXCEPT !.catchUp = {}, !.serverSV = ServerStateVector(s)],
                          ServerStateVector(s))
           ELSE sub' = s /\ UNCHANGED <<unacked, deltas>>
    /\ chain' = Tail(chain)
    /\ restored' = IF open THEN {} ELSE restored
    /\ flaws' = flaws \cup Mark("stranded", ~open /\ ~RestoredIsServed)
    /\ UNCHANGED <<serverVars, wireVars, recv, batch, poisoned, diskVars, made,
                   faults>>

\* The retry timer fires; its task runs behind whatever the chain holds.
DeltaRetryFires ==
    /\ sub.deltaRetryTimer
    /\ sub' = [sub EXCEPT !.deltaRetryTimer = FALSE]
    /\ IF sub.owesReconcile THEN Enqueue("retry", 0, sub.serverSV) ELSE UNCHANGED chain
    /\ UNCHANGED <<serverVars, wireVars, unacked, recv, batch, deltas, poisoned,
                   diskVars, made, faults, histVars>>

RetryDelta ==
    /\ Running("retry")
    /\ SendDelta(sub, Head(chain).payload)
    /\ chain' = Tail(chain)
    /\ UNCHANGED <<serverVars, wireVars, recv, batch, poisoned, diskVars, made, faults, histVars>>

Remove(q, i) == SubSeq(q, 1, i - 1) \o SubSeq(q, i + 1, Len(q))

\* takeBack: the delta never went, so its count is paid off here, on the socket
\* it was counted on, and the reconcile is owed again.
TakeBack(d, s) ==
    /\ unacked' = IF Settles(d.live) THEN SettledCount ELSE unacked
    /\ sub' = [(IF Settles(d.live) THEN SettleAck(s) ELSE s)
                 EXCEPT !.owesReconcile = TRUE]

\* Whether a sent delta ends a hold: not if one was placed after it was computed.
ClearsHold(d) == ~d.held

\* A delta has been encrypted, off the chain.
DeltaEncrypted ==
    \E i \in 1..Len(deltas) :
        LET d == deltas[i] IN
        /\ CASE ~open ->
                  /\ TakeBack(d, sub)
                  /\ deltas' = Remove(deltas, i)
                  /\ UNCHANGED <<serverVars, net, faults>>
             [] open /\ DeltaTooLarge(d.payload) ->
                  /\ TakeBack(d, Held(sub))
                  /\ deltas' = MarkHeld(Remove(deltas, i))
                  /\ UNCHANGED <<serverVars, net, faults>>
             [] open /\ ~DeltaTooLarge(d.payload) ->
                  /\ ServerPush(d.payload)
                  /\ unacked' = IF d.live THEN unacked ELSE unacked + 1
                  /\ sub' = [sub EXCEPT !.oversizedPush = @ /\ ~ClearsHold(d)]
                  /\ deltas' = Remove(deltas, i)
        /\ UNCHANGED <<open, recv, chain, batch, poisoned, diskVars, made, histVars>>

\* scheduleDeltaRetry, with no timer to restart.
ScheduleDeltaRetry(s) == [s EXCEPT !.deltaRetryTimer = TRUE]

DeltaFails ==
    \E i \in 1..Len(deltas) :
        LET d == deltas[i] IN
        /\ Inject("encryptDelta")
        /\ TakeBack(d, ScheduleDeltaRetry(sub))
        /\ deltas' = Remove(deltas, i)
        /\ UNCHANGED <<serverVars, wireVars, recv, chain, batch, poisoned,
                       diskVars, made, histVars>>

\* The sequence a snapshot claims: read in the block that captured the document.
ClaimedSeq(t) == t.seq

\* The snapshot captured when it was queued is encrypted and offered.
SnapshotEncrypted ==
    /\ Running("snapshot")
    /\ IF open THEN ServerPutSnapshot(ClaimedSeq(Head(chain)), Head(chain).payload)
       ELSE UNCHANGED snap
    /\ chain' = Tail(chain)
    /\ UNCHANGED <<log, registered, wireVars, sub, unacked, recv, batch, deltas,
                   poisoned, diskVars, made, faults, histVars>>

\* Its encrypt throws. Nothing catches it, so the chain itself is rejected.
SnapshotFails ==
    /\ Running("snapshot")
    /\ Inject("encryptSnapshot")
    /\ poisoned' = TRUE /\ chain' = <<>>
    /\ UNCHANGED <<serverVars, wireVars, sub, unacked, recv, batch, deltas,
                   diskVars, made, histVars>>

(***************************************************************************)
(* Receiving: handleMessage, and the tasks of the receive chain.           *)
(***************************************************************************)
\* The socket delivers a frame: it is queued behind the ones before it. A live
\* update may also be where this client decides to compact.
Deliver ==
    /\ open /\ net # <<>>
    /\ net' = Tail(net)
    /\ recv' = Append(recv, Head(net))
    /\ IF Head(net).k = "update" THEN MaybeCompact(sub) ELSE UNCHANGED chain
    /\ UNCHANGED <<serverVars, open, sub, unacked, batch, deltas, poisoned,
                   diskVars, made, faults, histVars>>

Receiving(kinds) == recv # <<>> /\ Head(recv).k \in kinds /\ recv' = Tail(recv)

PayloadKinds == {"snapshot", "catchup", "update"}

\* A live update moves the position before the catch-up has arrived, as an Ack
\* may not, and past what the document has.
Skips(f, doc) == /\ f.k = "update" /\ ~sub.synced /\ MayAdvance(sub)
                 /\ ~(SentUpTo(f.seq) \subseteq doc)

\* receive: a payload is decrypted and applied.
ReceivePayload ==
    /\ Receiving(PayloadKinds)
    /\ LET f == Head(recv)
           applied == [sub EXCEPT !.ydoc = @ \cup f.payload,
                                  !.catchUp = IF f.k = "snapshot" \/ ~sub.synced
                                              THEN @ \cup f.payload ELSE @]
       IN  /\ sub' = Advance(applied, f.seq)
           /\ IF f.k = "update" THEN MaybeCompact(Advance(applied, f.seq))
              ELSE UNCHANGED chain
           /\ flaws' = flaws \cup Mark("skipped", Skips(f, applied.ydoc))
    /\ UNCHANGED <<serverVars, wireVars, unacked, batch, deltas, poisoned,
                   diskVars, made, faults, restored>>

\* The first payload that does not decrypt marks the gap.
DecryptFails ==
    /\ Receiving(PayloadKinds)
    /\ Inject("decrypt")
    /\ sub' = IF sub.decryptGapSeq = 0
              THEN [sub EXCEPT !.decryptGapSeq = Head(recv).seq] ELSE sub
    /\ UNCHANGED <<serverVars, wireVars, unacked, sendVars, diskVars, made, histVars>>

ReceiveAck ==
    /\ Receiving({"ack"})
    /\ LET f == Head(recv)
           s == IF AckAdvances(sub) THEN Advance(sub, f.seq) ELSE sub
           t == IF Settles(f.live) THEN SettleAck(s) ELSE s
       IN  /\ sub' = t
           /\ unacked' = IF Settles(f.live) THEN SettledCount ELSE unacked
           /\ MaybeCompact(t)
    /\ UNCHANGED <<serverVars, wireVars, batch, deltas, poisoned, diskVars,
                   made, faults, histVars>>

\* completeSync, in its turn behind the catch-up it ends.
CompleteSync ==
    /\ Receiving({"status"})
    /\ LET s == [Advance(sub, Head(recv).seq) EXCEPT !.synced = TRUE]
       IN  IF MustReconcile(s)
           THEN /\ sub' = [s EXCEPT !.reconciling = TRUE]
                /\ Enqueue("reconcile", 0, {})
           ELSE sub' = [s EXCEPT !.catchUp = {}] /\ UNCHANGED chain
    /\ UNCHANGED <<serverVars, wireVars, unacked, batch, deltas, poisoned,
                   diskVars, made, faults, histVars>>

HandleCompactRequest ==
    /\ Receiving({"compact"})
    /\ IF MayCompact(sub) THEN SendSnapshot(sub) ELSE UNCHANGED chain
    /\ UNCHANGED <<serverVars, wireVars, sub, unacked, batch, deltas, poisoned,
                   diskVars, made, faults, histVars>>

(***************************************************************************)
(* The specification.                                                      *)
(***************************************************************************)
Server == PeerUpdate \/ RequestCompaction
Life == Opened \/ SeqLoaded \/ Persist \/ SeqSaveFires
Sending == \/ FlushStarts \/ FlushEncrypted \/ Reconcile \/ DeltaRetryFires
           \/ RetryDelta \/ DeltaEncrypted \/ SnapshotEncrypted
Receive == \/ Deliver \/ ReceivePayload \/ ReceiveAck \/ CompleteSync
           \/ HandleCompactRequest
Failure == Closed \/ Restart \/ FlushFails \/ DeltaFails \/ SnapshotFails \/ DecryptFails

Next == Server \/ Life \/ LocalEdit \/ Sending \/ Receive \/ Failure

Spec == Init /\ [][Next]_vars

\* Promises settle, timers fire, the socket delivers and reconnects.
Fairness ==
    /\ WF_vars(Opened) /\ WF_vars(SeqLoaded)
    /\ WF_vars(FlushStarts) /\ WF_vars(FlushEncrypted)
    /\ WF_vars(Reconcile) /\ WF_vars(DeltaRetryFires) /\ WF_vars(RetryDelta)
    /\ WF_vars(DeltaEncrypted) /\ WF_vars(SnapshotEncrypted)
    /\ WF_vars(Receive)

FairSpec == Spec /\ Fairness

(***************************************************************************)
(* What must hold.  Insertions only, wherever a document is compared with  *)
(* another: a state vector does not count deletions (see README).          *)
(***************************************************************************)
\* Everything the server recorded up to the client's read position is in the
\* client's document: the next Subscribe asks from there, so an update skipped
\* is never asked for again (receive, Ack and completeSync, NEC-87). Unless a
\* live update was taken before the catch-up over one never sent ("skipped").
NoHole ==
    "skipped" \notin flaws => \A i \in 1..sub.lastSeq : log[i] \cap Ins \subseteq sub.ydoc

\* The server still holds every edit it ever recorded: a snapshot, whose
\* sequence makes it delete the log, never lacks what it claims to cover
\* (sendSnapshot's capture and its refusal over a hole).
RecordedIsKept ==
    "skipped" \notin flaws => \A i \in 1..Len(log) : log[i] \cap Ins \subseteq ServerDoc

\* When the client believes it owes nothing, which is when it tells the user the
\* note is synchronised and stores the read position, the server has recorded
\* every local edit (owesServer, SAFE-E3), unless one of FlawKinds has happened.
EditsAccounted ==
    flaws = {} /\ ~OwesServer(sub) => sub.ydoc \cap LocalIns \subseteq ServerDoc

\* The same, of deletions as well as insertions.
DeletionsAccounted ==
    ~OwesServer(sub) => sub.ydoc \cap Local \subseteq ServerDoc

\* A launch whose document holds edits the server never recorded does not pass
\* for settled, once connected, before it has reconciled (catchUpFrom, NEC-105).
ColdStartReconciles ==
    (open /\ ~OwesServer(sub)) => sub.ydoc \cap LocalIns \subseteq ServerDoc

\* The provider implements what a shared document promises: insertions only are
\* mapped, the service is the snapshot and the log behind it, and the note is
\* settled when nothing is owed (owesServer; applyUpdate; PutSnapshot).
Promise == INSTANCE DocLog WITH
              Mine <- LocalIns, Theirs <- PeerIns,
              held <- sub.ydoc \cap Ins,
              served <- ServerDoc \cap Ins,
              settled <- ~OwesServer(sub)
KeepsPromise == Promise!LogSpec

\* A checkpoint the next launch would trust describes a document that holds all
\* it skips and nothing the server lacks (loadSeqCheckpoint, SAFE-A10), unless
\* one of FlawKinds has happened.
CheckpointSound ==
    (flaws = {} /\ ckpt.seq > 0 /\ ckpt.sv = StateVector(idb))
        => /\ \A i \in 1..ckpt.seq : log[i] \cap Ins \subseteq idb
           /\ idb \cap LocalIns \subseteq ServerDoc

\* The count of unacknowledged pushes never falls below the Acks still to come
\* on this socket and the deltas still being encrypted for it, so it cannot
\* reach zero early (unacked, settleAck and the epoch checks).
LiveAck(f) == f.k = "ack" /\ f.live
IsLive(d) == d.live
Outstanding == Len(SelectSeq(net, LiveAck)) + Len(SelectSeq(recv, LiveAck))
                 + Len(SelectSeq(deltas, IsLive))
AcksCounted == unacked >= Outstanding

\* An insertion too large to push, that the server lacks and nothing under way
\* will bring it, is shown to the user as held on this device (holdOversized:
\* a delta that predates the hold does not clear it), unless one of FlawKinds
\* has happened.
Idle == /\ open /\ sub.synced /\ sub.pending = {} /\ unacked = 0
        /\ chain = <<>> /\ deltas = <<>> /\ ~sub.deltaRetryTimer /\ ~poisoned
HoldStaysVisible ==
    flaws = {} /\ Idle => (sub.ydoc \cap Big \subseteq ServerDoc \/ sub.oversizedPush)

\* Every insertion made here reaches the server, unless a crash lost it before
\* IndexedDB had it: through closes, reconnects and failed reconnect deltas.
EventuallyRecorded ==
    \A e \in LocalIns :
        (e \in sub.ydoc) ~> (e \in ServerDoc \/ e \notin sub.ydoc)

\* Every insertion the server recorded reaches this client's document, unless a
\* live update was taken before the catch-up over one never sent ("skipped").
EventuallyReceived ==
    \A e \in Ins : (e \in ServerDoc) ~> (e \in sub.ydoc \/ "skipped" \in flaws)
=============================================================================
