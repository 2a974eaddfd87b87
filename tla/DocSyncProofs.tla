--------------------------- MODULE DocSyncProofs ----------------------------
(***************************************************************************)
(* That DocSync keeps its types, that its read position never skips an     *)
(* update and that a snapshot never lacks what it claims, for any edits,   *)
(* faults and bounds; the last two until a live update taken before the    *)
(* catch-up has moved the position over one that was never sent, which is  *)
(* what the flaw "skipped" records.                                        *)
(*                                                                         *)
(* The position moves to a sequence as the client learns of it, so what    *)
(* makes it sound is a property of everything that is still to come: each  *)
(* frame that may move it, wherever it waits, has behind it in the         *)
(* document or before it in the queue all that its sequence covers.        *)
(***************************************************************************)
EXTENDS DocSync, SequenceTheorems, TLAPS

(***************************************************************************)
(* What the subscription's helpers return.                                 *)
(***************************************************************************)
LEMMA LargerNat == ASSUME NEW m \in Nat, NEW n \in Nat PROVE Larger(m, n) \in Nat
BY DEF Larger

LEMMA FreshType == ASSUME NEW d \in Payload PROVE FreshSubscription(d) \in DocSubscription
BY DEF FreshSubscription, DocSubscription, Payload

LEMMA ScheduleSeqSaveType ==
    ASSUME NEW s \in DocSubscription PROVE ScheduleSeqSave(s) \in DocSubscription
BY BoundsAssumption DEF ScheduleSeqSave, DocSubscription

LEMMA AdvanceType ==
    ASSUME NEW s \in DocSubscription, NEW n \in Nat
    PROVE  Advance(s, n) \in DocSubscription
<1>1. Larger(s.lastSeq, n) \in Nat
  BY LargerNat DEF DocSubscription
<1>2. [s EXCEPT !.lastSeq = Larger(s.lastSeq, n)] \in DocSubscription
  BY <1>1 DEF DocSubscription
<1> QED BY <1>2, ScheduleSeqSaveType DEF Advance

LEMMA SettleAckType ==
    ASSUME NEW s \in DocSubscription PROVE SettleAck(s) \in DocSubscription
BY ScheduleSeqSaveType DEF SettleAck

LEMMA HeldType == ASSUME NEW s \in DocSubscription PROVE Held(s) \in DocSubscription
BY DEF Held, DocSubscription

LEMMA ClosedType ==
    ASSUME NEW s \in DocSubscription PROVE ClosedSubscription(s) \in DocSubscription
BY DEF ClosedSubscription, DocSubscription

LEMMA PutBackType ==
    ASSUME NEW s \in DocSubscription, batch \in Payload
    PROVE  PutBack(s) \in DocSubscription /\ FailedFlush(s) \in DocSubscription
BY DEF PutBack, FailedFlush, DocSubscription, Payload

(***************************************************************************)
(* What the helpers on sequences return.                                   *)
(***************************************************************************)
LEMMA SeqOfFunction ==
    ASSUME NEW S, NEW n \in Int, NEW f, f \in [1..n -> S]
    PROVE  f \in Seq(S)
<1>1. CASE n \in Nat
  BY <1>1, SeqDef
<1>2. CASE n \notin Nat
  <2>1. 1..n = 1..0
    BY <1>2
  <2> QED BY <2>1, SeqDef
<1> QED BY <1>1, <1>2

LEMMA StaleFrames == ASSUME NEW q \in Seq(Frame) PROVE Stale(q) \in Seq(Frame)
<1>1. \A i \in 1..Len(q) : [q[i] EXCEPT !.live = FALSE] \in Frame
  <2>1. \A i \in 1..Len(q) : q[i] \in Frame
    BY ElementOfSeq
  <2> QED BY <2>1 DEF Frame
<1>2. Stale(q) \in [1..Len(q) -> Frame]
  BY <1>1 DEF Stale
<1> QED BY <1>2, SeqOfFunction, LenProperties

LEMMA StaleDeltas == ASSUME NEW q \in Seq(Delta) PROVE Stale(q) \in Seq(Delta)
<1>1. \A i \in 1..Len(q) : [q[i] EXCEPT !.live = FALSE] \in Delta
  <2>1. \A i \in 1..Len(q) : q[i] \in Delta
    BY ElementOfSeq
  <2> QED BY <2>1 DEF Delta
<1>2. Stale(q) \in [1..Len(q) -> Delta]
  BY <1>1 DEF Stale
<1> QED BY <1>2, SeqOfFunction, LenProperties

LEMMA MarkHeldType ==
    ASSUME NEW ds \in Seq(Delta) PROVE MarkHeld(ds) \in Seq(Delta)
<1>1. \A i \in 1..Len(ds) : [ds[i] EXCEPT !.held = TRUE] \in Delta
  <2>1. \A i \in 1..Len(ds) : ds[i] \in Delta
    BY ElementOfSeq
  <2> QED BY <2>1 DEF Delta
<1>2. MarkHeld(ds) \in [1..Len(ds) -> Delta]
  BY <1>1 DEF MarkHeld
<1> QED BY <1>2, SeqOfFunction, LenProperties

LEMMA RemoveType ==
    ASSUME NEW S, NEW q \in Seq(S), NEW i \in 1..Len(q)
    PROVE  Remove(q, i) \in Seq(S)
<1>1. Len(q) \in Nat
  BY LenProperties
<1>2. SubSeq(q, 1, i - 1) \in Seq(S)
  BY <1>1, SubSeqProperties, ElementOfSeq
<1>3. SubSeq(q, i + 1, Len(q)) \in Seq(S)
  BY <1>1, SubSeqProperties, ElementOfSeq
<1> QED BY <1>2, <1>3, ConcatProperties DEF Remove

LEMMA CatchUpFramesType ==
    ASSUME TypeOK, NEW from \in Nat
    PROVE  CatchUpFrames(from) \in Seq(Frame)
<1> DEFINE base == Larger(from, snap.seq)
<1> DEFINE rest == [i \in 1..(Len(log) - base) |-> MkFrame("catchup", base + i, log[base + i])]
<1> DEFINE first == IF from < snap.seq
                    THEN <<MkFrame("snapshot", snap.seq, snap.content)>> ELSE <<>>
<1>1. base \in Nat /\ Len(log) \in Nat
  BY LargerNat, LenProperties DEF TypeOK
<1>2. \A i \in 1..(Len(log) - base) : MkFrame("catchup", base + i, log[base + i]) \in Frame
  BY <1>1, ElementOfSeq DEF TypeOK, MkFrame, Frame
<1>3. rest \in Seq(Frame)
  <2> HIDE DEF base, first
  <2>1. rest \in [1..(Len(log) - base) -> Frame]
    BY <1>2
  <2>2. Len(log) - base \in Int
    BY <1>1
  <2> HIDE DEF rest
  <2> QED BY <2>1, <2>2, SeqOfFunction
<1>4. first \in Seq(Frame)
  <2>1. MkFrame("snapshot", snap.seq, snap.content) \in Frame
    BY DEF TypeOK, MkFrame, Frame
  <2>2. <<MkFrame("snapshot", snap.seq, snap.content)>> \in Seq(Frame)
    BY <2>1
  <2> QED BY <2>2
<1>5. <<MkFrame("status", Len(log), {})>> \in Seq(Frame)
  BY <1>1 DEF MkFrame, Frame, Payload
<1>6. first \o rest \in Seq(Frame)
  BY <1>3, <1>4, ConcatProperties
<1>7. (first \o rest) \o <<MkFrame("status", Len(log), {})>> \in Seq(Frame)
  BY <1>5, <1>6, ConcatProperties
<1> QED BY <1>7 DEF CatchUpFrames

LEMMA EnqueueType ==
    ASSUME chain \in Seq(Task), NEW k \in {"flush", "reconcile", "retry", "snapshot"},
           NEW n \in Nat, NEW p \in Payload, Enqueue(k, n, p)
    PROVE  chain' \in Seq(Task)
<1>1. [k |-> k, seq |-> n, payload |-> p] \in Task
  BY DEF Task
<1> QED BY <1>1, AppendProperties DEF Enqueue

(***************************************************************************)
(* Every action preserves the types.                                       *)
(***************************************************************************)
LEMMA SubscribeFromType ==
    ASSUME NEW s \in DocSubscription PROVE SubscribeFrom(s) \in Nat
BY DEF SubscribeFrom, DocSubscription

LEMMA DoSendSubscribeType ==
    ASSUME TypeOK, NEW s \in DocSubscription, DoSendSubscribe(s)
    PROVE  /\ sub' \in DocSubscription
           /\ net' \in Seq(Frame)
           /\ registered' \in BOOLEAN
           /\ UNCHANGED <<log, snap>>
<1>1. SubscribeFrom(s) \in Nat
  BY SubscribeFromType
<1>2. sub' \in DocSubscription
  BY <1>1 DEF DoSendSubscribe, DocSubscription
<1>3. net' \in Seq(Frame)
  BY <1>1, CatchUpFramesType, ConcatProperties DEF TypeOK, DoSendSubscribe, ServerSubscribe
<1> QED BY <1>2, <1>3 DEF DoSendSubscribe, ServerSubscribe

LEMMA InitType == Init => TypeOK
<1> SUFFICES ASSUME Init PROVE TypeOK
  OBVIOUS
<1>1. {} \in Payload
  BY DEF Payload
<1>2. sub \in DocSubscription
  BY <1>1, FreshType DEF Init
<1> QED BY <1>1, <1>2, EmptySeq DEF Init, TypeOK

LEMMA MarkType ==
    ASSUME flaws \in SUBSET FlawKinds, NEW k \in FlawKinds, NEW happens
    PROVE  flaws \cup Mark(k, happens) \in SUBSET FlawKinds
BY DEF Mark

LEMMA OpenedType == ASSUME TypeOK, Opened PROVE TypeOK'
<1> DEFINE s == [sub EXCEPT !.synced = FALSE]
<1>1. s \in DocSubscription
  BY DEF TypeOK, DocSubscription
<1>2. flaws' \in SUBSET FlawKinds
  BY MarkType DEF TypeOK, Opened, FlawKinds
<1>3. CASE s.seqReady
  <2>1. DoSendSubscribe(s)
    BY <1>3 DEF Opened
  <2> QED BY <1>1, <1>2, <2>1, DoSendSubscribeType DEF TypeOK, Opened, sendVars, diskVars
<1>4. CASE ~s.seqReady
  BY <1>1, <1>2, <1>4 DEF TypeOK, Opened, serverVars, sendVars, diskVars
<1> QED BY <1>3, <1>4

LEMMA SeqLoadedType == ASSUME TypeOK, SeqLoaded PROVE TypeOK'
<1> DEFINE s == [sub EXCEPT !.seqReady = TRUE,
                            !.lastSeq = Larger(@, LoadSeqCheckpoint(sub.ydoc))]
<1>1. LoadSeqCheckpoint(sub.ydoc) \in Nat
  BY DEF TypeOK, LoadSeqCheckpoint
<1>2. Larger(sub.lastSeq, LoadSeqCheckpoint(sub.ydoc)) \in Nat
  BY <1>1, LargerNat DEF TypeOK, DocSubscription
<1>3. s \in DocSubscription
  BY <1>2 DEF TypeOK, DocSubscription
<1>4. flaws' \in SUBSET FlawKinds
  <2> DEFINE n == LoadSeqCheckpoint(sub.ydoc)
  <2>1. flaws \cup Mark("forgotten", Forgets(n)) \in SUBSET FlawKinds
    BY MarkType DEF TypeOK, FlawKinds
  <2> QED BY <2>1 DEF SeqLoaded, Mark, FlawKinds
<1>5. CASE open
  <2>1. DoSendSubscribe(s)
    BY <1>5 DEF SeqLoaded
  <2> QED BY <1>3, <1>4, <2>1, DoSendSubscribeType DEF TypeOK, SeqLoaded, sendVars, diskVars
<1>6. CASE ~open
  BY <1>3, <1>4, <1>6 DEF TypeOK, SeqLoaded, serverVars, sendVars, diskVars
<1> QED BY <1>5, <1>6 DEF TypeOK

LEMMA InjectType == ASSUME faults \in Nat, NEW k, Inject(k) PROVE faults' \in Nat
BY DEF Inject

LEMMA ClosedActionType == ASSUME TypeOK, Closed PROVE TypeOK'
<1>1. sub' \in DocSubscription
  BY ClosedType DEF TypeOK, Closed, histVars
<1>2. recv' \in Seq(Frame) /\ deltas' \in Seq(Delta)
  BY StaleFrames, StaleDeltas DEF TypeOK, Closed, histVars
<1>3. faults' \in Nat
  BY InjectType DEF TypeOK, Closed, histVars
<1> QED BY <1>1, <1>2, <1>3, EmptySeq DEF TypeOK, Closed, diskVars, histVars

LEMMA RestartType == ASSUME TypeOK, Restart PROVE TypeOK'
<1>1. sub' \in DocSubscription
  BY FreshType DEF TypeOK, Restart, histVars
<1>2. faults' \in Nat
  BY InjectType DEF TypeOK, Restart, histVars
<1>3. {} \in Payload
  BY DEF Payload
<1> QED BY <1>1, <1>2, <1>3, EmptySeq DEF TypeOK, Restart, diskVars, histVars

\* What the document may hold: the edits there are.
LEMMA PersistType == ASSUME TypeOK, Persist PROVE TypeOK'
<1>1. idb' \in Payload
  BY DEF TypeOK, Persist, DocSubscription, Payload, histVars
<1> QED BY <1>1 DEF TypeOK, Persist, serverVars, wireVars, sendVars, histVars

LEMMA SeqSaveFiresType == ASSUME TypeOK, SeqSaveFires PROVE TypeOK'
<1>1. sub' \in DocSubscription
  BY DEF TypeOK, SeqSaveFires, DocSubscription, histVars
<1>2. ckpt' \in [seq : Nat, sv : SUBSET Ins]
  BY DEF TypeOK, SeqSaveFires, DocSubscription, StateVector, histVars
<1> QED BY <1>1, <1>2 DEF TypeOK, SeqSaveFires, serverVars, wireVars, sendVars, histVars

LEMMA LocalEditType == ASSUME TypeOK, LocalEdit PROVE TypeOK'
<1> PICK e \in Local \ made :
      LET s == [sub EXCEPT !.ydoc = @ \cup {e}, !.pending = @ \cup {e},
                           !.hasUnsentWork = TRUE]
      IN  /\ made' = made \cup {e}
          /\ IF ~open
             THEN sub' = s /\ UNCHANGED chain
             ELSE /\ sub' = [s EXCEPT !.flushing = TRUE,
                                      !.deltaRetryTimer = @ \/ s.oversizedPush]
                  /\ IF s.flushing THEN UNCHANGED chain
                     ELSE Enqueue("flush", 0, {})
          /\ UNCHANGED <<serverVars, wireVars, unacked, recv, batch, deltas,
                         poisoned, diskVars, faults, histVars>>
  BY DEF LocalEdit
<1>1. {e} \subseteq Edits
  BY DEF Local, Edits, Ins, Del
<1>2. made' \in SUBSET Local
  BY DEF TypeOK
<1> DEFINE s == [sub EXCEPT !.ydoc = @ \cup {e}, !.pending = @ \cup {e},
                            !.hasUnsentWork = TRUE]
<1>3. s \in DocSubscription
  BY <1>1 DEF TypeOK, DocSubscription, Payload
<1>4. CASE ~open
  BY <1>2, <1>3, <1>4 DEF TypeOK, serverVars, wireVars, diskVars, histVars
<1>5. CASE open
  <2> HIDE DEF s
  <2>1. (s.deltaRetryTimer \/ s.oversizedPush) \in BOOLEAN
    OBVIOUS
  <2>2. [s EXCEPT !.flushing = TRUE, !.deltaRetryTimer = @ \/ s.oversizedPush]
           \in DocSubscription
    BY <1>3, <2>1 DEF DocSubscription
  <2>3. chain' \in Seq(Task)
    <3>1. {} \in Payload
      BY DEF Payload
    <3>2. UNCHANGED chain \/ Enqueue("flush", 0, {})
      BY <1>5 DEF s
    <3> QED BY <3>1, <3>2, EnqueueType DEF TypeOK
  <2>4. sub' \in DocSubscription
    BY <1>5, <2>2 DEF s
  <2> QED BY <1>2, <2>3, <2>4 DEF TypeOK, serverVars, wireVars, diskVars, histVars
<1> QED BY <1>4, <1>5

LEMMA MkFrameType ==
    ASSUME NEW k \in {"snapshot", "catchup", "update", "ack", "compact", "status"},
           NEW n \in Nat, NEW p \in Payload
    PROVE  MkFrame(k, n, p) \in Frame
BY DEF MkFrame, Frame

LEMMA ServerPushType ==
    ASSUME TypeOK, NEW p \in Payload, ServerPush(p)
    PROVE  /\ log' \in Seq(Payload) /\ net' \in Seq(Frame)
           /\ registered' \in BOOLEAN /\ snap' = snap /\ faults' \in Nat
<1>1. CASE log' = Append(log, p) /\ net' = Append(net, MkFrame("ack", Len(log) + 1, {}))
           /\ registered' = TRUE /\ UNCHANGED <<snap, faults>>
  <2>1. log' \in Seq(Payload)
    BY <1>1, AppendProperties DEF TypeOK
  <2>2. MkFrame("ack", Len(log) + 1, {}) \in Frame
    BY MkFrameType, LenProperties DEF TypeOK, Payload
  <2>3. net' \in Seq(Frame)
    BY <1>1, <2>2, AppendProperties DEF TypeOK
  <2> QED BY <1>1, <2>1, <2>3 DEF TypeOK
<1>2. CASE Inject("drop") /\ UNCHANGED <<log, snap, registered, net>>
  BY <1>2, InjectType DEF TypeOK
<1> QED BY <1>1, <1>2 DEF ServerPush

LEMMA NextBatchType ==
    ASSUME chain \in Seq(Task), chain # <<>>, NEW s \in DocSubscription, NextBatch(s)
    PROVE  sub' \in DocSubscription /\ batch' \in Payload /\ chain' \in Seq(Task)
<1>1. Tail(chain) \in Seq(Task) /\ {} \in Payload
  BY HeadTailProperties DEF Payload
<1>2. CASE s.pending = {}
  BY ZenonT(60), <1>1, <1>2 DEF NextBatch, DocSubscription
<1>3. CASE s.pending # {} /\ open
  BY <1>1, <1>3 DEF NextBatch, DocSubscription
<1>4. CASE s.pending # {} /\ ~open
  BY <1>1, <1>4 DEF NextBatch, DocSubscription
<1> QED BY <1>2, <1>3, <1>4

LEMMA FlushStartsType == ASSUME TypeOK, FlushStarts PROVE TypeOK'
BY NextBatchType DEF TypeOK, FlushStarts, Running, serverVars, wireVars, diskVars, histVars

LEMMA FlushEncryptedType == ASSUME TypeOK, FlushEncrypted PROVE TypeOK'
<1>1. chain # <<>> /\ UNCHANGED <<open, recv, poisoned, diskVars, made, histVars>>
  BY DEF FlushEncrypted, Running
<1>2. CASE ~open
  <2>1. sub' \in DocSubscription
    BY <1>2, PutBackType DEF TypeOK, FlushEncrypted, histVars
  <2>2. chain' = Tail(chain) /\ batch' = {}
    BY <1>2 DEF FlushEncrypted
  <2>3. chain' \in Seq(Task) /\ batch' \in Payload
    BY <1>1, <2>2, HeadTailProperties DEF TypeOK, Payload
  <2> QED BY <1>1, <1>2, <2>1, <2>3 DEF TypeOK, FlushEncrypted,
     serverVars, diskVars, histVars
<1>3. CASE open /\ FlushTooLarge(batch)
  <2>1. NextBatch(Held(sub)) /\ deltas' = MarkHeld(deltas)
        /\ UNCHANGED <<serverVars, net, unacked, faults>>
    BY <1>3 DEF FlushEncrypted
  <2>2. sub' \in DocSubscription /\ batch' \in Payload /\ chain' \in Seq(Task)
    BY <1>1, <2>1, HeldType, NextBatchType DEF TypeOK
  <2> QED BY <1>1, <2>1, <2>2, MarkHeldType DEF TypeOK, serverVars, diskVars, histVars
<1>4. CASE open /\ ~FlushTooLarge(batch)
  <2>1. ServerPush(batch) /\ unacked' = unacked + 1 /\ NextBatch(sub) /\ UNCHANGED deltas
    BY <1>4 DEF FlushEncrypted
  <2>2. sub' \in DocSubscription /\ batch' \in Payload /\ chain' \in Seq(Task)
    BY <1>1, <2>1, NextBatchType DEF TypeOK
  <2>3. /\ log' \in Seq(Payload) /\ net' \in Seq(Frame)
        /\ registered' \in BOOLEAN /\ snap' = snap /\ faults' \in Nat
    BY <2>1, ServerPushType DEF TypeOK
  <2> QED BY <1>1, <2>1, <2>2, <2>3 DEF TypeOK, diskVars, histVars
<1> QED BY <1>2, <1>3, <1>4

LEMMA FlushFailsType == ASSUME TypeOK, FlushFails PROVE TypeOK'
<1>1. sub' \in DocSubscription
  BY PutBackType DEF TypeOK, FlushFails, histVars
<1>2. faults' \in Nat
  BY InjectType DEF TypeOK, FlushFails, histVars
<1>3. chain' \in Seq(Task) /\ batch' \in Payload
  BY HeadTailProperties DEF TypeOK, FlushFails, Running, Payload, histVars
<1> QED BY <1>1, <1>2, <1>3 DEF TypeOK, FlushFails, serverVars, wireVars, diskVars, histVars

LEMMA StateAsUpdateType ==
    ASSUME NEW d \in Payload, NEW sv PROVE StateAsUpdate(d, sv) \in Payload
BY DEF StateAsUpdate, Payload, Edits

LEMMA SendDeltaType ==
    ASSUME TypeOK, NEW s \in DocSubscription, NEW sv, SendDelta(s, sv)
    PROVE  /\ sub' \in DocSubscription /\ unacked' \in Nat
           /\ deltas' \in Seq(Delta)
<1> DEFINE sent  == [s EXCEPT !.pending = {}, !.hasUnsentWork = FALSE,
                              !.owesReconcile = FALSE]
           delta == StateAsUpdate(s.ydoc, sv)
<1>1. sent \in DocSubscription /\ [sent EXCEPT !.oversizedPush = FALSE] \in DocSubscription
  BY DEF DocSubscription, Payload
<1>2. delta \in Payload
  BY StateAsUpdateType DEF DocSubscription
<1>3. CASE ~open
  BY <1>3 DEF TypeOK, SendDelta
<1>4. CASE open /\ delta = {}
  BY <1>1, <1>4, ScheduleSeqSaveType DEF TypeOK, SendDelta
<1>5. CASE open /\ delta # {}
  <2>1. [payload |-> delta, live |-> TRUE, held |-> FALSE] \in Delta
    BY <1>2 DEF Delta
  <2>2. sub' = sent /\ unacked' = unacked + 1
        /\ deltas' = Append(deltas, [payload |-> delta, live |-> TRUE, held |-> FALSE])
    BY <1>5 DEF SendDelta
  <2> HIDE DEF sent, delta
  <2>3. deltas' \in Seq(Delta)
    BY <2>1, <2>2, AppendProperties DEF TypeOK
  <2> QED BY <1>1, <2>2, <2>3 DEF TypeOK
<1> QED BY <1>3, <1>4, <1>5

LEMMA ReconcileType == ASSUME TypeOK, Reconcile PROVE TypeOK'
<1> DEFINE s == [sub EXCEPT !.reconciling = FALSE]
           t == [s EXCEPT !.catchUp = {}, !.serverSV = ServerStateVector(s)]
<1>1. s \in DocSubscription
  BY DEF TypeOK, DocSubscription
<1>2. ServerStateVector(s) \in Payload
  BY <1>1 DEF ServerStateVector, StateVector, DocSubscription, Payload
<1>3. t \in DocSubscription
  BY <1>1, <1>2 DEF DocSubscription, Payload
<1>4. chain' \in Seq(Task)
  BY HeadTailProperties DEF TypeOK, Reconcile, Running, histVars
<1>5. sub' \in DocSubscription /\ unacked' \in Nat /\ deltas' \in Seq(Delta)
  <2>1. CASE open
    <3>1. SendDelta(t, ServerStateVector(s))
      BY <2>1 DEF Reconcile
    <3> HIDE DEF t
    <3> QED BY <1>3, <3>1, SendDeltaType
  <2>2. CASE ~open
    BY <1>1, <2>2 DEF Reconcile, TypeOK
  <2> QED BY <2>1, <2>2
<1>6. restored' \in SUBSET LocalIns /\ flaws' \in SUBSET FlawKinds
  BY MarkType DEF TypeOK, Reconcile, FlawKinds
<1> QED BY <1>4, <1>5, <1>6 DEF TypeOK, Reconcile, serverVars, wireVars, diskVars

LEMMA DeltaRetryFiresType == ASSUME TypeOK, DeltaRetryFires PROVE TypeOK'
<1>1. sub' \in DocSubscription
  BY DEF TypeOK, DeltaRetryFires, DocSubscription, histVars
<1>2. chain' \in Seq(Task)
  <2>1. sub.serverSV \in Payload
    BY DEF TypeOK, DocSubscription
  <2>2. UNCHANGED chain \/ Enqueue("retry", 0, sub.serverSV)
    BY DEF DeltaRetryFires
  <2> QED BY <2>1, <2>2, EnqueueType DEF TypeOK
<1> QED BY <1>1, <1>2 DEF TypeOK, DeltaRetryFires, serverVars, wireVars, diskVars, histVars

LEMMA RetryDeltaType == ASSUME TypeOK, RetryDelta PROVE TypeOK'
<1>1. sub' \in DocSubscription /\ unacked' \in Nat /\ deltas' \in Seq(Delta)
  BY SendDeltaType DEF TypeOK, RetryDelta, histVars
<1>2. chain' \in Seq(Task)
  BY HeadTailProperties DEF TypeOK, RetryDelta, Running, histVars
<1> QED BY <1>1, <1>2 DEF TypeOK, RetryDelta, serverVars, wireVars, diskVars, histVars

LEMMA TakeBackType ==
    ASSUME unacked \in Nat, NEW d \in Delta, NEW s \in DocSubscription, TakeBack(d, s)
    PROVE  sub' \in DocSubscription /\ unacked' \in Nat
<1> DEFINE t == IF Settles(d.live) THEN SettleAck(s) ELSE s
<1>1. t \in DocSubscription
  BY SettleAckType
<1>2. sub' = [t EXCEPT !.owesReconcile = TRUE]
  BY DEF TakeBack
<1> HIDE DEF t
<1>3. sub' \in DocSubscription
  BY <1>1, <1>2 DEF DocSubscription
<1> QED BY <1>3 DEF TakeBack, SettledCount

LEMMA DeltaEncryptedType == ASSUME TypeOK, DeltaEncrypted PROVE TypeOK'
<1> PICK i \in 1..Len(deltas) :
      LET d == deltas[i] IN
        /\ CASE ~open ->
                  /\ TakeBack(d, sub)
                  /\ deltas' = Remove(deltas, i)
                  /\ UNCHANGED <<serverVars, net, faults>>
             [] open /\ DeltaTooLarge(d.payload) ->
                  /\ TakeBack(d, Held(sub))
                  /\ deltas' = MarkHeld(Remove(deltas, i))
                  /\ UNCHANGED <<serverVars, net, faults>>
             [] open /\ ~DeltaTooLarge(d.payload) ->
                  /\ ServerPush(d.payload)
                  /\ unacked' = IF d.live THEN unacked ELSE unacked + 1
                  /\ sub' = [sub EXCEPT !.oversizedPush = @ /\ ~ClearsHold(d)]
                  /\ deltas' = Remove(deltas, i)
        /\ UNCHANGED <<open, recv, chain, batch, poisoned, diskVars, made, histVars>>
  BY DEF DeltaEncrypted
<1> DEFINE d == deltas[i]
<1>1. d \in Delta /\ Remove(deltas, i) \in Seq(Delta)
  BY ElementOfSeq, RemoveType DEF TypeOK
<1>2. CASE ~open
  <2>1. sub' \in DocSubscription /\ unacked' \in Nat
    BY <1>1, <1>2, TakeBackType DEF TypeOK
  <2> QED BY <1>1, <1>2, <2>1 DEF TypeOK, serverVars, diskVars, histVars
<1>3. CASE open /\ DeltaTooLarge(d.payload)
  <2>1. sub' \in DocSubscription /\ unacked' \in Nat
    BY <1>1, <1>3, TakeBackType, HeldType DEF TypeOK
  <2> QED BY <1>1, <1>3, <2>1, MarkHeldType DEF TypeOK, serverVars, diskVars, histVars
<1>4. CASE open /\ ~DeltaTooLarge(d.payload)
  <2>1. d.payload \in Payload
    BY <1>1 DEF Delta
  <2>2. /\ log' \in Seq(Payload) /\ net' \in Seq(Frame)
        /\ registered' \in BOOLEAN /\ snap' = snap /\ faults' \in Nat
    BY <1>4, <2>1, ServerPushType
  <2>3. sub' \in DocSubscription
    BY ZenonT(60), <1>4 DEF TypeOK, DocSubscription
  <2>4. unacked' \in Nat
    BY <1>4 DEF TypeOK
  <2> QED BY <1>1, <1>4, <2>2, <2>3, <2>4 DEF TypeOK, diskVars, histVars
<1> QED BY <1>2, <1>3, <1>4

LEMMA DeltaFailsType == ASSUME TypeOK, DeltaFails PROVE TypeOK'
<1> PICK i \in 1..Len(deltas) :
      /\ Inject("encryptDelta")
      /\ TakeBack(deltas[i], ScheduleDeltaRetry(sub))
      /\ deltas' = Remove(deltas, i)
      /\ UNCHANGED <<serverVars, wireVars, recv, chain, batch, poisoned,
                     diskVars, made, histVars>>
  BY DEF DeltaFails
<1>1. deltas[i] \in Delta /\ deltas' \in Seq(Delta)
  BY ElementOfSeq, RemoveType DEF TypeOK
<1>2. ScheduleDeltaRetry(sub) \in DocSubscription
  BY DEF TypeOK, ScheduleDeltaRetry, DocSubscription
<1>3. sub' \in DocSubscription /\ unacked' \in Nat
  BY <1>1, <1>2, TakeBackType DEF TypeOK
<1>4. faults' \in Nat
  BY InjectType DEF TypeOK
<1> QED BY <1>1, <1>3, <1>4 DEF TypeOK, serverVars, wireVars, diskVars, histVars

LEMMA SnapshotEncryptedType == ASSUME TypeOK, SnapshotEncrypted PROVE TypeOK'
<1>1. chain' \in Seq(Task) /\ Head(chain) \in Task
  BY HeadTailProperties DEF TypeOK, SnapshotEncrypted, Running, histVars
<1>2. snap' \in [seq : Nat, content : Payload]
  BY <1>1 DEF TypeOK, SnapshotEncrypted, ServerPutSnapshot, ClaimedSeq, Task, histVars
<1> QED BY <1>1, <1>2 DEF TypeOK, SnapshotEncrypted, wireVars, diskVars, histVars

LEMMA SnapshotFailsType == ASSUME TypeOK, SnapshotFails PROVE TypeOK'
<1>1. faults' \in Nat
  BY InjectType DEF TypeOK, SnapshotFails, histVars
<1> QED BY <1>1, EmptySeq DEF TypeOK, SnapshotFails,
     serverVars, wireVars, diskVars, histVars

LEMMA SendSnapshotType ==
    ASSUME chain \in Seq(Task), NEW s \in DocSubscription, SendSnapshot(s)
    PROVE  chain' \in Seq(Task)
<1>1. s.lastSeq \in Nat /\ s.ydoc \in Payload
  BY DEF DocSubscription
<1> QED BY <1>1, EnqueueType DEF SendSnapshot

LEMMA MaybeCompactType ==
    ASSUME chain \in Seq(Task), NEW s \in DocSubscription, MaybeCompact(s)
    PROVE  chain' \in Seq(Task)
BY SendSnapshotType DEF MaybeCompact

LEMMA DeliverType == ASSUME TypeOK, Deliver PROVE TypeOK'
<1>1. net' \in Seq(Frame) /\ Head(net) \in Frame
  BY HeadTailProperties DEF TypeOK, Deliver, histVars
<1>2. recv' \in Seq(Frame)
  BY <1>1, AppendProperties DEF TypeOK, Deliver, histVars
<1>3. chain' \in Seq(Task)
  BY MaybeCompactType DEF TypeOK, Deliver, histVars
<1> QED BY <1>1, <1>2, <1>3 DEF TypeOK, Deliver, serverVars, diskVars, histVars

LEMMA ReceivingType ==
    ASSUME recv \in Seq(Frame), NEW kinds, Receiving(kinds)
    PROVE  /\ recv' \in Seq(Frame)
           /\ Head(recv).seq \in Nat /\ Head(recv).payload \in Payload
<1>1. Head(recv) \in Frame /\ Tail(recv) \in Seq(Frame)
  BY HeadTailProperties DEF Receiving
<1>2. Head(recv).seq \in Nat /\ Head(recv).payload \in Payload
  BY <1>1 DEF Frame
<1> QED BY <1>1, <1>2 DEF Receiving

LEMMA ReceivePayloadType == ASSUME TypeOK, ReceivePayload PROVE TypeOK'
<1> DEFINE f == Head(recv)
           applied == [sub EXCEPT !.ydoc = @ \cup f.payload,
                                  !.catchUp = IF f.k = "snapshot" \/ ~sub.synced
                                              THEN @ \cup f.payload ELSE @]
<1>1. recv' \in Seq(Frame) /\ f.seq \in Nat /\ f.payload \in Payload
  BY ReceivingType DEF TypeOK, ReceivePayload, histVars
<1>2. applied \in DocSubscription
  <2>1. (IF f.k = "snapshot" \/ ~sub.synced
         THEN sub.catchUp \cup f.payload ELSE sub.catchUp) \in Payload
    BY <1>1 DEF TypeOK, DocSubscription, Payload
  <2>2. sub.ydoc \cup f.payload \in Payload
    BY <1>1 DEF TypeOK, DocSubscription, Payload
  <2> HIDE DEF f
  <2> QED BY <2>1, <2>2 DEF TypeOK, DocSubscription
<1>3. sub' = Advance(applied, f.seq)
      /\ (MaybeCompact(Advance(applied, f.seq)) \/ UNCHANGED chain)
  BY DEF ReceivePayload
<1> HIDE DEF f, applied
<1>4. Advance(applied, f.seq) \in DocSubscription
  BY <1>1, <1>2, AdvanceType
<1>5. sub' \in DocSubscription /\ chain' \in Seq(Task)
  BY <1>3, <1>4, MaybeCompactType DEF TypeOK
<1>6. flaws' \in SUBSET FlawKinds
  BY MarkType DEF TypeOK, ReceivePayload, FlawKinds
<1> QED BY <1>1, <1>5, <1>6 DEF TypeOK, ReceivePayload, serverVars, wireVars, diskVars

LEMMA DecryptFailsType == ASSUME TypeOK, DecryptFails PROVE TypeOK'
<1>1. recv' \in Seq(Frame) /\ Head(recv).seq \in Nat
  BY ReceivingType DEF TypeOK, DecryptFails, histVars
<1>2. sub' \in DocSubscription
  BY <1>1 DEF TypeOK, DecryptFails, DocSubscription, histVars
<1>3. faults' \in Nat
  BY InjectType DEF TypeOK, DecryptFails, histVars
<1> QED BY <1>1, <1>2, <1>3 DEF TypeOK, DecryptFails,
     serverVars, wireVars, sendVars, diskVars, histVars

LEMMA ReceiveAckType == ASSUME TypeOK, ReceiveAck PROVE TypeOK'
<1> DEFINE f == Head(recv)
           s == IF AckAdvances(sub) THEN Advance(sub, f.seq) ELSE sub
           t == IF Settles(f.live) THEN SettleAck(s) ELSE s
<1>1. recv' \in Seq(Frame) /\ f.seq \in Nat
  BY ReceivingType DEF TypeOK, ReceiveAck, histVars
<1>2. s \in DocSubscription
  BY <1>1, AdvanceType DEF TypeOK
<1>3. t \in DocSubscription
  BY <1>2, SettleAckType
<1>4. sub' = t /\ MaybeCompact(t)
  BY DEF ReceiveAck
<1> HIDE DEF t
<1>5. sub' \in DocSubscription /\ chain' \in Seq(Task)
  BY <1>3, <1>4, MaybeCompactType DEF TypeOK
<1>6. unacked' \in Nat
  BY DEF TypeOK, ReceiveAck, SettledCount, histVars
<1> QED BY <1>1, <1>5, <1>6 DEF TypeOK, ReceiveAck, serverVars, wireVars, diskVars, histVars

LEMMA CompleteSyncType == ASSUME TypeOK, CompleteSync PROVE TypeOK'
<1> DEFINE a == Advance(sub, Head(recv).seq)
           s == [a EXCEPT !.synced = TRUE]
<1>1. recv' \in Seq(Frame) /\ Head(recv).seq \in Nat
  BY ReceivingType DEF TypeOK, CompleteSync, histVars
<1>2. a \in DocSubscription
  BY <1>1, AdvanceType DEF TypeOK
<1> HIDE DEF a
<1>3. s \in DocSubscription
  BY <1>2 DEF DocSubscription
<1>4. \/ sub' = [s EXCEPT !.reconciling = TRUE] /\ Enqueue("reconcile", 0, {})
      \/ sub' = [s EXCEPT !.catchUp = {}] /\ UNCHANGED chain
  BY DEF CompleteSync, a
<1> HIDE DEF s
<1>5. sub' \in DocSubscription
  BY ZenonT(60), <1>3, <1>4 DEF DocSubscription, Payload
<1>6. chain' \in Seq(Task)
  <2>1. {} \in Payload
    BY DEF Payload
  <2> QED BY <1>4, <2>1, EnqueueType DEF TypeOK
<1> QED BY <1>1, <1>5, <1>6 DEF TypeOK, CompleteSync,
     serverVars, wireVars, diskVars, histVars

LEMMA HandleCompactRequestType == ASSUME TypeOK, HandleCompactRequest PROVE TypeOK'
<1>1. recv' \in Seq(Frame)
  BY ReceivingType DEF TypeOK, HandleCompactRequest, histVars
<1>2. chain' \in Seq(Task)
  BY SendSnapshotType DEF TypeOK, HandleCompactRequest, histVars
<1> QED BY <1>1, <1>2 DEF TypeOK, HandleCompactRequest,
     serverVars, wireVars, diskVars, histVars

LEMMA PeerUpdateType == ASSUME TypeOK, PeerUpdate PROVE TypeOK'
<1> PICK e \in Peer :
      /\ log' = Append(log, {e})
      /\ net' = IF open /\ registered
                THEN Append(net, MkFrame("update", Len(log) + 1, {e})) ELSE net
  BY DEF PeerUpdate
<1>1. {e} \in Payload
  BY DEF Payload, Edits, Ins, Del, Peer
<1>2. MkFrame("update", Len(log) + 1, {e}) \in Frame
  BY <1>1, MkFrameType, LenProperties DEF TypeOK
<1>3. log' \in Seq(Payload) /\ net' \in Seq(Frame)
  BY <1>1, <1>2, AppendProperties DEF TypeOK
<1> QED BY <1>3 DEF TypeOK, PeerUpdate, histVars

LEMMA RequestCompactionType == ASSUME TypeOK, RequestCompaction PROVE TypeOK'
<1>1. MkFrame("compact", 0, {}) \in Frame
  BY MkFrameType DEF Payload
<1>2. net' \in Seq(Frame)
  BY <1>1, AppendProperties DEF TypeOK, RequestCompaction, histVars
<1> QED BY <1>2 DEF TypeOK, RequestCompaction, histVars

LEMMA NextType == TypeOK /\ [Next]_vars => TypeOK'
<1> SUFFICES ASSUME TypeOK, [Next]_vars PROVE TypeOK'
  OBVIOUS
<1>1. CASE Server
  BY <1>1, PeerUpdateType, RequestCompactionType DEF Server
<1>2. CASE Life
  BY <1>2, OpenedType, SeqLoadedType, PersistType, SeqSaveFiresType DEF Life
<1>3. CASE LocalEdit
  BY <1>3, LocalEditType
<1>4. CASE Sending
  BY <1>4, FlushStartsType, FlushEncryptedType, ReconcileType, DeltaRetryFiresType,
     RetryDeltaType, DeltaEncryptedType, SnapshotEncryptedType DEF Sending
<1>5. CASE Receive
  BY <1>5, DeliverType, ReceivePayloadType, ReceiveAckType, CompleteSyncType,
     HandleCompactRequestType DEF Receive
<1>6. CASE Failure
  BY <1>6, ClosedActionType, RestartType, FlushFailsType, DeltaFailsType,
     SnapshotFailsType, DecryptFailsType DEF Failure
<1>7. CASE UNCHANGED vars
  BY <1>7 DEF vars, TypeOK
<1> QED BY <1>1, <1>2, <1>3, <1>4, <1>5, <1>6, <1>7 DEF Next

\* The subscription, the server and what is under way between them keep their
\* types whatever the edits, the faults and the bounds: the read position and
\* the count of pushes stay natural numbers (settleAck stops at zero), a frame
\* or a task never carries what is not an edit.
THEOREM TypeCorrect == Spec => []TypeOK
BY InitType, NextType, PTL DEF Spec

(***************************************************************************)
(* The inductive invariant.                                                *)
(***************************************************************************)
\* Every frame the client has yet to process, in the order it will.
Coming == recv \o net

Recorded(n) == n \in 0..Len(log)

\* S holds every insertion the server recorded up to n.
Covered(n, S) == \A i \in 1..n : log[i] \cap Ins \subseteq S

\* The same of the document once the first j frames have been processed.
Reaches(n, j) ==
    \A i \in 1..n : \A e \in log[i] \cap Ins :
        e \in sub.ydoc \/ \E m \in 1..j : e \in Coming[m].payload

\* The j-th frame may move the read position when its turn comes: a live update
\* and an Ack only behind the catch-up, which is where what they cover is.
Moves(j) ==
    \/ Coming[j].k \in {"snapshot", "catchup", "status"}
    \/ /\ Coming[j].k \in {"update", "ack"}
       /\ sub.synced \/ \E m \in 1..(j - 1) : Coming[m].k = "status"

ReadCovered == Recorded(sub.lastSeq) /\ Covered(sub.lastSeq, sub.ydoc)
CheckpointCovered == Recorded(ckpt.seq) /\ Covered(ckpt.seq, ckpt.sv)
SnapshotCovered == Recorded(snap.seq) /\ Covered(snap.seq, snap.content)
CapturesCovered ==
    \A j \in 1..Len(chain) : chain[j].k = "snapshot" =>
        Recorded(chain[j].seq) /\ Covered(chain[j].seq, chain[j].payload)

\* What is on its way to the server is in the document.
OwnWorkHeld ==
    /\ sub.pending \subseteq sub.ydoc
    /\ batch \subseteq sub.ydoc
    /\ \A j \in 1..Len(deltas) : deltas[j].payload \subseteq sub.ydoc

QueueCovered ==
    sub.decryptGapSeq = 0 =>
        \A j \in 1..Len(Coming) : Moves(j) =>
            Recorded(Coming[j].seq) /\ Reaches(Coming[j].seq, j)

\* A payload has a sequence to mark a gap with; nothing else has a payload.
QueueShape ==
    \A j \in 1..Len(Coming) :
        IF Coming[j].k \in PayloadKinds THEN Coming[j].seq \in 1..Len(log)
        ELSE Coming[j].payload = {}

\* A socket that has subscribed misses nothing.
TailCovered ==
    open /\ sub.seqReady /\ sub.decryptGapSeq = 0 => Reaches(Len(log), Len(Coming))

SocketShape ==
    /\ ~sub.seqReady => /\ ~sub.synced
                        /\ \A j \in 1..Len(Coming) : Coming[j].k # "status"
    /\ registered => open
    /\ open /\ sub.seqReady => registered
    /\ ~open => net = <<>>

HoleInv ==
    /\ ReadCovered /\ CheckpointCovered /\ SnapshotCovered /\ CapturesCovered
    /\ OwnWorkHeld /\ QueueCovered /\ QueueShape /\ TailCovered /\ SocketShape

\* The log only grows.
LogKept == /\ Len(log') >= Len(log)
           /\ \A i \in 1..Len(log) : log'[i] = log[i]

\* Every snapshot now queued was queued before or is of the position read.
CapturesKept ==
    \A j \in 1..Len(chain') : chain'[j].k = "snapshot" =>
        \/ \E m \in 1..Len(chain) : chain'[j] = chain[m]
        \/ Recorded(chain'[j].seq) /\ Covered(chain'[j].seq, chain'[j].payload)

\* The step leaves alone what the subscription knows of the server.
Steady ==
    /\ sub.ydoc \subseteq sub'.ydoc
    /\ sub'.lastSeq = sub.lastSeq
    /\ sub'.synced = sub.synced
    /\ sub'.decryptGapSeq = sub.decryptGapSeq
    /\ sub'.seqReady = sub.seqReady

(***************************************************************************)
(* The parts, kept by any step that does not touch what they are about.    *)
(***************************************************************************)
LEMMA ComingType ==
    ASSUME TypeOK
    PROVE  Coming \in Seq(Frame) /\ Len(Coming) \in Nat /\ Len(log) \in Nat
<1>1. Coming \in Seq(Frame)
  BY ConcatProperties DEF TypeOK, Coming
<1> QED BY <1>1, LenProperties DEF TypeOK

LEMMA TailOfConcat ==
    ASSUME NEW S, NEW s \in Seq(S), NEW t \in Seq(S), s # <<>>
    PROVE  /\ s \o t # <<>>
           /\ Head(s \o t) = Head(s)
           /\ Tail(s \o t) = Tail(s) \o t
<1>1. s \o t \in Seq(S) /\ Len(s) \in Nat /\ Len(t) \in Nat /\ Len(s) > 0
  BY ConcatProperties, LenProperties, EmptySeq
<1>2. s \o t # <<>>
  BY ConcatEqualIffEmpty
<1>3. Head(s \o t) = Head(s)
  BY <1>1, ConcatProperties
<1>4. Tail(s \o t) \in Seq(S) /\ Tail(s) \in Seq(S) /\ Tail(s) \o t \in Seq(S)
  BY <1>1, <1>2, HeadTailProperties, ConcatProperties
<1>5. Len(Tail(s)) = Len(s) - 1 /\ Len(s \o t) = Len(s) + Len(t)
  BY HeadTailProperties, ConcatProperties
<1>6. Len(Tail(s \o t)) = (Len(s) + Len(t)) - 1 /\ Len(Tail(s) \o t) = (Len(s) + Len(t)) - 1
  BY <1>1, <1>2, <1>4, <1>5, HeadTailProperties, ConcatProperties
<1>7. ASSUME NEW i \in 1..((Len(s) + Len(t)) - 1)
      PROVE  Tail(s \o t)[i] = (Tail(s) \o t)[i]
  <2>1. Tail(s \o t)[i] = (s \o t)[i + 1]
    BY <1>1, <1>2, <1>6, HeadTailProperties
  <2>2. (s \o t)[i + 1] = IF i + 1 <= Len(s) THEN s[i + 1] ELSE t[i + 1 - Len(s)]
    BY <1>1, <1>5, ConcatProperties
  <2>3. (Tail(s) \o t)[i] = IF i <= Len(s) - 1 THEN Tail(s)[i] ELSE t[i - (Len(s) - 1)]
    BY <1>1, <1>4, <1>5, <1>6, ConcatProperties
  <2>4. i <= Len(s) - 1 => Tail(s)[i] = s[i + 1]
    BY <1>1, <1>5, HeadTailProperties
  <2> QED BY <1>1, <2>1, <2>2, <2>3, <2>4
<1> QED BY <1>2, <1>3, <1>4, <1>6, <1>7, SeqEqual

LEMMA AppendToConcat ==
    ASSUME NEW S, NEW s \in Seq(S), NEW t \in Seq(S), NEW x \in S
    PROVE  s \o Append(t, x) = Append(s \o t, x)
<1>1. <<x>> \in Seq(S) /\ s \o t \in Seq(S)
  BY ConcatProperties
<1>2. Append(t, x) = t \o <<x>> /\ Append(s \o t, x) = (s \o t) \o <<x>>
  BY <1>1, AppendIsConcat
<1> QED BY <1>1, <1>2, ConcatAssociative

LEMMA LogAppended ==
    ASSUME TypeOK, NEW p \in Payload, log' = Append(log, p)
    PROVE  /\ LogKept
           /\ Len(log') = Len(log) + 1
           /\ log'[Len(log) + 1] = p
BY AppendProperties, LenProperties DEF TypeOK, LogKept

LEMMA LogUnchanged == ASSUME TypeOK, log' = log PROVE LogKept
BY LenProperties DEF TypeOK, LogKept

LEMMA CoveredKept ==
    ASSUME TypeOK, TypeOK', LogKept, NEW n, Recorded(n), NEW S, Covered(n, S)
    PROVE  n \in 0..Len(log') /\ \A i \in 1..n : log'[i] \cap Ins \subseteq S
<1>1. Len(log) \in Nat /\ Len(log') \in Nat
  BY LenProperties DEF TypeOK
<1>2. n \in Nat /\ n <= Len(log)
  BY <1>1 DEF Recorded
<1>3. \A i \in 1..n : log'[i] = log[i]
  BY <1>1, <1>2 DEF LogKept
<1> QED BY <1>1, <1>2, <1>3 DEF LogKept, Covered

LEMMA ReadKept ==
    ASSUME TypeOK, TypeOK', LogKept, ReadCovered, Steady
    PROVE  ReadCovered'
<1>1. /\ sub.lastSeq \in 0..Len(log')
      /\ \A i \in 1..sub.lastSeq : log'[i] \cap Ins \subseteq sub.ydoc
  BY CoveredKept DEF ReadCovered
<1> QED BY <1>1 DEF ReadCovered, Recorded, Covered, Steady

LEMMA StoredKept ==
    ASSUME TypeOK, TypeOK', LogKept, CheckpointCovered, SnapshotCovered,
           UNCHANGED <<ckpt, snap>>
    PROVE  CheckpointCovered' /\ SnapshotCovered'
<1>1. /\ ckpt.seq \in 0..Len(log')
      /\ \A i \in 1..ckpt.seq : log'[i] \cap Ins \subseteq ckpt.sv
  BY CoveredKept DEF CheckpointCovered
<1>2. /\ snap.seq \in 0..Len(log')
      /\ \A i \in 1..snap.seq : log'[i] \cap Ins \subseteq snap.content
  BY CoveredKept DEF SnapshotCovered
<1> QED BY <1>1, <1>2 DEF CheckpointCovered, SnapshotCovered, Recorded, Covered

LEMMA CapturesStillCovered ==
    ASSUME TypeOK, TypeOK', LogKept, CapturesCovered, CapturesKept
    PROVE  CapturesCovered'
<1> SUFFICES ASSUME NEW j \in 1..Len(chain'), chain'[j].k = "snapshot"
             PROVE  /\ chain'[j].seq \in 0..Len(log')
                    /\ \A i \in 1..chain'[j].seq :
                           log'[i] \cap Ins \subseteq chain'[j].payload
  BY DEF CapturesCovered, Recorded, Covered
<1>1. Recorded(chain'[j].seq) /\ Covered(chain'[j].seq, chain'[j].payload)
  <2>1. CASE \E m \in 1..Len(chain) : chain'[j] = chain[m]
    BY <2>1 DEF CapturesCovered
  <2>2. CASE Recorded(chain'[j].seq) /\ Covered(chain'[j].seq, chain'[j].payload)
    BY <2>2
  <2> QED BY <2>1, <2>2 DEF CapturesKept
<1> QED BY <1>1, CoveredKept

\* A sequence that was in the log still is.
LEMMA PlacesKept ==
    ASSUME TypeOK, TypeOK', LogKept, NEW n \in 1..Len(log) PROVE n \in 1..Len(log')
BY LenProperties DEF TypeOK, LogKept

\* What the first frames bring does not shrink as the log and the document grow
\* and frames are processed.
LEMMA ReachesKept ==
    ASSUME TypeOK, TypeOK', LogKept, sub.ydoc \subseteq sub'.ydoc,
           NEW n, Recorded(n), NEW j \in Nat, NEW l \in Nat, Reaches(n, j),
           \A m \in 1..j : Coming[m].payload \subseteq sub'.ydoc
                           \/ \E h \in 1..l : Coming[m].payload \subseteq Coming'[h].payload
    PROVE  Recorded(n)' /\ Reaches(n, l)'
<1>1. Len(log) \in Nat /\ Len(log') \in Nat
  BY LenProperties DEF TypeOK
<1>2. n \in Nat /\ n <= Len(log)
  BY <1>1 DEF Recorded
<1>3. \A i \in 1..n : log'[i] = log[i]
  BY <1>1, <1>2 DEF LogKept
<1>4. \A i \in 1..n : \A e \in log'[i] \cap Ins :
        e \in sub'.ydoc \/ \E h \in 1..l : e \in Coming'[h].payload
  BY <1>3 DEF Reaches
<1> QED BY <1>1, <1>2, <1>4 DEF LogKept, Reaches, Recorded

(***************************************************************************)
(* The queue: unchanged, grown by a frame, or with its head processed.     *)
(***************************************************************************)
LEMMA QueueSame ==
    ASSUME TypeOK, TypeOK', LogKept, QueueCovered, QueueShape, Coming' = Coming,
           sub.ydoc \subseteq sub'.ydoc, sub'.synced => sub.synced,
           sub'.decryptGapSeq = 0 => sub.decryptGapSeq = 0
    PROVE  QueueCovered' /\ QueueShape'
<1>1. QueueShape'
  BY PlacesKept DEF QueueShape
<1>2. QueueCovered'
  <2> SUFFICES ASSUME sub'.decryptGapSeq = 0, NEW j \in 1..Len(Coming), Moves(j)'
               PROVE  Recorded(Coming[j].seq)' /\ Reaches(Coming[j].seq, j)'
    BY DEF QueueCovered, Recorded, Reaches
  <2>1. Moves(j)
    BY DEF Moves
  <2>2. Recorded(Coming[j].seq) /\ Reaches(Coming[j].seq, j)
    BY <2>1 DEF QueueCovered
  <2>3. j \in Nat
    BY ComingType
  <2>4. ASSUME NEW n, n = Coming[j].seq
        PROVE  Recorded(n)' /\ Reaches(n, j)'
    BY <2>2, <2>3, <2>4, ReachesKept
  <2> QED BY <2>4 DEF Recorded, Reaches
<1> QED BY <1>1, <1>2

LEMMA QueueAppended ==
    ASSUME TypeOK, TypeOK', LogKept, QueueCovered, QueueShape,
           NEW f \in Frame, Coming' = Append(Coming, f),
           sub.ydoc \subseteq sub'.ydoc, sub'.synced => sub.synced,
           sub'.decryptGapSeq = 0 => sub.decryptGapSeq = 0,
           IF f.k \in PayloadKinds THEN f.seq \in 1..Len(log') ELSE f.payload = {},
           NEW k, k = Len(Coming) + 1,
           sub'.decryptGapSeq = 0 /\ Moves(k)' =>
               Recorded(f.seq)' /\ Reaches(f.seq, k)'
    PROVE  QueueCovered' /\ QueueShape'
<1>1. /\ Len(Coming') = Len(Coming) + 1
      /\ Coming'[Len(Coming) + 1] = f
      /\ \A m \in 1..Len(Coming) : Coming'[m] = Coming[m]
      /\ Len(Coming) \in Nat
  BY ComingType, AppendProperties
<1>2. QueueShape'
  BY <1>1, PlacesKept DEF QueueShape
<1>3. QueueCovered'
  <2> SUFFICES ASSUME sub'.decryptGapSeq = 0, NEW j \in 1..(Len(Coming) + 1), Moves(j)',
                      NEW n, n = Coming'[j].seq
               PROVE  Recorded(n)' /\ Reaches(n, j)'
    BY SMTT(20), <1>1 DEF QueueCovered, Recorded, Reaches
  <2>1. CASE j = Len(Coming) + 1
    BY <1>1, <2>1 DEF Recorded, Reaches
  <2>2. CASE j \in 1..Len(Coming)
    <3>1. Moves(j)
      BY <1>1, <2>2 DEF Moves
    <3>2. Recorded(n) /\ Reaches(n, j)
      BY <1>1, <2>2, <3>1 DEF QueueCovered
    <3>3. j \in Nat /\ \A m \in 1..j : Coming'[m] = Coming[m]
      BY <1>1, <2>2
    <3> QED BY <3>2, <3>3, ReachesKept
  <2> QED BY <1>1, <2>1, <2>2
<1> QED BY <1>2, <1>3

LEMMA QueueTaken ==
    ASSUME TypeOK, TypeOK', LogKept, QueueCovered, QueueShape,
           Coming # <<>>, Coming' = Tail(Coming),
           sub.ydoc \subseteq sub'.ydoc,
           sub'.synced => sub.synced \/ Head(Coming).k = "status",
           sub'.decryptGapSeq = 0 =>
               sub.decryptGapSeq = 0 /\ Head(Coming).payload \subseteq sub'.ydoc
    PROVE  QueueCovered' /\ QueueShape'
<1>1. /\ Len(Coming') = Len(Coming) - 1
      /\ Coming[1] = Head(Coming)
      /\ \A m \in 1..Len(Coming') : Coming'[m] = Coming[m + 1]
      /\ Len(Coming) \in Nat /\ Len(Coming') \in Nat
  BY ComingType, HeadTailProperties, LenProperties
<1>2. QueueShape'
  BY <1>1, PlacesKept DEF QueueShape
<1>3. QueueCovered'
  <2> SUFFICES ASSUME sub'.decryptGapSeq = 0, NEW j \in 1..Len(Coming'), Moves(j)',
                      NEW n, n = Coming'[j].seq
               PROVE  Recorded(n)' /\ Reaches(n, j)'
    BY <1>1 DEF QueueCovered, Recorded, Reaches
  <2>1. Coming'[j] = Coming[j + 1] /\ j + 1 \in 1..Len(Coming) /\ j \in Nat
    BY <1>1
  <2>2. Moves(j + 1)
    <3>1. CASE Coming'[j].k \in {"snapshot", "catchup", "status"}
      BY <2>1, <3>1 DEF Moves
    <3>2. CASE Coming'[j].k \in {"update", "ack"} /\ sub'.synced
      <4>1. sub.synced \/ (1 \in 1..((j + 1) - 1) /\ Coming[1].k = "status")
        BY <1>1, <2>1, <3>2
      <4> QED BY <2>1, <3>2, <4>1 DEF Moves
    <3>3. CASE /\ Coming'[j].k \in {"update", "ack"}
               /\ \E m \in 1..(j - 1) : Coming'[m].k = "status"
      <4>1. PICK m \in 1..(j - 1) : Coming'[m].k = "status"
        BY <3>3
      <4>2. m + 1 \in 1..((j + 1) - 1) /\ Coming[m + 1].k = "status"
        BY <1>1, <2>1, <4>1
      <4> QED BY <2>1, <3>3, <4>2 DEF Moves
    <3> QED BY <3>1, <3>2, <3>3 DEF Moves
  <2>3. Recorded(n) /\ Reaches(n, j + 1)
    BY <2>1, <2>2 DEF QueueCovered
  <2>4. \A m \in 1..(j + 1) :
            Coming[m].payload \subseteq sub'.ydoc
            \/ \E h \in 1..j : Coming[m].payload \subseteq Coming'[h].payload
    <3> SUFFICES ASSUME NEW m \in 1..(j + 1)
                 PROVE  Coming[m].payload \subseteq sub'.ydoc
                        \/ \E h \in 1..j : Coming[m].payload \subseteq Coming'[h].payload
      OBVIOUS
    <3>1. CASE m = 1
      BY <1>1, <3>1
    <3>2. CASE m # 1
      <4>1. m - 1 \in 1..j /\ m - 1 \in 1..Len(Coming') /\ (m - 1) + 1 = m
        BY <1>1, <2>1, <3>2
      <4>2. Coming'[m - 1] = Coming[m]
        BY <1>1, <4>1
      <4> QED BY <4>1, <4>2
    <3> QED BY <3>1, <3>2
  <2>5. j \in Nat /\ j + 1 \in Nat
    BY <2>1
  <2> HIDE DEF LogKept
  <2> QED BY ZenonT(60), <2>3, <2>4, <2>5, ReachesKept
<1> QED BY <1>2, <1>3

\* Nothing recorded in the step, and nothing that was to come dropped.
LEMMA TailKept ==
    ASSUME TypeOK, TypeOK', log' = log, TailCovered, sub.ydoc \subseteq sub'.ydoc,
           open' /\ sub'.seqReady => open /\ sub.seqReady,
           sub'.decryptGapSeq = 0 =>
               /\ sub.decryptGapSeq = 0
               /\ \A m \in 1..Len(Coming) :
                      Coming[m].payload \subseteq sub'.ydoc
                      \/ \E h \in 1..Len(Coming') : Coming[m].payload \subseteq Coming'[h].payload
    PROVE  TailCovered'
<1> SUFFICES ASSUME open', sub'.seqReady, sub'.decryptGapSeq = 0, NEW n, n = Len(log),
                    NEW j, j = Len(Coming), NEW l, l = Len(Coming')
             PROVE  Reaches(n, l)'
  BY DEF TailCovered
<1>1. j \in Nat /\ l \in Nat /\ Recorded(n)
  BY SMTT(20), ComingType, LenProperties DEF TypeOK, Recorded, Coming
<1>2. Reaches(n, j)
  BY DEF TailCovered
<1> QED BY <1>1, <1>2, LogUnchanged, ReachesKept

(***************************************************************************)
(* The kinds of step.                                                      *)
(***************************************************************************)
\* A step that leaves the wire and the read position alone.
LEMMA Quiet ==
    ASSUME TypeOK, TypeOK', HoleInv, Steady, CapturesKept, OwnWorkHeld',
           UNCHANGED <<log, snap, registered, open, ckpt>>,
           Coming' = Coming, ~open => net' = <<>>
    PROVE  HoleInv'
<1>1. LogKept
  BY LogUnchanged
<1>2. ReadCovered' /\ CheckpointCovered' /\ SnapshotCovered' /\ CapturesCovered'
  BY <1>1, ReadKept, StoredKept, CapturesStillCovered DEF HoleInv
<1>3. QueueCovered' /\ QueueShape'
  BY <1>1, QueueSame DEF HoleInv, Steady
<1>4. TailCovered'
  BY TailKept DEF HoleInv, Steady
<1>5. SocketShape'
  BY DEF HoleInv, SocketShape, Steady
<1> QED BY <1>2, <1>3, <1>4, <1>5 DEF HoleInv

\* The server sends a frame that says nothing of the log.
LEMMA Told ==
    ASSUME TypeOK, TypeOK', HoleInv, Steady, CapturesKept, OwnWorkHeld', open,
           UNCHANGED <<log, snap, registered, open, recv, ckpt>>,
           NEW f \in Frame, f.k = "compact", f.payload = {}, net' = Append(net, f)
    PROVE  HoleInv'
<1>1. LogKept
  BY LogUnchanged
<1>2. ReadCovered' /\ CheckpointCovered' /\ SnapshotCovered' /\ CapturesCovered'
  BY <1>1, ReadKept, StoredKept, CapturesStillCovered DEF HoleInv
<1>3. Coming' = Append(Coming, f)
  <2>1. recv \in Seq(Frame) /\ net \in Seq(Frame) /\ Coming' = recv \o Append(net, f)
    BY DEF Coming, TypeOK
  <2> QED BY <2>1, AppendToConcat DEF Coming
<1>4. /\ Len(Coming') = Len(Coming) + 1
      /\ Coming'[Len(Coming) + 1] = f
      /\ \A m \in 1..Len(Coming) : Coming'[m] = Coming[m]
      /\ Len(Coming) \in Nat
  BY <1>3, ComingType, AppendProperties
<1>5. QueueCovered' /\ QueueShape'
  <2> SUFFICES ASSUME NEW k, k = Len(Coming) + 1 PROVE QueueCovered' /\ QueueShape'
    OBVIOUS
  <2>1. f.k \notin PayloadKinds /\ f.k \notin {"status", "ack"}
    BY DEF PayloadKinds
  <2>2. ~Moves(k)'
    BY <1>4, <2>1 DEF Moves, PayloadKinds
  <2> QED BY <1>1, <1>3, <2>1, <2>2, QueueAppended DEF HoleInv, Steady
<1>6. TailCovered'
  BY <1>4, TailKept DEF HoleInv, Steady
<1>7. SocketShape'
  BY <1>4 DEF HoleInv, SocketShape, Steady
<1> QED BY <1>2, <1>5, <1>6, <1>7 DEF HoleInv

\* The client processes the frame at the head of its queue.
LEMMA Taken ==
    ASSUME TypeOK, TypeOK', HoleInv, CapturesKept, OwnWorkHeld', ReadCovered',
           UNCHANGED <<log, snap, registered, open, net, ckpt>>,
           recv # <<>>, recv' = Tail(recv),
           sub.ydoc \subseteq sub'.ydoc, sub'.seqReady = sub.seqReady,
           sub'.synced => sub.synced \/ Head(recv).k = "status",
           sub'.decryptGapSeq = 0 =>
               sub.decryptGapSeq = 0 /\ Head(recv).payload \subseteq sub'.ydoc
    PROVE  HoleInv'
<1>1. LogKept
  BY LogUnchanged
<1>2. CheckpointCovered' /\ SnapshotCovered' /\ CapturesCovered'
  BY <1>1, StoredKept, CapturesStillCovered DEF HoleInv
<1>3. Coming # <<>> /\ Coming' = Tail(Coming) /\ Head(Coming) = Head(recv)
  <2>1. recv \in Seq(Frame) /\ net \in Seq(Frame) /\ Coming' = Tail(recv) \o net
    BY DEF Coming, TypeOK
  <2>2. recv \o net # <<>> /\ Head(recv \o net) = Head(recv)
        /\ Tail(recv \o net) = Tail(recv) \o net
    BY <2>1, TailOfConcat
  <2> QED BY <2>1, <2>2 DEF Coming
<1>4. /\ Len(Coming') = Len(Coming) - 1
      /\ Coming[1] = Head(recv)
      /\ \A m \in 1..Len(Coming') : Coming'[m] = Coming[m + 1]
      /\ Len(Coming) \in Nat /\ Len(Coming) > 0
  BY <1>3, ComingType, HeadTailProperties, LenProperties, EmptySeq
<1>5. QueueCovered' /\ QueueShape'
  BY <1>1, <1>3, QueueTaken DEF HoleInv
<1>6. TailCovered'
  <2>1. ASSUME NEW m \in 1..Len(Coming), sub'.decryptGapSeq = 0
        PROVE  Coming[m].payload \subseteq sub'.ydoc
               \/ \E h \in 1..Len(Coming') : Coming[m].payload \subseteq Coming'[h].payload
    <3>1. CASE m = 1
      BY <1>4, <2>1, <3>1
    <3>2. CASE m # 1
      <4>1. m - 1 \in 1..Len(Coming') /\ (m - 1) + 1 = m
        BY <1>4, <3>2
      <4>2. Coming'[m - 1] = Coming[m]
        BY <1>4, <4>1
      <4> QED BY <4>1, <4>2
    <3> QED BY <3>1, <3>2
  <2> QED BY <2>1, TailKept DEF HoleInv
<1>7. SocketShape'
  BY <1>4 DEF HoleInv, SocketShape
<1> QED BY <1>2, <1>5, <1>6, <1>7 DEF HoleInv

\* An update is recorded while the server broadcasts nothing here.
LEMMA LoggedAlone ==
    ASSUME TypeOK, TypeOK', HoleInv, Steady, CapturesKept, OwnWorkHeld', ~registered,
           UNCHANGED <<snap, registered, open, net, recv, ckpt>>,
           NEW p \in Payload, log' = Append(log, p)
    PROVE  HoleInv'
<1>1. LogKept
  BY LogAppended
<1>2. ReadCovered' /\ CheckpointCovered' /\ SnapshotCovered' /\ CapturesCovered'
  BY <1>1, ReadKept, StoredKept, CapturesStillCovered DEF HoleInv
<1>3. QueueCovered' /\ QueueShape'
  <2>1. Coming' = Coming
    BY DEF Coming
  <2> QED BY <1>1, <2>1, QueueSame DEF HoleInv, Steady
<1>4. TailCovered'
  BY DEF HoleInv, SocketShape, Steady, TailCovered
<1>5. SocketShape'
  BY DEF HoleInv, SocketShape, Steady, Coming
<1> QED BY <1>2, <1>3, <1>4, <1>5 DEF HoleInv

\* An update is recorded and the client's socket told, with the update or, if it
\* is the client's own, with an Ack. One that has not subscribed may be told too.
LEMMA LoggedTold ==
    ASSUME TypeOK, TypeOK', HoleInv, Steady, CapturesKept, OwnWorkHeld', open,
           UNCHANGED <<snap, open, recv, ckpt>>, registered',
           NEW p \in Payload, log' = Append(log, p),
           NEW f \in Frame, net' = Append(net, f), f.seq = Len(log) + 1,
           \/ f.k = "ack" /\ f.payload = {} /\ p \subseteq sub.ydoc
           \/ f.k = "update" /\ f.payload = p
    PROVE  HoleInv'
<1>1. LogKept /\ Len(log') = Len(log) + 1 /\ log'[Len(log) + 1] = p
  BY LogAppended
<1>2. ReadCovered' /\ CheckpointCovered' /\ SnapshotCovered' /\ CapturesCovered'
  BY <1>1, ReadKept, StoredKept, CapturesStillCovered DEF HoleInv
<1>3. Coming' = Append(Coming, f)
  <2>1. recv \in Seq(Frame) /\ net \in Seq(Frame) /\ Coming' = recv \o Append(net, f)
    BY DEF Coming, TypeOK
  <2> QED BY <2>1, AppendToConcat DEF Coming
<1>4. /\ Len(Coming') = Len(Coming) + 1
      /\ Coming'[Len(Coming) + 1] = f
      /\ \A m \in 1..Len(Coming) : Coming'[m] = Coming[m]
      /\ Len(Coming) \in Nat
  BY <1>3, ComingType, AppendProperties
<1>5. Len(log) \in Nat
  BY ComingType
<1>6. ASSUME sub.seqReady, sub'.decryptGapSeq = 0,
             NEW n, n = Len(log) + 1, NEW k, k = Len(Coming) + 1
      PROVE  Recorded(n)' /\ Reaches(n, k)'
  <2>1. Recorded(n)'
    BY <1>1, <1>5, <1>6 DEF Recorded
  <2>2. ASSUME NEW h, h = Len(log), NEW j, j = Len(Coming)
        PROVE  Reaches(h, k)'
    <3>1. Reaches(h, j) /\ Recorded(h) /\ j \in Nat /\ k \in Nat
      BY <1>4, <1>5, <1>6, <2>2 DEF HoleInv, TailCovered, Steady, Recorded
    <3>2. \A m \in 1..j : m \in 1..k /\ Coming'[m] = Coming[m]
      BY <1>4, <1>6, <2>2
    <3> QED BY <1>1, <3>1, <3>2, ReachesKept DEF Steady
  <2>3. k \in 1..k /\ p \subseteq sub'.ydoc \cup Coming'[k].payload
    BY <1>4, <1>6 DEF Steady
  <2>4. ASSUME NEW i \in 1..n, NEW e \in log'[i] \cap Ins
        PROVE  e \in sub'.ydoc \/ \E m \in 1..k : e \in Coming'[m].payload
    <3>1. CASE i = n
      BY <1>1, <1>6, <2>3, <2>4, <3>1
    <3>2. CASE i \in 1..Len(log)
      BY <2>2, <2>4, <3>2 DEF Reaches
    <3> QED BY <1>5, <1>6, <3>1, <3>2
  <2> QED BY <2>1, <2>4 DEF Reaches
<1>7. QueueCovered' /\ QueueShape'
  <2> SUFFICES ASSUME NEW k, k = Len(Coming) + 1, NEW n, n = Len(log) + 1
               PROVE  QueueCovered' /\ QueueShape'
    OBVIOUS
  <2>1. IF f.k \in PayloadKinds THEN f.seq \in 1..Len(log') ELSE f.payload = {}
    BY <1>1, <1>5 DEF PayloadKinds
  <2>2. ASSUME sub'.decryptGapSeq = 0, Moves(k)'
        PROVE  Recorded(n)' /\ Reaches(n, k)'
    <3>1. CASE sub.seqReady
      BY <1>6, <2>2, <3>1
    <3>2. CASE ~sub.seqReady
      <4>1. ~sub.synced /\ \A m \in 1..Len(Coming) : Coming[m].k # "status"
        BY <3>2 DEF HoleInv, SocketShape
      <4> QED BY <1>4, <2>2, <4>1 DEF Moves, Steady
    <3> QED BY <3>1, <3>2
  <2>3. f.seq = n
    OBVIOUS
  <2> QED BY <1>1, <1>3, <2>1, <2>2, <2>3, QueueAppended DEF HoleInv, Steady
<1>8. TailCovered'
  <2> SUFFICES ASSUME sub.seqReady, sub'.decryptGapSeq = 0,
                      NEW n, n = Len(log'), NEW k, k = Len(Coming')
               PROVE  Reaches(n, k)'
    BY DEF TailCovered, Steady
  <2> QED BY <1>1, <1>4, <1>6
<1>9. SocketShape'
  <2>1. f.k # "status"
    OBVIOUS
  <2> QED BY <1>4, <2>1 DEF HoleInv, SocketShape, Steady
<1> QED BY <1>2, <1>7, <1>8, <1>9 DEF HoleInv

(***************************************************************************)
(* The Subscribe, and what the server answers it with.                     *)
(***************************************************************************)
\* The frames of the answer, by place: the snapshot if it is newer, then the
\* updates behind it, then the status.
LEMMA CatchUpByPlace ==
    ASSUME TypeOK, NEW from \in Nat, NEW base \in Nat,
           base = Larger(from, snap.seq), base <= Len(log),
           NEW a \in 0..1, a = (IF from < snap.seq THEN 1 ELSE 0),
           NEW n \in Nat, n = a + (Len(log) - base)
    PROVE  /\ CatchUpFrames(from) \in Seq(Frame)
           /\ Len(CatchUpFrames(from)) = n + 1
           /\ a = 1 => CatchUpFrames(from)[1] = MkFrame("snapshot", snap.seq, snap.content)
           /\ \A j \in (a + 1)..n :
                  CatchUpFrames(from)[j]
                      = MkFrame("catchup", base + (j - a), log[base + (j - a)])
           /\ CatchUpFrames(from)[n + 1] = MkFrame("status", Len(log), {})
<1> DEFINE first == IF from < snap.seq
                    THEN <<MkFrame("snapshot", snap.seq, snap.content)>> ELSE <<>>
           rest == [i \in 1..(Len(log) - base) |-> MkFrame("catchup", base + i, log[base + i])]
           last == <<MkFrame("status", Len(log), {})>>
<1>1. base \in Nat /\ Len(log) \in Nat /\ Len(log) - base \in Nat /\ a \in 0..1 /\ n \in Nat
  <2>1. snap.seq \in Nat /\ Len(log) \in Nat
    BY LenProperties DEF TypeOK
  <2>2. base \in Nat
    BY <2>1, LargerNat
  <2> QED BY <2>1, <2>2
<1>2. ASSUME NEW i \in 1..(Len(log) - base)
      PROVE  MkFrame("catchup", base + i, log[base + i]) \in Frame
  <2>1. base + i \in 1..Len(log) /\ base + i \in Nat
    BY <1>1
  <2>2. log[base + i] \in Payload
    BY <2>1, ElementOfSeq DEF TypeOK
  <2> QED BY <2>1, <2>2, MkFrameType
<1>3. rest \in Seq(Frame) /\ Len(rest) = Len(log) - base
  <2>1. rest \in [1..(Len(log) - base) -> Frame]
    BY <1>2
  <2>2. DOMAIN rest = 1..(Len(log) - base)
    OBVIOUS
  <2> HIDE DEF rest
  <2>3. rest \in Seq(Frame)
    BY SMTT(20), <1>1, <2>1, SeqOfFunction
  <2>4. DOMAIN rest = 1..Len(rest) /\ Len(rest) \in Nat
    BY <2>3, LenProperties
  <2> QED BY <1>1, <2>2, <2>3, <2>4
<1>4. first \in Seq(Frame) /\ Len(first) = a
      /\ (a = 1 => first[1] = MkFrame("snapshot", snap.seq, snap.content))
  <2>1. MkFrame("snapshot", snap.seq, snap.content) \in Frame
    BY DEF TypeOK, MkFrame, Frame
  <2> QED BY <2>1
<1>5. last \in Seq(Frame) /\ Len(last) = 1 /\ last[1] = MkFrame("status", Len(log), {})
  <2>1. MkFrame("status", Len(log), {}) \in Frame
    BY <1>1 DEF MkFrame, Frame, Payload
  <2> QED BY <2>1
<1>6. CatchUpFrames(from) = (first \o rest) \o last
  BY DEF CatchUpFrames
<1> HIDE DEF first, rest, last
<1>7. /\ first \o rest \in Seq(Frame)
      /\ Len(first \o rest) = n
      /\ \A i \in 1..n : (first \o rest)[i] = IF i <= a THEN first[i] ELSE rest[i - a]
  <2>1. n = Len(first) + Len(rest)
    BY <1>3, <1>4
  <2>2. /\ first \o rest \in Seq(Frame)
        /\ Len(first \o rest) = Len(first) + Len(rest)
        /\ \A i \in 1..(Len(first) + Len(rest)) :
               (first \o rest)[i] = IF i <= Len(first) THEN first[i] ELSE rest[i - Len(first)]
    BY <1>3, <1>4, ConcatProperties
  <2> QED BY <1>4, <2>1, <2>2
<1>8. /\ CatchUpFrames(from) \in Seq(Frame)
      /\ Len(CatchUpFrames(from)) = n + 1
      /\ \A i \in 1..(n + 1) : CatchUpFrames(from)[i] =
             IF i <= n THEN (first \o rest)[i] ELSE last[i - n]
  <2> DEFINE both == first \o rest
  <2> HIDE DEF both
  <2>1. both \in Seq(Frame) /\ Len(both) = n
    BY <1>7 DEF both
  <2>2. /\ both \o last \in Seq(Frame)
        /\ Len(both \o last) = Len(both) + Len(last)
        /\ \A i \in 1..(Len(both) + Len(last)) :
               (both \o last)[i] = IF i <= Len(both) THEN both[i] ELSE last[i - Len(both)]
    BY <1>5, <2>1, ConcatProperties
  <2> QED BY <1>5, <1>6, <2>1, <2>2 DEF both
<1>9. a = 1 => CatchUpFrames(from)[1] = MkFrame("snapshot", snap.seq, snap.content)
  <2> SUFFICES ASSUME a = 1
               PROVE  CatchUpFrames(from)[1] = MkFrame("snapshot", snap.seq, snap.content)
    OBVIOUS
  <2>1. 1 \in 1..n /\ 1 \in 1..(n + 1) /\ 1 <= n /\ 1 <= a
    BY <1>1
  <2>2. CatchUpFrames(from)[1] = (first \o rest)[1]
    BY <1>8, <2>1
  <2>3. (first \o rest)[1] = first[1]
    BY <1>7, <2>1
  <2> QED BY <1>4, <2>2, <2>3
<1>10. ASSUME NEW j \in (a + 1)..n
       PROVE  CatchUpFrames(from)[j] = MkFrame("catchup", base + (j - a), log[base + (j - a)])
  <2>1. j \in 1..n /\ ~(j <= a) /\ j <= n /\ j \in 1..(n + 1) /\ j - a \in 1..(Len(log) - base)
    BY <1>1
  <2>2. CatchUpFrames(from)[j] = rest[j - a]
    BY <1>7, <1>8, <2>1
  <2> QED BY <2>1, <2>2 DEF rest
<1>11. CatchUpFrames(from)[n + 1] = MkFrame("status", Len(log), {})
  <2>1. \A x \in Nat : x + 1 \in 1..(x + 1) /\ ~(x + 1 <= x) /\ (x + 1) - x = 1
    OBVIOUS
  <2> QED BY SMTT(20), <1>5, <1>8, <2>1
<1> QED BY <1>8, <1>9, <1>10, <1>11

\* Together with the document they hold all that their sequences cover.
LEMMA CatchUpCovers ==
    ASSUME TypeOK, SnapshotCovered, NEW from \in Nat, Recorded(from),
           Covered(from, sub.ydoc), NEW Q, Q = CatchUpFrames(from)
    PROVE  /\ Q \in Seq(Frame)
           /\ Len(Q) \in Nat \ {0}
           /\ Q[Len(Q)].k = "status" /\ Q[Len(Q)].seq = Len(log)
           /\ \A j \in 1..Len(Q) :
                  /\ Q[j].k \in PayloadKinds \cup {"status"}
                  /\ IF Q[j].k \in PayloadKinds THEN Q[j].seq > 0 ELSE Q[j].payload = {}
                  /\ Recorded(Q[j].seq)
                  /\ \A i \in 1..Q[j].seq : \A e \in log[i] \cap Ins :
                         e \in sub.ydoc \/ \E m \in 1..j : e \in Q[m].payload
<1> DEFINE a == IF from < snap.seq THEN 1 ELSE 0
           base == Larger(from, snap.seq)
           n == a + (Len(log) - base)
<1>1. Len(log) \in Nat /\ snap.seq \in Nat /\ from <= Len(log) /\ snap.seq <= Len(log)
  BY LenProperties DEF TypeOK, SnapshotCovered, Recorded
<1>2. base \in Nat /\ base <= Len(log) /\ a \in 0..1 /\ n \in Nat
      /\ (a = 1 => base = snap.seq /\ snap.seq > 0) /\ (a = 0 => base = from)
  BY <1>1 DEF Larger
<1> HIDE DEF base, a
<1>3. n = a + (Len(log) - base)
  OBVIOUS
<1> HIDE DEF n
<1>4. /\ Q \in Seq(Frame)
      /\ Len(Q) = n + 1
      /\ a = 1 => Q[1] = MkFrame("snapshot", snap.seq, snap.content)
      /\ \A j \in (a + 1)..n : Q[j] = MkFrame("catchup", base + (j - a), log[base + (j - a)])
      /\ Q[n + 1] = MkFrame("status", Len(log), {})
  <2> SUFFICES ASSUME NEW b \in Nat, b = base, NEW c \in 0..1, c = a, NEW l \in Nat, l = n
               PROVE  /\ CatchUpFrames(from) \in Seq(Frame)
                      /\ Len(CatchUpFrames(from)) = l + 1
                      /\ c = 1 => CatchUpFrames(from)[1]
                                     = MkFrame("snapshot", snap.seq, snap.content)
                      /\ \A j \in (c + 1)..l : CatchUpFrames(from)[j]
                             = MkFrame("catchup", b + (j - c), log[b + (j - c)])
                      /\ CatchUpFrames(from)[l + 1] = MkFrame("status", Len(log), {})
    BY <1>2
  <2>1. b = Larger(from, snap.seq) /\ b <= Len(log)
        /\ c = (IF from < snap.seq THEN 1 ELSE 0) /\ l = c + (Len(log) - b)
    BY <1>2, <1>3 DEF base, a
  <2> QED BY ZenonT(60), <2>1, CatchUpByPlace
<1>5. ASSUME NEW j \in (a + 1)..n
      PROVE  /\ Q[j].k = "catchup" /\ Q[j].seq = base + (j - a)
             /\ Q[j].payload = log[base + (j - a)]
  <2>1. Q[j] = MkFrame("catchup", base + (j - a), log[base + (j - a)])
    BY <1>4
  <2> QED BY <2>1 DEF MkFrame
<1>6. ASSUME NEW i \in 1..base, NEW e \in log[i] \cap Ins
      PROVE  e \in sub.ydoc \/ (a = 1 /\ e \in Q[1].payload)
  <2>1. CASE a = 1
    BY <1>2, <1>4, <2>1 DEF SnapshotCovered, Covered, MkFrame
  <2>2. CASE a = 0
    BY <1>2, <2>2 DEF Covered
  <2> QED BY <1>2, <2>1, <2>2
<1>7. ASSUME NEW j \in 1..Len(Q), NEW i \in 1..(base + (j - a)), i <= Len(log),
             j > a, NEW e \in log[i] \cap Ins
      PROVE  e \in sub.ydoc \/ \E m \in 1..j : e \in Q[m].payload
  <2>1. CASE i <= base
    <3>1. i \in 1..base /\ (a = 1 => 1 \in 1..j)
      BY <1>2, <1>4, <2>1
    <3> QED BY <1>6, <3>1
  <2>2. CASE i > base
    <3> DEFINE m == a + (i - base)
    <3>1. m \in 1..j /\ m \in (a + 1)..n /\ base + (m - a) = i
      <4>1. Len(Q) = n + 1
        BY <1>4
      <4> QED BY <1>1, <1>2, <1>7, <1>3, <2>2, <4>1
    <3> HIDE DEF m
    <3>2. Q[m].payload = log[i]
      BY <1>5, <3>1
    <3> QED BY <3>1, <3>2
  <2> QED BY <1>2, <2>1, <2>2
<1>8. ASSUME NEW j \in 1..Len(Q)
      PROVE  /\ Q[j].k \in PayloadKinds \cup {"status"}
             /\ IF Q[j].k \in PayloadKinds THEN Q[j].seq > 0 ELSE Q[j].payload = {}
             /\ Recorded(Q[j].seq)
             /\ \A i \in 1..Q[j].seq : \A e \in log[i] \cap Ins :
                    e \in sub.ydoc \/ \E m \in 1..j : e \in Q[m].payload
  <2>1. CASE j <= a
    <3>1. a = 1 /\ j = 1
      BY <1>2, <2>1
    <3>2. Q[j].k = "snapshot" /\ Q[j].seq = snap.seq /\ base = snap.seq /\ snap.seq > 0
      BY <1>2, <1>4, <3>1 DEF MkFrame
    <3>3. 1 \in 1..j
      BY <3>1
    <3> QED BY <1>1, <1>6, <3>1, <3>2, <3>3 DEF PayloadKinds, Recorded
  <2>2. CASE j > a /\ j <= n
    <3>1. j \in (a + 1)..n /\ base + (j - a) \in 1..Len(log)
      BY <1>1, <1>2, <1>4, <1>3, <2>2
    <3>2. Q[j].k = "catchup" /\ Q[j].seq = base + (j - a)
      BY <1>5, <3>1
    <3>3. Recorded(Q[j].seq) /\ Q[j].seq > 0
      BY <1>1, <3>1, <3>2 DEF Recorded
    <3>4. \A i \in 1..Q[j].seq : i \in 1..(base + (j - a)) /\ i <= Len(log)
      BY <1>1, <3>1, <3>2
    <3> QED BY <1>7, <2>2, <3>2, <3>3, <3>4 DEF PayloadKinds
  <2>3. CASE j = n + 1
    <3>1. Q[j].k = "status" /\ Q[j].seq = Len(log) /\ Q[j].payload = {}
      BY <1>4, <2>3 DEF MkFrame
    <3>2. Recorded(Q[j].seq)
      BY <1>1, <3>1 DEF Recorded
    <3>3. j > a
      BY <1>1, <1>2, <1>3, <2>3
    <3>4. \A i \in 1..Q[j].seq : i \in 1..(base + (j - a)) /\ i <= Len(log)
      BY <1>1, <1>2, <1>3, <2>3, <3>1
    <3> QED BY <1>7, <3>1, <3>2, <3>3, <3>4 DEF PayloadKinds
  <2>4. j <= a \/ (j > a /\ j <= n) \/ j = n + 1
    <3>1. Len(Q) = n + 1
      BY <1>4
    <3> QED BY <1>2, <3>1
  <2> QED BY <2>1, <2>2, <2>3, <2>4
<1>9. Q[n + 1].k = "status" /\ Q[n + 1].seq = Len(log)
  BY <1>4 DEF MkFrame
<1> QED BY <1>2, <1>4, <1>8, <1>9

LEMMA Subscribed ==
    ASSUME TypeOK, TypeOK', HoleInv, NEW s \in DocSubscription, DoSendSubscribe(s),
           s.ydoc = sub.ydoc, s.pending = sub.pending,
           s.decryptGapSeq = sub.decryptGapSeq, s.seqReady, s.synced => sub.synced,
           Recorded(s.lastSeq), Covered(s.lastSeq, sub.ydoc),
           UNCHANGED <<recv, chain, batch, deltas, ckpt>>, open'
    PROVE  HoleInv'
<1> DEFINE Q == CatchUpFrames(SubscribeFrom(s))
<1>1. /\ sub'.ydoc = sub.ydoc /\ sub'.pending = sub.pending
      /\ sub'.decryptGapSeq = sub.decryptGapSeq /\ sub'.seqReady
      /\ sub'.synced => sub.synced
      /\ sub'.lastSeq = s.lastSeq
  BY DEF DoSendSubscribe, DocSubscription
<1>2. registered' /\ net' = net \o Q /\ log' = log /\ snap' = snap
  BY DEF DoSendSubscribe, ServerSubscribe
<1>3. LogKept
  BY <1>2, LogUnchanged
<1>4. ReadCovered'
  BY <1>1, <1>2 DEF ReadCovered, Recorded, Covered
<1>5. CheckpointCovered' /\ SnapshotCovered' /\ CapturesCovered'
  <2>1. CapturesKept
    BY DEF CapturesKept
  <2> QED BY <1>2, <1>3, <2>1, StoredKept, CapturesStillCovered DEF HoleInv
<1>6. OwnWorkHeld'
  BY <1>1 DEF HoleInv, OwnWorkHeld
<1>7. SubscribeFrom(s) \in Nat /\ Recorded(SubscribeFrom(s)) /\ Covered(SubscribeFrom(s), sub.ydoc)
  <2>1. SubscribeFrom(s) \in Nat
    BY SubscribeFromType
  <2>2. SubscribeFrom(s) = 0 \/ SubscribeFrom(s) = s.lastSeq
    BY DEF SubscribeFrom
  <2>3. Recorded(0) /\ Covered(0, sub.ydoc)
    BY ComingType DEF Recorded, Covered
  <2> QED BY <2>1, <2>2, <2>3
<1>8. /\ Q \in Seq(Frame)
      /\ Len(Q) \in Nat \ {0}
      /\ Q[Len(Q)].k = "status" /\ Q[Len(Q)].seq = Len(log)
      /\ \A j \in 1..Len(Q) :
             /\ Q[j].k \in PayloadKinds \cup {"status"}
             /\ IF Q[j].k \in PayloadKinds THEN Q[j].seq > 0 ELSE Q[j].payload = {}
             /\ Recorded(Q[j].seq)
             /\ \A i \in 1..Q[j].seq : \A e \in log[i] \cap Ins :
                    e \in sub.ydoc \/ \E m \in 1..j : e \in Q[m].payload
  BY <1>7, CatchUpCovers DEF HoleInv
<1> HIDE DEF Q
<1>9. Coming' = Coming \o Q /\ Coming \in Seq(Frame) /\ Len(Coming) \in Nat
  <2>1. recv \in Seq(Frame) /\ net \in Seq(Frame) /\ Coming' = recv \o (net \o Q)
    BY <1>2 DEF Coming, TypeOK
  <2>2. (recv \o net) \o Q = recv \o (net \o Q)
    BY <1>8, <2>1, ConcatAssociative
  <2> QED BY <2>1, <2>2, ComingType DEF Coming
<1>10. /\ Len(Coming') = Len(Coming) + Len(Q)
       /\ \A j \in 1..Len(Coming) : Coming'[j] = Coming[j]
       /\ \A j \in 1..Len(Q) : Coming'[Len(Coming) + j] = Q[j]
  <2>1. /\ Len(Coming \o Q) = Len(Coming) + Len(Q)
        /\ \A i \in 1..(Len(Coming) + Len(Q)) : (Coming \o Q)[i] =
               IF i <= Len(Coming) THEN Coming[i] ELSE Q[i - Len(Coming)]
    BY <1>8, <1>9, ConcatProperties
  <2> QED BY <1>8, <1>9, <2>1
\* A frame of the answer, at its place in the queue.
<1>11. ASSUME NEW j \in 1..Len(Q), NEW h, h = Len(Coming) + j,
              NEW n, n = Coming'[h].seq
       PROVE  /\ IF Coming'[h].k \in PayloadKinds THEN n \in 1..Len(log)
                 ELSE Coming'[h].payload = {}
              /\ Recorded(n)' /\ Reaches(n, h)'
  <2>1. Coming'[h] = Q[j] /\ n = Q[j].seq
    BY <1>10, <1>11
  <2>2. Recorded(n)'
    BY <1>2, <1>8, <2>1 DEF Recorded
  <2>3. \A i \in 1..n : \A e \in log[i] \cap Ins :
            e \in sub.ydoc \/ \E m \in 1..j : e \in Q[m].payload
    BY <1>8, <2>1
  <2>4. ASSUME NEW i \in 1..n, NEW e \in log[i] \cap Ins
        PROVE  e \in sub.ydoc \/ \E m \in 1..h : e \in Coming'[m].payload
    <3>1. CASE e \in sub.ydoc
      BY <3>1
    <3>2. CASE \E m \in 1..j : e \in Q[m].payload
      <4>1. PICK m \in 1..j : e \in Q[m].payload
        BY <3>2
      <4>2. Len(Coming) + m \in 1..h /\ m \in 1..Len(Q)
        BY <1>8, <1>9, <1>11, <4>1
      <4>3. Coming'[Len(Coming) + m] = Q[m]
        BY <1>10, <4>2
      <4> QED BY <4>1, <4>2, <4>3
    <3> QED BY <2>3, <2>4, <3>1, <3>2
  <2>5. Reaches(n, h)'
    BY <1>1, <1>2, <2>4 DEF Reaches
  <2>6. IF Q[j].k \in PayloadKinds THEN Q[j].seq \in 1..Len(log) ELSE Q[j].payload = {}
    BY <1>8, ComingType DEF Recorded
  <2> QED BY <2>1, <2>2, <2>5, <2>6
<1>12. QueueShape'
  <2> SUFFICES ASSUME NEW h \in 1..Len(Coming')
               PROVE  IF Coming'[h].k \in PayloadKinds THEN Coming'[h].seq \in 1..Len(log)
                      ELSE Coming'[h].payload = {}
    BY <1>2 DEF QueueShape
  <2>1. CASE h \in 1..Len(Coming)
    BY <1>10, <2>1 DEF HoleInv, QueueShape
  <2>2. CASE h \notin 1..Len(Coming)
    <3>1. h - Len(Coming) \in 1..Len(Q) /\ h = Len(Coming) + (h - Len(Coming))
      BY <1>8, <1>9, <1>10, <2>2
    <3> QED BY <1>11, <3>1
  <2> QED BY <2>1, <2>2
<1>13. QueueCovered'
  <2> SUFFICES ASSUME sub'.decryptGapSeq = 0, NEW h \in 1..Len(Coming'), Moves(h)',
                      NEW n, n = Coming'[h].seq
               PROVE  Recorded(n)' /\ Reaches(n, h)'
    BY DEF QueueCovered, Recorded, Reaches
  <2>1. CASE h \in 1..Len(Coming)
    <3>1. h \in Nat /\ \A m \in 1..h : Coming'[m] = Coming[m]
      BY <1>9, <1>10, <2>1
    <3>2. Moves(h)
      <4>1. \A m \in 1..(h - 1) : Coming'[m] = Coming[m]
        BY <3>1
      <4> QED BY <1>1, <1>10, <2>1, <4>1 DEF Moves
    <3>3. Recorded(n) /\ Reaches(n, h)
      BY <1>1, <1>10, <2>1, <3>2 DEF HoleInv, QueueCovered
    <3> QED BY ZenonT(60), <1>1, <1>3, <3>1, <3>3, ReachesKept
  <2>2. CASE h \notin 1..Len(Coming)
    <3>1. h - Len(Coming) \in 1..Len(Q) /\ h = Len(Coming) + (h - Len(Coming))
      BY <1>8, <1>9, <1>10, <2>2
    <3> QED BY <1>11, <3>1
  <2> QED BY <2>1, <2>2
<1>14. TailCovered'
  <2> SUFFICES ASSUME NEW n, n = Len(log), NEW h, h = Len(Coming) + Len(Q)
               PROVE  Reaches(n, h)'
    BY <1>2, <1>10 DEF TailCovered, Reaches
  <2>1. Len(Q) \in 1..Len(Q)
    BY <1>8
  <2>2. Coming'[h].seq = n
    BY <1>8, <1>10, <2>1
  <2> QED BY <1>11, <2>1, <2>2
<1>15. SocketShape'
  BY <1>1, <1>2 DEF SocketShape
<1> QED BY <1>4, <1>5, <1>6, <1>12, <1>13, <1>14, <1>15 DEF HoleInv

(***************************************************************************)
(* What the helpers leave alone.                                           *)
(***************************************************************************)
SameReading(s, t) ==
    /\ t.ydoc = s.ydoc /\ t.lastSeq = s.lastSeq /\ t.synced = s.synced
    /\ t.decryptGapSeq = s.decryptGapSeq /\ t.seqReady = s.seqReady

DeltasWithin(ds, doc) == \A j \in 1..Len(ds) : ds[j].payload \subseteq doc

LEMMA HelpersKeepReading ==
    ASSUME NEW s \in DocSubscription
    PROVE  /\ SameReading(s, ScheduleSeqSave(s)) /\ ScheduleSeqSave(s).pending = s.pending
           /\ SameReading(s, SettleAck(s)) /\ SettleAck(s).pending = s.pending
           /\ SameReading(s, Held(s)) /\ Held(s).pending = s.pending
           /\ SameReading(s, ScheduleDeltaRetry(s)) /\ ScheduleDeltaRetry(s).pending = s.pending
           /\ SameReading(s, PutBack(s)) /\ PutBack(s).pending = s.pending \cup batch
           /\ SameReading(s, FailedFlush(s)) /\ FailedFlush(s).pending = s.pending \cup batch
<1>1. SameReading(s, ScheduleSeqSave(s)) /\ ScheduleSeqSave(s).pending = s.pending
  BY DEF SameReading, ScheduleSeqSave, DocSubscription
<1>2. SameReading(s, SettleAck(s)) /\ SettleAck(s).pending = s.pending
  BY <1>1 DEF SameReading, SettleAck
<1>3. SameReading(s, Held(s)) /\ Held(s).pending = s.pending
  BY DEF SameReading, Held, DocSubscription
<1>4. SameReading(s, ScheduleDeltaRetry(s)) /\ ScheduleDeltaRetry(s).pending = s.pending
  BY DEF SameReading, ScheduleDeltaRetry, DocSubscription
<1>5. SameReading(s, PutBack(s)) /\ PutBack(s).pending = s.pending \cup batch
  BY DEF SameReading, PutBack, DocSubscription
<1>6. SameReading(s, FailedFlush(s)) /\ FailedFlush(s).pending = s.pending \cup batch
  BY DEF SameReading, FailedFlush, PutBack, DocSubscription
<1> QED BY <1>1, <1>2, <1>3, <1>4, <1>5, <1>6

LEMMA MarkHeldWithin ==
    ASSUME NEW ds \in Seq(Delta), NEW doc, DeltasWithin(ds, doc)
    PROVE  DeltasWithin(MarkHeld(ds), doc)
<1>1. Len(ds) \in Nat /\ \A i \in 1..Len(ds) : ds[i] \in Delta
  BY LenProperties, ElementOfSeq
<1>2. \A i \in 1..Len(ds) : [ds[i] EXCEPT !.held = TRUE].payload = ds[i].payload
  BY <1>1 DEF Delta
<1>3. Len(MarkHeld(ds)) = Len(ds)
  <2>1. DOMAIN MarkHeld(ds) = 1..Len(ds)
    BY DEF MarkHeld
  <2>2. DOMAIN MarkHeld(ds) = 1..Len(MarkHeld(ds)) /\ Len(MarkHeld(ds)) \in Nat
    BY MarkHeldType, LenProperties
  <2> QED BY <1>1, <2>1, <2>2
<1>4. \A i \in 1..Len(ds) : MarkHeld(ds)[i] = [ds[i] EXCEPT !.held = TRUE]
  BY DEF MarkHeld
<1> QED BY <1>2, <1>3, <1>4 DEF DeltasWithin

LEMMA StaleDeltasWithin ==
    ASSUME NEW ds \in Seq(Delta), NEW doc, DeltasWithin(ds, doc)
    PROVE  DeltasWithin(Stale(ds), doc)
<1>1. Len(ds) \in Nat /\ \A i \in 1..Len(ds) : ds[i] \in Delta
  BY LenProperties, ElementOfSeq
<1>2. \A i \in 1..Len(ds) : [ds[i] EXCEPT !.live = FALSE].payload = ds[i].payload
  BY <1>1 DEF Delta
<1>3. Len(Stale(ds)) = Len(ds)
  <2>1. DOMAIN Stale(ds) = 1..Len(ds)
    BY DEF Stale
  <2>2. DOMAIN Stale(ds) = 1..Len(Stale(ds)) /\ Len(Stale(ds)) \in Nat
    BY StaleDeltas, LenProperties
  <2> QED BY <1>1, <2>1, <2>2
<1>4. \A i \in 1..Len(ds) : Stale(ds)[i] = [ds[i] EXCEPT !.live = FALSE]
  BY DEF Stale
<1> QED BY <1>2, <1>3, <1>4 DEF DeltasWithin

\* A frame that outlives its socket says the same.
LEMMA StaleFramesSay ==
    ASSUME NEW q \in Seq(Frame)
    PROVE  /\ Len(Stale(q)) = Len(q)
           /\ \A j \in 1..Len(q) : /\ Stale(q)[j].k = q[j].k
                                   /\ Stale(q)[j].seq = q[j].seq
                                   /\ Stale(q)[j].payload = q[j].payload
<1>1. Len(q) \in Nat /\ \A i \in 1..Len(q) : q[i] \in Frame
  BY LenProperties, ElementOfSeq
<1>2. \A i \in 1..Len(q) : /\ [q[i] EXCEPT !.live = FALSE].k = q[i].k
                           /\ [q[i] EXCEPT !.live = FALSE].seq = q[i].seq
                           /\ [q[i] EXCEPT !.live = FALSE].payload = q[i].payload
  BY <1>1 DEF Frame
<1>3. Len(Stale(q)) = Len(q)
  <2>1. DOMAIN Stale(q) = 1..Len(q)
    BY DEF Stale
  <2>2. DOMAIN Stale(q) = 1..Len(Stale(q)) /\ Len(Stale(q)) \in Nat
    BY StaleFrames, LenProperties
  <2> QED BY <1>1, <2>1, <2>2
<1>4. \A i \in 1..Len(q) : Stale(q)[i] = [q[i] EXCEPT !.live = FALSE]
  BY DEF Stale
<1> QED BY <1>2, <1>3, <1>4

LEMMA RemoveWithin ==
    ASSUME NEW ds \in Seq(Delta), NEW doc, DeltasWithin(ds, doc), NEW i \in 1..Len(ds)
    PROVE  DeltasWithin(Remove(ds, i), doc)
<1> DEFINE T == {x \in Delta : x.payload \subseteq doc}
<1>1. ds \in Seq(T)
  <2>1. Len(ds) \in Nat /\ ds \in [1..Len(ds) -> Delta]
    BY LenProperties
  <2>2. ds \in [1..Len(ds) -> T]
    BY <2>1 DEF DeltasWithin
  <2> HIDE DEF T
  <2> QED BY <2>1, <2>2, SeqOfFunction
<1> HIDE DEF T
<1>2. Remove(ds, i) \in Seq(T)
  BY <1>1, RemoveType
<1>3. \A j \in 1..Len(Remove(ds, i)) : Remove(ds, i)[j] \in T
  BY <1>2, ElementOfSeq
<1> QED BY <1>3 DEF T, DeltasWithin

(***************************************************************************)
(* Snapshots queued: none but of a position read.                          *)
(***************************************************************************)
LEMMA ChainSame == ASSUME TypeOK, chain' = chain PROVE CapturesKept
BY DEF CapturesKept

LEMMA ChainTail == ASSUME TypeOK, chain # <<>>, chain' = Tail(chain) PROVE CapturesKept
<1>1. /\ Len(chain') = Len(chain) - 1
      /\ \A j \in 1..Len(chain') : chain'[j] = chain[j + 1]
      /\ Len(chain) \in Nat
  BY HeadTailProperties, LenProperties DEF TypeOK
<1>2. \A j \in 1..Len(chain') : j + 1 \in 1..Len(chain) /\ chain'[j] = chain[j + 1]
  BY <1>1
<1> QED BY <1>2 DEF CapturesKept

LEMMA ChainEnqueue ==
    ASSUME TypeOK, NEW k \in {"flush", "reconcile", "retry", "snapshot"},
           NEW n \in Nat, NEW p \in Payload, Enqueue(k, n, p),
           k = "snapshot" => Recorded(n) /\ Covered(n, p)
    PROVE  CapturesKept
<1> DEFINE t == [k |-> k, seq |-> n, payload |-> p]
<1>1. CASE poisoned
  BY <1>1, ChainSame DEF Enqueue
<1>2. CASE ~poisoned
  <2>1. t \in Task /\ t.k = k /\ t.seq = n /\ t.payload = p
    BY DEF Task
  <2>2. chain' = Append(chain, t)
    BY <1>2 DEF Enqueue
  <2> HIDE DEF t
  <2>3. /\ Len(chain') = Len(chain) + 1
        /\ chain'[Len(chain) + 1] = t
        /\ \A j \in 1..Len(chain) : chain'[j] = chain[j]
        /\ Len(chain) \in Nat
    BY <2>1, <2>2, AppendProperties, LenProperties DEF TypeOK
  <2>4. ASSUME NEW j \in 1..Len(chain'), chain'[j].k = "snapshot"
        PROVE  \/ \E m \in 1..Len(chain) : chain'[j] = chain[m]
               \/ Recorded(chain'[j].seq) /\ Covered(chain'[j].seq, chain'[j].payload)
    <3>1. CASE j \in 1..Len(chain)
      BY <2>3, <3>1
    <3>2. CASE j = Len(chain) + 1
      BY <2>1, <2>3, <2>4, <3>2
    <3> QED BY <2>3, <3>1, <3>2
  <2> QED BY <2>4 DEF CapturesKept
<1> QED BY <1>1, <1>2

LEMMA SendSnapshotKeeps ==
    ASSUME TypeOK, NEW s \in DocSubscription, SendSnapshot(s),
           Recorded(s.lastSeq), Covered(s.lastSeq, s.ydoc)
    PROVE  CapturesKept
<1>1. s.lastSeq \in Nat /\ s.ydoc \in Payload
  BY DEF DocSubscription
<1> QED BY <1>1, ChainEnqueue DEF SendSnapshot

LEMMA MaybeCompactKeeps ==
    ASSUME TypeOK, NEW s \in DocSubscription, MaybeCompact(s),
           Recorded(s.lastSeq), Covered(s.lastSeq, s.ydoc)
    PROVE  CapturesKept
BY ChainSame, SendSnapshotKeeps DEF MaybeCompact

LEMMA NextBatchKeeps ==
    ASSUME TypeOK, NEW s \in DocSubscription, NextBatch(s), chain # <<>>,
           s.pending \subseteq s.ydoc
    PROVE  /\ SameReading(s, sub') /\ sub'.pending \subseteq s.ydoc
           /\ batch' \subseteq s.ydoc /\ CapturesKept
<1>1. CASE s.pending = {}
  BY <1>1, ChainTail DEF NextBatch, SameReading, DocSubscription
<1>2. CASE s.pending # {} /\ open
  BY <1>2, ChainSame DEF NextBatch, SameReading, DocSubscription
<1>3. CASE s.pending # {} /\ ~open
  BY <1>3, ChainTail DEF NextBatch, SameReading, DocSubscription
<1> QED BY <1>1, <1>2, <1>3

LEMMA SendDeltaKeeps ==
    ASSUME TypeOK, NEW s \in DocSubscription, NEW sv, SendDelta(s, sv),
           s.pending \subseteq s.ydoc, DeltasWithin(deltas, s.ydoc)
    PROVE  /\ SameReading(s, sub') /\ sub'.pending \subseteq s.ydoc
           /\ DeltasWithin(deltas', s.ydoc)
<1> DEFINE sent  == [s EXCEPT !.pending = {}, !.hasUnsentWork = FALSE,
                              !.owesReconcile = FALSE]
           delta == StateAsUpdate(s.ydoc, sv)
           clear == [sent EXCEPT !.oversizedPush = FALSE]
<1>1. /\ sent \in DocSubscription /\ SameReading(s, sent) /\ sent.pending = {}
      /\ clear \in DocSubscription /\ SameReading(s, clear) /\ clear.pending = {}
  BY DEF SameReading, DocSubscription, Payload
<1>2. delta \in Payload /\ delta \subseteq s.ydoc
  BY StateAsUpdateType DEF StateAsUpdate, DocSubscription
<1>3. CASE ~open
  BY <1>3 DEF SendDelta, SameReading
<1>4. CASE open /\ delta = {}
  <2>1. sub' = (IF s.synced THEN ScheduleSeqSave(clear) ELSE clear) /\ deltas' = deltas
    BY <1>4 DEF SendDelta
  <2> HIDE DEF clear
  <2>2. SameReading(clear, sub') /\ sub'.pending = {}
    BY <1>1, <2>1, HelpersKeepReading DEF SameReading
  <2> QED BY <1>1, <2>1, <2>2 DEF SameReading
<1>5. CASE open /\ delta # {}
  <2> DEFINE d == [payload |-> delta, live |-> TRUE, held |-> FALSE]
  <2>1. sub' = sent /\ deltas' = Append(deltas, d)
    BY <1>5 DEF SendDelta
  <2>2. d \in Delta /\ d.payload \subseteq s.ydoc
    BY <1>2 DEF Delta
  <2> HIDE DEF d, sent, delta
  <2>3. /\ Len(deltas') = Len(deltas) + 1
        /\ deltas'[Len(deltas) + 1] = d
        /\ \A j \in 1..Len(deltas) : deltas'[j] = deltas[j]
        /\ Len(deltas) \in Nat
    BY <2>1, <2>2, AppendProperties, LenProperties DEF TypeOK
  <2>4. DeltasWithin(deltas', s.ydoc)
    BY <2>2, <2>3 DEF DeltasWithin
  <2> QED BY <1>1, <2>1, <2>4
<1> QED BY <1>3, <1>4, <1>5

LEMMA TakeBackKeeps ==
    ASSUME NEW d, NEW s \in DocSubscription, TakeBack(d, s)
    PROVE  SameReading(s, sub') /\ sub'.pending = s.pending
<1> DEFINE t == IF Settles(d.live) THEN SettleAck(s) ELSE s
<1>1. t \in DocSubscription /\ SameReading(s, t) /\ t.pending = s.pending
  BY SettleAckType, HelpersKeepReading DEF SameReading
<1>2. sub' = [t EXCEPT !.owesReconcile = TRUE]
  BY DEF TakeBack
<1> HIDE DEF t
<1> QED BY <1>1, <1>2 DEF SameReading, DocSubscription

LEMMA ReadingIsSteady ==
    ASSUME SameReading(sub, sub') PROVE Steady
BY DEF SameReading, Steady

\* A push of what the document holds.
LEMMA Pushed ==
    ASSUME TypeOK, TypeOK', HoleInv, Steady, CapturesKept, OwnWorkHeld', open,
           UNCHANGED <<open, recv, ckpt>>,
           NEW p \in Payload, p \subseteq sub.ydoc, ServerPush(p)
    PROVE  HoleInv'
<1>1. CASE UNCHANGED <<log, snap, registered, net>>
  <2>1. Coming' = Coming
    BY <1>1 DEF Coming
  <2> QED BY <1>1, <2>1, Quiet
<1>2. CASE /\ log' = Append(log, p)
           /\ net' = Append(net, MkFrame("ack", Len(log) + 1, {}))
           /\ registered' = TRUE
           /\ snap' = snap
  <2> DEFINE f == MkFrame("ack", Len(log) + 1, {})
  <2>1. f \in Frame /\ f.k = "ack" /\ f.payload = {} /\ f.seq = Len(log) + 1
    BY ComingType DEF MkFrame, Frame, Payload
  <2>2. net' = Append(net, f) /\ log' = Append(log, p) /\ snap' = snap /\ registered'
    BY <1>2
  <2> HIDE DEF f
  <2> QED BY <2>1, <2>2, LoggedTold
<1> QED BY <1>1, <1>2 DEF ServerPush

(***************************************************************************)
(* The actions: the subscription's life.                                   *)
(***************************************************************************)
LEMMA InitHole == Init => HoleInv
<1> SUFFICES ASSUME Init PROVE HoleInv
  OBVIOUS
<1>1. Len(log) = 0 /\ Len(chain) = 0 /\ Len(deltas) = 0 /\ Coming = <<>> /\ Len(Coming) = 0
  BY DEF Init, Coming
<1>2. ReadCovered /\ CheckpointCovered /\ SnapshotCovered
  BY <1>1 DEF Init, ReadCovered, CheckpointCovered, SnapshotCovered, Recorded, Covered,
              FreshSubscription
<1>3. CapturesCovered /\ QueueCovered /\ QueueShape
  BY <1>1 DEF CapturesCovered, QueueCovered, QueueShape
<1>4. OwnWorkHeld
  BY <1>1 DEF Init, OwnWorkHeld, FreshSubscription
<1>5. TailCovered /\ SocketShape
  BY <1>1 DEF Init, TailCovered, SocketShape, FreshSubscription
<1> QED BY <1>2, <1>3, <1>4, <1>5 DEF HoleInv

LEMMA OpenedHole == ASSUME TypeOK, TypeOK', HoleInv, Opened PROVE HoleInv'
<1> DEFINE s == [sub EXCEPT !.synced = FALSE]
<1>1. /\ s \in DocSubscription /\ s.ydoc = sub.ydoc /\ s.pending = sub.pending
      /\ s.decryptGapSeq = sub.decryptGapSeq /\ s.seqReady = sub.seqReady
      /\ ~s.synced /\ s.lastSeq = sub.lastSeq
  BY DEF TypeOK, DocSubscription
<1>2. open' /\ ~open /\ UNCHANGED <<recv, chain, batch, deltas, ckpt>>
  BY DEF Opened, sendVars, diskVars
<1>3. CASE sub.seqReady
  <2>1. DoSendSubscribe(s)
    BY <1>1, <1>3 DEF Opened
  <2> HIDE DEF s
  <2> QED BY <1>1, <1>2, <1>3, <2>1, Subscribed DEF HoleInv, ReadCovered
<1>4. CASE ~sub.seqReady
  <2>1. sub' = s /\ UNCHANGED <<log, snap, registered, net>>
    BY <1>1, <1>4 DEF Opened, serverVars
  <2> HIDE DEF s
  <2>2. Coming' = Coming
    BY <1>2, <2>1 DEF Coming
  <2>3. LogKept
    BY <2>1, LogUnchanged
  <2>4. ReadCovered'
    BY <1>1, <2>1 DEF HoleInv, ReadCovered, Recorded, Covered
  <2>5. CapturesKept
    BY <1>2, ChainSame
  <2>6. CheckpointCovered' /\ SnapshotCovered' /\ CapturesCovered'
    BY <1>2, <2>1, <2>3, <2>5, StoredKept, CapturesStillCovered DEF HoleInv
  <2>7. OwnWorkHeld'
    BY <1>1, <1>2, <2>1 DEF HoleInv, OwnWorkHeld
  <2>8. QueueCovered' /\ QueueShape'
    BY <1>1, <2>1, <2>2, <2>3, QueueSame DEF HoleInv
  <2>9. TailCovered'
    BY <1>1, <1>4, <2>1 DEF TailCovered
  <2>10. SocketShape'
    BY <1>1, <1>2, <1>4, <2>1, <2>2 DEF HoleInv, SocketShape
  <2> QED BY <2>4, <2>6, <2>7, <2>8, <2>9, <2>10 DEF HoleInv
<1> QED BY <1>3, <1>4

\* The position a checkpoint is trusted for.
LEMMA LoadedPosition ==
    ASSUME TypeOK, HoleInv, NEW c, c = LoadSeqCheckpoint(sub.ydoc),
           NEW n, n = Larger(sub.lastSeq, c)
    PROVE  n \in Nat /\ Recorded(n) /\ Covered(n, sub.ydoc)
<1>1. (c = ckpt.seq /\ ckpt.sv = StateVector(sub.ydoc)) \/ c = 0
  BY DEF LoadSeqCheckpoint
<1>2. n = sub.lastSeq \/ n = c
  BY DEF Larger
<1>3. Recorded(sub.lastSeq) /\ Covered(sub.lastSeq, sub.ydoc)
  BY DEF HoleInv, ReadCovered
<1>4. Recorded(0) /\ Covered(0, sub.ydoc)
  BY ComingType DEF Recorded, Covered
<1>5. ckpt.sv = StateVector(sub.ydoc) => Recorded(ckpt.seq) /\ Covered(ckpt.seq, sub.ydoc)
  BY DEF HoleInv, CheckpointCovered, Covered, StateVector
<1>6. sub.lastSeq \in Nat /\ ckpt.seq \in Nat
  BY DEF TypeOK, DocSubscription
<1> QED BY <1>1, <1>2, <1>3, <1>4, <1>5, <1>6

LEMMA SeqLoadedHole == ASSUME TypeOK, TypeOK', HoleInv, SeqLoaded PROVE HoleInv'
<1> DEFINE n == Larger(sub.lastSeq, LoadSeqCheckpoint(sub.ydoc))
           s == [sub EXCEPT !.seqReady = TRUE, !.lastSeq = n]
<1>1. n \in Nat /\ Recorded(n) /\ Covered(n, sub.ydoc)
  BY LoadedPosition
<1> HIDE DEF n
<1>2. /\ s \in DocSubscription /\ s.ydoc = sub.ydoc /\ s.pending = sub.pending
      /\ s.decryptGapSeq = sub.decryptGapSeq /\ s.seqReady
      /\ s.synced = sub.synced /\ s.lastSeq = n
  BY <1>1 DEF TypeOK, DocSubscription
<1>3. ~sub.seqReady /\ open' = open /\ UNCHANGED <<recv, chain, batch, deltas, ckpt>>
  BY DEF SeqLoaded, sendVars, diskVars
<1>4. CASE open
  <2>1. DoSendSubscribe(s)
    BY <1>4 DEF SeqLoaded, n
  <2> HIDE DEF s
  <2> QED BY <1>1, <1>2, <1>3, <1>4, <2>1, Subscribed
<1>5. CASE ~open
  <2>1. sub' = s /\ UNCHANGED <<log, snap, registered, net>>
    BY <1>5 DEF SeqLoaded, serverVars, n
  <2> HIDE DEF s
  <2>2. Coming' = Coming
    BY <1>3, <2>1 DEF Coming
  <2>3. LogKept
    BY <2>1, LogUnchanged
  <2>4. ReadCovered'
    BY <1>1, <1>2, <2>1 DEF ReadCovered, Recorded, Covered
  <2>5. CapturesKept
    BY <1>3, ChainSame
  <2>6. CheckpointCovered' /\ SnapshotCovered' /\ CapturesCovered'
    BY <1>3, <2>1, <2>3, <2>5, StoredKept, CapturesStillCovered DEF HoleInv
  <2>7. OwnWorkHeld'
    BY <1>2, <1>3, <2>1 DEF HoleInv, OwnWorkHeld
  <2>8. QueueCovered' /\ QueueShape'
    BY <1>2, <2>1, <2>2, <2>3, QueueSame DEF HoleInv
  <2>9. TailCovered'
    BY <1>3, <1>5 DEF TailCovered
  <2>10. SocketShape'
    BY <1>2, <1>3, <1>5, <2>1 DEF HoleInv, SocketShape
  <2> QED BY <2>4, <2>6, <2>7, <2>8, <2>9, <2>10 DEF HoleInv
<1> QED BY <1>4, <1>5

\* A close leaves what was queued, at its place; what was on the wire is gone.
LEMMA LeftComing ==
    ASSUME TypeOK, recv' = Stale(recv), net' = <<>>
    PROVE  /\ Len(Coming') <= Len(Coming) /\ Len(Coming') \in Nat /\ Len(Coming) \in Nat
           /\ \A j \in 1..Len(Coming') : /\ Coming'[j].k = Coming[j].k
                                         /\ Coming'[j].seq = Coming[j].seq
                                         /\ Coming'[j].payload = Coming[j].payload
<1>1. recv \in Seq(Frame) /\ net \in Seq(Frame) /\ Stale(recv) \in Seq(Frame)
  BY StaleFrames DEF TypeOK
<1>2. Coming' = Stale(recv) \o <<>>
  BY DEF Coming
<1>3. Coming' = Stale(recv)
  BY <1>1, <1>2, ConcatEmptySeq
<1>4. /\ Len(Coming) = Len(recv) + Len(net) /\ Len(recv) \in Nat /\ Len(net) \in Nat
      /\ \A j \in 1..Len(recv) : Coming[j] = recv[j]
  <2>1. /\ Len(recv \o net) = Len(recv) + Len(net)
        /\ \A i \in 1..(Len(recv) + Len(net)) : (recv \o net)[i] =
               IF i <= Len(recv) THEN recv[i] ELSE net[i - Len(recv)]
    BY <1>1, ConcatProperties
  <2>2. Len(recv) \in Nat /\ Len(net) \in Nat
    BY <1>1, LenProperties
  <2> QED BY <2>1, <2>2 DEF Coming
<1>5. Len(Coming') = Len(recv)
  BY <1>1, <1>3, StaleFramesSay
<1> QED BY <1>1, <1>3, <1>4, <1>5, StaleFramesSay

LEMMA ClosedHole == ASSUME TypeOK, TypeOK', HoleInv, Closed PROVE HoleInv'
<1>1. /\ ~open' /\ ~registered' /\ net' = <<>> /\ recv' = Stale(recv)
      /\ deltas' = Stale(deltas) /\ UNCHANGED <<log, snap, chain, batch, ckpt>>
      /\ sub' = ClosedSubscription(sub)
  BY DEF Closed, diskVars
<1>2. /\ sub'.ydoc = sub.ydoc /\ sub'.pending = sub.pending /\ sub'.lastSeq = sub.lastSeq
      /\ sub'.decryptGapSeq = sub.decryptGapSeq /\ sub'.seqReady = sub.seqReady
      /\ ~sub'.synced
  BY <1>1 DEF ClosedSubscription, TypeOK, DocSubscription
<1>3. LogKept
  BY <1>1, LogUnchanged
<1>4. ReadCovered'
  BY <1>1, <1>2 DEF HoleInv, ReadCovered, Recorded, Covered
<1>5. CheckpointCovered' /\ SnapshotCovered' /\ CapturesCovered'
  <2>1. CapturesKept
    BY <1>1, ChainSame
  <2> QED BY <1>1, <1>3, <2>1, StoredKept, CapturesStillCovered DEF HoleInv
<1>6. OwnWorkHeld'
  <2>1. DeltasWithin(deltas, sub.ydoc) /\ deltas \in Seq(Delta)
    BY DEF HoleInv, OwnWorkHeld, DeltasWithin, TypeOK
  <2>2. DeltasWithin(deltas', sub'.ydoc)
    BY <1>1, <1>2, <2>1, StaleDeltasWithin
  <2> QED BY <1>1, <1>2, <2>2 DEF HoleInv, OwnWorkHeld, DeltasWithin
<1>7. /\ Len(Coming') <= Len(Coming) /\ Len(Coming') \in Nat /\ Len(Coming) \in Nat
      /\ \A j \in 1..Len(Coming') : /\ Coming'[j].k = Coming[j].k
                                    /\ Coming'[j].seq = Coming[j].seq
                                    /\ Coming'[j].payload = Coming[j].payload
  BY <1>1, LeftComing
<1>8. QueueShape'
  <2>1. \A j \in 1..Len(Coming') : j \in 1..Len(Coming)
    BY <1>7
  <2>2. log' = log
    BY <1>1
  <2> QED BY <1>7, <2>1, <2>2 DEF HoleInv, QueueShape
<1>9. QueueCovered'
  <2> SUFFICES ASSUME sub'.decryptGapSeq = 0, NEW j \in 1..Len(Coming'), Moves(j)',
                      NEW n, n = Coming'[j].seq
               PROVE  Recorded(n)' /\ Reaches(n, j)'
    BY DEF QueueCovered, Recorded, Reaches
  <2>1. j \in 1..Len(Coming) /\ j \in Nat /\ n = Coming[j].seq
        /\ \A m \in 1..j : m \in 1..Len(Coming')
    BY <1>7
  <2>2. Moves(j)
    <3>1. \A m \in 1..(j - 1) : m \in 1..Len(Coming')
      BY <1>7
    <3> QED BY <1>2, <1>7, <3>1 DEF Moves
  <2>3. Recorded(n) /\ Reaches(n, j)
    BY <1>2, <2>1, <2>2 DEF HoleInv, QueueCovered
  <2>4. \A m \in 1..j : Coming[m].payload \subseteq Coming'[m].payload
    BY <1>7, <2>1
  <2> QED BY <1>2, <1>3, <2>1, <2>3, <2>4, ReachesKept
<1>10. TailCovered'
  BY <1>1 DEF TailCovered
<1>11. SocketShape'
  <2>1. \A j \in 1..Len(Coming') : j \in 1..Len(Coming)
    BY <1>7
  <2> QED BY <1>1, <1>2, <1>7, <2>1 DEF HoleInv, SocketShape
<1> QED BY <1>4, <1>5, <1>6, <1>8, <1>9, <1>10, <1>11 DEF HoleInv

LEMMA RestartHole == ASSUME TypeOK, TypeOK', HoleInv, Restart PROVE HoleInv'
<1>1. /\ ~open' /\ ~registered' /\ net' = <<>> /\ recv' = <<>> /\ chain' = <<>>
      /\ batch' = {} /\ deltas' = <<>> /\ UNCHANGED <<log, snap, ckpt>>
      /\ sub' = FreshSubscription(idb)
  BY DEF Restart, diskVars
<1>2. /\ sub'.pending = {} /\ sub'.lastSeq = 0 /\ ~sub'.synced
  BY <1>1 DEF FreshSubscription
<1>3. Len(chain') = 0 /\ Len(deltas') = 0 /\ Coming' = <<>> /\ Len(Coming') = 0
  BY <1>1 DEF Coming
<1>4. LogKept
  BY <1>1, LogUnchanged
<1>5. ReadCovered'
  BY <1>1, <1>2, ComingType DEF ReadCovered, Recorded, Covered
<1>6. CheckpointCovered' /\ SnapshotCovered'
  BY <1>1, <1>4, StoredKept DEF HoleInv
<1>7. CapturesCovered' /\ QueueCovered' /\ QueueShape'
  BY <1>3 DEF CapturesCovered, QueueCovered, QueueShape
<1>8. OwnWorkHeld'
  BY <1>1, <1>2, <1>3 DEF OwnWorkHeld
<1>9. TailCovered' /\ SocketShape'
  BY <1>1, <1>2, <1>3 DEF TailCovered, SocketShape
<1> QED BY <1>5, <1>6, <1>7, <1>8, <1>9 DEF HoleInv

LEMMA PersistHole == ASSUME TypeOK, TypeOK', HoleInv, Persist PROVE HoleInv'
<1>1. UNCHANGED <<log, snap, registered, open, net, sub, recv, chain, batch, deltas, ckpt>>
  BY DEF Persist, serverVars, wireVars, sendVars
<1>2. Steady /\ CapturesKept /\ Coming' = Coming
  BY <1>1, ChainSame DEF Steady, Coming
<1>3. OwnWorkHeld'
  BY <1>1 DEF HoleInv, OwnWorkHeld
<1> QED BY <1>1, <1>2, <1>3, Quiet DEF HoleInv, SocketShape

LEMMA SeqSaveFiresHole == ASSUME TypeOK, TypeOK', HoleInv, SeqSaveFires PROVE HoleInv'
<1>1. /\ UNCHANGED <<log, snap, registered, open, net, recv, chain, batch, deltas>>
      /\ sub' = [sub EXCEPT !.seqSaveTimer = FALSE]
  BY DEF SeqSaveFires, serverVars, wireVars, sendVars
<1>2. SameReading(sub, sub') /\ sub'.pending = sub.pending
  BY <1>1 DEF SameReading, TypeOK, DocSubscription
<1>3. Steady /\ CapturesKept /\ Coming' = Coming /\ LogKept
  BY <1>1, <1>2, ReadingIsSteady, ChainSame, LogUnchanged DEF Coming
<1>4. CheckpointCovered'
  <2>1. CASE ckpt' = ckpt
    BY <1>1, <2>1 DEF HoleInv, CheckpointCovered, Recorded, Covered
  <2>2. CASE ckpt' = [seq |-> sub.lastSeq, sv |-> StateVector(sub.ydoc)]
    BY <1>1, <2>2 DEF HoleInv, ReadCovered, CheckpointCovered, Recorded, Covered, StateVector
  <2> QED BY <2>1, <2>2 DEF SeqSaveFires
<1>5. SnapshotCovered'
  BY <1>1 DEF HoleInv, SnapshotCovered, Recorded, Covered
<1>6. ReadCovered' /\ CapturesCovered'
  BY <1>3, ReadKept, CapturesStillCovered DEF HoleInv
<1>7. OwnWorkHeld'
  BY <1>1, <1>2 DEF HoleInv, OwnWorkHeld, SameReading
<1>8. QueueCovered' /\ QueueShape'
  BY <1>3, QueueSame DEF HoleInv, Steady
<1>9. TailCovered'
  BY <1>1, <1>3, TailKept DEF HoleInv, Steady
<1>10. SocketShape'
  BY <1>1, <1>3 DEF HoleInv, SocketShape, Steady
<1> QED BY <1>4, <1>5, <1>6, <1>7, <1>8, <1>9, <1>10 DEF HoleInv

(***************************************************************************)
(* The actions: sending.                                                   *)
(***************************************************************************)
LEMMA WorkHeld ==
    ASSUME SameReading(sub, sub'), sub'.pending \subseteq sub.ydoc,
           batch' \subseteq sub.ydoc, DeltasWithin(deltas', sub.ydoc)
    PROVE  OwnWorkHeld'
BY DEF SameReading, OwnWorkHeld, DeltasWithin

\* A step of the sending side that sends nothing.
LEMMA NothingSent ==
    ASSUME TypeOK, TypeOK', HoleInv, SameReading(sub, sub'),
           sub'.pending \subseteq sub.ydoc, batch' \subseteq sub.ydoc,
           DeltasWithin(deltas', sub.ydoc), CapturesKept,
           UNCHANGED <<log, snap, registered, open, net, recv, ckpt>>
    PROVE  HoleInv'
<1>1. Coming' = Coming
  BY DEF Coming
<1> QED BY <1>1, WorkHeld, ReadingIsSteady, Quiet DEF HoleInv, SocketShape

LEMMA WorkNow ==
    ASSUME TypeOK, HoleInv
    PROVE  /\ sub \in DocSubscription /\ sub.pending \subseteq sub.ydoc
           /\ batch \subseteq sub.ydoc /\ batch \in Payload
           /\ deltas \in Seq(Delta) /\ DeltasWithin(deltas, sub.ydoc)
BY DEF TypeOK, HoleInv, OwnWorkHeld, DeltasWithin

LEMMA LocalEditHole == ASSUME TypeOK, TypeOK', HoleInv, LocalEdit PROVE HoleInv'
<1>1. UNCHANGED <<log, snap, registered, open, net, recv, batch, deltas, ckpt>>
  BY DEF LocalEdit, serverVars, wireVars, diskVars
<1> PICK e \in Local \ made :
       LET s == [sub EXCEPT !.ydoc = @ \cup {e}, !.pending = @ \cup {e},
                            !.hasUnsentWork = TRUE]
       IN  IF ~open
           THEN sub' = s /\ UNCHANGED chain
           ELSE /\ sub' = [s EXCEPT !.flushing = TRUE,
                                    !.deltaRetryTimer = @ \/ s.oversizedPush]
                /\ IF s.flushing THEN UNCHANGED chain ELSE Enqueue("flush", 0, {})
  BY DEF LocalEdit
<1> DEFINE s == [sub EXCEPT !.ydoc = @ \cup {e}, !.pending = @ \cup {e},
                            !.hasUnsentWork = TRUE]
           t == [s EXCEPT !.flushing = TRUE, !.deltaRetryTimer = @ \/ s.oversizedPush]
<1>2. /\ sub'.ydoc = sub.ydoc \cup {e} /\ sub'.pending = sub.pending \cup {e}
      /\ sub'.lastSeq = sub.lastSeq /\ sub'.synced = sub.synced
      /\ sub'.decryptGapSeq = sub.decryptGapSeq /\ sub'.seqReady = sub.seqReady
  <2>1. sub' = s \/ sub' = t
    OBVIOUS
  <2>2. /\ s.ydoc = sub.ydoc \cup {e} /\ s.pending = sub.pending \cup {e}
        /\ s.lastSeq = sub.lastSeq /\ s.synced = sub.synced
        /\ s.decryptGapSeq = sub.decryptGapSeq /\ s.seqReady = sub.seqReady
    BY DEF TypeOK, DocSubscription
  <2>3. /\ t.ydoc = s.ydoc /\ t.pending = s.pending
        /\ t.lastSeq = s.lastSeq /\ t.synced = s.synced
        /\ t.decryptGapSeq = s.decryptGapSeq /\ t.seqReady = s.seqReady
    BY DEF TypeOK, DocSubscription
  <2> HIDE DEF s, t
  <2> QED BY <2>1, <2>2, <2>3
<1> HIDE DEF s, t
<1>3. CapturesKept
  <2>1. chain' = chain \/ Enqueue("flush", 0, {})
    OBVIOUS
  <2>2. {} \in Payload
    BY DEF Payload
  <2> QED BY <2>1, <2>2, ChainSame, ChainEnqueue
<1>4. Steady /\ Coming' = Coming
  BY <1>1, <1>2 DEF Steady, Coming
<1>5. OwnWorkHeld'
  BY <1>1, <1>2 DEF HoleInv, OwnWorkHeld
<1> QED BY <1>1, <1>3, <1>4, <1>5, Quiet DEF HoleInv, SocketShape

LEMMA FlushStartsHole == ASSUME TypeOK, TypeOK', HoleInv, FlushStarts PROVE HoleInv'
<1>1. UNCHANGED <<log, snap, registered, open, net, recv, deltas, ckpt>>
      /\ NextBatch(sub) /\ chain # <<>>
  BY DEF FlushStarts, Running, serverVars, wireVars, diskVars
<1> QED BY <1>1, WorkNow, NextBatchKeeps, NothingSent

LEMMA FlushEncryptedHole ==
    ASSUME TypeOK, TypeOK', HoleInv, FlushEncrypted PROVE HoleInv'
<1>1. chain # <<>> /\ UNCHANGED <<open, recv, ckpt>>
  BY DEF FlushEncrypted, Running, diskVars
<1>2. CASE ~open
  <2>1. /\ sub' = PutBack(sub) /\ batch' = {} /\ chain' = Tail(chain)
        /\ UNCHANGED <<log, snap, registered, net, deltas>>
    BY <1>2 DEF FlushEncrypted, serverVars
  <2>2. SameReading(sub, sub') /\ sub'.pending \subseteq sub.ydoc
    BY <2>1, WorkNow, HelpersKeepReading
  <2>3. CapturesKept
    BY <1>1, <2>1, ChainTail
  <2> QED BY <1>1, <2>1, <2>2, <2>3, WorkNow, NothingSent
<1>3. CASE open /\ FlushTooLarge(batch)
  <2>1. /\ NextBatch(Held(sub)) /\ deltas' = MarkHeld(deltas)
        /\ UNCHANGED <<log, snap, registered, net>>
    BY <1>3 DEF FlushEncrypted, serverVars
  <2> DEFINE s == Held(sub)
  <2>2. s \in DocSubscription /\ SameReading(sub, s) /\ s.pending = sub.pending
    BY WorkNow, HeldType, HelpersKeepReading
  <2>3. NextBatch(s)
    BY <2>1
  <2> HIDE DEF s
  <2>4. s.ydoc = sub.ydoc /\ s.pending \subseteq s.ydoc
    BY <2>2, WorkNow DEF SameReading
  <2>5. SameReading(s, sub') /\ sub'.pending \subseteq sub.ydoc /\ batch' \subseteq sub.ydoc
        /\ CapturesKept
    BY <1>1, <2>2, <2>3, <2>4, NextBatchKeeps
  <2>6. SameReading(sub, sub')
    BY <2>2, <2>5 DEF SameReading
  <2>7. DeltasWithin(deltas', sub.ydoc)
    BY <2>1, WorkNow, MarkHeldWithin
  <2> QED BY <1>1, <2>1, <2>5, <2>6, <2>7, NothingSent
<1>4. CASE open /\ ~FlushTooLarge(batch)
  <2>1. ServerPush(batch) /\ NextBatch(sub) /\ deltas' = deltas
    BY <1>4 DEF FlushEncrypted
  <2>2. SameReading(sub, sub') /\ sub'.pending \subseteq sub.ydoc /\ batch' \subseteq sub.ydoc
        /\ CapturesKept
    BY <1>1, <2>1, WorkNow, NextBatchKeeps
  <2>3. OwnWorkHeld'
    BY <2>1, <2>2, WorkNow, WorkHeld
  <2> QED BY <1>1, <1>4, <2>1, <2>2, <2>3, WorkNow, ReadingIsSteady, Pushed
<1> QED BY <1>2, <1>3, <1>4

LEMMA FlushFailsHole == ASSUME TypeOK, TypeOK', HoleInv, FlushFails PROVE HoleInv'
<1>1. /\ chain # <<>> /\ chain' = Tail(chain) /\ batch' = {} /\ sub' = FailedFlush(sub)
      /\ UNCHANGED <<log, snap, registered, open, net, recv, deltas, ckpt>>
  BY DEF FlushFails, Running, serverVars, wireVars, diskVars
<1>2. SameReading(sub, sub') /\ sub'.pending \subseteq sub.ydoc
  BY <1>1, WorkNow, HelpersKeepReading
<1>3. CapturesKept
  BY <1>1, ChainTail
<1> QED BY <1>1, <1>2, <1>3, WorkNow, NothingSent

LEMMA ReconcileHole == ASSUME TypeOK, TypeOK', HoleInv, Reconcile PROVE HoleInv'
<1> DEFINE s == [sub EXCEPT !.reconciling = FALSE]
           t == [s EXCEPT !.catchUp = {}, !.serverSV = ServerStateVector(s)]
<1>1. s \in DocSubscription /\ SameReading(sub, s) /\ s.pending = sub.pending
  BY DEF TypeOK, DocSubscription, SameReading
<1>2. ServerStateVector(s) \in Payload
  BY <1>1 DEF ServerStateVector, StateVector, DocSubscription, Payload
<1>3. t \in DocSubscription /\ SameReading(sub, t) /\ t.pending = sub.pending
  BY <1>1, <1>2 DEF DocSubscription, Payload, SameReading
<1>4. /\ chain # <<>> /\ chain' = Tail(chain)
      /\ UNCHANGED <<log, snap, registered, open, net, recv, batch, ckpt>>
  BY DEF Reconcile, Running, serverVars, wireVars, diskVars
<1>5. SameReading(sub, sub') /\ sub'.pending \subseteq sub.ydoc
      /\ DeltasWithin(deltas', sub.ydoc)
  <2>1. CASE open
    <3>1. SendDelta(t, ServerStateVector(s))
      BY <2>1 DEF Reconcile
    <3> HIDE DEF t, s
    <3>2. t.ydoc = sub.ydoc /\ t.pending \subseteq t.ydoc /\ DeltasWithin(deltas, t.ydoc)
      BY <1>3, WorkNow DEF SameReading
    <3>3. SameReading(t, sub') /\ sub'.pending \subseteq t.ydoc /\ DeltasWithin(deltas', t.ydoc)
      BY <1>3, <3>1, <3>2, SendDeltaKeeps
    <3> QED BY <1>3, <3>2, <3>3 DEF SameReading
  <2>2. CASE ~open
    <3>1. sub' = s /\ deltas' = deltas
      BY <2>2 DEF Reconcile
    <3> HIDE DEF s
    <3> QED BY <1>1, <3>1, WorkNow DEF SameReading
  <2> QED BY <2>1, <2>2
<1>6. CapturesKept
  BY <1>4, ChainTail
<1> QED BY <1>4, <1>5, <1>6, WorkNow, NothingSent

LEMMA DeltaRetryFiresHole ==
    ASSUME TypeOK, TypeOK', HoleInv, DeltaRetryFires PROVE HoleInv'
<1>1. /\ UNCHANGED <<log, snap, registered, open, net, recv, batch, deltas, ckpt>>
      /\ sub' = [sub EXCEPT !.deltaRetryTimer = FALSE]
  BY DEF DeltaRetryFires, serverVars, wireVars, diskVars
<1>2. SameReading(sub, sub') /\ sub'.pending = sub.pending
  BY <1>1 DEF TypeOK, DocSubscription, SameReading
<1>3. CapturesKept
  <2>1. chain' = chain \/ Enqueue("retry", 0, sub.serverSV)
    BY DEF DeltaRetryFires
  <2>2. sub.serverSV \in Payload
    BY DEF TypeOK, DocSubscription
  <2> QED BY <2>1, <2>2, ChainSame, ChainEnqueue
<1> QED BY <1>1, <1>2, <1>3, WorkNow, NothingSent

LEMMA RetryDeltaHole == ASSUME TypeOK, TypeOK', HoleInv, RetryDelta PROVE HoleInv'
<1>1. /\ chain # <<>> /\ chain' = Tail(chain) /\ SendDelta(sub, Head(chain).payload)
      /\ UNCHANGED <<log, snap, registered, open, net, recv, batch, ckpt>>
  BY DEF RetryDelta, Running, serverVars, wireVars, diskVars
<1>2. SameReading(sub, sub') /\ sub'.pending \subseteq sub.ydoc
      /\ DeltasWithin(deltas', sub.ydoc)
  BY <1>1, WorkNow, SendDeltaKeeps
<1>3. CapturesKept
  BY <1>1, ChainTail
<1> QED BY <1>1, <1>2, <1>3, WorkNow, NothingSent

LEMMA DeltaEncryptedHole ==
    ASSUME TypeOK, TypeOK', HoleInv, DeltaEncrypted PROVE HoleInv'
<1> PICK i \in 1..Len(deltas) :
        LET d == deltas[i] IN
        /\ CASE ~open ->
                  /\ TakeBack(d, sub)
                  /\ deltas' = Remove(deltas, i)
                  /\ UNCHANGED <<serverVars, net, faults>>
             [] open /\ DeltaTooLarge(d.payload) ->
                  /\ TakeBack(d, Held(sub))
                  /\ deltas' = MarkHeld(Remove(deltas, i))
                  /\ UNCHANGED <<serverVars, net, faults>>
             [] open /\ ~DeltaTooLarge(d.payload) ->
                  /\ ServerPush(d.payload)
                  /\ unacked' = IF d.live THEN unacked ELSE unacked + 1
                  /\ sub' = [sub EXCEPT !.oversizedPush = @ /\ ~ClearsHold(d)]
                  /\ deltas' = Remove(deltas, i)
        /\ UNCHANGED <<open, recv, chain, batch, poisoned, diskVars, made>>
  BY DEF DeltaEncrypted
<1>1. UNCHANGED <<open, recv, chain, batch, ckpt>>
  BY DEF diskVars
<1>2. CapturesKept
  BY <1>1, ChainSame
<1>3. deltas[i] \in Delta /\ deltas[i].payload \in Payload /\ deltas[i].payload \subseteq sub.ydoc
  <2>1. deltas[i] \in Delta
    BY ElementOfSeq DEF TypeOK
  <2> QED BY <2>1 DEF Delta, HoleInv, OwnWorkHeld
<1>4. Remove(deltas, i) \in Seq(Delta) /\ DeltasWithin(Remove(deltas, i), sub.ydoc)
  BY WorkNow, RemoveType, RemoveWithin
<1>5. CASE ~open
  <2>1. /\ TakeBack(deltas[i], sub) /\ deltas' = Remove(deltas, i)
        /\ UNCHANGED <<log, snap, registered, net>>
    BY <1>5 DEF serverVars
  <2>2. SameReading(sub, sub') /\ sub'.pending = sub.pending
    BY <2>1, WorkNow, TakeBackKeeps
  <2> QED BY <1>1, <1>2, <1>4, <2>1, <2>2, WorkNow, NothingSent
<1>6. CASE open /\ DeltaTooLarge(deltas[i].payload)
  <2>1. /\ TakeBack(deltas[i], Held(sub)) /\ deltas' = MarkHeld(Remove(deltas, i))
        /\ UNCHANGED <<log, snap, registered, net>>
    BY <1>6 DEF serverVars
  <2>2. Held(sub) \in DocSubscription /\ SameReading(sub, Held(sub))
        /\ Held(sub).pending = sub.pending
    BY WorkNow, HeldType, HelpersKeepReading
  <2>3. SameReading(Held(sub), sub') /\ sub'.pending = sub.pending
    BY <2>1, <2>2, TakeBackKeeps
  <2>4. SameReading(sub, sub')
    BY <2>2, <2>3 DEF SameReading
  <2>5. DeltasWithin(deltas', sub.ydoc)
    BY <1>4, <2>1, MarkHeldWithin
  <2> QED BY <1>1, <1>2, <2>1, <2>3, <2>4, <2>5, WorkNow, NothingSent
<1>7. CASE open /\ ~DeltaTooLarge(deltas[i].payload)
  <2>1. /\ ServerPush(deltas[i].payload) /\ deltas' = Remove(deltas, i)
        /\ sub' = [sub EXCEPT !.oversizedPush = @ /\ ~ClearsHold(deltas[i])]
    BY <1>7
  <2>2. SameReading(sub, sub') /\ sub'.pending = sub.pending
    BY <2>1 DEF TypeOK, DocSubscription, SameReading
  <2>3. OwnWorkHeld'
    BY <1>1, <1>4, <2>1, <2>2, WorkNow, WorkHeld
  <2>4. Steady
    BY <2>2, ReadingIsSteady
  <2> QED BY <1>1, <1>2, <1>3, <1>7, <2>1, <2>3, <2>4, Pushed
<1> QED BY <1>5, <1>6, <1>7

LEMMA DeltaFailsHole == ASSUME TypeOK, TypeOK', HoleInv, DeltaFails PROVE HoleInv'
<1> PICK i \in 1..Len(deltas) : /\ TakeBack(deltas[i], ScheduleDeltaRetry(sub))
                                /\ deltas' = Remove(deltas, i)
  BY DEF DeltaFails
<1>1. UNCHANGED <<log, snap, registered, open, net, recv, chain, batch, ckpt>>
  BY DEF DeltaFails, serverVars, wireVars, diskVars
<1>2. LET s == ScheduleDeltaRetry(sub)
      IN  s \in DocSubscription /\ SameReading(sub, s) /\ s.pending = sub.pending
  BY WorkNow, HelpersKeepReading DEF ScheduleDeltaRetry, DocSubscription
<1>3. SameReading(ScheduleDeltaRetry(sub), sub') /\ sub'.pending = sub.pending
  BY <1>2, TakeBackKeeps
<1>4. SameReading(sub, sub')
  BY <1>2, <1>3 DEF SameReading
<1>5. DeltasWithin(deltas', sub.ydoc)
  BY WorkNow, RemoveWithin
<1>6. CapturesKept
  BY <1>1, ChainSame
<1> QED BY <1>1, <1>3, <1>4, <1>5, <1>6, WorkNow, NothingSent

LEMMA SnapshotEncryptedHole ==
    ASSUME TypeOK, TypeOK', HoleInv, SnapshotEncrypted PROVE HoleInv'
<1>1. /\ chain # <<>> /\ Head(chain).k = "snapshot" /\ chain' = Tail(chain)
      /\ UNCHANGED <<log, registered, open, net, sub, recv, batch, deltas, ckpt>>
  BY DEF SnapshotEncrypted, Running, wireVars, diskVars
<1>2. Recorded(Head(chain).seq) /\ Covered(Head(chain).seq, Head(chain).payload)
  <2>1. Head(chain) = chain[1] /\ 1 \in 1..Len(chain)
    BY <1>1, HeadTailProperties, LenProperties, EmptySeq DEF TypeOK
  <2> QED BY <1>1, <2>1 DEF HoleInv, CapturesCovered
<1>3. snap' = snap \/ snap' = [seq |-> Head(chain).seq, content |-> Head(chain).payload]
  BY DEF SnapshotEncrypted, ServerPutSnapshot, ClaimedSeq
<1>4. SnapshotCovered'
  <2>1. CASE snap' = snap
    BY <1>1, <2>1 DEF HoleInv, SnapshotCovered, Recorded, Covered
  <2>2. CASE snap' = [seq |-> Head(chain).seq, content |-> Head(chain).payload]
    BY <1>1, <1>2, <2>2 DEF SnapshotCovered, Recorded, Covered
  <2> QED BY <1>3, <2>1, <2>2
<1>5. Coming' = Coming /\ CapturesKept /\ LogKept /\ Steady
  BY <1>1, ChainTail, LogUnchanged DEF Coming, Steady
<1>6. ReadCovered' /\ CapturesCovered'
  BY <1>5, ReadKept, CapturesStillCovered DEF HoleInv
<1>7. CheckpointCovered'
  BY <1>1 DEF HoleInv, CheckpointCovered, Recorded, Covered
<1>8. OwnWorkHeld'
  BY <1>1 DEF HoleInv, OwnWorkHeld
<1>9. QueueCovered' /\ QueueShape'
  BY <1>5, QueueSame DEF HoleInv, Steady
<1>10. TailCovered'
  BY <1>1, <1>5, TailKept DEF HoleInv, Steady
<1>11. SocketShape'
  BY <1>1, <1>5 DEF HoleInv, SocketShape
<1> QED BY <1>4, <1>6, <1>7, <1>8, <1>9, <1>10, <1>11 DEF HoleInv

LEMMA SnapshotFailsHole == ASSUME TypeOK, TypeOK', HoleInv, SnapshotFails PROVE HoleInv'
<1>1. /\ chain' = <<>>
      /\ UNCHANGED <<log, snap, registered, open, net, sub, recv, batch, deltas, ckpt>>
  BY DEF SnapshotFails, serverVars, wireVars, diskVars
<1>2. CapturesKept
  BY <1>1 DEF CapturesKept
<1>3. SameReading(sub, sub')
  BY <1>1 DEF SameReading
<1> QED BY <1>1, <1>2, <1>3, WorkNow, NothingSent

(***************************************************************************)
(* The actions: receiving.                                                 *)
(***************************************************************************)
LEMMA AdvanceMoves ==
    ASSUME NEW s \in DocSubscription, NEW n \in Nat
    PROVE  /\ Advance(s, n).ydoc = s.ydoc /\ Advance(s, n).pending = s.pending
           /\ Advance(s, n).synced = s.synced /\ Advance(s, n).seqReady = s.seqReady
           /\ Advance(s, n).decryptGapSeq = s.decryptGapSeq
           /\ \/ Advance(s, n).lastSeq = s.lastSeq
              \/ s.decryptGapSeq = 0 /\ Advance(s, n).lastSeq = n
<1> DEFINE t == [s EXCEPT !.lastSeq = Larger(s.lastSeq, n)]
<1>1. /\ t \in DocSubscription
      /\ t.ydoc = s.ydoc /\ t.pending = s.pending /\ t.synced = s.synced
      /\ t.seqReady = s.seqReady /\ t.decryptGapSeq = s.decryptGapSeq
      /\ t.lastSeq = Larger(s.lastSeq, n)
  <2>1. Larger(s.lastSeq, n) \in Nat
    BY LargerNat DEF DocSubscription
  <2> QED BY <2>1 DEF DocSubscription
<1>2. Larger(s.lastSeq, n) = s.lastSeq \/ Larger(s.lastSeq, n) = n
  BY DEF Larger
<1>3. CASE MayAdvance(s)
  <2>1. Advance(s, n) = ScheduleSeqSave(t)
    BY <1>3 DEF Advance
  <2> HIDE DEF t
  <2>2. SameReading(t, Advance(s, n)) /\ Advance(s, n).pending = t.pending
    BY <1>1, <2>1, HelpersKeepReading
  <2> QED BY <1>1, <1>2, <1>3, <2>2 DEF SameReading, MayAdvance
<1>4. CASE ~MayAdvance(s)
  BY <1>4 DEF Advance
<1> QED BY <1>3, <1>4

\* The frame at the head: what its sequence covers has arrived with it.
LEMMA HeadCovered ==
    ASSUME TypeOK, HoleInv, recv # <<>>
    PROVE  /\ Head(recv) \in Frame
           /\ IF Head(recv).k \in PayloadKinds THEN Head(recv).seq \in 1..Len(log)
              ELSE Head(recv).payload = {}
           /\ \/ Head(recv).k \in {"snapshot", "catchup", "status"}
              \/ Head(recv).k \in {"update", "ack"} /\ sub.synced
              => (sub.decryptGapSeq = 0 =>
                    /\ Recorded(Head(recv).seq)
                    /\ Covered(Head(recv).seq, sub.ydoc \cup Head(recv).payload))
<1>1. Head(recv) \in Frame
  BY HeadTailProperties DEF TypeOK
<1>2. Coming[1] = Head(recv) /\ 1 \in 1..Len(Coming)
  <2>1. recv \in Seq(Frame) /\ net \in Seq(Frame)
    BY DEF TypeOK
  <2>2. Coming # <<>> /\ Head(Coming) = Head(recv)
    BY <2>1, TailOfConcat DEF Coming
  <2> QED BY <2>2, ComingType, HeadTailProperties, EmptySeq
<1>3. ASSUME Moves(1), sub.decryptGapSeq = 0, NEW f, f = Head(recv)
      PROVE  Recorded(f.seq) /\ Covered(f.seq, sub.ydoc \cup f.payload)
  <2>1. Recorded(f.seq) /\ Reaches(f.seq, 1)
    BY <1>2, <1>3 DEF HoleInv, QueueCovered
  <2>2. \A m \in 1..1 : m = 1
    OBVIOUS
  <2> QED BY <1>2, <1>3, <2>1, <2>2 DEF Reaches, Covered
<1>4. /\ \/ Head(recv).k \in {"snapshot", "catchup", "status"}
         \/ Head(recv).k \in {"update", "ack"} /\ sub.synced
      => Moves(1)
  BY <1>2 DEF Moves
<1>5. IF Head(recv).k \in PayloadKinds THEN Head(recv).seq \in 1..Len(log)
      ELSE Head(recv).payload = {}
  BY <1>2 DEF HoleInv, QueueShape
<1> QED BY <1>1, <1>3, <1>4, <1>5

\* A frame delivered is where it was, between the server and the document.
LEMMA Delivered ==
    ASSUME TypeOK, net # <<>>, net' = Tail(net), recv' = Append(recv, Head(net))
    PROVE  Coming' = Coming
<1>1. recv \in Seq(Frame) /\ net \in Seq(Frame) /\ Head(net) \in Frame
      /\ Tail(net) \in Seq(Frame) /\ <<Head(net)>> \in Seq(Frame)
  BY HeadTailProperties DEF TypeOK
<1>2. Append(recv, Head(net)) = recv \o <<Head(net)>>
  BY <1>1, AppendIsConcat
<1>3. (recv \o <<Head(net)>>) \o Tail(net) = recv \o (<<Head(net)>> \o Tail(net))
  BY <1>1, ConcatAssociative
<1>4. <<Head(net)>> \o Tail(net) = net
  <2>1. /\ <<Head(net)>> \o Tail(net) \in Seq(Frame)
        /\ Len(<<Head(net)>> \o Tail(net)) = 1 + Len(Tail(net))
        /\ \A i \in 1..(1 + Len(Tail(net))) : (<<Head(net)>> \o Tail(net))[i] =
               IF i <= 1 THEN <<Head(net)>>[i] ELSE Tail(net)[i - 1]
    <3>1. Len(<<Head(net)>>) = 1
      OBVIOUS
    <3> QED BY <1>1, <3>1, ConcatProperties
  <2>2. /\ Len(net) \in Nat /\ Len(Tail(net)) = Len(net) - 1 /\ Len(net) > 0
        /\ Head(net) = net[1] /\ \A i \in 1..(Len(net) - 1) : Tail(net)[i] = net[i + 1]
    BY <1>1, HeadTailProperties, LenProperties, EmptySeq
  <2>3. ASSUME NEW i \in 1..Len(net) PROVE (<<Head(net)>> \o Tail(net))[i] = net[i]
    <3>1. CASE i = 1
      BY <2>1, <2>2, <3>1
    <3>2. CASE i # 1
      <4>1. i - 1 \in 1..(Len(net) - 1) /\ ~(i <= 1) /\ (i - 1) + 1 = i
        BY <2>2, <3>2
      <4>2. Tail(net)[i - 1] = net[i]
        BY <2>2, <4>1
      <4> QED BY <2>1, <2>2, <4>1, <4>2
    <3> QED BY <3>1, <3>2
  <2>4. Len(<<Head(net)>> \o Tail(net)) = Len(net)
    BY <2>1, <2>2
  <2> QED BY <1>1, <2>1, <2>3, <2>4, SeqEqual
<1> QED BY <1>2, <1>3, <1>4 DEF Coming

LEMMA DeliverHole == ASSUME TypeOK, TypeOK', HoleInv, Deliver PROVE HoleInv'
<1>1. /\ open /\ net # <<>> /\ net' = Tail(net) /\ recv' = Append(recv, Head(net))
      /\ UNCHANGED <<log, snap, registered, open, sub, batch, deltas, ckpt>>
      /\ (chain' = chain \/ MaybeCompact(sub))
  BY DEF Deliver, serverVars, diskVars
<1>2. Coming' = Coming
  BY <1>1, Delivered
<1>3. CapturesKept
  BY <1>1, WorkNow, ChainSame, MaybeCompactKeeps DEF HoleInv, ReadCovered
<1>4. OwnWorkHeld'
  BY <1>1 DEF HoleInv, OwnWorkHeld
<1> QED BY <1>1, <1>2, <1>3, <1>4, Quiet DEF Steady

LEMMA ReceivePayloadHole ==
    ASSUME TypeOK, TypeOK', HoleInv, "skipped" \notin flaws', ReceivePayload
    PROVE  HoleInv'
<1> DEFINE f == Head(recv)
           applied == [sub EXCEPT !.ydoc = @ \cup f.payload,
                                  !.catchUp = IF f.k = "snapshot" \/ ~sub.synced
                                              THEN @ \cup f.payload ELSE @]
<1>1. /\ recv # <<>> /\ recv' = Tail(recv) /\ f.k \in PayloadKinds
      /\ UNCHANGED <<log, snap, registered, open, net, batch, deltas, ckpt>>
      /\ sub' = Advance(applied, f.seq)
      /\ (chain' = chain \/ MaybeCompact(sub'))
      /\ ~Skips(f, applied.ydoc)
  BY DEF ReceivePayload, Receiving, serverVars, wireVars, diskVars, Mark
<1>2. f \in Frame /\ f.seq \in Nat /\ f.payload \in Payload /\ f.seq \in 1..Len(log)
  BY <1>1, HeadCovered DEF Frame
<1>3. /\ applied \in DocSubscription
      /\ applied.ydoc = sub.ydoc \cup f.payload /\ applied.pending = sub.pending
      /\ applied.synced = sub.synced /\ applied.seqReady = sub.seqReady
      /\ applied.decryptGapSeq = sub.decryptGapSeq /\ applied.lastSeq = sub.lastSeq
  <2> HIDE DEF f
  <2> QED BY <1>2 DEF TypeOK, DocSubscription, Payload
<1> HIDE DEF applied
<1>4. sub.decryptGapSeq = 0 => Recorded(f.seq) /\ Covered(f.seq, sub.ydoc \cup f.payload)
  <2>1. CASE f.k = "update" /\ ~sub.synced
    <3>1. sub.decryptGapSeq = 0 => SentUpTo(f.seq) \subseteq sub.ydoc \cup f.payload
      BY <1>1, <1>3, <2>1 DEF Skips, MayAdvance
    <3>2. Covered(f.seq, SentUpTo(f.seq)) /\ Recorded(f.seq)
      BY <1>2, ComingType DEF Covered, SentUpTo, Recorded
    <3> QED BY <3>1, <3>2 DEF Covered
  <2>2. CASE f.k # "update" \/ sub.synced
    BY <1>1, <2>2, HeadCovered DEF PayloadKinds
  <2> QED BY <2>1, <2>2
<1> HIDE DEF f
<1>5. /\ sub'.ydoc = sub.ydoc \cup f.payload /\ sub'.pending = sub.pending
      /\ sub'.synced = sub.synced /\ sub'.seqReady = sub.seqReady
      /\ sub'.decryptGapSeq = sub.decryptGapSeq
      /\ \/ sub'.lastSeq = sub.lastSeq
         \/ sub.decryptGapSeq = 0 /\ sub'.lastSeq = f.seq
  BY <1>1, <1>2, <1>3, AdvanceMoves
<1>6. Recorded(sub'.lastSeq) /\ Covered(sub'.lastSeq, sub'.ydoc)
  <2>1. Covered(sub.lastSeq, sub.ydoc \cup f.payload) /\ Recorded(sub.lastSeq)
    BY DEF HoleInv, ReadCovered, Covered
  <2> QED BY <1>4, <1>5, <2>1
<1>7. ReadCovered'
  BY <1>1, <1>6 DEF ReadCovered, Recorded, Covered
<1>8. CapturesKept
  <2>1. sub' \in DocSubscription
    BY DEF TypeOK
  <2> QED BY <1>1, <1>6, <2>1, ChainSame, MaybeCompactKeeps
<1>9. OwnWorkHeld'
  BY <1>1, <1>5 DEF HoleInv, OwnWorkHeld
<1> QED BY <1>1, <1>5, <1>7, <1>8, <1>9, Taken DEF f

LEMMA DecryptFailsHole == ASSUME TypeOK, TypeOK', HoleInv, DecryptFails PROVE HoleInv'
<1>1. /\ recv # <<>> /\ recv' = Tail(recv) /\ Head(recv).k \in PayloadKinds
      /\ UNCHANGED <<log, snap, registered, open, net, chain, batch, deltas, ckpt>>
      /\ sub' = IF sub.decryptGapSeq = 0
                THEN [sub EXCEPT !.decryptGapSeq = Head(recv).seq] ELSE sub
  BY DEF DecryptFails, Receiving, serverVars, wireVars, sendVars, diskVars
<1>2. Head(recv) \in Frame /\ Head(recv).seq > 0
  BY <1>1, HeadCovered
<1>3. /\ sub'.ydoc = sub.ydoc /\ sub'.pending = sub.pending /\ sub'.lastSeq = sub.lastSeq
      /\ sub'.synced = sub.synced /\ sub'.seqReady = sub.seqReady
      /\ sub'.decryptGapSeq # 0
  <2>1. sub \in DocSubscription
    BY DEF TypeOK
  <2>2. CASE sub.decryptGapSeq = 0
    BY <1>1, <1>2, <2>1, <2>2 DEF DocSubscription, Frame
  <2>3. CASE sub.decryptGapSeq # 0
    BY <1>1, <2>3
  <2> QED BY <2>2, <2>3
<1>4. ReadCovered'
  BY <1>1, <1>3 DEF HoleInv, ReadCovered, Recorded, Covered
<1>5. CapturesKept
  BY <1>1, ChainSame
<1>6. OwnWorkHeld'
  BY <1>1, <1>3 DEF HoleInv, OwnWorkHeld
<1> QED BY <1>1, <1>3, <1>4, <1>5, <1>6, Taken

LEMMA ReceiveAckHole == ASSUME TypeOK, TypeOK', HoleInv, ReceiveAck PROVE HoleInv'
<1> DEFINE f == Head(recv)
           s == IF AckAdvances(sub) THEN Advance(sub, f.seq) ELSE sub
           t == IF Settles(f.live) THEN SettleAck(s) ELSE s
<1>1. /\ recv # <<>> /\ recv' = Tail(recv) /\ f.k = "ack"
      /\ UNCHANGED <<log, snap, registered, open, net, batch, deltas, ckpt>>
      /\ sub' = t /\ MaybeCompact(sub')
  BY DEF ReceiveAck, Receiving, serverVars, wireVars, diskVars
<1>2. f \in Frame /\ f.seq \in Nat /\ f.payload = {}
  BY <1>1, HeadCovered DEF Frame, PayloadKinds
<1>3. sub.synced /\ sub.decryptGapSeq = 0 => Recorded(f.seq) /\ Covered(f.seq, sub.ydoc)
  <2>1. sub.ydoc \cup f.payload = sub.ydoc
    BY <1>2
  <2> QED BY <1>1, <2>1, HeadCovered
<1> HIDE DEF f
<1>4. /\ s \in DocSubscription
      /\ s.ydoc = sub.ydoc /\ s.pending = sub.pending /\ s.synced = sub.synced
      /\ s.seqReady = sub.seqReady /\ s.decryptGapSeq = sub.decryptGapSeq
      /\ \/ s.lastSeq = sub.lastSeq
         \/ sub.synced /\ sub.decryptGapSeq = 0 /\ s.lastSeq = f.seq
  <2>1. CASE AckAdvances(sub)
    BY <1>2, <2>1, WorkNow, AdvanceType, AdvanceMoves DEF AckAdvances
  <2>2. CASE ~AckAdvances(sub)
    BY <2>2, WorkNow
  <2> QED BY <2>1, <2>2
<1> HIDE DEF s
<1>5. SameReading(s, sub') /\ sub'.pending = s.pending
  BY <1>1, <1>4, HelpersKeepReading DEF SameReading
<1>6. Recorded(sub'.lastSeq) /\ Covered(sub'.lastSeq, sub'.ydoc)
  BY <1>3, <1>4, <1>5 DEF HoleInv, ReadCovered, SameReading
<1>7. ReadCovered'
  BY <1>1, <1>6 DEF ReadCovered, Recorded, Covered
<1>8. CapturesKept
  <2>1. sub' \in DocSubscription
    BY DEF TypeOK
  <2> QED BY <1>1, <1>6, <2>1, MaybeCompactKeeps
<1>9. OwnWorkHeld'
  BY <1>1, <1>4, <1>5 DEF HoleInv, OwnWorkHeld, SameReading
<1>10. /\ sub'.ydoc = sub.ydoc /\ sub'.synced = sub.synced /\ sub'.seqReady = sub.seqReady
       /\ sub'.decryptGapSeq = sub.decryptGapSeq
  BY <1>4, <1>5 DEF SameReading
<1>11. Head(recv).payload \subseteq sub'.ydoc
  BY <1>2 DEF f
<1> QED BY <1>1, <1>7, <1>8, <1>9, <1>10, <1>11, Taken

LEMMA CompleteSyncHole == ASSUME TypeOK, TypeOK', HoleInv, CompleteSync PROVE HoleInv'
<1> DEFINE f == Head(recv)
           a == Advance(sub, f.seq)
           s == [a EXCEPT !.synced = TRUE]
           waits == [s EXCEPT !.reconciling = TRUE]
           done == [s EXCEPT !.catchUp = {}]
<1>1. /\ recv # <<>> /\ recv' = Tail(recv) /\ f.k = "status"
      /\ UNCHANGED <<log, snap, registered, open, net, batch, deltas, ckpt>>
      /\ \/ sub' = waits /\ Enqueue("reconcile", 0, {})
         \/ sub' = done /\ chain' = chain
  BY DEF CompleteSync, Receiving, serverVars, wireVars, diskVars
<1>2. f \in Frame /\ f.seq \in Nat /\ f.payload = {}
  BY <1>1, HeadCovered DEF Frame, PayloadKinds
<1>3. sub.decryptGapSeq = 0 => Recorded(f.seq) /\ Covered(f.seq, sub.ydoc)
  <2>1. sub.ydoc \cup f.payload = sub.ydoc
    BY <1>2
  <2> QED BY <1>1, <2>1, HeadCovered
<1> HIDE DEF f
<1>4. /\ a \in DocSubscription
      /\ a.ydoc = sub.ydoc /\ a.pending = sub.pending /\ a.seqReady = sub.seqReady
      /\ a.decryptGapSeq = sub.decryptGapSeq
      /\ \/ a.lastSeq = sub.lastSeq
         \/ sub.decryptGapSeq = 0 /\ a.lastSeq = f.seq
  BY <1>2, WorkNow, AdvanceType, AdvanceMoves
<1> HIDE DEF a
<1>5. /\ s \in DocSubscription
      /\ s.ydoc = sub.ydoc /\ s.pending = sub.pending /\ s.seqReady = sub.seqReady
      /\ s.decryptGapSeq = sub.decryptGapSeq /\ s.lastSeq = a.lastSeq
  BY <1>4 DEF DocSubscription
<1> HIDE DEF s
<1>6. /\ waits.ydoc = s.ydoc /\ waits.pending = s.pending /\ waits.seqReady = s.seqReady
      /\ waits.decryptGapSeq = s.decryptGapSeq /\ waits.lastSeq = s.lastSeq
      /\ done.ydoc = s.ydoc /\ done.pending = s.pending /\ done.seqReady = s.seqReady
      /\ done.decryptGapSeq = s.decryptGapSeq /\ done.lastSeq = s.lastSeq
  BY <1>5 DEF DocSubscription
<1> HIDE DEF waits, done
<1>7. /\ sub'.ydoc = sub.ydoc /\ sub'.pending = sub.pending /\ sub'.seqReady = sub.seqReady
      /\ sub'.decryptGapSeq = sub.decryptGapSeq /\ sub'.lastSeq = a.lastSeq
  BY <1>1, <1>5, <1>6
<1>8. ReadCovered'
  BY <1>1, <1>3, <1>4, <1>7 DEF HoleInv, ReadCovered, Recorded, Covered
<1>9. CapturesKept
  <2>1. {} \in Payload
    BY DEF Payload
  <2> QED BY <1>1, <2>1, ChainSame, ChainEnqueue
<1>10. OwnWorkHeld'
  BY <1>1, <1>7 DEF HoleInv, OwnWorkHeld
<1>11. Head(recv).k = "status" /\ Head(recv).payload \subseteq sub'.ydoc
  BY <1>1, <1>2 DEF f
<1> QED BY <1>1, <1>7, <1>8, <1>9, <1>10, <1>11, Taken

LEMMA HandleCompactRequestHole ==
    ASSUME TypeOK, TypeOK', HoleInv, HandleCompactRequest PROVE HoleInv'
<1>1. /\ recv # <<>> /\ recv' = Tail(recv) /\ Head(recv).k = "compact"
      /\ UNCHANGED <<log, snap, registered, open, net, sub, batch, deltas, ckpt>>
      /\ (chain' = chain \/ SendSnapshot(sub))
  BY DEF HandleCompactRequest, Receiving, serverVars, wireVars, diskVars
<1>2. CapturesKept
  BY <1>1, WorkNow, ChainSame, SendSnapshotKeeps DEF HoleInv, ReadCovered
<1>3. ReadCovered' /\ OwnWorkHeld'
  BY <1>1 DEF HoleInv, ReadCovered, OwnWorkHeld, Recorded, Covered
<1>4. Head(recv).payload = {}
  BY <1>1, HeadCovered DEF PayloadKinds
<1> QED BY <1>1, <1>2, <1>3, <1>4, Taken

(***************************************************************************)
(* The actions: the server's own.                                          *)
(***************************************************************************)
LEMMA PeerUpdateHole == ASSUME TypeOK, TypeOK', HoleInv, PeerUpdate PROVE HoleInv'
<1> PICK e \in Peer :
        /\ log' = Append(log, {e})
        /\ net' = IF open /\ registered
                  THEN Append(net, MkFrame("update", Len(log) + 1, {e})) ELSE net
  BY DEF PeerUpdate
<1>1. UNCHANGED <<snap, registered, open, sub, recv, chain, batch, deltas, ckpt>>
  BY DEF PeerUpdate
<1>2. Steady /\ CapturesKept /\ OwnWorkHeld'
  BY <1>1, ChainSame DEF Steady, HoleInv, OwnWorkHeld
<1>3. {e} \in Payload
  BY DEF Payload, Peer, Edits, Ins, Del
<1>4. CASE open /\ registered
  <2> DEFINE f == MkFrame("update", Len(log) + 1, {e})
  <2>1. f \in Frame /\ f.k = "update" /\ f.payload = {e} /\ f.seq = Len(log) + 1
    BY <1>3, ComingType DEF MkFrame, Frame
  <2>2. net' = Append(net, f)
    BY <1>4
  <2> HIDE DEF f
  <2> QED BY <1>1, <1>2, <1>3, <1>4, <2>1, <2>2, LoggedTold
\* A closed socket is not registered, so the server says nothing to it.
<1>5. CASE ~registered
  <2>1. net' = net
    BY <1>5
  <2> QED BY <1>1, <1>2, <1>3, <1>5, <2>1, LoggedAlone
<1>6. open \/ ~registered
  BY DEF HoleInv, SocketShape
<1> QED BY <1>4, <1>5, <1>6

LEMMA RequestCompactionHole ==
    ASSUME TypeOK, TypeOK', HoleInv, RequestCompaction PROVE HoleInv'
<1> DEFINE f == MkFrame("compact", 0, {})
<1>1. /\ open /\ net' = Append(net, f)
      /\ UNCHANGED <<log, snap, registered, open, sub, recv, chain, batch, deltas, ckpt>>
  BY DEF RequestCompaction
<1>2. f \in Frame /\ f.k = "compact" /\ f.payload = {}
  BY DEF MkFrame, Frame, Payload
<1> HIDE DEF f
<1>3. Steady /\ CapturesKept /\ OwnWorkHeld'
  BY <1>1, ChainSame DEF Steady, HoleInv, OwnWorkHeld
<1> QED BY <1>1, <1>2, <1>3, Told

(***************************************************************************)
(* The theorems.                                                           *)
(***************************************************************************)
LEMMA NextHole ==
    ASSUME TypeOK, TypeOK', HoleInv, "skipped" \notin flaws', [Next]_vars
    PROVE  HoleInv'
<1>1. CASE UNCHANGED vars
  <2>1. UNCHANGED <<log, snap, registered, open, net, sub, recv, chain, batch, deltas, ckpt>>
    BY <1>1 DEF vars
  <2>2. SameReading(sub, sub') /\ CapturesKept
    BY <2>1, ChainSame DEF SameReading
  <2> QED BY <2>1, <2>2, WorkNow, NothingSent
<1>2. CASE Server
  BY <1>2, PeerUpdateHole, RequestCompactionHole DEF Server
<1>3. CASE Life
  BY <1>3, OpenedHole, SeqLoadedHole, PersistHole, SeqSaveFiresHole DEF Life
<1>4. CASE LocalEdit
  BY <1>4, LocalEditHole
<1>5. CASE Sending
  BY <1>5, FlushStartsHole, FlushEncryptedHole, ReconcileHole, DeltaRetryFiresHole,
     RetryDeltaHole, DeltaEncryptedHole, SnapshotEncryptedHole DEF Sending
<1>6. CASE Receive
  BY <1>6, DeliverHole, ReceivePayloadHole, ReceiveAckHole, CompleteSyncHole,
     HandleCompactRequestHole DEF Receive
<1>7. CASE Failure
  BY <1>7, ClosedHole, RestartHole, FlushFailsHole, DeltaFailsHole, SnapshotFailsHole,
     DecryptFailsHole DEF Failure
<1> QED BY <1>1, <1>2, <1>3, <1>4, <1>5, <1>6, <1>7 DEF Next

\* A flaw, once there, is never taken back.
LEMMA FlawsGrow == ASSUME [Next]_vars PROVE flaws \subseteq flaws'
BY DEF Next, Server, Life, Sending, Receive, Failure, vars, histVars,
       PeerUpdate, RequestCompaction, Opened, SeqLoaded, Closed, Restart, Persist,
       SeqSaveFires, LocalEdit, FlushStarts, FlushEncrypted, FlushFails, Reconcile,
       DeltaRetryFires, RetryDelta, DeltaEncrypted, DeltaFails, SnapshotEncrypted,
       SnapshotFails, Deliver, ReceivePayload, DecryptFails, ReceiveAck,
       CompleteSync, HandleCompactRequest

NothingSkippedYet == "skipped" \notin flaws => HoleInv

LEMMA HoleInvariant == Spec => [](TypeOK /\ NothingSkippedYet)
<1>1. Init => TypeOK /\ NothingSkippedYet
  BY InitType, InitHole DEF NothingSkippedYet
<1>2. TypeOK /\ NothingSkippedYet /\ [Next]_vars => TypeOK' /\ NothingSkippedYet'
  <2> SUFFICES ASSUME TypeOK, NothingSkippedYet, [Next]_vars
               PROVE  TypeOK' /\ NothingSkippedYet'
    OBVIOUS
  <2>1. TypeOK'
    BY NextType
  <2>2. ASSUME "skipped" \notin flaws' PROVE HoleInv'
    <3>1. HoleInv
      BY <2>2, FlawsGrow DEF NothingSkippedYet
    <3> QED BY <2>1, <2>2, <3>1, NextHole
  <2> QED BY <2>1, <2>2 DEF NothingSkippedYet
<1> QED BY <1>1, <1>2, PTL DEF Spec

\* The read position never passes an update the document lacks, whatever closes,
\* restarts, drops or fails to decrypt and however long the log grows (receive,
\* handleMessage's Ack and completeSync, NEC-87), unless a live update was taken
\* before the catch-up over one this socket was never sent: that is the only way.
THEOREM NothingSkipped == Spec => []NoHole
<1>1. NothingSkippedYet => NoHole
  BY DEF NothingSkippedYet, HoleInv, ReadCovered, Covered, NoHole
<1> QED BY <1>1, HoleInvariant, PTL

\* Nothing recorded is lost to compaction: a snapshot holds every insertion of
\* the log its sequence lets the server delete (sendSnapshot's capture, and its
\* refusal over a hole), under the same proviso.
THEOREM SnapshotsCover == Spec => []RecordedIsKept
<1>1. TypeOK /\ NothingSkippedYet => RecordedIsKept
  <2> SUFFICES ASSUME TypeOK, HoleInv, NEW i \in 1..Len(log), NEW e \in log[i] \cap Ins
               PROVE  e \in ServerDoc
    BY DEF RecordedIsKept, NothingSkippedYet
  <2>1. snap.seq \in Nat /\ Len(log) \in Nat
    BY ComingType DEF TypeOK
  <2>2. CASE i <= snap.seq
    <3>1. i \in 1..snap.seq
      BY <2>1, <2>2
    <3> QED BY <3>1 DEF HoleInv, SnapshotCovered, Covered, ServerDoc
  <2>3. CASE i > snap.seq
    <3>1. i \in (snap.seq + 1)..Len(log)
      BY <2>1, <2>3
    <3> QED BY <3>1 DEF ServerDoc
  <2> QED BY <2>1, <2>2, <2>3
<1> QED BY <1>1, HoleInvariant, PTL
=============================================================================
