------------------------ MODULE DocSyncLedgerProofs -------------------------
(***************************************************************************)
(* That a settled client's edits are with the server, that what it holds   *)
(* back is shown, and that it keeps DocLog's promise: for any edits,       *)
(* bounds and faults, as long as none of FlawKinds has happened.           *)
(*                                                                         *)
(* The argument is a ledger.  Every edit of this device that its document  *)
(* holds is with the server, or in something that makes the client owe:    *)
(* a queue, a batch, a delta under way, a push not acknowledged, a debt,   *)
(* or it came from the disk and its reconcile is still to come.            *)
(***************************************************************************)
EXTENDS DocSyncProofs, FiniteSetTheorems, FunctionTheorems

(***************************************************************************)
(* What this device, and the server, know of an edit.                      *)
(***************************************************************************)
\* The edits a checkpoint says the server has.
Vouched == IF ckpt.seq > 0 THEN ckpt.sv ELSE {}

IsSnapshot(j) == chain[j].k = "snapshot"

\* What was written to the disk is in the document.
OnDisk == idb \subseteq sub.ydoc

\* Snapshots queued one behind the other grow, and one that will replace the
\* server's forgets nothing that only the server's has.
Captures ==
    /\ \A j \in 1..Len(chain) : IsSnapshot(j) => chain[j].payload \subseteq sub.ydoc
    /\ \A j \in 1..Len(chain) : \A i \in 1..(j - 1) :
           IsSnapshot(i) /\ IsSnapshot(j) => chain[i].payload \subseteq chain[j].payload
    /\ \A j \in 1..Len(chain) : IsSnapshot(j) /\ snap.seq < chain[j].seq =>
           snap.content \cap Ins \subseteq chain[j].payload \cup Logged

\* The document has what the server's snapshot has beyond the log: once the read
\* position is past the snapshot, by the time a frame moves it past, and, on a
\* socket that has subscribed, when all that is under way has been read.
SnapReaches(j) ==
    \A e \in snap.content \cap Ins :
        e \in sub.ydoc \cup Logged \/ \E m \in 1..j : e \in Coming[m].payload
SnapshotRead ==
    snap.seq <= sub.lastSeq => snap.content \cap Ins \subseteq sub.ydoc \cup Logged
SnapshotComing ==
    \A h \in 1..Len(Coming) : Moves(h) /\ snap.seq <= Coming[h].seq => SnapReaches(h)
SnapshotKnown ==
    /\ snap.seq = 0 => snap.content = {}
    /\ sub.decryptGapSeq = 0 => /\ SnapshotRead /\ SnapshotComing
                                /\ open /\ sub.seqReady => SnapReaches(Len(Coming))

\* What comes from the server is with the server.
FramesKept == \A j \in 1..Len(Coming) : Coming[j].payload \cap Ins \subseteq ServerDoc

\* What the client takes the server to have, it has.
Proven(S) == S \subseteq sub.ydoc /\ S \cap LocalIns \subseteq ServerDoc
ProofsStand ==
    /\ Proven(sub.catchUp)
    /\ Proven(sub.serverSV)
    /\ \A j \in 1..Len(chain) : chain[j].k = "retry" => Proven(chain[j].payload)

\* A checkpoint vouches for what the server has.
VouchedKept == Vouched \cap LocalIns \subseteq ServerDoc

\* The pushes counted and not paid off: Acks to come, and deltas under way.
AcksDue == {j \in 1..Len(Coming) : Coming[j].k = "ack" /\ Coming[j].live}
DeltasDue == {i \in 1..Len(deltas) : deltas[i].live}
Due == Cardinality(AcksDue) + Cardinality(DeltasDue)

Counted == unacked >= Due

\* Why an edit of this device need not be with the server yet.
OnItsWay(e) ==
    \/ e \in sub.pending
    \/ e \in batch
    \/ sub.owesReconcile
    \/ \E i \in DeltasDue : e \in deltas[i].payload
    \/ unacked > Due
    \/ e \in restored

Accounted ==
    \A e \in sub.ydoc \cap LocalIns : e \in ServerDoc \/ OnItsWay(e)

\* The server has what a launch took from the disk, or the launch is still cold:
\* its catch-up asks from 0, and the reconcile that ends it is to come.
Cold == \/ restored \subseteq ServerDoc
        \/ sub.catchUpFrom = 0 /\ (sub.synced => sub.reconciling)

\* One flush is queued at a time, and a batch is a flush's.
OneFlush ==
    /\ \A j \in 1..Len(chain) : chain[j].k = "flush" =>
           sub.flushing /\ \A i \in 1..Len(chain) : chain[i].k = "flush" => i = j
    /\ batch # {} => sub.flushing

LedgerInv ==
    /\ OnDisk /\ Captures /\ SnapshotKnown /\ FramesKept /\ ProofsStand
    /\ VouchedKept /\ Counted /\ Accounted /\ Cold /\ OneFlush

(***************************************************************************)
(* The server's side of a step.                                            *)
(***************************************************************************)
LEMMA ServerSame ==
    ASSUME log' = log, snap' = snap
    PROVE  ServerDoc' = ServerDoc /\ Logged' = Logged
BY DEF ServerDoc, Logged

LEMMA InServerDoc ==
    ASSUME NEW e
    PROVE  e \in ServerDoc <=> \/ e \in snap.content
                              \/ \E i \in (snap.seq + 1)..Len(log) : e \in log[i]
BY Zenon DEF ServerDoc

LEMMA InServerDocNext ==
    ASSUME NEW e, snap' = snap
    PROVE  e \in ServerDoc' <=> \/ e \in snap.content
                               \/ \E i \in (snap.seq + 1)..Len(log') : e \in log'[i]
BY Zenon DEF ServerDoc

LEMMA ServerLogged ==
    ASSUME TypeOK, HoleInv, NEW p \in Payload, log' = Append(log, p), snap' = snap
    PROVE  ServerDoc' = ServerDoc \cup p /\ Logged' = Logged \cup p
<1>1. /\ Len(log') = Len(log) + 1
      /\ log'[Len(log) + 1] = p
      /\ \A i \in 1..Len(log) : log'[i] = log[i]
      /\ Len(log) \in Nat
  BY AppendProperties, LenProperties DEF TypeOK
<1>2. snap.seq \in 0..Len(log)
  BY DEF HoleInv, SnapshotCovered, Recorded
<1>3. Logged' = Logged \cup p
  <2>1. ASSUME NEW e PROVE e \in Logged' <=> e \in Logged \cup p
    <3>1. e \in Logged' <=> \E i \in 1..(Len(log) + 1) : e \in log'[i]
      BY <1>1 DEF Logged
    <3>2. (\E i \in 1..(Len(log) + 1) : e \in log'[i])
            <=> e \in log'[Len(log) + 1] \/ \E i \in 1..Len(log) : e \in log'[i]
      BY <1>1
    <3> QED BY <1>1, <3>1, <3>2 DEF Logged
  <2> QED BY <2>1
<1>4. ServerDoc' = ServerDoc \cup p
  <2>1. ASSUME NEW e PROVE e \in ServerDoc' <=> e \in ServerDoc \cup p
    <3>1. e \in ServerDoc' <=> \/ e \in snap.content
                               \/ \E i \in (snap.seq + 1)..(Len(log) + 1) : e \in log'[i]
      BY <1>1, InServerDocNext
    <3>2. (\E i \in (snap.seq + 1)..(Len(log) + 1) : e \in log'[i])
            <=> \/ e \in log'[Len(log) + 1]
                \/ \E i \in (snap.seq + 1)..Len(log) : e \in log'[i]
      BY <1>1, <1>2
    <3>3. \A i \in (snap.seq + 1)..Len(log) : log'[i] = log[i]
      BY <1>1, <1>2
    <3> QED BY <1>1, <3>1, <3>2, <3>3, InServerDoc
  <2> QED BY <2>1
<1> QED BY <1>3, <1>4

\* What the log has of insertions, the server still has.
LEMMA LoggedIsServed == TypeOK /\ HoleInv => Logged \cap Ins \subseteq ServerDoc
<1> SUFFICES ASSUME TypeOK, HoleInv, NEW i \in 1..Len(log), NEW e \in log[i] \cap Ins
             PROVE  e \in ServerDoc
  BY DEF Logged
<1>1. snap.seq \in Nat /\ Len(log) \in Nat
  BY ComingType DEF TypeOK
<1>2. CASE i <= snap.seq
  <2>1. i \in 1..snap.seq
    BY <1>1, <1>2
  <2> QED BY <2>1 DEF HoleInv, SnapshotCovered, Covered, ServerDoc
<1>3. CASE i > snap.seq
  <2>1. i \in (snap.seq + 1)..Len(log)
    BY <1>1, <1>3
  <2> QED BY <2>1 DEF ServerDoc
<1> QED BY <1>1, <1>2, <1>3

LEMMA LoggedIsServedNext == (TypeOK /\ HoleInv)' => (Logged \cap Ins \subseteq ServerDoc)'
BY LoggedIsServed, PTL

(***************************************************************************)
(* The pushes due, counted by their places.                                *)
(***************************************************************************)
LEMMA DueType ==
    ASSUME TypeOK
    PROVE  /\ IsFiniteSet(AcksDue) /\ IsFiniteSet(DeltasDue)
           /\ Cardinality(AcksDue) \in Nat /\ Cardinality(DeltasDue) \in Nat
           /\ Due \in Nat
<1>1. Len(Coming) \in Nat /\ Len(deltas) \in Nat
  BY ComingType, LenProperties DEF TypeOK
<1>2. IsFiniteSet(1..Len(Coming)) /\ IsFiniteSet(1..Len(deltas))
  BY <1>1, FS_Interval
<1>3. IsFiniteSet(AcksDue) /\ IsFiniteSet(DeltasDue)
  <2>1. AcksDue \in SUBSET (1..Len(Coming)) /\ DeltasDue \in SUBSET (1..Len(deltas))
    BY DEF AcksDue, DeltasDue
  <2> QED BY <1>2, <2>1, FS_Subset
<1>4. Cardinality(AcksDue) \in Nat /\ Cardinality(DeltasDue) \in Nat
  BY <1>3, FS_CardinalityType
<1> QED BY <1>3, <1>4 DEF Due

\* Taking one place out of a set of places and closing the gap.
Closes(S, i, T) == \A j \in Nat : j \in T <=> IF j < i THEN j \in S ELSE j + 1 \in S

LEMMA ClosedGap ==
    ASSUME NEW S \in SUBSET Nat, NEW i \in Nat, NEW T \in SUBSET Nat,
           IsFiniteSet(S), Closes(S, i, T)
    PROVE  Cardinality(T) = IF i \in S THEN Cardinality(S) - 1 ELSE Cardinality(S)
<1> USE DEF Closes
<1> DEFINE U == S \ {i}
           f == [j \in U |-> IF j < i THEN j ELSE j - 1]
<1>1. IsFiniteSet(U) /\ Cardinality(U) = IF i \in S THEN Cardinality(S) - 1 ELSE Cardinality(S)
  BY FS_RemoveElement
<1>2. f \in Bijection(U, T)
  <2>1. f \in [U -> T]
    <3> SUFFICES ASSUME NEW j \in U PROVE (IF j < i THEN j ELSE j - 1) \in T
      OBVIOUS
    <3>1. j \in Nat /\ j # i /\ j \in S
      OBVIOUS
    <3>2. CASE j < i
      BY <3>1, <3>2
    <3>3. CASE j > i
      <4>1. j - 1 \in Nat /\ ~(j - 1 < i) /\ (j - 1) + 1 = j
        BY <3>1, <3>3
      <4> QED BY <3>1, <3>3, <4>1
    <3> QED BY <3>1, <3>2, <3>3
  <2>2. \A a, b \in U : f[a] = f[b] => a = b
    OBVIOUS
  <2>3. \A t \in T : \E u \in U : f[u] = t
    <3> SUFFICES ASSUME NEW t \in T PROVE \E u \in U : f[u] = t
      OBVIOUS
    <3>1. CASE t < i
      BY <3>1
    <3>2. CASE ~(t < i)
      <4>1. t \in Nat /\ t + 1 \in U /\ ~(t + 1 < i) /\ (t + 1) - 1 = t
        BY <3>2
      <4> QED BY <4>1
    <3> QED BY <3>1, <3>2
  <2> HIDE DEF f, U
  <2> QED BY <2>1, <2>2, <2>3, Fun_IsBij
<1> HIDE DEF f, U
<1>3. Cardinality(T) = Cardinality(U)
  <2>1. ExistsBijection(U, T)
    BY <1>2 DEF ExistsBijection
  <2> QED BY <1>1, <2>1, FS_Bijection
<1> QED BY <1>1, <1>3
LEMMA AckAppended ==
    ASSUME TypeOK, NEW f \in Frame, Coming' = Append(Coming, f)
    PROVE  Cardinality(AcksDue') =
               Cardinality(AcksDue) + (IF f.k = "ack" /\ f.live THEN 1 ELSE 0)
<1>1. /\ Len(Coming') = Len(Coming) + 1
      /\ Coming'[Len(Coming) + 1] = f
      /\ \A m \in 1..Len(Coming) : Coming'[m] = Coming[m]
      /\ Len(Coming) \in Nat
  BY ComingType, AppendProperties
<1> DEFINE x == Len(Coming) + 1
<1>2. AcksDue' = IF f.k = "ack" /\ f.live THEN AcksDue \cup {x} ELSE AcksDue
  <2>1. \A j \in 1..(Len(Coming) + 1) : j \in 1..Len(Coming) \/ j = x
    BY <1>1
  <2>2. \A j \in 1..Len(Coming) : j \in 1..(Len(Coming) + 1)
    BY <1>1
  <2>3. x \in 1..(Len(Coming) + 1) /\ Coming'[x] = f
    BY <1>1
  <2> HIDE DEF x
  <2> QED BY <1>1, <2>1, <2>2, <2>3 DEF AcksDue
<1>3. x \notin AcksDue
  BY <1>1 DEF AcksDue
<1> HIDE DEF x
<1>4. CASE f.k = "ack" /\ f.live
  BY <1>2, <1>3, <1>4, DueType, FS_AddElement
<1>5. CASE ~(f.k = "ack" /\ f.live)
  BY <1>2, <1>5, DueType
<1> QED BY <1>4, <1>5

LEMMA AckTaken ==
    ASSUME TypeOK, TypeOK', Coming # <<>>, Coming' = Tail(Coming)
    PROVE  Cardinality(AcksDue') =
               IF Head(Coming).k = "ack" /\ Head(Coming).live
               THEN Cardinality(AcksDue) - 1 ELSE Cardinality(AcksDue)
<1>1. /\ Len(Coming') = Len(Coming) - 1
      /\ Coming[1] = Head(Coming)
      /\ \A m \in 1..Len(Coming') : Coming'[m] = Coming[m + 1]
      /\ Len(Coming) \in Nat /\ Len(Coming) > 0
  BY ComingType, HeadTailProperties, LenProperties, EmptySeq
<1>2. \A j \in Nat : j \in AcksDue' <=> IF j < 1 THEN j \in AcksDue ELSE j + 1 \in AcksDue
  <2> SUFFICES ASSUME NEW j \in Nat
               PROVE  j \in AcksDue' <=> IF j < 1 THEN j \in AcksDue ELSE j + 1 \in AcksDue
    OBVIOUS
  <2>1. CASE j < 1
    BY <1>1, <2>1 DEF AcksDue
  <2>2. CASE ~(j < 1)
    <3>1. j \in 1..(Len(Coming) - 1) <=> j + 1 \in 1..Len(Coming)
      BY <1>1, <2>2
    <3>2. j \in 1..(Len(Coming) - 1) => Coming'[j] = Coming[j + 1]
      BY <1>1
    <3> QED BY <1>1, <2>2, <3>1, <3>2 DEF AcksDue
  <2> QED BY <2>1, <2>2
<1>3. 1 \in AcksDue <=> Head(Coming).k = "ack" /\ Head(Coming).live
  BY <1>1 DEF AcksDue
<1>4. AcksDue \in SUBSET Nat /\ AcksDue' \in SUBSET Nat /\ IsFiniteSet(AcksDue)
  <2>1. AcksDue \subseteq 1..Len(Coming) /\ AcksDue' \subseteq 1..Len(Coming')
    BY DEF AcksDue
  <2>2. 1..Len(Coming) \subseteq Nat /\ 1..Len(Coming') \subseteq Nat
    BY <1>1
  <2> QED BY <2>1, <2>2, DueType
<1> DEFINE T == AcksDue'
<1>5. T \in SUBSET Nat /\ Closes(AcksDue, 1, T)
  BY <1>2, <1>4 DEF Closes
<1> HIDE DEF T
<1>6. Cardinality(T) = IF 1 \in AcksDue THEN Cardinality(AcksDue) - 1 ELSE Cardinality(AcksDue)
  BY <1>4, <1>5, ClosedGap
<1> QED BY <1>3, <1>6 DEF T

LEMMA DeltaAdded ==
    ASSUME TypeOK, NEW d \in Delta, deltas' = Append(deltas, d)
    PROVE  /\ Cardinality(DeltasDue') = Cardinality(DeltasDue) + (IF d.live THEN 1 ELSE 0)
           /\ DeltasDue \subseteq DeltasDue'
           /\ \A i \in 1..Len(deltas) : deltas'[i] = deltas[i]
           /\ d.live => Len(deltas) + 1 \in DeltasDue'
           /\ deltas'[Len(deltas) + 1] = d
<1>1. /\ Len(deltas') = Len(deltas) + 1
      /\ deltas'[Len(deltas) + 1] = d
      /\ \A m \in 1..Len(deltas) : deltas'[m] = deltas[m]
      /\ Len(deltas) \in Nat
  BY AppendProperties, LenProperties DEF TypeOK
<1> DEFINE x == Len(deltas) + 1
<1>2. DeltasDue' = IF d.live THEN DeltasDue \cup {x} ELSE DeltasDue
  <2>1. \A j \in 1..(Len(deltas) + 1) : j \in 1..Len(deltas) \/ j = x
    BY <1>1
  <2>2. \A j \in 1..Len(deltas) : j \in 1..(Len(deltas) + 1)
    BY <1>1
  <2>3. x \in 1..(Len(deltas) + 1) /\ deltas'[x] = d
    BY <1>1
  <2> HIDE DEF x
  <2> QED BY <1>1, <2>1, <2>2, <2>3 DEF DeltasDue
<1>3. x \notin DeltasDue
  BY <1>1 DEF DeltasDue
<1>4. Cardinality(DeltasDue') = Cardinality(DeltasDue) + (IF d.live THEN 1 ELSE 0)
  <2> HIDE DEF x
  <2>1. CASE d.live
    BY <1>2, <1>3, <2>1, DueType, FS_AddElement
  <2>2. CASE ~d.live
    BY <1>2, <2>2, DueType
  <2> QED BY <2>1, <2>2
<1> QED BY <1>1, <1>2, <1>4

LEMMA RemoveAt ==
    ASSUME NEW S, NEW q \in Seq(S), NEW i \in 1..Len(q)
    PROVE  /\ Len(Remove(q, i)) = Len(q) - 1
           /\ \A j \in 1..(Len(q) - 1) : Remove(q, i)[j] = IF j < i THEN q[j] ELSE q[j + 1]
<1> DEFINE a == SubSeq(q, 1, i - 1)
           b == SubSeq(q, i + 1, Len(q))
<1>1. Len(q) \in Nat /\ i \in Nat /\ 1 <= i /\ i <= Len(q)
  BY LenProperties
<1>2. a \in Seq(S) /\ Len(a) = i - 1 /\ \A j \in 1..(i - 1) : a[j] = q[j]
  <2>1. /\ \A k \in 1..(i - 1) : k \in 1..Len(q)
        /\ (IF 1 <= i - 1 THEN (i - 1) - 1 + 1 ELSE 0) = i - 1
        /\ \A j \in 1..(i - 1) : 1 + j - 1 = j
    BY <1>1
  <2> QED BY <1>1, <2>1, SubSeqProperties
<1>3. b \in Seq(S) /\ Len(b) = Len(q) - i /\ \A j \in 1..(Len(q) - i) : b[j] = q[j + i]
  <2>1. /\ \A k \in (i + 1)..Len(q) : k \in 1..Len(q)
        /\ (IF i + 1 <= Len(q) THEN Len(q) - (i + 1) + 1 ELSE 0) = Len(q) - i
        /\ \A j \in 1..(Len(q) - i) : (i + 1) + j - 1 = j + i
    BY <1>1
  <2> QED BY <1>1, <2>1, SubSeqProperties
<1> HIDE DEF a, b
<1>4. Remove(q, i) = a \o b
  BY DEF Remove, a, b
<1>5. /\ Len(a \o b) = Len(a) + Len(b)
      /\ \A j \in 1..(Len(a) + Len(b)) :
             (a \o b)[j] = IF j <= Len(a) THEN a[j] ELSE b[j - Len(a)]
  BY <1>2, <1>3, ConcatProperties
<1>6. ASSUME NEW j \in 1..(Len(q) - 1)
      PROVE  Remove(q, i)[j] = IF j < i THEN q[j] ELSE q[j + 1]
  <2>1. Remove(q, i)[j] = IF j <= i - 1 THEN a[j] ELSE b[j - (i - 1)]
    <3>1. j \in 1..(Len(a) + Len(b)) /\ Len(a) = i - 1
      BY <1>1, <1>2, <1>3
    <3>2. (a \o b)[j] = IF j <= Len(a) THEN a[j] ELSE b[j - Len(a)]
      BY <1>5, <3>1
    <3> QED BY <1>4, <3>1, <3>2
  <2>2. CASE j < i
    <3>1. j \in 1..(i - 1)
      BY <1>1, <2>2
    <3> QED BY <1>1, <1>2, <2>1, <2>2, <3>1
  <2>3. CASE ~(j < i)
    <3>1. j - (i - 1) \in 1..(Len(q) - i) /\ (j - (i - 1)) + i = j + 1 /\ ~(j <= i - 1)
      BY <1>1, <2>3
    <3>2. b[j - (i - 1)] = q[(j - (i - 1)) + i]
      BY <1>3, <3>1
    <3> QED BY <2>1, <2>3, <3>1, <3>2
  <2> QED BY <2>2, <2>3
<1> QED BY <1>1, <1>2, <1>3, <1>4, <1>5, <1>6

\* A delta leaves the ones under way; the rest keep their order.
LEMMA DeltaRemoved ==
    ASSUME TypeOK, TypeOK', NEW i \in 1..Len(deltas),
           Len(deltas') = Len(deltas) - 1,
           \A j \in 1..(Len(deltas) - 1) :
               LET d == Remove(deltas, i)[j]
               IN  deltas'[j].live = d.live /\ deltas'[j].payload = d.payload
    PROVE  /\ Cardinality(DeltasDue') =
                  IF deltas[i].live THEN Cardinality(DeltasDue) - 1 ELSE Cardinality(DeltasDue)
           /\ \A h \in DeltasDue : h # i =>
                  \E j \in DeltasDue' : deltas'[j].payload = deltas[h].payload
<1>1. Len(deltas) \in Nat /\ Len(deltas') \in Nat /\ i \in Nat /\ i >= 1
  BY LenProperties DEF TypeOK
<1>2. ASSUME NEW j \in 1..(Len(deltas) - 1)
      PROVE  /\ deltas'[j].live = (IF j < i THEN deltas[j] ELSE deltas[j + 1]).live
             /\ deltas'[j].payload = (IF j < i THEN deltas[j] ELSE deltas[j + 1]).payload
  <2>1. Remove(deltas, i)[j] = IF j < i THEN deltas[j] ELSE deltas[j + 1]
    BY ZenonT(60), RemoveAt DEF TypeOK
  <2> QED BY <2>1
<1> DEFINE T == DeltasDue'
<1>3. T \in SUBSET Nat /\ DeltasDue \in SUBSET Nat
  <2>1. T \subseteq 1..Len(deltas') /\ DeltasDue \subseteq 1..Len(deltas)
    BY DEF DeltasDue
  <2>2. 1..Len(deltas) \subseteq Nat /\ 1..Len(deltas') \subseteq Nat
    BY <1>1
  <2> QED BY <2>1, <2>2
<1>4. ASSUME NEW j \in Nat
      PROVE  j \in T <=> IF j < i THEN j \in DeltasDue ELSE j + 1 \in DeltasDue
  <2>1. j \in T <=> j \in 1..(Len(deltas) - 1) /\ deltas'[j].live
    BY DEF DeltasDue
  <2>2. CASE j < i
    <3>1. j \in 1..(Len(deltas) - 1) <=> j \in 1..Len(deltas)
      BY <1>1, <2>2
    <3> QED BY <1>2, <2>1, <2>2, <3>1 DEF DeltasDue
  <2>3. CASE ~(j < i)
    <3>1. j \in 1..(Len(deltas) - 1) <=> j + 1 \in 1..Len(deltas)
      BY <1>1, <2>3
    <3> QED BY <1>2, <2>1, <2>3, <3>1 DEF DeltasDue
  <2> QED BY <2>2, <2>3
<1>5. ASSUME NEW h \in DeltasDue, h # i
      PROVE  \E j \in T : deltas'[j].payload = deltas[h].payload
  <2>1. h \in 1..Len(deltas) /\ deltas[h].live
    BY DEF DeltasDue
  <2>2. CASE h < i
    <3>1. h \in Nat /\ h \in 1..(Len(deltas) - 1)
      BY <1>1, <2>1, <2>2
    <3> QED BY <1>2, <1>4, <2>2, <3>1
  <2>3. CASE h > i
    <3> DEFINE j == h - 1
    <3>1. j \in Nat /\ j \in 1..(Len(deltas) - 1) /\ ~(j < i) /\ j + 1 = h
      BY <1>1, <2>1, <2>3
    <3> HIDE DEF j
    <3> QED BY <1>2, <1>4, <3>1
  <2> QED BY <1>1, <1>5, <2>1, <2>2, <2>3
<1>6. Cardinality(T) = IF i \in DeltasDue THEN Cardinality(DeltasDue) - 1
                       ELSE Cardinality(DeltasDue)
  <2> DEFINE S == DeltasDue
  <2> HIDE DEF T
  <2>1. Closes(S, i, T)
    BY <1>4 DEF Closes
  <2>2. IsFiniteSet(S) /\ S \in SUBSET Nat /\ T \in SUBSET Nat /\ i \in Nat
    BY <1>1, <1>3, DueType
  <2> HIDE DEF S
  <2>3. Cardinality(T) = IF i \in S THEN Cardinality(S) - 1 ELSE Cardinality(S)
    BY <2>1, <2>2, ClosedGap
  <2> QED BY <2>3 DEF S
<1>7. i \in DeltasDue <=> deltas[i].live
  BY DEF DeltasDue
<1> QED BY <1>5, <1>6, <1>7

\* A hold marks the deltas and changes nothing else about them.
LEMMA MarkHeldSays ==
    ASSUME NEW ds \in Seq(Delta)
    PROVE  /\ Len(MarkHeld(ds)) = Len(ds)
           /\ \A i \in 1..Len(ds) : /\ MarkHeld(ds)[i].live = ds[i].live
                                    /\ MarkHeld(ds)[i].payload = ds[i].payload
<1>1. Len(ds) \in Nat /\ \A i \in 1..Len(ds) : ds[i] \in Delta
  BY LenProperties, ElementOfSeq
<1>2. \A i \in 1..Len(ds) : /\ [ds[i] EXCEPT !.held = TRUE].live = ds[i].live
                            /\ [ds[i] EXCEPT !.held = TRUE].payload = ds[i].payload
  BY <1>1 DEF Delta
<1>3. Len(MarkHeld(ds)) = Len(ds)
  <2>1. DOMAIN MarkHeld(ds) = 1..Len(ds)
    BY DEF MarkHeld
  <2>2. DOMAIN MarkHeld(ds) = 1..Len(MarkHeld(ds)) /\ Len(MarkHeld(ds)) \in Nat
    BY MarkHeldType, LenProperties
  <2> QED BY <1>1, <2>1, <2>2
<1>4. \A i \in 1..Len(ds) : MarkHeld(ds)[i] = [ds[i] EXCEPT !.held = TRUE]
  BY DEF MarkHeld
<1> QED BY <1>2, <1>3, <1>4

LEMMA DeltasMarked ==
    ASSUME TypeOK, deltas' = MarkHeld(deltas)
    PROVE  /\ DeltasDue' = DeltasDue
           /\ \A i \in DeltasDue : deltas'[i].payload = deltas[i].payload
<1>1. /\ Len(deltas') = Len(deltas)
      /\ \A i \in 1..Len(deltas) : /\ deltas'[i].live = deltas[i].live
                                   /\ deltas'[i].payload = deltas[i].payload
  BY MarkHeldSays DEF TypeOK
<1> QED BY <1>1 DEF DeltasDue

\* With its socket gone, nothing is due.
LEMMA NothingDue ==
    ASSUME TypeOK, TypeOK', recv' = Stale(recv), net' = <<>>, deltas' = Stale(deltas)
    PROVE  AcksDue' = {} /\ DeltasDue' = {} /\ Due' = 0
<1>1. Coming' = Stale(recv)
  <2>1. Stale(recv) \in Seq(Frame)
    BY StaleFrames DEF TypeOK
  <2> QED BY <2>1, ConcatEmptySeq DEF Coming
<1>2. /\ Len(Coming') = Len(recv)
      /\ \A j \in 1..Len(recv) : ~Coming'[j].live
  <2>1. \A j \in 1..Len(recv) : Stale(recv)[j] = [recv[j] EXCEPT !.live = FALSE] /\ recv[j] \in Frame
    BY ElementOfSeq DEF Stale, TypeOK
  <2>2. \A j \in 1..Len(recv) : ~Stale(recv)[j].live
    BY <2>1 DEF Frame
  <2> QED BY <1>1, <2>2, StaleFramesSay DEF TypeOK
<1>3. AcksDue' = {}
  BY <1>2 DEF AcksDue
<1>4. Len(deltas') = Len(deltas) /\ \A j \in 1..Len(deltas) : ~deltas'[j].live
  <2>1. Len(deltas) \in Nat /\ DOMAIN Stale(deltas) = 1..Len(deltas)
    BY LenProperties DEF Stale, TypeOK
  <2>2. DOMAIN Stale(deltas) = 1..Len(Stale(deltas)) /\ Len(Stale(deltas)) \in Nat
    BY StaleDeltas, LenProperties DEF TypeOK
  <2>3. \A j \in 1..Len(deltas) : Stale(deltas)[j] = [deltas[j] EXCEPT !.live = FALSE]
                                  /\ deltas[j] \in Delta
    BY ElementOfSeq DEF Stale, TypeOK
  <2>4. \A j \in 1..Len(deltas) : ~Stale(deltas)[j].live
    BY <2>3 DEF Delta
  <2> QED BY <2>1, <2>2, <2>4
<1>5. DeltasDue' = {}
  BY <1>4 DEF DeltasDue
<1>6. Cardinality({}) = 0
  BY FS_EmptySet
<1> QED BY <1>3, <1>5, <1>6 DEF Due

(***************************************************************************)
(* A queue as a step leaves it: the same, without its head, or with a      *)
(* member more.                                                            *)
(***************************************************************************)
Follows(q, r, N) ==
    \E d \in {0, 1} : \A j \in 1..Len(r) :
        \/ j + d \in 1..Len(q) /\ r[j] = q[j + d]
        \/ j = Len(r) /\ r[j] \in N

LEMMA FollowsSame == ASSUME NEW q, NEW r, r = q, Len(q) \in Nat, NEW N PROVE Follows(q, r, N)
<1>1. \A j \in 1..Len(r) : j + 0 \in 1..Len(q) /\ r[j] = q[j + 0]
  OBVIOUS
<1> QED BY <1>1 DEF Follows

LEMMA FollowsNone == ASSUME NEW q, NEW r, Len(r) = 0, NEW N PROVE Follows(q, r, N)
BY DEF Follows

LEMMA FollowsTail ==
    ASSUME NEW S, NEW q \in Seq(S), q # <<>>, NEW r, r = Tail(q), NEW N
    PROVE  Follows(q, r, N)
<1>1. /\ Len(r) = Len(q) - 1 /\ Len(q) \in Nat
      /\ \A j \in 1..Len(r) : r[j] = q[j + 1]
  BY HeadTailProperties, LenProperties
<1>2. \A j \in 1..Len(r) : j + 1 \in 1..Len(q) /\ r[j] = q[j + 1]
  BY <1>1
<1> QED BY <1>2 DEF Follows

LEMMA FollowsAppend ==
    ASSUME NEW S, NEW q \in Seq(S), NEW x \in S, NEW r, r = Append(q, x), NEW N, x \in N
    PROVE  Follows(q, r, N)
<1>1. /\ Len(r) = Len(q) + 1 /\ Len(q) \in Nat
      /\ r[Len(q) + 1] = x
      /\ \A j \in 1..Len(q) : r[j] = q[j]
  BY AppendProperties, LenProperties
<1>2. ASSUME NEW j \in 1..Len(r)
      PROVE  \/ j + 0 \in 1..Len(q) /\ r[j] = q[j + 0]
             \/ j = Len(r) /\ r[j] \in N
  <2>1. CASE j \in 1..Len(q)
    BY <1>1, <2>1
  <2>2. CASE j = Len(q) + 1
    BY <1>1, <2>2
  <2> QED BY <1>1, <2>1, <2>2
<1> QED BY <1>2 DEF Follows

(***************************************************************************)
(* What most steps are, to the ledger: nothing the server has is replaced, *)

(***************************************************************************)
(* What most steps are, to the ledger: nothing the server has is replaced, *)
(* the document and the log grow, the queues move on.                      *)
(***************************************************************************)
ServerGrows ==
    /\ snap' = snap
    /\ log' = log \/ \E p \in Payload : log' = Append(log, p)

DocGrows == sub.ydoc \subseteq sub'.ydoc /\ idb' \subseteq sub'.ydoc

\* A task queued now is a snapshot of the document, a delta's retry, or neither.
Queued == {t \in Task : /\ t.k = "snapshot" => /\ MayCompact(sub)'
                                               /\ t.payload = sub'.ydoc
                                               /\ t.seq = sub'.lastSeq
                        /\ t.k = "retry" => t.payload = sub.serverSV
                        /\ t.k = "flush" => ~sub.flushing /\ sub'.flushing}

\* A frame sent now says what the server has logged.
Sent == {f \in Frame : /\ f.payload \cap Ins \subseteq Logged'
                       /\ f.k \in {"update", "ack", "compact"}
                       /\ open}

QueuesMove == Follows(chain, chain', Queued) /\ Follows(Coming, Coming', Sent)

\* What comes from the server after a step that reads nothing.
ComingMoves ==
    \/ Coming' = Coming
    \/ \E f \in Sent : Coming' = Append(Coming, f)

\* A frame leaves the queue by way of the document, or marks a gap.
HeadRead ==
    /\ Coming # <<>> /\ Coming' = Tail(Coming)
    /\ \/ Head(Coming).payload \subseteq sub'.ydoc
       \/ sub'.decryptGapSeq # 0
FramesMove == ComingMoves \/ HeadRead

\* The socket, and where the subscription stands with it.
SocketSame ==
    /\ open' = open
    /\ sub'.seqReady = sub.seqReady /\ sub'.catchUpFrom = sub.catchUpFrom
    /\ sub'.decryptGapSeq = 0 => sub.decryptGapSeq = 0
    /\ sub'.synced => \/ sub.synced
                      \/ Coming # <<>> /\ Head(Coming).k = "status" /\ Coming' = Tail(Coming)

\* The read position stays, goes where the frame just read may move it, or is
\* past a snapshot the document has.
PositionMoves ==
    \/ sub'.lastSeq = sub.lastSeq
    \/ /\ Coming # <<>> /\ Coming' = Tail(Coming) /\ Moves(1)
       /\ sub'.lastSeq = Head(Coming).seq
    \/ snap.seq <= sub'.lastSeq => snap.content \cap Ins \subseteq sub'.ydoc

StillProven ==
    /\ \/ sub'.catchUp \subseteq sub.catchUp
       \/ Coming # <<>> /\ sub'.catchUp \subseteq sub.catchUp \cup Head(Coming).payload
                        /\ Head(Coming).payload \subseteq sub'.ydoc
    /\ sub'.serverSV \subseteq sub.serverSV \cup sub.catchUp

FlushesInTurn ==
    /\ sub.flushing => \/ sub'.flushing
                       \/ batch' = {} /\ Running("flush") /\ chain' = Tail(chain)
    /\ batch' # {} => sub'.flushing

Stored == ckpt' = ckpt

Ordinary ==
    /\ ServerGrows /\ DocGrows /\ QueuesMove /\ FramesMove /\ SocketSame
    /\ PositionMoves /\ StillProven /\ FlushesInTurn /\ Stored

LEMMA ServerHolds ==
    ASSUME TypeOK, HoleInv, ServerGrows
    PROVE  ServerDoc \subseteq ServerDoc' /\ Logged \subseteq Logged'
<1>1. CASE log' = log
  BY <1>1, ServerSame DEF ServerGrows
<1>2. CASE \E p \in Payload : log' = Append(log, p)
  BY <1>2, ServerLogged DEF ServerGrows
<1> QED BY <1>1, <1>2 DEF ServerGrows

LEMMA FramesKeptStep ==
    ASSUME TypeOK, TypeOK', HoleInv, HoleInv', FramesKept, Ordinary
    PROVE  FramesKept'
<1>1. PICK c \in {0, 1} : \A j \in 1..Len(Coming') :
        \/ j + c \in 1..Len(Coming) /\ Coming'[j] = Coming[j + c]
        \/ j = Len(Coming') /\ Coming'[j] \in Sent
  BY DEF Ordinary, QueuesMove, Follows
<1>2. ServerDoc \subseteq ServerDoc' /\ Logged' \cap Ins \subseteq ServerDoc'
  BY ServerHolds, LoggedIsServedNext DEF Ordinary
<1>3. ASSUME NEW j \in 1..Len(Coming')
      PROVE  Coming'[j].payload \cap Ins \subseteq ServerDoc'
  <2>1. CASE j + c \in 1..Len(Coming) /\ Coming'[j] = Coming[j + c]
    BY <1>2, <2>1 DEF FramesKept
  <2>2. CASE Coming'[j] \in Sent
    BY <1>2, <2>2 DEF Sent
  <2> QED BY <1>1, <2>1, <2>2
<1> QED BY <1>3 DEF FramesKept

\* A frame read now is with the server, as far as it is this device's.
LEMMA HeadIsServed ==
    ASSUME TypeOK, FramesKept, Coming # <<>>
    PROVE  Head(Coming).payload \cap LocalIns \subseteq ServerDoc
<1>1. Head(Coming) = Coming[1] /\ 1 \in 1..Len(Coming)
  BY ComingType, HeadTailProperties, EmptySeq
<1>2. LocalIns \subseteq Ins
  BY DEF Ins
<1> QED BY <1>1, <1>2 DEF FramesKept

LEMMA ProofsStandStep ==
    ASSUME TypeOK, TypeOK', HoleInv, FramesKept, ProofsStand, Ordinary
    PROVE  ProofsStand'
<1>1. PICK d \in {0, 1} : \A j \in 1..Len(chain') :
        \/ j + d \in 1..Len(chain) /\ chain'[j] = chain[j + d]
        \/ j = Len(chain') /\ chain'[j] \in Queued
  BY DEF Ordinary, QueuesMove, Follows
<1>2. ServerDoc \subseteq ServerDoc' /\ sub.ydoc \subseteq sub'.ydoc
  BY ServerHolds DEF Ordinary, DocGrows
<1>3. ASSUME NEW S, Proven(S) PROVE S \subseteq sub'.ydoc /\ S \cap LocalIns \subseteq ServerDoc'
  BY <1>2, <1>3 DEF Proven
<1>4. sub'.catchUp \subseteq sub'.ydoc /\ sub'.catchUp \cap LocalIns \subseteq ServerDoc'
  <2>1. Coming # <<>> => Head(Coming).payload \cap LocalIns \subseteq ServerDoc'
    BY <1>2, HeadIsServed
  <2> QED BY <1>3, <2>1 DEF ProofsStand, Ordinary, StillProven
<1>5. sub'.serverSV \subseteq sub'.ydoc /\ sub'.serverSV \cap LocalIns \subseteq ServerDoc'
  BY <1>3 DEF ProofsStand, Ordinary, StillProven
<1>6. ASSUME NEW j \in 1..Len(chain'), chain'[j].k = "retry"
      PROVE  chain'[j].payload \subseteq sub'.ydoc /\ chain'[j].payload \cap LocalIns \subseteq ServerDoc'
  <2>1. CASE j + d \in 1..Len(chain) /\ chain'[j] = chain[j + d]
    BY <1>3, <1>6, <2>1 DEF ProofsStand
  <2>2. CASE chain'[j] \in Queued
    <3>1. chain'[j].payload = sub.serverSV
      BY <1>6, <2>2 DEF Queued
    <3> QED BY <1>3, <3>1 DEF ProofsStand
  <2> QED BY <1>1, <2>1, <2>2
<1> QED BY <1>4, <1>5, <1>6 DEF ProofsStand, Proven

\* The frames after a step, by their places before it.
FramesFollow(d) ==
    /\ \A j \in 1..Len(Coming) : j > d => j - d \in 1..Len(Coming') /\ Coming'[j - d] = Coming[j]
    /\ \A h \in 1..Len(Coming') :
           \/ h + d \in 1..Len(Coming) /\ Coming'[h] = Coming[h + d]
           \/ d = 0 /\ h = Len(Coming) + 1 /\ Coming'[h] \in Sent
    /\ IF d = 1 THEN HeadRead /\ Head(Coming) = Coming[1] /\ 1 \in 1..Len(Coming)
       ELSE Coming = <<>> \/ Coming' # Tail(Coming)

LEMMA FramesInPlace ==
    ASSUME TypeOK, TypeOK', FramesMove
    PROVE  \E d \in {0, 1} : FramesFollow(d)
<1>1. Coming \in Seq(Frame) /\ Len(Coming) \in Nat
  BY ComingType
<1>2. CASE Coming' = Coming
  <2>1. Coming # <<>> => Tail(Coming) # Coming
    <3>1. Coming # <<>> => Len(Tail(Coming)) # Len(Coming)
      BY <1>1, HeadTailProperties
    <3> QED BY <3>1
  <2>2. FramesFollow(0)
    BY <1>1, <1>2, <2>1 DEF FramesFollow
  <2> QED BY <2>2
<1>3. CASE \E f \in Sent : Coming' = Append(Coming, f)
  <2>1. PICK f \in Sent : Coming' = Append(Coming, f)
    BY <1>3
  <2>2. f \in Frame
    BY DEF Sent
  <2>3. /\ Len(Coming') = Len(Coming) + 1 /\ Coming'[Len(Coming) + 1] = f
        /\ \A j \in 1..Len(Coming) : Coming'[j] = Coming[j]
    BY <1>1, <2>1, <2>2, AppendProperties
  <2>4. Coming # <<>> => Coming' # Tail(Coming)
    <3>1. Coming # <<>> => Len(Tail(Coming)) # Len(Coming')
      BY <1>1, <2>3, HeadTailProperties
    <3> QED BY <3>1
  <2>5. FramesFollow(0)
    <3>1. ASSUME NEW h \in 1..Len(Coming')
          PROVE  \/ h + 0 \in 1..Len(Coming) /\ Coming'[h] = Coming[h + 0]
                 \/ h = Len(Coming) + 1 /\ Coming'[h] \in Sent
      BY <1>1, <2>3
    <3> QED BY <1>1, <2>3, <2>4, <3>1 DEF FramesFollow
  <2> QED BY <2>5
<1>4. CASE HeadRead
  <2>1. /\ Len(Coming') = Len(Coming) - 1 /\ Len(Coming) > 0 /\ Coming[1] = Head(Coming)
        /\ \A h \in 1..Len(Coming') : Coming'[h] = Coming[h + 1]
    BY <1>1, <1>4, HeadTailProperties, EmptySeq DEF HeadRead
  <2>2. ASSUME NEW j \in 1..Len(Coming), j > 1
        PROVE  j - 1 \in 1..Len(Coming') /\ Coming'[j - 1] = Coming[j]
    <3>1. j - 1 \in 1..Len(Coming') /\ (j - 1) + 1 = j
      BY <1>1, <2>1, <2>2
    <3> QED BY <2>1, <3>1
  <2>3. \A h \in 1..Len(Coming') : h + 1 \in 1..Len(Coming) /\ Coming'[h] = Coming[h + 1]
    BY <1>1, <2>1
  <2>4. FramesFollow(1)
    BY <1>1, <1>4, <2>1, <2>2, <2>3 DEF FramesFollow
  <2> QED BY <2>4
<1> QED BY <1>2, <1>3, <1>4 DEF FramesMove, ComingMoves

LEMMA ComingLen == TypeOK => Len(Coming) \in Nat
BY ComingType

LEMMA ComingLenThen == TypeOK' => (Len(Coming) \in Nat)'
BY ComingLen, PTL

LEMMA ComingLenNext == ASSUME TypeOK' PROVE Len(Coming') \in Nat
BY ComingLenThen

\* A frame that will move the position is one that would have before the step.
LEMMA MovesBefore ==
    ASSUME TypeOK, TypeOK', SocketSame, NEW d \in {0, 1}, FramesFollow(d),
           NEW h \in 1..Len(Coming'), h + d \in 1..Len(Coming),
           Coming'[h] = Coming[h + d], Moves(h)'
    PROVE  Moves(h + d)
<1>1. Len(Coming) \in Nat /\ Len(Coming') \in Nat /\ h \in Nat
  <2>1. Len(Coming) \in Nat /\ Len(Coming') \in Nat
    BY ComingType, ComingLenNext
  <2> QED BY <2>1
<1>2. CASE Coming'[h].k \in {"snapshot", "catchup", "status"}
  BY <1>2 DEF Moves
<1>3. CASE Coming'[h].k \in {"update", "ack"} /\ sub'.synced
  <2>1. CASE sub.synced
    BY <1>3, <2>1 DEF Moves
  <2>2. CASE Coming # <<>> /\ Head(Coming).k = "status" /\ Coming' = Tail(Coming)
    <3>1. d = 1 /\ Head(Coming) = Coming[1]
      BY <2>2 DEF FramesFollow
    <3>2. 1 \in 1..((h + d) - 1) /\ Coming[1].k = "status"
      BY <1>1, <2>2, <3>1
    <3> QED BY <1>3, <3>2 DEF Moves
  <2> QED BY <1>3, <2>1, <2>2 DEF SocketSame
<1>4. CASE /\ Coming'[h].k \in {"update", "ack"}
           /\ \E m \in 1..(h - 1) : Coming'[m].k = "status"
  <2>1. PICK m \in 1..(h - 1) : Coming'[m].k = "status"
    BY <1>4
  <2>2. m \in 1..Len(Coming') /\ m + d \in 1..((h + d) - 1) /\ m < h
    BY <1>1
  <2>3. m + d \in 1..Len(Coming) /\ Coming'[m] = Coming[m + d]
    <3>1. m # Len(Coming) + 1 \/ d # 0
      BY <1>1, <2>2
    <3> QED BY <2>2, <3>1 DEF FramesFollow
  <2>4. Coming[m + d].k = "status"
    BY <2>1, <2>3
  <2> QED BY <1>4, <2>2, <2>4 DEF Moves
<1> QED BY <1>2, <1>3, <1>4 DEF Moves

\* What the first frames bring of the snapshot, they bring after the step.
LEMMA ReachStep ==
    ASSUME TypeOK, TypeOK', HoleInv, Ordinary, sub'.decryptGapSeq = 0,
           NEW d \in {0, 1}, FramesFollow(d), NEW j \in 0..Len(Coming),
           NEW h \in Nat, h >= j - d, SnapReaches(j)
    PROVE  SnapReaches(h)'
<1>1. Len(Coming) \in Nat
  BY ComingType
<1>2. /\ sub.ydoc \subseteq sub'.ydoc /\ Logged \subseteq Logged' /\ snap' = snap
  BY ServerHolds DEF Ordinary, DocGrows, ServerGrows
<1> SUFFICES ASSUME NEW e \in snap.content \cap Ins
             PROVE  e \in sub'.ydoc \cup Logged' \/ \E m \in 1..h : e \in Coming'[m].payload
  BY <1>2 DEF SnapReaches
<1>3. CASE e \in sub.ydoc \cup Logged
  BY <1>2, <1>3
<1>4. CASE \E m \in 1..j : e \in Coming[m].payload
  <2>1. PICK m \in 1..j : e \in Coming[m].payload
    BY <1>4
  <2>2. m \in 1..Len(Coming)
    BY <1>1
  <2>3. CASE m > d
    <3>1. m - d \in 1..h /\ Coming'[m - d] = Coming[m]
      BY <1>1, <2>2, <2>3 DEF FramesFollow
    <3> QED BY <2>1, <3>1
  <2>4. CASE ~(m > d)
    <3>1. d = 1 /\ m = 1
      BY <2>2, <2>4
    <3>2. Coming[1].payload \subseteq sub'.ydoc
      BY <3>1 DEF FramesFollow, HeadRead
    <3> QED BY <2>1, <3>1, <3>2
  <2> QED BY <2>3, <2>4
<1> QED BY <1>3, <1>4 DEF SnapReaches

LEMMA SnapshotKnownStep ==
    ASSUME TypeOK, TypeOK', HoleInv, SnapshotKnown, Ordinary
    PROVE  SnapshotKnown'
<1>1. /\ sub.ydoc \subseteq sub'.ydoc /\ Logged \subseteq Logged' /\ snap' = snap
      /\ open' = open /\ sub'.seqReady = sub.seqReady
  BY ServerHolds DEF Ordinary, DocGrows, ServerGrows, SocketSame
<1>2. PICK d \in {0, 1} : FramesFollow(d)
  BY FramesInPlace DEF Ordinary
<1>3. Len(Coming) \in Nat /\ Len(Coming') \in Nat
  BY ComingType, LenProperties DEF TypeOK, Coming
<1>4. (snap.seq = 0 => snap.content = {})'
  BY <1>1 DEF SnapshotKnown
<1> SUFFICES ASSUME sub'.decryptGapSeq = 0
             PROVE  /\ SnapshotRead' /\ SnapshotComing'
                    /\ open' /\ sub'.seqReady => SnapReaches(Len(Coming))'
  BY <1>4 DEF SnapshotKnown
<1>5. /\ SnapshotRead /\ SnapshotComing
      /\ open /\ sub.seqReady => SnapReaches(Len(Coming))
  BY DEF SnapshotKnown, Ordinary, SocketSame
<1>6. SnapshotRead'
  <2> SUFFICES ASSUME snap.seq <= sub'.lastSeq, NEW e \in snap.content \cap Ins
               PROVE  e \in sub'.ydoc \cup Logged'
    BY <1>1 DEF SnapshotRead
  <2>1. CASE sub'.lastSeq = sub.lastSeq
    BY <1>1, <1>5, <2>1 DEF SnapshotRead
  <2>2. CASE /\ Coming # <<>> /\ Coming' = Tail(Coming) /\ Moves(1)
             /\ sub'.lastSeq = Head(Coming).seq
    <3>1. d = 1 /\ Head(Coming) = Coming[1] /\ 1 \in 1..Len(Coming) /\ HeadRead
      BY <1>2, <2>2 DEF FramesFollow
    <3>2. SnapReaches(1)
      BY <1>5, <2>2, <3>1 DEF SnapshotComing
    <3>3. Coming[1].payload \subseteq sub'.ydoc
      BY <3>1 DEF HeadRead
    <3> QED BY <1>1, <3>2, <3>3 DEF SnapReaches
  <2> QED BY <2>1, <2>2 DEF Ordinary, PositionMoves
<1>7. SnapshotComing'
  <2> SUFFICES ASSUME NEW h \in 1..Len(Coming'), Moves(h)', snap.seq <= Coming'[h].seq
               PROVE  SnapReaches(h)'
    BY <1>1 DEF SnapshotComing
  <2>1. CASE h + d \in 1..Len(Coming) /\ Coming'[h] = Coming[h + d]
    <3>1. Moves(h + d)
      BY <1>2, <2>1, MovesBefore DEF Ordinary
    <3>2. SnapReaches(h + d)
      BY <1>5, <2>1, <3>1 DEF SnapshotComing
    <3>3. h + d \in 0..Len(Coming) /\ h \in Nat /\ h >= (h + d) - d
      BY <1>3, <2>1
    <3> DEFINE j == h + d
    <3> HIDE DEF j
    <3> QED BY <1>2, <3>2, <3>3, ReachStep DEF j
  <2>2. CASE d = 0 /\ h = Len(Coming) + 1 /\ Coming'[h] \in Sent
    <3>1. open /\ Coming'[h].k \in {"update", "ack", "compact"}
      BY <2>2 DEF Sent
    <3>2. sub.seqReady
      <4>1. CASE sub'.synced
        <5>1. sub.synced
          BY <1>2, <2>2, <4>1 DEF FramesFollow, Ordinary, SocketSame
        <5> QED BY <5>1 DEF HoleInv, SocketShape
      <4>2. CASE \E m \in 1..(h - 1) : Coming'[m].k = "status"
        <5>1. PICK m \in 1..(h - 1) : Coming'[m].k = "status"
          BY <4>2
        <5>2. m \in 1..Len(Coming) /\ m > d /\ m - d = m
          BY <1>3, <2>2
        <5>3. Coming[m].k = "status"
          BY <1>2, <5>1, <5>2 DEF FramesFollow
        <5> QED BY <5>2, <5>3 DEF HoleInv, SocketShape
      <4> QED BY <3>1, <4>1, <4>2 DEF Moves
    <3>3. SnapReaches(Len(Coming))
      BY <1>5, <3>1, <3>2
    <3>4. Len(Coming) \in 0..Len(Coming) /\ h \in Nat /\ h >= Len(Coming) - d
      BY <1>3, <2>2
    <3> QED BY <1>2, <3>3, <3>4, ReachStep
  <2> QED BY <1>2, <2>1, <2>2 DEF FramesFollow
<1>8. ASSUME open', sub'.seqReady PROVE SnapReaches(Len(Coming))'
  <2>1. SnapReaches(Len(Coming))
    BY <1>1, <1>5, <1>8
  <2>2. Len(Coming) \in 0..Len(Coming) /\ Len(Coming') >= Len(Coming) - d
    <3>1. CASE Len(Coming) > d
      BY <1>2, <1>3, <3>1 DEF FramesFollow
    <3>2. CASE ~(Len(Coming) > d)
      BY <1>3, <3>2
    <3> QED BY <1>3, <3>1, <3>2
  <2>3. ASSUME NEW h \in Nat, h = Len(Coming') PROVE SnapReaches(h)'
    BY <1>2, <2>1, <2>2, <2>3, ReachStep
  <2> QED BY <1>3, <2>3 DEF SnapReaches
<1> QED BY <1>6, <1>7, <1>8

LEMMA CapturesStep ==
    ASSUME TypeOK, TypeOK', HoleInv, Captures, Ordinary, SnapshotKnown'
    PROVE  Captures'
<1>1. PICK d \in {0, 1} : \A j \in 1..Len(chain') :
        \/ j + d \in 1..Len(chain) /\ chain'[j] = chain[j + d]
        \/ j = Len(chain') /\ chain'[j] \in Queued
  BY DEF Ordinary, QueuesMove, Follows
<1>2. Len(chain') \in Nat /\ Len(chain) \in Nat
  BY LenProperties DEF TypeOK
<1>3. sub.ydoc \subseteq sub'.ydoc /\ Logged \subseteq Logged' /\ snap' = snap
  BY ServerHolds DEF Ordinary, DocGrows, ServerGrows
<1>4. ASSUME NEW j \in 1..Len(chain'), chain'[j].k = "snapshot"
      PROVE  chain'[j].payload \subseteq sub'.ydoc
  <2>1. CASE j + d \in 1..Len(chain) /\ chain'[j] = chain[j + d]
    BY <1>3, <1>4, <2>1 DEF Captures, IsSnapshot
  <2>2. CASE chain'[j] \in Queued
    BY <1>4, <2>2 DEF Queued
  <2> QED BY <1>1, <2>1, <2>2
<1>5. ASSUME NEW j \in 1..Len(chain'), NEW i \in 1..(j - 1),
             chain'[i].k = "snapshot", chain'[j].k = "snapshot"
      PROVE  chain'[i].payload \subseteq chain'[j].payload
  <2>1. i \in 1..Len(chain') /\ i # Len(chain')
    BY <1>2
  <2>2. i + d \in 1..Len(chain) /\ chain'[i] = chain[i + d]
    BY <1>1, <2>1
  <2>3. CASE j + d \in 1..Len(chain) /\ chain'[j] = chain[j + d]
    <3>1. i + d \in 1..((j + d) - 1)
      BY <1>2
    <3> QED BY <1>5, <2>2, <2>3, <3>1 DEF Captures, IsSnapshot
  <2>4. CASE chain'[j] \in Queued
    <3>1. chain'[j].payload = sub'.ydoc
      BY <1>5, <2>4 DEF Queued
    <3> QED BY <1>4, <1>5, <2>1, <3>1
  <2> QED BY <1>1, <2>3, <2>4
<1>6. ASSUME NEW j \in 1..Len(chain'), chain'[j].k = "snapshot", snap.seq < chain'[j].seq,
             NEW e \in snap.content \cap Ins, e \notin Logged'
      PROVE  e \in chain'[j].payload
  <2>1. CASE j + d \in 1..Len(chain) /\ chain'[j] = chain[j + d]
    BY <1>3, <1>6, <2>1 DEF Captures, IsSnapshot
  <2>2. CASE chain'[j] \in Queued
    <3>1. chain'[j].payload = sub'.ydoc /\ chain'[j].seq = sub'.lastSeq /\ MayCompact(sub)'
      BY <1>6, <2>2 DEF Queued
    <3>2. SnapshotRead'
      BY <3>1 DEF MayCompact, SnapshotKnown
    <3>3. snap.seq <= sub'.lastSeq
      <4>1. snap.seq \in Nat /\ sub'.lastSeq \in Nat
        BY DEF TypeOK, DocSubscription
      <4> QED BY <1>6, <3>1, <4>1
    <3> QED BY <1>3, <1>6, <3>1, <3>2, <3>3 DEF SnapshotRead
  <2> QED BY <1>1, <2>1, <2>2
<1> QED BY <1>3, <1>4, <1>5, <1>6 DEF Captures, IsSnapshot
LEMMA OneFlushStep ==
    ASSUME TypeOK, TypeOK', OneFlush, Ordinary
    PROVE  OneFlush'
<1>1. PICK d \in {0, 1} : \A j \in 1..Len(chain') :
        \/ j + d \in 1..Len(chain) /\ chain'[j] = chain[j + d]
        \/ j = Len(chain') /\ chain'[j] \in Queued
  BY DEF Ordinary, QueuesMove, Follows
<1>2. Len(chain') \in Nat /\ Len(chain) \in Nat
  BY LenProperties DEF TypeOK
<1>3. batch' # {} => sub'.flushing
  BY DEF Ordinary, FlushesInTurn
<1>4. ASSUME NEW j \in 1..Len(chain'), chain'[j].k = "flush",
             NEW i \in 1..Len(chain'), chain'[i].k = "flush"
      PROVE  i = j
  <2>1. CASE sub.flushing
    <3>1. chain'[j] \notin Queued /\ chain'[i] \notin Queued
      BY <1>4, <2>1 DEF Queued
    <3>2. /\ j + d \in 1..Len(chain) /\ chain[j + d].k = "flush"
          /\ i + d \in 1..Len(chain) /\ chain[i + d].k = "flush"
      BY <1>1, <1>4, <3>1
    <3>3. i + d = j + d
      BY <3>2 DEF OneFlush
    <3> QED BY <1>2, <3>3
  <2>2. CASE ~sub.flushing
    <3>1. \A m \in 1..Len(chain) : chain[m].k # "flush"
      BY <2>2 DEF OneFlush
    <3> QED BY <1>1, <1>4, <3>1
  <2> QED BY <2>1, <2>2
<1>5. ASSUME NEW j \in 1..Len(chain'), chain'[j].k = "flush"
      PROVE  sub'.flushing
  <2>1. CASE chain'[j] \in Queued
    BY <1>5, <2>1 DEF Queued
  <2>2. CASE j + d \in 1..Len(chain) /\ chain'[j] = chain[j + d]
    <3>1. sub.flushing
      BY <1>5, <2>2 DEF OneFlush
    <3>2. CASE Running("flush") /\ chain' = Tail(chain)
      <4>1. /\ chain[1].k = "flush" /\ 1 \in 1..Len(chain)
            /\ j + 1 \in 1..Len(chain) /\ chain'[j] = chain[j + 1]
        BY <1>2, <3>2, HeadTailProperties, EmptySeq DEF Running, TypeOK
      <4>2. j + 1 = 1
        BY <1>5, <4>1 DEF OneFlush
      <4> QED BY <1>2, <4>2
    <3> QED BY <3>1, <3>2 DEF Ordinary, FlushesInTurn
  <2> QED BY <1>1, <2>1, <2>2
<1> QED BY <1>3, <1>4, <1>5 DEF OneFlush

\* What the steps of the ledger's other parts need of the books.
Books == /\ OnDisk /\ Captures /\ SnapshotKnown /\ FramesKept /\ ProofsStand
         /\ VouchedKept /\ OneFlush

LEMMA OrdinaryBooks ==
    ASSUME TypeOK, TypeOK', HoleInv, HoleInv', LedgerInv, Ordinary
    PROVE  Books'
<1>1. OnDisk'
  BY DEF Ordinary, DocGrows, OnDisk
<1>2. SnapshotKnown'
  BY SnapshotKnownStep DEF LedgerInv
<1>3. Captures'
  BY <1>2, CapturesStep DEF LedgerInv
<1>4. FramesKept' /\ ProofsStand'
  BY FramesKeptStep, ProofsStandStep DEF LedgerInv
<1>5. VouchedKept'
  <2>1. ServerDoc \subseteq ServerDoc' /\ Vouched' = Vouched
    BY ServerHolds DEF Ordinary, Stored, Vouched
  <2> QED BY <2>1 DEF LedgerInv, VouchedKept
<1>6. OneFlush'
  BY OneFlushStep DEF LedgerInv
<1> QED BY <1>1, <1>2, <1>3, <1>4, <1>5, <1>6 DEF Books

(***************************************************************************)
(* The two sides of the ledger.                                            *)
(***************************************************************************)
\* A reason that covers every edit at once.
Debt == sub.owesReconcile \/ unacked > Due

LEMMA AccountedStep ==
    ASSUME TypeOK, TypeOK', HoleInv, Accounted,
           ServerDoc \subseteq ServerDoc',
           sub'.ydoc \cap LocalIns \subseteq sub.ydoc \cup ServerDoc' \cup sub'.pending,
           Debt => Debt',
           restored \subseteq restored' \cup ServerDoc' \/ Debt',
           sub.pending \cup batch \subseteq sub'.pending \cup batch' \cup ServerDoc' \/ Debt',
           \A i \in DeltasDue :
               \/ deltas[i].payload \cap LocalIns \subseteq ServerDoc'
               \/ \E m \in DeltasDue' : deltas'[m].payload = deltas[i].payload
               \/ Debt'
    PROVE  Accounted'
<1> SUFFICES ASSUME NEW e \in sub'.ydoc \cap LocalIns, e \notin ServerDoc', ~Debt',
                    e \notin sub'.pending, e \notin batch', e \notin restored'
             PROVE  \E i \in DeltasDue' : e \in deltas'[i].payload
  BY DEF Accounted, OnItsWay, Debt
<1>1. OnItsWay(e)
  BY DEF Accounted
<1>2. \E i \in DeltasDue : e \in deltas[i].payload
  BY <1>1 DEF OnItsWay, Debt
<1> QED BY <1>2

\* A launch whose catch-up or reconcile is still to come, or that needs none.
LEMMA ColdStep ==
    ASSUME Cold, ServerDoc \subseteq ServerDoc', restored' = restored,
           sub'.catchUpFrom = sub.catchUpFrom,
           sub'.synced /\ ~sub'.reconciling => sub.synced /\ ~sub.reconciling
    PROVE  Cold'
BY DEF Cold

LEMMA EditsStand ==
    ASSUME TypeOK, HoleInv, LedgerInv, ~OwesServer(sub)
    PROVE  sub.ydoc \cap LocalIns \subseteq ServerDoc
<1> SUFFICES ASSUME NEW e \in sub.ydoc \cap LocalIns, e \notin ServerDoc
             PROVE  FALSE
  OBVIOUS
<1>1. /\ sub.synced /\ sub.pending = {} /\ ~sub.flushing /\ ~sub.reconciling
      /\ ~sub.owesReconcile /\ unacked = 0
  BY DEF OwesServer, TypeOK
<1>2. batch = {}
  BY <1>1 DEF LedgerInv, OneFlush
<1>3. Due = 0 /\ Cardinality(DeltasDue) = 0
  BY <1>1, DueType DEF LedgerInv, Counted, Due
<1>4. DeltasDue = {}
  BY <1>3, DueType, FS_EmptySet
<1>5. OnItsWay(e)
  BY DEF LedgerInv, Accounted
<1>6. e \notin restored
  BY <1>1 DEF LedgerInv, Cold
<1> QED BY <1>1, <1>2, <1>3, <1>4, <1>5, <1>6 DEF OnItsWay

(***************************************************************************)
(* What the helpers do to the books.                                       *)
(***************************************************************************)
SameAccounts(s, t) ==
    /\ SameReading(s, t)
    /\ t.catchUpFrom = s.catchUpFrom
    /\ t.catchUp \subseteq s.catchUp
    /\ t.serverSV \subseteq s.serverSV \cup s.catchUp
SameBooks(s, t) == SameAccounts(s, t) /\ t.reconciling = s.reconciling

\* The reason the subscription itself has to owe.
SameDebt(s, t) == t.owesReconcile = s.owesReconcile

LEMMA SameAccountsTransitive ==
    ASSUME NEW s, NEW t, NEW u, SameAccounts(s, t), SameAccounts(t, u)
    PROVE  SameAccounts(s, u)
BY DEF SameAccounts, SameReading

LEMMA SameBooksTransitive ==
    ASSUME NEW s, NEW t, NEW u, SameBooks(s, t), SameBooks(t, u)
    PROVE  SameBooks(s, u)
BY SameAccountsTransitive DEF SameBooks

LEMMA HelpersKeepBooks ==
    ASSUME NEW s \in DocSubscription
    PROVE  /\ SameBooks(s, s)
           /\ SameBooks(s, ScheduleSeqSave(s)) /\ SameDebt(s, ScheduleSeqSave(s))
           /\ ScheduleSeqSave(s).flushing = s.flushing
           /\ SameBooks(s, SettleAck(s)) /\ SameDebt(s, SettleAck(s))
           /\ SettleAck(s).flushing = s.flushing
           /\ SameBooks(s, Held(s)) /\ Held(s).owesReconcile /\ Held(s).flushing = s.flushing
           /\ SameBooks(s, ScheduleDeltaRetry(s)) /\ SameDebt(s, ScheduleDeltaRetry(s))
           /\ ScheduleDeltaRetry(s).flushing = s.flushing
           /\ SameBooks(s, PutBack(s)) /\ SameDebt(s, PutBack(s))
           /\ SameBooks(s, FailedFlush(s)) /\ SameDebt(s, FailedFlush(s))
<1> USE DEF SameBooks, SameAccounts, SameReading, SameDebt
<1>1. /\ SameBooks(s, ScheduleSeqSave(s)) /\ SameDebt(s, ScheduleSeqSave(s))
      /\ ScheduleSeqSave(s).flushing = s.flushing
  BY DEF ScheduleSeqSave, DocSubscription
<1>2. /\ SameBooks(s, SettleAck(s)) /\ SameDebt(s, SettleAck(s))
      /\ SettleAck(s).flushing = s.flushing
  BY <1>1 DEF SettleAck
<1>3. SameBooks(s, Held(s)) /\ Held(s).owesReconcile /\ Held(s).flushing = s.flushing
  BY DEF Held, DocSubscription
<1>4. /\ SameBooks(s, ScheduleDeltaRetry(s)) /\ SameDebt(s, ScheduleDeltaRetry(s))
      /\ ScheduleDeltaRetry(s).flushing = s.flushing
  BY DEF ScheduleDeltaRetry, DocSubscription
<1>5. SameBooks(s, PutBack(s)) /\ SameDebt(s, PutBack(s))
  BY DEF PutBack, DocSubscription
<1>6. SameBooks(s, FailedFlush(s)) /\ SameDebt(s, FailedFlush(s))
  BY DEF FailedFlush, PutBack, DocSubscription
<1> QED BY <1>1, <1>2, <1>3, <1>4, <1>5, <1>6

\* The flush takes what is pending, or ends; nothing else of the books moves.
LEMMA NextBatchBooks ==
    ASSUME TypeOK, NEW s \in DocSubscription, NextBatch(s), Running("flush"), s.flushing
    PROVE  /\ SameBooks(s, sub') /\ SameDebt(s, sub')
           /\ s.pending \subseteq sub'.pending \cup batch'
           /\ batch' # {} => sub'.flushing
           /\ \/ sub'.flushing /\ chain' = chain
              \/ batch' = {} /\ chain' = Tail(chain)
<1> USE DEF NextBatch, SameBooks, SameAccounts, SameReading, SameDebt, DocSubscription
<1>1. CASE s.pending = {}
  BY <1>1
<1>2. CASE s.pending # {} /\ open
  BY <1>2
<1>3. CASE s.pending # {} /\ ~open
  BY <1>3
<1> QED BY <1>1, <1>2, <1>3

LEMMA TakeBackBooks ==
    ASSUME NEW d, NEW s \in DocSubscription, TakeBack(d, s)
    PROVE  SameBooks(s, sub') /\ sub'.owesReconcile /\ sub'.flushing = s.flushing
<1> DEFINE t == IF Settles(d.live) THEN SettleAck(s) ELSE s
<1>1. t \in DocSubscription /\ SameBooks(s, t) /\ t.flushing = s.flushing
  BY SettleAckType, HelpersKeepBooks
<1>2. sub' = [t EXCEPT !.owesReconcile = TRUE]
  BY DEF TakeBack
<1> HIDE DEF t
<1>3. SameBooks(t, sub') /\ sub'.owesReconcile /\ sub'.flushing = t.flushing
  BY <1>1, <1>2 DEF SameBooks, SameAccounts, SameReading, DocSubscription
<1> QED BY <1>1, <1>3, SameBooksTransitive

LEMMA RunningFlush ==
    ASSUME TypeOK, OneFlush, Running("flush")
    PROVE  sub.flushing /\ chain # <<>>
<1>1. chain # <<>> /\ chain[1].k = "flush" /\ 1 \in 1..Len(chain)
  BY HeadTailProperties, EmptySeq, LenProperties DEF Running, TypeOK
<1> QED BY <1>1 DEF OneFlush

(***************************************************************************)
(* The queues, as the steps move them.                                     *)
(***************************************************************************)
LEMMA ComingSame == ASSUME recv' = recv, net' = net PROVE Coming' = Coming
BY DEF Coming

LEMMA ComingAppended ==
    ASSUME TypeOK, NEW f \in Frame, recv' = recv, net' = Append(net, f)
    PROVE  Coming' = Append(Coming, f)
BY AppendToConcat DEF Coming, TypeOK

LEMMA ComingFollows ==
    ASSUME TypeOK, TypeOK', ComingMoves
    PROVE  /\ Follows(Coming, Coming', Sent)
           /\ \A j \in 1..Len(Coming) : \E m \in 1..Len(Coming') : Coming'[m] = Coming[j]
<1>1. Coming \in Seq(Frame) /\ Len(Coming) \in Nat
  BY ComingType
<1>2. CASE Coming' = Coming
  BY <1>1, <1>2, FollowsSame
<1>3. CASE \E f \in Sent : Coming' = Append(Coming, f)
  <2>1. PICK f \in Sent : Coming' = Append(Coming, f)
    BY <1>3
  <2>2. f \in Frame
    BY DEF Sent
  <2>3. Follows(Coming, Coming', Sent)
    BY <1>1, <2>1, <2>2, FollowsAppend
  <2>4. /\ Len(Coming') = Len(Coming) + 1
        /\ \A j \in 1..Len(Coming) : Coming'[j] = Coming[j]
    BY <1>1, <2>1, <2>2, AppendProperties
  <2> QED BY <1>1, <2>3, <2>4
<1> QED BY <1>2, <1>3 DEF ComingMoves

LEMMA ComingTaken ==
    ASSUME TypeOK, recv # <<>>, recv' = Tail(recv), net' = net
    PROVE  Coming # <<>> /\ Head(Coming) = Head(recv) /\ Coming' = Tail(Coming)
<1>1. recv \in Seq(Frame) /\ net \in Seq(Frame)
  BY DEF TypeOK
<1>2. /\ recv \o net # <<>> /\ Head(recv \o net) = Head(recv)
      /\ Tail(recv \o net) = Tail(recv) \o net
  BY <1>1, TailOfConcat
<1> QED BY <1>2 DEF Coming

LEMMA ChainFollows ==
    ASSUME TypeOK, chain' = chain \/ (chain # <<>> /\ chain' = Tail(chain)), NEW N
    PROVE  Follows(chain, chain', N)
<1>1. chain \in Seq(Task) /\ Len(chain) \in Nat
  BY LenProperties DEF TypeOK
<1> QED BY <1>1, FollowsSame, FollowsTail

LEMMA ChainGrows ==
    ASSUME TypeOK, NEW k \in {"flush", "reconcile", "retry", "snapshot"},
           NEW n \in Nat, NEW p \in Payload, Enqueue(k, n, p),
           NEW N, [k |-> k, seq |-> n, payload |-> p] \in N
    PROVE  Follows(chain, chain', N)
<1> DEFINE t == [k |-> k, seq |-> n, payload |-> p]
<1>1. t \in Task /\ t \in N
  BY DEF Task
<1>2. chain' = chain \/ chain' = Append(chain, t)
  BY DEF Enqueue
<1>3. chain \in Seq(Task) /\ Len(chain) \in Nat
  BY LenProperties DEF TypeOK
<1> HIDE DEF t
<1> QED BY <1>1, <1>2, <1>3, FollowsSame, FollowsAppend

(***************************************************************************)
(* A step of the sending side, or of the server's.                         *)
(***************************************************************************)
LEMMA Undisturbed ==
    ASSUME TypeOK, TypeOK', HoleInv, LedgerInv, SameAccounts(sub, sub'), ServerGrows,
           UNCHANGED <<open, ckpt, idb>>,
           Follows(chain, chain', Queued), ComingMoves, FlushesInTurn
    PROVE  Ordinary
<1>1. Follows(Coming, Coming', Sent) /\ FramesMove
  BY ComingFollows DEF FramesMove
<1>2. DocGrows
  BY DEF DocGrows, SameBooks, SameAccounts, SameReading, LedgerInv, OnDisk
<1>3. SocketSame /\ PositionMoves
  BY DEF SocketSame, PositionMoves, SameBooks, SameAccounts, SameReading
<1>4. StillProven /\ Stored
  BY DEF StillProven, Stored, SameAccounts
<1> QED BY <1>1, <1>2, <1>3, <1>4 DEF Ordinary, QueuesMove

\* With the same deltas and the same Acks to come, as much is due.
LEMMA DueSame ==
    ASSUME Coming' = Coming, deltas' = deltas
    PROVE  Due' = Due /\ AcksDue' = AcksDue /\ DeltasDue' = DeltasDue
<1>1. AcksDue' = AcksDue /\ DeltasDue' = DeltasDue
  BY DEF AcksDue, DeltasDue
<1> QED BY <1>1 DEF Due

LEMMA LedgerHolds ==
    ASSUME TypeOK, TypeOK', HoleInv, HoleInv', LedgerInv, Ordinary, Counted', Accounted', Cold'
    PROVE  LedgerInv'
BY OrdinaryBooks DEF LedgerInv, Books

LEMMA LedgerStands ==
    ASSUME TypeOK, TypeOK', HoleInv, HoleInv', LedgerInv, Ordinary, Counted', Accounted',
           SameBooks(sub, sub'), restored' = restored
    PROVE  LedgerInv'
<1>1. ServerDoc \subseteq ServerDoc'
  BY ServerHolds DEF Ordinary
<1>2. Cold'
  BY <1>1, ColdStep DEF LedgerInv, SameBooks, SameAccounts, SameReading
<1> QED BY <1>2, LedgerHolds

\* A step that counts nothing, and that sends no delta.
LEMMA NothingCounted ==
    ASSUME TypeOK, TypeOK', HoleInv, LedgerInv, ServerGrows,
           unacked' = unacked, deltas' = deltas, Due' = Due,
           sub'.ydoc \cap LocalIns \subseteq sub.ydoc \cup ServerDoc \cup sub'.pending,
           sub.owesReconcile => sub'.owesReconcile, restored' = restored,
           sub.pending \cup batch \subseteq sub'.pending \cup batch'
    PROVE  Counted' /\ Accounted'
<1>1. Counted'
  BY DEF LedgerInv, Counted
<1>2. ServerDoc \subseteq ServerDoc'
  BY ServerHolds
<1>3. Debt => Debt'
  BY DEF Debt
<1>4. \A i \in DeltasDue : \E m \in DeltasDue' : deltas'[m].payload = deltas[i].payload
  BY DEF DeltasDue
<1>5. Accounted'
  BY <1>2, <1>3, <1>4, AccountedStep DEF LedgerInv
<1> QED BY <1>1, <1>5

(***************************************************************************)
(* The actions: the server's own.                                          *)
(***************************************************************************)
\* A frame that is no Ack makes nothing due.
LEMMA DueTold ==
    ASSUME TypeOK, NEW f \in Frame, f.k # "ack", Coming' = Append(Coming, f), deltas' = deltas
    PROVE  Due' = Due
<1>1. Cardinality(AcksDue') = Cardinality(AcksDue)
  BY AckAppended, DueType
<1>2. DeltasDue' = DeltasDue
  BY DEF DeltasDue
<1> QED BY <1>1, <1>2 DEF Due

LEMMA PeerUpdateLedger ==
    ASSUME TypeOK, TypeOK', HoleInv, HoleInv', LedgerInv, PeerUpdate PROVE LedgerInv'
<1> PICK e \in Peer :
        /\ log' = Append(log, {e})
        /\ net' = IF open /\ registered
                  THEN Append(net, MkFrame("update", Len(log) + 1, {e})) ELSE net
  BY DEF PeerUpdate
<1>1. UNCHANGED <<snap, open, sub, unacked, recv, chain, batch, deltas, idb, ckpt, restored>>
  BY DEF PeerUpdate, histVars
<1>2. {e} \in Payload
  BY DEF Payload, Peer, Edits, Ins, Del
<1>3. ServerGrows
  BY <1>1, <1>2 DEF ServerGrows
<1>4. Logged' = Logged \cup {e}
  BY <1>1, <1>2, ServerLogged
<1>5. ComingMoves /\ Due' = Due
  <2>1. CASE open /\ registered
    <3> DEFINE f == MkFrame("update", Len(log) + 1, {e})
    <3>1. f \in Frame /\ f.k = "update" /\ f.payload = {e}
      BY <1>2, ComingType DEF MkFrame, Frame
    <3>2. net' = Append(net, f)
      BY <2>1
    <3> HIDE DEF f
    <3>3. Coming' = Append(Coming, f)
      BY <1>1, <3>1, <3>2, ComingAppended
    <3>4. f \in Sent
      BY <1>4, <2>1, <3>1 DEF Sent
    <3> QED BY <1>1, <3>1, <3>3, <3>4, DueTold DEF ComingMoves
  <2>2. CASE ~(open /\ registered)
    <3>1. Coming' = Coming
      BY <1>1, <2>2, ComingSame
    <3> QED BY <1>1, <3>1, DueSame DEF ComingMoves
  <2> QED BY <2>1, <2>2
<1>6. SameBooks(sub, sub')
  BY <1>1, HelpersKeepBooks DEF TypeOK
<1>7. FlushesInTurn
  BY <1>1 DEF FlushesInTurn, LedgerInv, OneFlush
<1>8. Follows(chain, chain', Queued)
  BY <1>1, ChainFollows
<1>9. Ordinary
  BY <1>1, <1>3, <1>5, <1>6, <1>7, <1>8, Undisturbed DEF SameBooks
<1>10. Counted' /\ Accounted'
  BY <1>1, <1>3, <1>5, <1>6, NothingCounted
<1> QED BY <1>1, <1>10, <1>6, <1>9, LedgerStands

LEMMA RequestCompactionLedger ==
    ASSUME TypeOK, TypeOK', HoleInv, HoleInv', LedgerInv, RequestCompaction
    PROVE  LedgerInv'
<1> DEFINE f == MkFrame("compact", 0, {})
<1>1. /\ open /\ net' = Append(net, f)
      /\ UNCHANGED <<log, snap, open, sub, unacked, recv, chain, batch, deltas,
                     idb, ckpt, restored>>
  BY DEF RequestCompaction, histVars
<1>2. f \in Frame /\ f.k = "compact" /\ f.payload = {}
  BY DEF MkFrame, Frame, Payload
<1> HIDE DEF f
<1>3. f \in Sent /\ Coming' = Append(Coming, f)
  BY <1>1, <1>2, ComingAppended DEF Sent
<1>4. ServerGrows /\ ComingMoves /\ Due' = Due
  BY <1>1, <1>2, <1>3, DueTold DEF ServerGrows, ComingMoves
<1>5. SameBooks(sub, sub')
  BY <1>1, HelpersKeepBooks DEF TypeOK
<1>6. FlushesInTurn /\ Follows(chain, chain', Queued)
  BY <1>1, ChainFollows DEF FlushesInTurn, LedgerInv, OneFlush
<1>7. Ordinary
  BY <1>1, <1>4, <1>5, <1>6, Undisturbed DEF SameBooks
<1>8. Counted' /\ Accounted'
  BY <1>1, <1>4, <1>5, NothingCounted
<1> QED BY <1>1, <1>5, <1>7, <1>8, LedgerStands

(***************************************************************************)
(* The actions: the document's own.                                        *)
(***************************************************************************)
LEMMA PersistLedger ==
    ASSUME TypeOK, TypeOK', HoleInv, HoleInv', LedgerInv, Persist PROVE LedgerInv'
<1>1. /\ UNCHANGED <<log, snap, open, net, sub, unacked, recv, chain, batch, deltas,
                     ckpt, restored>>
      /\ Persisted /\ \E e \in sub.ydoc \ idb : idb' = idb \cup {e}
  BY DEF Persist, serverVars, wireVars, sendVars, histVars
<1>2. Coming' = Coming
  BY <1>1, ComingSame
<1>3. ServerGrows /\ ComingMoves /\ Due' = Due
  BY <1>1, <1>2, DueSame DEF ServerGrows, ComingMoves
<1>4. SameBooks(sub, sub')
  BY <1>1, HelpersKeepBooks DEF TypeOK
<1>5. FlushesInTurn /\ Follows(chain, chain', Queued)
  BY <1>1, ChainFollows DEF FlushesInTurn, LedgerInv, OneFlush
<1>6. Ordinary
  <2>1. DocGrows
    BY <1>1 DEF DocGrows, LedgerInv, OnDisk
  <2>2. FramesMove /\ SocketSame /\ PositionMoves /\ StillProven /\ Stored
    BY <1>1, <1>3 DEF FramesMove, SocketSame, PositionMoves, StillProven, Stored
  <2> QED BY <1>3, <1>5, <2>1, <2>2, ComingFollows DEF Ordinary, QueuesMove
<1>7. Counted' /\ Accounted'
  BY <1>1, <1>3, <1>4, NothingCounted
<1> QED BY <1>1, <1>4, <1>6, <1>7, LedgerStands

LEMMA LocalEditLedger ==
    ASSUME TypeOK, TypeOK', HoleInv, HoleInv', LedgerInv, LocalEdit PROVE LedgerInv'
<1>1. UNCHANGED <<log, snap, open, net, unacked, recv, batch, deltas, idb, ckpt, restored>>
  BY DEF LocalEdit, serverVars, wireVars, diskVars, histVars
<1> PICK e \in Local \ made :
       LET s == [sub EXCEPT !.ydoc = @ \cup {e}, !.pending = @ \cup {e},
                            !.hasUnsentWork = TRUE]
       IN  /\ made' = made \cup {e}
           /\ IF ~open
              THEN sub' = s /\ UNCHANGED chain
              ELSE /\ sub' = [s EXCEPT !.flushing = TRUE,
                                       !.deltaRetryTimer = @ \/ s.oversizedPush]
                   /\ IF s.flushing THEN UNCHANGED chain ELSE Enqueue("flush", 0, {})
  BY DEF LocalEdit
<1> DEFINE s == [sub EXCEPT !.ydoc = @ \cup {e}, !.pending = @ \cup {e},
                            !.hasUnsentWork = TRUE]
           t == [s EXCEPT !.flushing = TRUE, !.deltaRetryTimer = @ \/ s.oversizedPush]
<1>2. /\ sub' = s \/ sub' = t
      /\ made' = made \cup {e}
      /\ chain' = chain \/ (sub' = t /\ ~s.flushing /\ Enqueue("flush", 0, {}))
  OBVIOUS
<1>3. /\ s.ydoc = sub.ydoc \cup {e} /\ s.pending = sub.pending \cup {e}
      /\ s.lastSeq = sub.lastSeq /\ s.synced = sub.synced /\ s.flushing = sub.flushing
      /\ s.decryptGapSeq = sub.decryptGapSeq /\ s.seqReady = sub.seqReady
      /\ s.catchUpFrom = sub.catchUpFrom /\ s.catchUp = sub.catchUp /\ s.serverSV = sub.serverSV
      /\ s.reconciling = sub.reconciling /\ s.owesReconcile = sub.owesReconcile
  BY DEF TypeOK, DocSubscription
<1>4. /\ t.ydoc = s.ydoc /\ t.pending = s.pending /\ t.flushing
      /\ t.lastSeq = s.lastSeq /\ t.synced = s.synced
      /\ t.decryptGapSeq = s.decryptGapSeq /\ t.seqReady = s.seqReady
      /\ t.catchUpFrom = s.catchUpFrom /\ t.catchUp = s.catchUp /\ t.serverSV = s.serverSV
      /\ t.reconciling = s.reconciling /\ t.owesReconcile = s.owesReconcile
  BY DEF TypeOK, DocSubscription
<1> HIDE DEF s, t
<1>5. /\ sub'.ydoc = sub.ydoc \cup {e} /\ sub'.pending = sub.pending \cup {e}
      /\ sub'.lastSeq = sub.lastSeq /\ sub'.synced = sub.synced
      /\ sub'.decryptGapSeq = sub.decryptGapSeq /\ sub'.seqReady = sub.seqReady
      /\ sub'.catchUpFrom = sub.catchUpFrom /\ sub'.catchUp = sub.catchUp
      /\ sub'.serverSV = sub.serverSV
      /\ sub'.reconciling = sub.reconciling /\ sub'.owesReconcile = sub.owesReconcile
      /\ (sub.flushing => sub'.flushing)
  BY <1>2, <1>3, <1>4
<1>6. Coming' = Coming
  BY <1>1, ComingSame
<1>7. ServerGrows /\ ComingMoves /\ Due' = Due
  BY <1>1, <1>6, DueSame DEF ServerGrows, ComingMoves
<1>8. Follows(chain, chain', Queued)
  <2>1. CASE chain' = chain
    BY <2>1, ChainFollows
  <2>2. CASE sub' = t /\ ~s.flushing /\ Enqueue("flush", 0, {})
    <3>1. {} \in Payload
      BY DEF Payload
    <3>2. ~sub.flushing /\ sub'.flushing
      BY <1>3, <1>4, <2>2
    <3>3. [k |-> "flush", seq |-> 0, payload |-> {}] \in Queued
      BY <3>1, <3>2 DEF Queued, Task
    <3> QED BY <2>2, <3>1, <3>3, ChainGrows
  <2> QED BY <1>2, <2>1, <2>2
<1>9. Ordinary
  <2>1. DocGrows
    BY <1>1, <1>2, <1>5 DEF DocGrows, LedgerInv, OnDisk
  <2>2. FramesMove
    BY <1>7 DEF FramesMove
  <2>3. SocketSame /\ PositionMoves
    BY <1>1, <1>5 DEF SocketSame, PositionMoves
  <2>4. StillProven /\ Stored
    BY <1>1, <1>5 DEF StillProven, Stored
  <2>5. FlushesInTurn
    BY <1>1, <1>5 DEF FlushesInTurn, LedgerInv, OneFlush
  <2> QED BY <1>7, <1>8, <2>1, <2>2, <2>3, <2>4, <2>5, ComingFollows DEF Ordinary, QueuesMove
<1>10. Counted' /\ Accounted'
  BY <1>1, <1>5, <1>7, NothingCounted
<1>11. Cold'
  <2>1. ServerDoc \subseteq ServerDoc'
    BY <1>7, ServerHolds
  <2> QED BY <1>1, <1>5, <2>1, ColdStep DEF LedgerInv
<1> QED BY <1>9, <1>10, <1>11, LedgerHolds

(***************************************************************************)
(* The actions: sending.                                                   *)
(***************************************************************************)
LEMMA Indebted ==
    ASSUME sub'.owesReconcile \/ unacked' > Due' PROVE Accounted'
BY DEF Accounted, OnItsWay

\* A step of the sending side that leaves the server and what comes from it.
LEMMA SentNothing ==
    ASSUME TypeOK, TypeOK', HoleInv, LedgerInv, SameAccounts(sub, sub'),
           UNCHANGED <<log, snap, open, net, recv, idb, ckpt>>,
           Follows(chain, chain', Queued), FlushesInTurn
    PROVE  Ordinary /\ Coming' = Coming /\ AcksDue' = AcksDue
<1>1. Coming' = Coming
  BY ComingSame
<1>2. ServerGrows /\ ComingMoves /\ AcksDue' = AcksDue
  BY <1>1 DEF ServerGrows, ComingMoves, AcksDue
<1> QED BY <1>1, <1>2, Undisturbed

\* A push is recorded, and its Ack is due; or it is dropped.
LEMMA PushSays ==
    ASSUME TypeOK, TypeOK', HoleInv, NEW p \in Payload, p \subseteq sub.ydoc,
           ServerPush(p), open, recv' = recv
    PROVE  /\ ServerGrows /\ ComingMoves
           /\ \/ Cardinality(AcksDue') = Cardinality(AcksDue)
              \/ Cardinality(AcksDue') = Cardinality(AcksDue) + 1 /\ p \subseteq ServerDoc'
<1>1. CASE UNCHANGED <<log, snap, net>>
  <2>1. Coming' = Coming
    BY <1>1, ComingSame
  <2> QED BY <1>1, <2>1 DEF ServerGrows, ComingMoves, AcksDue
<1>2. CASE /\ log' = Append(log, p)
           /\ net' = Append(net, MkFrame("ack", Len(log) + 1, {}))
           /\ snap' = snap
  <2> DEFINE f == MkFrame("ack", Len(log) + 1, {})
  <2>1. f \in Frame /\ f.k = "ack" /\ f.payload = {} /\ f.live
    BY ComingType DEF MkFrame, Frame, Payload
  <2>2. net' = Append(net, f)
    BY <1>2
  <2> HIDE DEF f
  <2>3. Coming' = Append(Coming, f) /\ f \in Sent
    BY <2>1, <2>2, ComingAppended DEF Sent
  <2>4. Cardinality(AcksDue') = Cardinality(AcksDue) + 1
    BY <2>1, <2>3, AckAppended
  <2>5. p \subseteq ServerDoc'
    BY <1>2, ServerLogged
  <2> QED BY <1>2, <2>3, <2>4, <2>5 DEF ServerGrows, ComingMoves
<1> QED BY <1>1, <1>2 DEF ServerPush

LEMMA FlushStartsLedger ==
    ASSUME TypeOK, TypeOK', HoleInv, HoleInv', LedgerInv, FlushStarts PROVE LedgerInv'
<1>1. /\ Running("flush") /\ batch = {} /\ NextBatch(sub)
      /\ UNCHANGED <<log, snap, open, net, unacked, recv, deltas, idb, ckpt, restored>>
  BY DEF FlushStarts, serverVars, wireVars, diskVars, histVars
<1>2. sub.flushing /\ chain # <<>> /\ sub \in DocSubscription
  BY <1>1, RunningFlush DEF LedgerInv, TypeOK
<1>3. /\ SameBooks(sub, sub') /\ SameDebt(sub, sub')
      /\ sub.pending \subseteq sub'.pending \cup batch'
      /\ batch' # {} => sub'.flushing
      /\ \/ sub'.flushing /\ chain' = chain
         \/ batch' = {} /\ chain' = Tail(chain)
  BY <1>1, <1>2, NextBatchBooks
<1>4. Follows(chain, chain', Queued)
  BY <1>2, <1>3, ChainFollows
<1>5. FlushesInTurn
  BY <1>1, <1>3 DEF FlushesInTurn
<1>6. Ordinary /\ Coming' = Coming
  BY <1>1, <1>3, <1>4, <1>5, SentNothing DEF SameBooks
<1>7. Counted' /\ Accounted'
  <2>1. Due' = Due
    BY <1>1, <1>6, DueSame
  <2>2. sub'.ydoc = sub.ydoc /\ sub'.owesReconcile = sub.owesReconcile /\ ServerGrows
    BY <1>3, <1>6 DEF SameBooks, SameAccounts, SameReading, SameDebt, Ordinary
  <2> QED BY <1>1, <1>3, <2>1, <2>2, NothingCounted
<1> QED BY <1>1, <1>3, <1>6, <1>7, LedgerStands

LEMMA FlushFailsLedger ==
    ASSUME TypeOK, TypeOK', HoleInv, HoleInv', LedgerInv, FlushFails PROVE LedgerInv'
<1>1. /\ Running("flush") /\ chain' = Tail(chain) /\ batch' = {} /\ sub' = FailedFlush(sub)
      /\ UNCHANGED <<log, snap, open, net, unacked, recv, deltas, idb, ckpt, restored>>
  BY DEF FlushFails, serverVars, wireVars, diskVars, histVars
<1>2. chain # <<>> /\ sub \in DocSubscription
  BY <1>1, RunningFlush DEF LedgerInv, TypeOK
<1>3. SameBooks(sub, sub') /\ SameDebt(sub, sub') /\ sub'.pending = sub.pending \cup batch
  BY <1>1, <1>2, HelpersKeepBooks, HelpersKeepReading
<1>4. Follows(chain, chain', Queued) /\ FlushesInTurn
  BY <1>1, <1>2, ChainFollows DEF FlushesInTurn
<1>5. Ordinary /\ Coming' = Coming
  BY <1>1, <1>3, <1>4, SentNothing DEF SameBooks
<1>6. Counted' /\ Accounted'
  <2>1. Due' = Due
    BY <1>1, <1>3, <1>5, DueSame DEF SameDebt
  <2>2. sub'.ydoc = sub.ydoc /\ sub'.owesReconcile = sub.owesReconcile /\ ServerGrows
    BY <1>3, <1>5 DEF SameBooks, SameAccounts, SameReading, SameDebt, Ordinary
  <2> QED BY <1>1, <1>3, <2>1, <2>2, NothingCounted
<1> QED BY <1>1, <1>3, <1>5, <1>6, LedgerStands

LEMMA FlushEncryptedLedger ==
    ASSUME TypeOK, TypeOK', HoleInv, HoleInv', LedgerInv, FlushEncrypted
    PROVE  LedgerInv'
<1>1. Running("flush") /\ UNCHANGED <<open, recv, idb, ckpt, restored>>
  BY DEF FlushEncrypted, diskVars, histVars
<1>2. sub.flushing /\ chain # <<>> /\ sub \in DocSubscription
  BY <1>1, RunningFlush DEF LedgerInv, TypeOK
<1>3. CASE ~open
  <2>1. /\ sub' = PutBack(sub) /\ batch' = {} /\ chain' = Tail(chain)
        /\ UNCHANGED <<log, snap, net, unacked, deltas>>
    BY <1>3 DEF FlushEncrypted, serverVars
  <2>2. SameBooks(sub, sub') /\ SameDebt(sub, sub') /\ sub'.pending = sub.pending \cup batch
    BY <1>2, <2>1, HelpersKeepBooks, HelpersKeepReading
  <2>3. Follows(chain, chain', Queued) /\ FlushesInTurn
    BY <1>1, <1>2, <2>1, ChainFollows DEF FlushesInTurn
  <2>4. Ordinary /\ Coming' = Coming
    BY <1>1, <2>1, <2>2, <2>3, SentNothing DEF SameBooks
  <2>5. Due' = Due
    BY <1>1, <2>1, <2>2, <2>4, DueSame DEF SameDebt
  <2>6. sub'.ydoc = sub.ydoc /\ sub'.owesReconcile = sub.owesReconcile /\ ServerGrows
    BY <2>2, <2>4 DEF SameBooks, SameAccounts, SameReading, SameDebt, Ordinary
  <2>7. Counted' /\ Accounted'
    BY <1>1, <2>1, <2>2, <2>5, <2>6, NothingCounted
  <2> QED BY <1>1, <2>2, <2>4, <2>7, LedgerStands
<1>4. CASE open /\ FlushTooLarge(batch)
  <2>1. /\ NextBatch(Held(sub)) /\ deltas' = MarkHeld(deltas)
        /\ UNCHANGED <<log, snap, net, unacked>>
    BY <1>4 DEF FlushEncrypted, serverVars
  <2> DEFINE s == Held(sub)
  <2>2. s \in DocSubscription /\ SameBooks(sub, s) /\ s.owesReconcile /\ s.flushing
    BY <1>2, HeldType, HelpersKeepBooks
  <2>3. NextBatch(s)
    BY <2>1
  <2> HIDE DEF s
  <2>4. /\ SameBooks(s, sub') /\ SameDebt(s, sub')
        /\ batch' # {} => sub'.flushing
        /\ \/ sub'.flushing /\ chain' = chain
           \/ batch' = {} /\ chain' = Tail(chain)
    BY <1>1, <2>2, <2>3, NextBatchBooks
  <2>5. SameBooks(sub, sub') /\ sub'.owesReconcile
    BY <2>2, <2>4, SameBooksTransitive DEF SameDebt
  <2>6. Follows(chain, chain', Queued) /\ FlushesInTurn
    BY <1>1, <1>2, <2>4, ChainFollows DEF FlushesInTurn
  <2>7. Ordinary /\ AcksDue' = AcksDue
    BY <1>1, <2>1, <2>5, <2>6, SentNothing DEF SameBooks
  <2>8. Counted'
    BY <2>1, <2>7, DeltasMarked DEF LedgerInv, Counted, Due
  <2> QED BY <1>1, <2>5, <2>7, <2>8, Indebted, LedgerStands
<1>5. CASE open /\ ~FlushTooLarge(batch)
  <2>1. ServerPush(batch) /\ NextBatch(sub) /\ deltas' = deltas /\ unacked' = unacked + 1
    BY <1>5 DEF FlushEncrypted
  <2>2. /\ SameBooks(sub, sub') /\ SameDebt(sub, sub')
        /\ sub.pending \subseteq sub'.pending \cup batch'
        /\ batch' # {} => sub'.flushing
        /\ \/ sub'.flushing /\ chain' = chain
           \/ batch' = {} /\ chain' = Tail(chain)
    BY <1>1, <1>2, <2>1, NextBatchBooks
  <2>3. /\ ServerGrows /\ ComingMoves
        /\ \/ Cardinality(AcksDue') = Cardinality(AcksDue)
           \/ Cardinality(AcksDue') = Cardinality(AcksDue) + 1 /\ batch \subseteq ServerDoc'
    BY <1>1, <1>5, <2>1, WorkNow, PushSays
  <2>4. Follows(chain, chain', Queued) /\ FlushesInTurn
    BY <1>1, <1>2, <2>2, ChainFollows DEF FlushesInTurn
  <2>5. Ordinary
    BY <1>1, <2>2, <2>3, <2>4, Undisturbed DEF SameBooks
  <2>6. DeltasDue' = DeltasDue /\ Due \in Nat /\ unacked \in Nat /\ unacked >= Due
    BY <2>1, DueType DEF DeltasDue, LedgerInv, Counted, TypeOK
  <2>7. CASE Cardinality(AcksDue') = Cardinality(AcksDue)
    <3>1. Due' = Due
      BY <2>6, <2>7 DEF Due
    <3>2. Counted' /\ unacked' > Due'
      BY <2>1, <2>6, <3>1 DEF Counted
    <3> QED BY <1>1, <2>2, <2>5, <3>2, Indebted, LedgerStands
  <2>8. CASE Cardinality(AcksDue') = Cardinality(AcksDue) + 1 /\ batch \subseteq ServerDoc'
    <3>1. Due' = Due + 1
      BY <2>6, <2>8, DueType DEF Due
    <3>2. Counted'
      BY <2>1, <2>6, <3>1 DEF Counted
    <3>3. Debt => Debt'
      <4>1. unacked > Due => unacked' > Due'
        BY <2>1, <2>6, <3>1
      <4> QED BY <2>2, <4>1 DEF Debt, SameDebt
    <3>4. ServerDoc \subseteq ServerDoc'
      BY <2>3, ServerHolds
    <3>5. \A i \in DeltasDue : \E m \in DeltasDue' : deltas'[m].payload = deltas[i].payload
      BY <2>1, <2>6
    <3>6. sub'.ydoc = sub.ydoc
      BY <2>2 DEF SameBooks, SameAccounts, SameReading
    <3>7. Accounted'
      BY <1>1, <2>2, <2>8, <3>3, <3>4, <3>5, <3>6, AccountedStep DEF LedgerInv
    <3> QED BY <1>1, <2>2, <2>5, <3>2, <3>7, LedgerStands
  <2> QED BY <2>3, <2>7, <2>8
<1> QED BY <1>3, <1>4, <1>5

\* A delta against what the server has pays every edit.
LEMMA SendDeltaBooks ==
    ASSUME TypeOK, TypeOK', LedgerInv, NEW s \in DocSubscription, NEW sv, SendDelta(s, sv), open,
           s.ydoc = sub.ydoc, sv \cap LocalIns \subseteq ServerDoc,
           UNCHANGED <<log, snap, net, recv>>
    PROVE  SameBooks(s, sub') /\ sub'.flushing = s.flushing /\ Counted' /\ Accounted'
<1> DEFINE sent  == [s EXCEPT !.pending = {}, !.hasUnsentWork = FALSE,
                              !.owesReconcile = FALSE]
           delta == StateAsUpdate(s.ydoc, sv)
           clear == [sent EXCEPT !.oversizedPush = FALSE]
<1>1. /\ sent \in DocSubscription /\ SameBooks(s, sent) /\ sent.flushing = s.flushing
      /\ clear \in DocSubscription /\ SameBooks(s, clear) /\ clear.flushing = s.flushing
  BY DEF SameBooks, SameAccounts, SameReading, DocSubscription, Payload
<1>2. ServerDoc' = ServerDoc /\ AcksDue' = AcksDue /\ Coming' = Coming
  <2>1. Coming' = Coming
    BY ComingSame
  <2> QED BY <2>1, ServerSame DEF AcksDue
<1>3. \A e \in s.ydoc \cap LocalIns : e \in ServerDoc \/ e \in delta
  BY DEF StateAsUpdate, Ins
<1>4. CASE delta = {}
  <2>1. /\ sub' = (IF s.synced THEN ScheduleSeqSave(clear) ELSE clear)
        /\ deltas' = deltas /\ unacked' = unacked
    BY <1>4 DEF SendDelta
  <2> HIDE DEF sent, delta, clear
  <2>2. SameBooks(clear, sub') /\ sub'.flushing = clear.flushing
    BY <1>1, <2>1, HelpersKeepBooks
  <2>3. SameBooks(s, sub') /\ sub'.flushing = s.flushing
    BY <1>1, <2>2, SameBooksTransitive
  <2>4. Counted'
    BY <1>2, <2>1, DueSame DEF LedgerInv, Counted
  <2>5. Accounted'
    BY <1>2, <1>3, <1>4, <2>3 DEF Accounted, SameBooks, SameAccounts, SameReading
  <2> QED BY <2>3, <2>4, <2>5
<1>5. CASE delta # {}
  <2> DEFINE d == [payload |-> delta, live |-> TRUE, held |-> FALSE]
  <2>1. sub' = sent /\ deltas' = Append(deltas, d) /\ unacked' = unacked + 1
    BY <1>5 DEF SendDelta
  <2>2. d \in Delta /\ d.payload = delta /\ d.live
    BY StateAsUpdateType DEF Delta, DocSubscription
  <2> HIDE DEF d, sent, delta, clear
  <2>3. /\ Cardinality(DeltasDue') = Cardinality(DeltasDue) + 1
        /\ Len(deltas) + 1 \in DeltasDue'
        /\ deltas'[Len(deltas) + 1].payload = delta
    BY <2>1, <2>2, DeltaAdded
  <2>4. Counted'
    <3>1. unacked \in Nat /\ Cardinality(AcksDue) \in Nat /\ Cardinality(DeltasDue) \in Nat
          /\ unacked >= Cardinality(AcksDue) + Cardinality(DeltasDue)
      BY DueType DEF TypeOK, LedgerInv, Counted, Due
    <3>2. Due' = Cardinality(AcksDue) + Cardinality(DeltasDue) + 1
      BY <1>2, <2>3, <3>1 DEF Due
    <3> QED BY <2>1, <3>1, <3>2 DEF Counted
  <2>5. \A e \in sub'.ydoc \cap LocalIns : e \in ServerDoc' \/ OnItsWay(e)'
    BY <1>1, <1>2, <1>3, <2>1, <2>3 DEF OnItsWay, SameBooks, SameAccounts, SameReading
  <2>6. Accounted'
    BY <2>5 DEF Accounted
  <2> QED BY <1>1, <2>1, <2>4, <2>6
<1> QED BY <1>4, <1>5

\* The reconcile that a cold start waits for: its delta, or its end for want of a
\* socket, which strands it unless the server has all that came from the disk.
LEMMA ReconcileLedger ==
    ASSUME TypeOK, TypeOK', HoleInv, HoleInv', LedgerInv, Reconcile, flaws' = {}
    PROVE  LedgerInv'
<1> DEFINE s == [sub EXCEPT !.reconciling = FALSE]
           t == [s EXCEPT !.catchUp = {}, !.serverSV = ServerStateVector(s)]
<1>1. /\ chain # <<>> /\ chain' = Tail(chain)
      /\ UNCHANGED <<log, snap, open, net, recv, batch, idb, ckpt>>
      /\ restored' = (IF open THEN {} ELSE restored)
      /\ ~open => RestoredIsServed
  BY DEF Reconcile, Running, serverVars, wireVars, diskVars, Mark
<1>2. /\ s \in DocSubscription /\ SameAccounts(sub, s)
      /\ s.flushing = sub.flushing /\ s.owesReconcile = sub.owesReconcile
      /\ s.pending = sub.pending /\ s.catchUp = sub.catchUp
  BY DEF TypeOK, DocSubscription, SameAccounts, SameReading
<1> HIDE DEF s
<1>3. /\ ServerStateVector(s) \in Payload /\ ServerStateVector(s) \subseteq sub.catchUp
      /\ ServerStateVector(s) \cap LocalIns \subseteq ServerDoc
  BY <1>2 DEF ServerStateVector, StateVector, DocSubscription, Payload, LedgerInv,
     ProofsStand, Proven
<1>4. t \in DocSubscription /\ SameAccounts(s, t) /\ t.flushing = s.flushing
  BY <1>2, <1>3 DEF DocSubscription, Payload, SameAccounts, SameReading
<1> HIDE DEF t
<1>5. SameAccounts(sub, sub') /\ sub'.flushing = sub.flushing /\ Counted' /\ Accounted'
  <2>1. CASE open
    <3>1. SendDelta(t, ServerStateVector(s))
      BY <2>1 DEF Reconcile, s, t
    <3>2. SameAccounts(sub, t) /\ t.ydoc = sub.ydoc
      BY <1>2, <1>4, SameAccountsTransitive DEF SameAccounts, SameReading
    <3>3. SameBooks(t, sub') /\ sub'.flushing = t.flushing /\ Counted' /\ Accounted'
      BY <1>1, <1>3, <1>4, <2>1, <3>1, <3>2, SendDeltaBooks
    <3> QED BY <1>2, <1>4, <3>2, <3>3, SameAccountsTransitive DEF SameBooks
  <2>2. CASE ~open
    <3>1. sub' = s /\ deltas' = deltas /\ unacked' = unacked
      BY <2>2 DEF Reconcile, s
    <3>2. Coming' = Coming
      BY <1>1, ComingSame
    <3>3. ServerGrows /\ Due' = Due
      BY <1>1, <3>1, <3>2, DueSame DEF ServerGrows
    <3>4. sub'.ydoc = sub.ydoc
      BY <1>2, <3>1 DEF SameAccounts, SameReading
    <3>5. restored' = restored
      BY <1>1, <2>2
    <3>6. Counted' /\ Accounted'
      BY <1>1, <1>2, <3>1, <3>3, <3>4, <3>5, NothingCounted
    <3> QED BY <1>2, <3>1, <3>6
  <2> QED BY <2>1, <2>2
<1>6. Follows(chain, chain', Queued) /\ FlushesInTurn
  BY <1>1, <1>5, ChainFollows DEF FlushesInTurn, LedgerInv, OneFlush
<1>7. Ordinary
  BY <1>1, <1>5, <1>6, SentNothing
<1>8. Cold'
  <2>1. ServerDoc' = ServerDoc
    BY <1>1, ServerSame
  <2> QED BY <1>1, <2>1 DEF Cold, RestoredIsServed
<1> QED BY <1>5, <1>7, <1>8, LedgerHolds

LEMMA RetryDeltaLedger ==
    ASSUME TypeOK, TypeOK', HoleInv, HoleInv', LedgerInv, RetryDelta PROVE LedgerInv'
<1>1. /\ chain # <<>> /\ Head(chain).k = "retry" /\ chain' = Tail(chain)
      /\ SendDelta(sub, Head(chain).payload)
      /\ UNCHANGED <<log, snap, open, net, recv, batch, idb, ckpt, restored>>
  BY DEF RetryDelta, Running, serverVars, wireVars, diskVars, histVars
<1>2. Head(chain).payload \cap LocalIns \subseteq ServerDoc
  <2>1. Head(chain) = chain[1] /\ 1 \in 1..Len(chain)
    BY <1>1, HeadTailProperties, EmptySeq, LenProperties DEF TypeOK
  <2> QED BY <1>1, <2>1 DEF LedgerInv, ProofsStand, Proven
<1>3. SameBooks(sub, sub') /\ sub'.flushing = sub.flushing /\ Counted' /\ Accounted'
  <2>1. CASE open
    <3>1. sub \in DocSubscription
      BY DEF TypeOK
    <3> QED BY <1>1, <1>2, <2>1, <3>1, SendDeltaBooks
  <2>2. CASE ~open
    <3>1. sub' = sub /\ deltas' = deltas /\ unacked' = unacked
      BY <1>1, <2>2 DEF SendDelta
    <3>2. SameBooks(sub, sub')
      BY <1>1, <3>1, HelpersKeepBooks DEF TypeOK
    <3>3. ServerGrows /\ Due' = Due
      BY <1>1, <3>1, ComingSame, DueSame DEF ServerGrows
    <3> QED BY <1>1, <3>1, <3>2, <3>3, NothingCounted
  <2> QED BY <2>1, <2>2
<1>4. Follows(chain, chain', Queued) /\ FlushesInTurn
  BY <1>1, <1>3, ChainFollows DEF FlushesInTurn, LedgerInv, OneFlush
<1>5. Ordinary
  BY <1>1, <1>3, <1>4, SentNothing DEF SameBooks
<1> QED BY <1>1, <1>3, <1>5, LedgerStands

LEMMA DeltaRetryFiresLedger ==
    ASSUME TypeOK, TypeOK', HoleInv, HoleInv', LedgerInv, DeltaRetryFires
    PROVE  LedgerInv'
<1>1. /\ sub' = [sub EXCEPT !.deltaRetryTimer = FALSE]
      /\ (chain' = chain \/ Enqueue("retry", 0, sub.serverSV))
      /\ UNCHANGED <<log, snap, open, net, unacked, recv, batch, deltas, idb, ckpt,
                     restored>>
  BY DEF DeltaRetryFires, serverVars, wireVars, diskVars, histVars
<1>2. /\ SameBooks(sub, sub') /\ SameDebt(sub, sub')
      /\ sub'.flushing = sub.flushing /\ sub'.pending = sub.pending
  BY <1>1 DEF TypeOK, DocSubscription, SameBooks, SameAccounts, SameReading, SameDebt
<1>3. Follows(chain, chain', Queued)
  <2>1. sub.serverSV \in Payload
    BY DEF TypeOK, DocSubscription
  <2>2. [k |-> "retry", seq |-> 0, payload |-> sub.serverSV] \in Queued
    BY <2>1 DEF Queued, Task
  <2> QED BY <1>1, <2>1, <2>2, ChainFollows, ChainGrows
<1>4. FlushesInTurn
  BY <1>1, <1>2 DEF FlushesInTurn, LedgerInv, OneFlush
<1>5. Ordinary /\ Coming' = Coming
  BY <1>1, <1>2, <1>3, <1>4, SentNothing DEF SameBooks
<1>6. Counted' /\ Accounted'
  <2>1. Due' = Due
    BY <1>1, <1>2, <1>5, DueSame DEF SameDebt
  <2>2. sub'.ydoc = sub.ydoc /\ sub'.owesReconcile = sub.owesReconcile /\ ServerGrows
    BY <1>2, <1>5 DEF SameBooks, SameAccounts, SameReading, SameDebt, Ordinary
  <2> QED BY <1>1, <1>2, <2>1, <2>2, NothingCounted
<1> QED BY <1>1, <1>2, <1>5, <1>6, LedgerStands

LEMMA SnapshotFailsLedger ==
    ASSUME TypeOK, TypeOK', HoleInv, HoleInv', LedgerInv, SnapshotFails
    PROVE  LedgerInv'
<1>1. /\ chain' = <<>>
      /\ UNCHANGED <<log, snap, open, net, sub, unacked, recv, batch, deltas, idb,
                     ckpt, restored>>
  BY DEF SnapshotFails, serverVars, wireVars, diskVars, histVars
<1>2. SameBooks(sub, sub')
  BY <1>1, HelpersKeepBooks DEF TypeOK
<1>3. Follows(chain, chain', Queued) /\ FlushesInTurn
  BY <1>1, FollowsNone DEF FlushesInTurn, LedgerInv, OneFlush
<1>4. Ordinary /\ Coming' = Coming
  BY <1>1, <1>2, <1>3, SentNothing DEF SameBooks
<1>5. Counted' /\ Accounted'
  <2>1. Due' = Due /\ ServerGrows
    BY <1>1, <1>4, DueSame DEF Ordinary
  <2> QED BY <1>1, <1>2, <2>1, NothingCounted
<1> QED BY <1>1, <1>2, <1>4, <1>5, LedgerStands

LEMMA DueNat ==
    TypeOK => Cardinality(AcksDue) \in Nat /\ Cardinality(DeltasDue) \in Nat /\ Due \in Nat
BY DueType

LEMMA DueNatNext ==
    TypeOK' => (Cardinality(AcksDue) \in Nat /\ Cardinality(DeltasDue) \in Nat /\ Due \in Nat)'
BY DueNat, PTL

LEMMA DueTypeNext ==
    ASSUME TypeOK'
    PROVE  Cardinality(AcksDue') \in Nat /\ Cardinality(DeltasDue') \in Nat /\ Due' \in Nat
BY DueNatNext

\* A delta that left the ones under way is one push fewer due.
LEMMA DeltaLeft ==
    ASSUME TypeOK, TypeOK', LedgerInv, NEW i \in 1..Len(deltas),
           deltas' = Remove(deltas, i) \/ deltas' = MarkHeld(Remove(deltas, i))
    PROVE  /\ Cardinality(DeltasDue') =
                  IF deltas[i].live THEN Cardinality(DeltasDue) - 1 ELSE Cardinality(DeltasDue)
           /\ \A h \in DeltasDue : h # i =>
                  \E j \in DeltasDue' : deltas'[j].payload = deltas[h].payload
           /\ deltas[i].live => Due > 0
<1> DEFINE q == Remove(deltas, i)
<1>1. q \in Seq(Delta) /\ Len(q) = Len(deltas) - 1
  BY RemoveType, RemoveAt DEF TypeOK
<1>2. /\ Len(deltas') = Len(q)
      /\ \A j \in 1..Len(q) : deltas'[j].live = q[j].live /\ deltas'[j].payload = q[j].payload
  <2> HIDE DEF q
  <2> QED BY <1>1, MarkHeldSays DEF q
<1>3. /\ Cardinality(DeltasDue') =
             IF deltas[i].live THEN Cardinality(DeltasDue) - 1 ELSE Cardinality(DeltasDue)
      /\ \A h \in DeltasDue : h # i =>
             \E j \in DeltasDue' : deltas'[j].payload = deltas[h].payload
  BY <1>1, <1>2, DeltaRemoved
<1>4. /\ Cardinality(DeltasDue) \in Nat /\ Cardinality(AcksDue) \in Nat
      /\ Cardinality(DeltasDue') \in Nat
  BY DueType, DueTypeNext
<1>5. deltas[i].live => Due > 0
  BY <1>3, <1>4 DEF Due
<1> QED BY <1>3, <1>5

\* The push of a delta taken back is paid off.
LEMMA PaidOff ==
    ASSUME TypeOK, TypeOK', LedgerInv, NEW i \in 1..Len(deltas),
           deltas' = Remove(deltas, i) \/ deltas' = MarkHeld(Remove(deltas, i)),
           AcksDue' = AcksDue,
           NEW s \in DocSubscription, TakeBack(deltas[i], s)
    PROVE  Counted'
<1>1. /\ Cardinality(DeltasDue) \in Nat /\ Cardinality(AcksDue) \in Nat
      /\ unacked \in Nat /\ unacked >= Due
  BY DueType DEF TypeOK, LedgerInv, Counted
<1>2. unacked' = IF deltas[i].live THEN SettledCount ELSE unacked
  BY DEF TakeBack, Settles
<1>3. CASE deltas[i].live
  <2>1. Due > 0 /\ Cardinality(DeltasDue') = Cardinality(DeltasDue) - 1
    BY <1>3, DeltaLeft
  <2>2. unacked' = unacked - 1
    BY <1>1, <1>2, <1>3, <2>1, DueType DEF SettledCount
  <2> QED BY <1>1, <2>1, <2>2 DEF Counted, Due
<1>4. CASE ~deltas[i].live
  <2>1. Cardinality(DeltasDue') = Cardinality(DeltasDue)
    BY <1>4, DeltaLeft
  <2> QED BY <1>1, <1>2, <1>4, <2>1 DEF Counted, Due
<1> QED BY <1>3, <1>4

LEMMA DeltaEncryptedLedger ==
    ASSUME TypeOK, TypeOK', HoleInv, HoleInv', LedgerInv, DeltaEncrypted
    PROVE  LedgerInv'
<1> PICK i \in 1..Len(deltas) :
        LET d == deltas[i] IN
        /\ CASE ~open ->
                  /\ TakeBack(d, sub)
                  /\ deltas' = Remove(deltas, i)
                  /\ UNCHANGED <<serverVars, net, faults>>
             [] open /\ DeltaTooLarge(d.payload) ->
                  /\ TakeBack(d, Held(sub))
                  /\ deltas' = MarkHeld(Remove(deltas, i))
                  /\ UNCHANGED <<serverVars, net, faults>>
             [] open /\ ~DeltaTooLarge(d.payload) ->
                  /\ ServerPush(d.payload)
                  /\ unacked' = IF d.live THEN unacked ELSE unacked + 1
                  /\ sub' = [sub EXCEPT !.oversizedPush = @ /\ ~ClearsHold(d)]
                  /\ deltas' = Remove(deltas, i)
        /\ UNCHANGED <<open, recv, chain, batch, poisoned, diskVars, made, histVars>>
  BY DEF DeltaEncrypted
<1>1. UNCHANGED <<open, recv, chain, batch, idb, ckpt, restored>>
  BY DEF diskVars, histVars
<1>2. /\ deltas[i] \in Delta /\ deltas[i].payload \in Payload
      /\ deltas[i].payload \subseteq sub.ydoc /\ sub \in DocSubscription
  <2>1. deltas[i] \in Delta
    BY ElementOfSeq DEF TypeOK
  <2> QED BY <2>1 DEF Delta, HoleInv, OwnWorkHeld, TypeOK
<1>3. Follows(chain, chain', Queued)
  BY <1>1, ChainFollows
<1>4. CASE ~open \/ DeltaTooLarge(deltas[i].payload)
  <2>1. PICK s \in {sub, Held(sub)} : TakeBack(deltas[i], s)
    BY <1>4
  <2>2. /\ deltas' = Remove(deltas, i) \/ deltas' = MarkHeld(Remove(deltas, i))
        /\ UNCHANGED <<log, snap, net>>
    BY <1>4 DEF serverVars
  <2>3. s \in DocSubscription /\ SameBooks(sub, s) /\ s.flushing = sub.flushing
    BY <1>2, HeldType, HelpersKeepBooks
  <2>4. SameBooks(s, sub') /\ sub'.owesReconcile /\ sub'.flushing = s.flushing
    BY <2>1, <2>3, TakeBackBooks
  <2>5. SameBooks(sub, sub') /\ FlushesInTurn
    BY <1>1, <2>3, <2>4, SameBooksTransitive DEF FlushesInTurn, LedgerInv, OneFlush
  <2>6. Ordinary /\ AcksDue' = AcksDue
    BY <1>1, <1>3, <2>2, <2>5, SentNothing DEF SameBooks
  <2>7. Counted'
    BY <2>1, <2>2, <2>3, <2>6, PaidOff
  <2> QED BY <1>1, <2>4, <2>5, <2>6, <2>7, Indebted, LedgerStands
<1>5. CASE open /\ ~DeltaTooLarge(deltas[i].payload)
  <2>1. /\ ServerPush(deltas[i].payload) /\ deltas' = Remove(deltas, i)
        /\ unacked' = IF deltas[i].live THEN unacked ELSE unacked + 1
        /\ sub' = [sub EXCEPT !.oversizedPush = @ /\ ~ClearsHold(deltas[i])]
    BY <1>5
  <2>2. /\ SameBooks(sub, sub') /\ SameDebt(sub, sub')
        /\ sub'.flushing = sub.flushing /\ sub'.pending = sub.pending
    BY <2>1 DEF TypeOK, DocSubscription, SameBooks, SameAccounts, SameReading, SameDebt
  <2>3. /\ ServerGrows /\ ComingMoves
        /\ \/ Cardinality(AcksDue') = Cardinality(AcksDue)
           \/ /\ Cardinality(AcksDue') = Cardinality(AcksDue) + 1
              /\ deltas[i].payload \subseteq ServerDoc'
    BY <1>1, <1>2, <1>5, <2>1, PushSays
  <2>4. FlushesInTurn
    BY <1>1, <2>2 DEF FlushesInTurn, LedgerInv, OneFlush
  <2>5. Ordinary
    BY <1>1, <1>3, <2>2, <2>3, <2>4, Undisturbed DEF SameBooks
  <2>6. /\ Cardinality(DeltasDue) \in Nat /\ Cardinality(AcksDue) \in Nat
        /\ unacked \in Nat /\ unacked >= Due
    BY DueType DEF TypeOK, LedgerInv, Counted
  <2>7. unacked' - unacked = (Cardinality(DeltasDue') - Cardinality(DeltasDue)) + 1
    <3>1. CASE deltas[i].live
      <4>1. Cardinality(DeltasDue') = Cardinality(DeltasDue) - 1
        BY <2>1, <3>1, DeltaLeft
      <4> QED BY <2>1, <2>6, <3>1, <4>1
    <3>2. CASE ~deltas[i].live
      <4>1. Cardinality(DeltasDue') = Cardinality(DeltasDue)
        BY <2>1, <3>2, DeltaLeft
      <4> QED BY <2>1, <2>6, <3>2, <4>1
    <3> QED BY <3>1, <3>2
  <2>8. Cardinality(DeltasDue') \in Nat /\ unacked' \in Nat
    BY DueTypeNext DEF TypeOK
  <2>9. CASE Cardinality(AcksDue') = Cardinality(AcksDue)
    <3>1. unacked' > Due' /\ Counted'
      BY <2>6, <2>7, <2>8, <2>9 DEF Counted, Due
    <3> QED BY <1>1, <2>2, <2>5, <3>1, Indebted, LedgerStands
  <2>10. CASE /\ Cardinality(AcksDue') = Cardinality(AcksDue) + 1
              /\ deltas[i].payload \subseteq ServerDoc'
    <3>1. Counted' /\ (unacked > Due => unacked' > Due')
      BY <2>6, <2>7, <2>8, <2>10 DEF Counted, Due
    <3>2. Debt => Debt'
      BY <2>2, <3>1 DEF Debt, SameDebt
    <3>3. ServerDoc \subseteq ServerDoc'
      BY <2>3, ServerHolds
    <3>4. \A h \in DeltasDue :
            \/ deltas[h].payload \cap LocalIns \subseteq ServerDoc'
            \/ \E m \in DeltasDue' : deltas'[m].payload = deltas[h].payload
      BY <2>1, <2>10, DeltaLeft
    <3>5. sub'.ydoc = sub.ydoc
      BY <2>2 DEF SameBooks, SameAccounts, SameReading
    <3>6. Accounted'
      BY <1>1, <2>2, <3>2, <3>3, <3>4, <3>5, AccountedStep DEF LedgerInv
    <3> QED BY <1>1, <2>2, <2>5, <3>1, <3>6, LedgerStands
  <2> QED BY <2>3, <2>9, <2>10
<1> QED BY <1>4, <1>5

LEMMA DeltaFailsLedger ==
    ASSUME TypeOK, TypeOK', HoleInv, HoleInv', LedgerInv, DeltaFails PROVE LedgerInv'
<1> DEFINE s == ScheduleDeltaRetry(sub)
<1> PICK i \in 1..Len(deltas) : TakeBack(deltas[i], s) /\ deltas' = Remove(deltas, i)
  BY DEF DeltaFails
<1>1. UNCHANGED <<log, snap, open, net, recv, chain, batch, idb, ckpt, restored>>
  BY DEF DeltaFails, serverVars, wireVars, diskVars, histVars
<1>2. s \in DocSubscription /\ SameBooks(sub, s) /\ s.flushing = sub.flushing
  BY WorkNow, HelpersKeepBooks DEF ScheduleDeltaRetry, DocSubscription
<1> HIDE DEF s
<1>3. SameBooks(s, sub') /\ sub'.owesReconcile /\ sub'.flushing = s.flushing
  BY <1>2, TakeBackBooks
<1>4. SameBooks(sub, sub') /\ FlushesInTurn
  BY <1>1, <1>2, <1>3, SameBooksTransitive DEF FlushesInTurn, LedgerInv, OneFlush
<1>5. Ordinary /\ AcksDue' = AcksDue
  BY <1>1, <1>4, ChainFollows, SentNothing DEF SameBooks
<1>6. Counted'
  BY <1>2, <1>5, PaidOff
<1> QED BY <1>1, <1>3, <1>4, <1>5, <1>6, Indebted, LedgerStands


(***************************************************************************)
(* The actions: receiving.                                                 *)
(***************************************************************************)
LEMMA SnapshotFollows ==
    ASSUME TypeOK, open' = open, NEW s \in DocSubscription, s = sub',
           MayCompact(s), SendSnapshot(s)
    PROVE  Follows(chain, chain', Queued)
<1>1. s.lastSeq \in Nat /\ s.ydoc \in Payload
  BY DEF DocSubscription
<1>2. Enqueue("snapshot", s.lastSeq, s.ydoc)
  BY DEF SendSnapshot
<1>3. MayCompact(sub)'
  BY DEF MayCompact
<1>4. [k |-> "snapshot", seq |-> s.lastSeq, payload |-> s.ydoc] \in Queued
  BY <1>1, <1>3 DEF Queued, Task
<1> QED BY <1>1, <1>2, <1>4, ChainGrows

LEMMA CompactFollows ==
    ASSUME TypeOK, open' = open, NEW s \in DocSubscription, s = sub', MaybeCompact(s)
    PROVE  Follows(chain, chain', Queued)
BY ChainFollows, SnapshotFollows DEF MaybeCompact

\* A frame is read.
LEMMA FrameRead ==
    ASSUME TypeOK, TypeOK', HoleInv, recv # <<>>, recv' = Tail(recv), net' = net,
           \/ Head(recv).k \notin PayloadKinds
           \/ Head(recv).payload \subseteq sub'.ydoc
           \/ sub'.decryptGapSeq # 0
    PROVE  /\ Coming # <<>> /\ Head(Coming) = Head(recv) /\ Coming' = Tail(Coming)
           /\ Head(Coming) = Coming[1] /\ 1 \in 1..Len(Coming)
           /\ Follows(Coming, Coming', Sent) /\ FramesMove
<1>1. /\ Coming # <<>> /\ Head(Coming) = Head(recv) /\ Coming' = Tail(Coming)
      /\ Coming \in Seq(Frame)
  BY ComingTaken, ComingType
<1>2. Coming[1] = Head(Coming) /\ 1 \in 1..Len(Coming)
  BY <1>1, ComingType, HeadTailProperties, EmptySeq
<1>3. Head(recv).k \notin PayloadKinds => Head(recv).payload = {}
  BY HeadCovered
<1>4. FramesMove
  BY <1>1, <1>3 DEF FramesMove, HeadRead
<1> QED BY <1>1, <1>2, <1>4, FollowsTail

\* A frame that is no Ack paid nothing.
LEMMA DueRead ==
    ASSUME TypeOK, TypeOK', recv # <<>>, recv' = Tail(recv), net' = net, deltas' = deltas,
           Head(recv).k # "ack"
    PROVE  Due' = Due
<1>1. Coming # <<>> /\ Head(Coming) = Head(recv) /\ Coming' = Tail(Coming)
  BY ComingTaken
<1>2. Cardinality(AcksDue') = Cardinality(AcksDue)
  BY <1>1, AckTaken
<1>3. DeltasDue' = DeltasDue
  BY DEF DeltasDue
<1> QED BY <1>2, <1>3 DEF Due

\* The read position moves, and nothing else of the books.
LEMMA AdvanceBooks ==
    ASSUME NEW s \in DocSubscription, NEW n \in Nat
    PROVE  LET t == Advance(s, n)
           IN  /\ t.catchUpFrom = s.catchUpFrom /\ t.catchUp = s.catchUp
               /\ t.serverSV = s.serverSV /\ t.reconciling = s.reconciling
               /\ t.owesReconcile = s.owesReconcile /\ t.flushing = s.flushing
               /\ t.hasUnsentWork = s.hasUnsentWork
BY DEF Advance, ScheduleSeqSave, DocSubscription

LEMMA DeliverLedger ==
    ASSUME TypeOK, TypeOK', HoleInv, HoleInv', LedgerInv, Deliver PROVE LedgerInv'
<1>1. /\ net # <<>> /\ net' = Tail(net) /\ recv' = Append(recv, Head(net))
      /\ UNCHANGED <<log, snap, open, sub, unacked, batch, deltas, idb, ckpt, restored>>
      /\ (chain' = chain \/ MaybeCompact(sub))
  BY DEF Deliver, serverVars, diskVars, histVars
<1>2. Coming' = Coming
  BY <1>1, Delivered
<1>3. ServerGrows /\ ComingMoves /\ Due' = Due
  BY <1>1, <1>2, DueSame DEF ServerGrows, ComingMoves
<1>4. SameBooks(sub, sub')
  BY <1>1, HelpersKeepBooks DEF TypeOK
<1>5. Follows(chain, chain', Queued)
  <2>1. sub \in DocSubscription /\ sub = sub' /\ open' = open
    BY <1>1 DEF TypeOK
  <2> QED BY <1>1, <2>1, ChainFollows, CompactFollows
<1>6. FlushesInTurn
  BY <1>1 DEF FlushesInTurn, LedgerInv, OneFlush
<1>7. Ordinary
  BY <1>1, <1>3, <1>4, <1>5, <1>6, Undisturbed DEF SameBooks
<1>8. Counted' /\ Accounted'
  BY <1>1, <1>3, <1>4, NothingCounted
<1> QED BY <1>1, <1>4, <1>7, <1>8, LedgerStands

LEMMA HandleCompactRequestLedger ==
    ASSUME TypeOK, TypeOK', HoleInv, HoleInv', LedgerInv, HandleCompactRequest
    PROVE  LedgerInv'
<1>1. /\ recv # <<>> /\ recv' = Tail(recv) /\ Head(recv).k = "compact"
      /\ UNCHANGED <<log, snap, open, net, sub, unacked, batch, deltas, idb, ckpt, restored>>
      /\ (chain' = chain \/ (MayCompact(sub) /\ SendSnapshot(sub)))
  BY DEF HandleCompactRequest, Receiving, serverVars, wireVars, diskVars, histVars
<1>2. Follows(Coming, Coming', Sent) /\ FramesMove
  BY <1>1, FrameRead DEF PayloadKinds
<1>3. Follows(chain, chain', Queued)
  <2>1. sub \in DocSubscription /\ sub = sub' /\ open' = open
    BY <1>1 DEF TypeOK
  <2> QED BY <1>1, <2>1, ChainFollows, SnapshotFollows
<1>4. SameBooks(sub, sub')
  BY <1>1, HelpersKeepBooks DEF TypeOK
<1>5. ServerGrows /\ Due' = Due
  BY <1>1, DueRead DEF ServerGrows
<1>6. Ordinary
  <2>1. DocGrows /\ SocketSame /\ PositionMoves
    BY <1>1 DEF DocGrows, SocketSame, PositionMoves, LedgerInv, OnDisk
  <2>2. StillProven /\ Stored /\ FlushesInTurn
    BY <1>1 DEF StillProven, Stored, FlushesInTurn, LedgerInv, OneFlush
  <2> QED BY <1>2, <1>3, <1>5, <2>1, <2>2 DEF Ordinary, QueuesMove
<1>7. Counted' /\ Accounted'
  BY <1>1, <1>4, <1>5, NothingCounted
<1> QED BY <1>1, <1>4, <1>6, <1>7, LedgerStands

LEMMA DecryptFailsLedger ==
    ASSUME TypeOK, TypeOK', HoleInv, HoleInv', LedgerInv, DecryptFails
    PROVE  LedgerInv'
<1>1. /\ recv # <<>> /\ recv' = Tail(recv) /\ Head(recv).k \in PayloadKinds
      /\ UNCHANGED <<log, snap, open, net, unacked, chain, batch, deltas, idb, ckpt,
                     restored>>
      /\ sub' = IF sub.decryptGapSeq = 0
                THEN [sub EXCEPT !.decryptGapSeq = Head(recv).seq] ELSE sub
  BY DEF DecryptFails, Receiving, serverVars, wireVars, sendVars, diskVars, histVars
<1>2. Head(recv) \in Frame /\ Head(recv).seq > 0 /\ Head(recv).k # "ack"
  BY <1>1, HeadCovered DEF PayloadKinds
<1>3. /\ sub'.ydoc = sub.ydoc /\ sub'.pending = sub.pending /\ sub'.lastSeq = sub.lastSeq
      /\ sub'.synced = sub.synced /\ sub'.seqReady = sub.seqReady
      /\ sub'.catchUpFrom = sub.catchUpFrom /\ sub'.catchUp = sub.catchUp
      /\ sub'.serverSV = sub.serverSV /\ sub'.reconciling = sub.reconciling
      /\ sub'.owesReconcile = sub.owesReconcile /\ sub'.flushing = sub.flushing
      /\ sub'.decryptGapSeq # 0
  <2>1. sub \in DocSubscription
    BY DEF TypeOK
  <2>2. CASE sub.decryptGapSeq = 0
    BY <1>1, <1>2, <2>1, <2>2 DEF DocSubscription, Frame
  <2>3. CASE sub.decryptGapSeq # 0
    BY <1>1, <2>3
  <2> QED BY <2>2, <2>3
<1>4. Follows(Coming, Coming', Sent) /\ FramesMove
  BY <1>1, <1>3, FrameRead
<1>5. ServerGrows /\ Due' = Due
  BY <1>1, <1>2, DueRead DEF ServerGrows
<1>6. Ordinary
  <2>1. DocGrows
    BY <1>1, <1>3 DEF DocGrows, LedgerInv, OnDisk
  <2>2. SocketSame /\ PositionMoves
    BY <1>1, <1>3 DEF SocketSame, PositionMoves
  <2>3. StillProven /\ Stored
    BY <1>1, <1>3 DEF StillProven, Stored
  <2>4. FlushesInTurn /\ Follows(chain, chain', Queued)
    BY <1>1, <1>3, ChainFollows DEF FlushesInTurn, LedgerInv, OneFlush
  <2> QED BY <1>4, <1>5, <2>1, <2>2, <2>3, <2>4 DEF Ordinary, QueuesMove
<1>7. Counted' /\ Accounted'
  BY <1>1, <1>3, <1>5, NothingCounted
<1>8. Cold'
  BY <1>1, <1>3, <1>5, ServerHolds, ColdStep DEF LedgerInv
<1> QED BY <1>6, <1>7, <1>8, LedgerHolds

\* A payload moves the position where its frame may, or, taken before the
\* catch-up, past nothing the document lacks.
LEMMA ReceivePayloadLedger ==
    ASSUME TypeOK, TypeOK', HoleInv, HoleInv', LedgerInv, ReceivePayload, flaws' = {}
    PROVE  LedgerInv'
<1> DEFINE f == Head(recv)
           applied == [sub EXCEPT !.ydoc = @ \cup f.payload,
                                  !.catchUp = IF f.k = "snapshot" \/ ~sub.synced
                                              THEN @ \cup f.payload ELSE @]
<1>1. /\ recv # <<>> /\ recv' = Tail(recv) /\ f.k \in PayloadKinds
      /\ UNCHANGED <<log, snap, open, net, unacked, batch, deltas, idb, ckpt, restored>>
      /\ sub' = Advance(applied, f.seq)
      /\ (chain' = chain \/ MaybeCompact(sub'))
      /\ ~Skips(f, applied.ydoc)
  BY DEF ReceivePayload, Receiving, serverVars, wireVars, diskVars, Mark
<1>2. f \in Frame /\ f.seq \in Nat /\ f.payload \in Payload /\ f.k # "ack" /\ f.k # "status"
  BY <1>1, HeadCovered DEF Frame, PayloadKinds
<1> HIDE DEF f
<1>3. /\ applied \in DocSubscription
      /\ applied.ydoc = sub.ydoc \cup f.payload /\ applied.pending = sub.pending
      /\ applied.synced = sub.synced /\ applied.seqReady = sub.seqReady
      /\ applied.decryptGapSeq = sub.decryptGapSeq /\ applied.lastSeq = sub.lastSeq
      /\ applied.catchUpFrom = sub.catchUpFrom /\ applied.serverSV = sub.serverSV
      /\ applied.catchUp \subseteq sub.catchUp \cup f.payload
      /\ applied.reconciling = sub.reconciling /\ applied.owesReconcile = sub.owesReconcile
      /\ applied.flushing = sub.flushing
  BY <1>2 DEF TypeOK, DocSubscription, Payload
<1> HIDE DEF applied
<1>4. /\ sub'.ydoc = sub.ydoc \cup f.payload /\ sub'.pending = sub.pending
      /\ sub'.synced = sub.synced /\ sub'.seqReady = sub.seqReady
      /\ sub'.decryptGapSeq = sub.decryptGapSeq
      /\ \/ sub'.lastSeq = sub.lastSeq
         \/ sub.decryptGapSeq = 0 /\ sub'.lastSeq = f.seq
  BY <1>1, <1>2, <1>3, AdvanceMoves
<1>5. /\ sub'.catchUpFrom = sub.catchUpFrom /\ sub'.serverSV = sub.serverSV
      /\ sub'.catchUp \subseteq sub.catchUp \cup f.payload
      /\ sub'.reconciling = sub.reconciling /\ sub'.owesReconcile = sub.owesReconcile
      /\ sub'.flushing = sub.flushing
  BY <1>1, <1>2, <1>3, AdvanceBooks
<1>6. /\ Coming # <<>> /\ Head(Coming) = f /\ Coming' = Tail(Coming)
      /\ Head(Coming) = Coming[1] /\ 1 \in 1..Len(Coming)
      /\ Follows(Coming, Coming', Sent) /\ FramesMove
  <2>1. f.payload \subseteq sub'.ydoc
    BY <1>4
  <2> QED BY <1>1, <2>1, FrameRead DEF f
<1>7. ServerGrows /\ Due' = Due
  BY <1>1, <1>2, DueRead DEF ServerGrows, f
<1>8. f.payload \cap LocalIns \subseteq ServerDoc
  BY <1>6, HeadIsServed DEF LedgerInv
<1>9. Follows(chain, chain', Queued)
  <2>1. sub' \in DocSubscription /\ open' = open
    BY <1>1 DEF TypeOK
  <2> QED BY <1>1, <2>1, ChainFollows, CompactFollows
<1>10. PositionMoves
  <2> SUFFICES ASSUME sub'.lastSeq # sub.lastSeq PROVE PositionMoves
    BY DEF PositionMoves
  <2>1. sub.decryptGapSeq = 0 /\ sub'.lastSeq = f.seq
    BY <1>4
  <2>2. CASE f.k # "update" \/ sub.synced
    <3>1. Moves(1)
      BY <1>1, <1>6, <2>2 DEF Moves, PayloadKinds
    <3> QED BY <1>6, <2>1, <3>1 DEF PositionMoves
  <2>3. CASE f.k = "update" /\ ~sub.synced
    <3>1. SentUpTo(f.seq) \subseteq sub'.ydoc
      BY <1>1, <1>3, <1>4, <2>1, <2>3 DEF Skips, MayAdvance
    <3> QED BY <1>1, <2>1, <3>1 DEF SentUpTo, PositionMoves
  <2> QED BY <2>2, <2>3
<1>11. Ordinary
  <2>1. DocGrows
    BY <1>1, <1>4 DEF DocGrows, LedgerInv, OnDisk
  <2>2. SocketSame
    BY <1>1, <1>4, <1>5 DEF SocketSame
  <2>3. StillProven
    BY <1>4, <1>5, <1>6 DEF StillProven
  <2>4. FlushesInTurn /\ Stored
    BY <1>1, <1>5 DEF FlushesInTurn, Stored, LedgerInv, OneFlush
  <2> QED BY <1>6, <1>7, <1>9, <1>10, <2>1, <2>2, <2>3, <2>4 DEF Ordinary, QueuesMove
<1>12. Cold'
  BY <1>1, <1>4, <1>5, <1>7, ServerHolds, ColdStep DEF LedgerInv
<1>13. Counted' /\ Accounted'
  BY <1>1, <1>4, <1>5, <1>7, <1>8, NothingCounted
<1> QED BY <1>11, <1>12, <1>13, LedgerHolds

LEMMA ReceiveAckLedger ==
    ASSUME TypeOK, TypeOK', HoleInv, HoleInv', LedgerInv, ReceiveAck PROVE LedgerInv'
<1> DEFINE f == Head(recv)
           s == IF AckAdvances(sub) THEN Advance(sub, f.seq) ELSE sub
           t == IF Settles(f.live) THEN SettleAck(s) ELSE s
<1>1. /\ recv # <<>> /\ recv' = Tail(recv) /\ f.k = "ack"
      /\ UNCHANGED <<log, snap, open, net, batch, deltas, idb, ckpt, restored>>
      /\ sub' = t /\ MaybeCompact(sub')
      /\ unacked' = IF f.live THEN SettledCount ELSE unacked
  BY DEF ReceiveAck, Receiving, Settles, serverVars, wireVars, diskVars, histVars
<1>2. f \in Frame /\ f.seq \in Nat
  BY <1>1, HeadCovered DEF Frame
<1> HIDE DEF f
<1>3. /\ s \in DocSubscription
      /\ s.ydoc = sub.ydoc /\ s.pending = sub.pending /\ s.synced = sub.synced
      /\ s.seqReady = sub.seqReady /\ s.decryptGapSeq = sub.decryptGapSeq
      /\ s.lastSeq = sub.lastSeq \/ (sub.synced /\ s.lastSeq = f.seq)
      /\ s.catchUpFrom = sub.catchUpFrom /\ s.catchUp = sub.catchUp
      /\ s.serverSV = sub.serverSV /\ s.reconciling = sub.reconciling
      /\ s.owesReconcile = sub.owesReconcile /\ s.flushing = sub.flushing
  <2>1. CASE AckAdvances(sub)
    BY <1>2, <2>1, WorkNow, AdvanceType, AdvanceMoves, AdvanceBooks DEF AckAdvances
  <2>2. CASE ~AckAdvances(sub)
    BY <2>2, WorkNow
  <2> QED BY <2>1, <2>2
<1> HIDE DEF s
<1>4. SameBooks(s, sub') /\ SameDebt(s, sub') /\ sub'.flushing = s.flushing
      /\ sub'.pending = s.pending
  <2>1. SameBooks(s, s) /\ SameDebt(s, s)
    BY <1>3, HelpersKeepBooks DEF SameDebt
  <2> QED BY <1>1, <1>3, <2>1, HelpersKeepBooks, HelpersKeepReading
<1> HIDE DEF t
<1>5. /\ sub'.ydoc = sub.ydoc /\ sub'.pending = sub.pending /\ sub'.synced = sub.synced
      /\ sub'.seqReady = sub.seqReady /\ sub'.decryptGapSeq = sub.decryptGapSeq
      /\ sub'.lastSeq = sub.lastSeq \/ (sub.synced /\ sub'.lastSeq = f.seq)
      /\ sub'.catchUpFrom = sub.catchUpFrom /\ sub'.reconciling = sub.reconciling
      /\ sub'.owesReconcile = sub.owesReconcile /\ sub'.flushing = sub.flushing
  BY <1>3, <1>4 DEF SameBooks, SameAccounts, SameReading, SameDebt
<1>6. /\ sub'.catchUp \subseteq sub.catchUp
      /\ sub'.serverSV \subseteq sub.serverSV \cup sub.catchUp
  BY <1>3, <1>4 DEF SameBooks, SameAccounts
<1>7. /\ Coming # <<>> /\ Head(Coming) = f /\ Coming' = Tail(Coming)
      /\ Head(Coming) = Coming[1] /\ 1 \in 1..Len(Coming)
      /\ Follows(Coming, Coming', Sent) /\ FramesMove
  BY <1>1, FrameRead DEF f, PayloadKinds
<1>8. Follows(chain, chain', Queued)
  <2>1. sub' \in DocSubscription /\ open' = open
    BY <1>1 DEF TypeOK
  <2> QED BY <1>1, <2>1, CompactFollows
<1>9. Ordinary
  <2>1. ServerGrows
    BY <1>1 DEF ServerGrows
  <2>2. DocGrows
    BY <1>1, <1>5 DEF DocGrows, LedgerInv, OnDisk
  <2>3. SocketSame
    BY <1>1, <1>5 DEF SocketSame
  <2>4. StillProven /\ Stored
    BY <1>1, <1>6 DEF StillProven, Stored
  <2>5. FlushesInTurn
    BY <1>1, <1>5 DEF FlushesInTurn, LedgerInv, OneFlush
  <2>6. PositionMoves
    BY <1>1, <1>5, <1>7 DEF PositionMoves, Moves
  <2> QED BY <1>7, <1>8, <2>1, <2>2, <2>3, <2>4, <2>5, <2>6 DEF Ordinary, QueuesMove
<1>10. /\ Cardinality(AcksDue) \in Nat /\ Cardinality(DeltasDue) \in Nat
       /\ Cardinality(AcksDue') \in Nat /\ unacked \in Nat
       /\ unacked >= Cardinality(AcksDue) + Cardinality(DeltasDue)
  BY DueType, DueTypeNext DEF TypeOK, LedgerInv, Counted, Due
<1>11. DeltasDue' = DeltasDue
  BY <1>1 DEF DeltasDue
<1>12. Cardinality(AcksDue') = IF f.live THEN Cardinality(AcksDue) - 1 ELSE Cardinality(AcksDue)
  BY <1>1, <1>7, AckTaken
<1>13. unacked' - unacked = Cardinality(AcksDue') - Cardinality(AcksDue)
  <2>1. CASE f.live
    <3>1. unacked' = unacked - 1
      BY <1>1, <1>10, <1>12, <2>1 DEF SettledCount
    <3> QED BY <1>10, <1>12, <2>1, <3>1
  <2>2. CASE ~f.live
    BY <1>1, <1>10, <1>12, <2>2
  <2> QED BY <2>1, <2>2
<1>14. unacked' \in Nat
  BY DEF TypeOK
<1>15. Counted' /\ (unacked > Due => unacked' > Due')
  BY <1>10, <1>11, <1>13, <1>14 DEF Counted, Due
<1>16. ServerDoc' = ServerDoc
  BY <1>1, ServerSame
<1>17. Accounted'
  <2>1. Debt => Debt'
    BY <1>5, <1>15 DEF Debt
  <2>2. \A i \in DeltasDue : \E m \in DeltasDue' : deltas'[m].payload = deltas[i].payload
    BY <1>1, <1>11
  <2> QED BY <1>1, <1>5, <1>16, <2>1, <2>2, AccountedStep DEF LedgerInv
<1>18. Cold'
  BY <1>1, <1>5, <1>16, ColdStep DEF LedgerInv
<1> QED BY <1>9, <1>15, <1>17, <1>18, LedgerHolds

LEMMA CompleteSyncLedger ==
    ASSUME TypeOK, TypeOK', HoleInv, HoleInv', LedgerInv, CompleteSync PROVE LedgerInv'
<1> DEFINE f == Head(recv)
           a == Advance(sub, f.seq)
           s == [a EXCEPT !.synced = TRUE]
           waits == [s EXCEPT !.reconciling = TRUE]
           done == [s EXCEPT !.catchUp = {}]
<1>1. /\ recv # <<>> /\ recv' = Tail(recv) /\ f.k = "status"
      /\ UNCHANGED <<log, snap, open, net, unacked, batch, deltas, idb, ckpt, restored>>
      /\ \/ sub' = waits /\ Enqueue("reconcile", 0, {})
         \/ sub' = done /\ chain' = chain /\ ~MustReconcile(s)
  BY DEF CompleteSync, Receiving, serverVars, wireVars, diskVars, histVars
<1>2. f \in Frame /\ f.seq \in Nat
  BY <1>1, HeadCovered DEF Frame
<1> HIDE DEF f
<1>3. /\ a \in DocSubscription
      /\ a.ydoc = sub.ydoc /\ a.pending = sub.pending /\ a.seqReady = sub.seqReady
      /\ a.decryptGapSeq = sub.decryptGapSeq
      /\ a.lastSeq = sub.lastSeq \/ a.lastSeq = f.seq
      /\ a.catchUpFrom = sub.catchUpFrom /\ a.catchUp = sub.catchUp
      /\ a.serverSV = sub.serverSV /\ a.reconciling = sub.reconciling
      /\ a.owesReconcile = sub.owesReconcile /\ a.flushing = sub.flushing
  BY <1>2, WorkNow, AdvanceType, AdvanceMoves, AdvanceBooks
<1> HIDE DEF a
<1>4. /\ s \in DocSubscription /\ s.synced /\ s.lastSeq = a.lastSeq
      /\ s.ydoc = sub.ydoc /\ s.pending = sub.pending /\ s.seqReady = sub.seqReady
      /\ s.decryptGapSeq = sub.decryptGapSeq
      /\ s.catchUpFrom = sub.catchUpFrom /\ s.catchUp = sub.catchUp
      /\ s.serverSV = sub.serverSV /\ s.reconciling = sub.reconciling
      /\ s.owesReconcile = sub.owesReconcile /\ s.flushing = sub.flushing
  BY <1>3 DEF DocSubscription
<1> HIDE DEF s
<1>5. /\ waits.synced /\ waits.reconciling /\ waits.catchUp = s.catchUp
      /\ waits.ydoc = s.ydoc /\ waits.pending = s.pending /\ waits.seqReady = s.seqReady
      /\ waits.decryptGapSeq = s.decryptGapSeq /\ waits.catchUpFrom = s.catchUpFrom
      /\ waits.serverSV = s.serverSV /\ waits.owesReconcile = s.owesReconcile
      /\ waits.flushing = s.flushing /\ waits.lastSeq = s.lastSeq
  BY <1>4 DEF DocSubscription
<1>6. /\ done.synced /\ done.reconciling = s.reconciling /\ done.catchUp = {}
      /\ done.ydoc = s.ydoc /\ done.pending = s.pending /\ done.seqReady = s.seqReady
      /\ done.decryptGapSeq = s.decryptGapSeq /\ done.catchUpFrom = s.catchUpFrom
      /\ done.serverSV = s.serverSV /\ done.owesReconcile = s.owesReconcile
      /\ done.flushing = s.flushing /\ done.lastSeq = s.lastSeq
  BY <1>4 DEF DocSubscription
<1> HIDE DEF waits, done
<1>7. /\ sub'.synced /\ sub'.ydoc = sub.ydoc /\ sub'.pending = sub.pending
      /\ sub'.seqReady = sub.seqReady /\ sub'.decryptGapSeq = sub.decryptGapSeq
      /\ sub'.lastSeq = sub.lastSeq \/ sub'.lastSeq = f.seq
      /\ sub'.catchUpFrom = sub.catchUpFrom /\ sub'.owesReconcile = sub.owesReconcile
      /\ sub'.flushing = sub.flushing /\ (sub.reconciling => sub'.reconciling)
      /\ sub'.catchUp \subseteq sub.catchUp /\ sub'.serverSV = sub.serverSV
  BY <1>1, <1>3, <1>4, <1>5, <1>6
<1>8. /\ Coming # <<>> /\ Head(Coming) = f /\ Coming' = Tail(Coming)
      /\ Head(Coming) = Coming[1] /\ 1 \in 1..Len(Coming)
      /\ Follows(Coming, Coming', Sent) /\ FramesMove
  BY <1>1, FrameRead DEF f, PayloadKinds
<1>9. Follows(chain, chain', Queued)
  <2>1. {} \in Payload
    BY DEF Payload
  <2>2. [k |-> "reconcile", seq |-> 0, payload |-> {}] \in Queued
    BY <2>1 DEF Queued, Task
  <2> QED BY <1>1, <2>1, <2>2, ChainFollows, ChainGrows
<1>10. ServerGrows /\ Due' = Due
  BY <1>1, DueRead DEF ServerGrows, f
<1>11. Ordinary
  <2>1. DocGrows
    BY <1>1, <1>7 DEF DocGrows, LedgerInv, OnDisk
  <2>2. SocketSame
    BY <1>1, <1>7, <1>8 DEF SocketSame
  <2>3. StillProven /\ Stored
    BY <1>1, <1>7 DEF StillProven, Stored
  <2>4. FlushesInTurn
    BY <1>1, <1>7 DEF FlushesInTurn, LedgerInv, OneFlush
  <2>5. PositionMoves
    BY <1>1, <1>7, <1>8 DEF PositionMoves, Moves
  <2> QED BY <1>8, <1>9, <1>10, <2>1, <2>2, <2>3, <2>4, <2>5 DEF Ordinary, QueuesMove
<1>12. Cold'
  <2>1. ServerDoc \subseteq ServerDoc'
    BY <1>10, ServerHolds
  <2>2. CASE restored \subseteq ServerDoc
    BY <1>1, <2>1, <2>2 DEF Cold
  <2>3. CASE sub.catchUpFrom = 0
\* A catch-up from 0 ends with a reconcile.
    <3>1. MustReconcile(s)
      BY <1>4, <2>3 DEF MustReconcile
    <3>2. sub'.reconciling /\ sub'.catchUpFrom = 0
      BY <1>1, <1>4, <1>5, <2>3, <3>1
    <3> QED BY <3>2 DEF Cold
  <2> QED BY <2>2, <2>3 DEF LedgerInv, Cold
<1>13. Counted' /\ Accounted'
  BY <1>1, <1>7, <1>10, NothingCounted
<1> QED BY <1>11, <1>12, <1>13, LedgerHolds

(***************************************************************************)
(* The steps of the subscription's life, which change what it reads from.  *)
(***************************************************************************)
\* The work of the subscription is as it was; only its place in the log moves.
SameWork ==
    /\ sub'.ydoc = sub.ydoc /\ sub'.pending = sub.pending
    /\ sub'.catchUp = sub.catchUp /\ sub'.serverSV = sub.serverSV
    /\ sub'.flushing = sub.flushing /\ sub'.owesReconcile = sub.owesReconcile
    /\ sub'.reconciling = sub.reconciling /\ sub'.decryptGapSeq = sub.decryptGapSeq
    /\ UNCHANGED <<log, snap, recv, chain, batch, deltas, ckpt, idb, restored, unacked>>

LEMMA WorkStands ==
    ASSUME LedgerInv, SameWork
    PROVE  /\ OnDisk' /\ Captures' /\ ProofsStand' /\ VouchedKept' /\ OneFlush'
           /\ Logged' = Logged /\ ServerDoc' = ServerDoc /\ DeltasDue' = DeltasDue
<1>1. Logged' = Logged /\ ServerDoc' = ServerDoc /\ Vouched' = Vouched
  BY ServerSame DEF SameWork, Vouched
<1>2. OnDisk' /\ VouchedKept'
  BY <1>1 DEF LedgerInv, SameWork, OnDisk, VouchedKept
<1>3. Captures'
  BY <1>1 DEF LedgerInv, SameWork, Captures, IsSnapshot
<1>4. ProofsStand'
  BY <1>1 DEF LedgerInv, SameWork, ProofsStand, Proven
<1>5. OneFlush'
  BY DEF LedgerInv, SameWork, OneFlush
<1>6. DeltasDue' = DeltasDue
  BY DEF SameWork, DeltasDue
<1> QED BY <1>1, <1>2, <1>3, <1>4, <1>5, <1>6

LEMMA WorkAccounted ==
    ASSUME LedgerInv, SameWork, AcksDue' = AcksDue
    PROVE  Counted' /\ Accounted'
<1>1. ServerDoc' = ServerDoc /\ DeltasDue' = DeltasDue /\ Due' = Due
  BY WorkStands DEF Due
<1>2. Counted'
  BY <1>1 DEF LedgerInv, Counted, SameWork
<1>3. Accounted'
  BY <1>1 DEF LedgerInv, Accounted, OnItsWay, SameWork
<1> QED BY <1>2, <1>3

\* Which frames may move the position, and what the first bring of the snapshot,
\* when the frames there were are still at their places.
LEMMA PlacesStand ==
    ASSUME TypeOK, ~sub'.synced, snap' = snap, sub'.ydoc = sub.ydoc, Logged' = Logged,
           NEW h \in 1..Len(Coming),
           \A j \in 1..h : /\ Coming'[j].k = Coming[j].k
                           /\ Coming'[j].payload = Coming[j].payload
    PROVE  /\ Moves(h)' => Moves(h)
           /\ SnapReaches(h) => SnapReaches(h)'
<1>1. h \in 1..h /\ h \in Nat
  BY ComingType
<1>2. \A m \in 1..(h - 1) : m \in 1..h
  BY <1>1
<1>3. Moves(h)' => Moves(h)
  BY <1>1, <1>2 DEF Moves
<1>4. SnapReaches(h) => SnapReaches(h)'
  BY DEF SnapReaches
<1> QED BY <1>3, <1>4

\* A step after which no Subscribe has been sent on the socket there is.
LEMMA NotAsked ==
    ASSUME TypeOK, TypeOK', HoleInv, LedgerInv, SameWork, net' = net,
           ~(open' /\ sub'.seqReady), ~sub'.synced, Cold',
           sub'.decryptGapSeq = 0 => SnapshotRead'
    PROVE  LedgerInv'
<1>1. Coming' = Coming /\ AcksDue' = AcksDue
  BY DEF SameWork, Coming, AcksDue
<1>2. /\ OnDisk' /\ Captures' /\ ProofsStand' /\ VouchedKept' /\ OneFlush'
      /\ Logged' = Logged /\ ServerDoc' = ServerDoc
  BY WorkStands
<1>3. FramesKept'
  BY <1>1, <1>2 DEF LedgerInv, FramesKept
<1>4. Counted' /\ Accounted'
  BY <1>1, WorkAccounted
<1>5. SnapshotKnown'
  <2> SUFFICES ASSUME sub'.decryptGapSeq = 0 PROVE SnapshotComing'
    BY DEF SnapshotKnown, LedgerInv, SameWork
  <2> SUFFICES ASSUME NEW h \in 1..Len(Coming), Moves(h)', snap.seq <= Coming[h].seq
               PROVE  SnapReaches(h)'
    BY <1>1 DEF SnapshotComing, SameWork
  <2>1. (Moves(h)' => Moves(h)) /\ (SnapReaches(h) => SnapReaches(h)')
    <3>1. snap' = snap /\ sub'.ydoc = sub.ydoc
      BY DEF SameWork
    <3> QED BY <1>1, <1>2, <3>1, PlacesStand
  <2>2. SnapshotComing
    BY DEF LedgerInv, SnapshotKnown, SameWork
  <2> QED BY <2>1, <2>2 DEF SnapshotComing
<1> QED BY <1>2, <1>3, <1>4, <1>5 DEF LedgerInv

\* The frames of an answer.
LEMMA CatchUpSays ==
    ASSUME TypeOK, HoleInv, NEW from \in Nat, Recorded(from), NEW Q, Q = CatchUpFrames(from)
    PROVE  /\ Q \in Seq(Frame)
           /\ Len(Q) \in Nat \ {0}
           /\ \A j \in 1..Len(Q) :
                  /\ Q[j].k # "ack"
                  /\ Q[j].payload \subseteq snap.content \cup Logged
                  /\ Q[j].k = "snapshot" \/ Q[j].payload \subseteq Logged
           /\ from < snap.seq => Q[1].payload = snap.content
<1>1. snap.seq \in Nat /\ Len(log) \in Nat /\ snap.seq <= Len(log) /\ from <= Len(log)
  BY ComingType DEF TypeOK, HoleInv, SnapshotCovered, Recorded
<1>2. \E base \in Nat : base = Larger(from, snap.seq) /\ base <= Len(log)
  BY <1>1 DEF Larger
<1> SUFFICES ASSUME NEW base \in Nat, base = Larger(from, snap.seq), base <= Len(log),
                    NEW a \in 0..1, a = (IF from < snap.seq THEN 1 ELSE 0),
                    NEW n \in Nat, n = a + (Len(log) - base)
             PROVE  /\ Q \in Seq(Frame)
                    /\ Len(Q) \in Nat \ {0}
                    /\ \A j \in 1..Len(Q) :
                           /\ Q[j].k # "ack"
                           /\ Q[j].payload \subseteq snap.content \cup Logged
                           /\ Q[j].k = "snapshot" \/ Q[j].payload \subseteq Logged
                    /\ from < snap.seq => Q[1].payload = snap.content
  <2>1. PICK base \in Nat : base = Larger(from, snap.seq) /\ base <= Len(log)
    BY <1>2
  <2>2. PICK a \in 0..1 : a = (IF from < snap.seq THEN 1 ELSE 0)
    OBVIOUS
  <2>3. PICK n \in Nat : n = a + (Len(log) - base)
    BY <1>1, <2>1, <2>2
  <2> QED BY <2>1, <2>2, <2>3
<1>5. /\ Q \in Seq(Frame)
      /\ Len(Q) = n + 1
      /\ a = 1 => Q[1] = MkFrame("snapshot", snap.seq, snap.content)
      /\ \A j \in (a + 1)..n : Q[j] = MkFrame("catchup", base + (j - a), log[base + (j - a)])
      /\ Q[n + 1] = MkFrame("status", Len(log), {})
  <2>0. base = Larger(from, snap.seq) /\ base <= Len(log)
        /\ a = (IF from < snap.seq THEN 1 ELSE 0) /\ n = a + (Len(log) - base)
    OBVIOUS
  <2>1. /\ CatchUpFrames(from) \in Seq(Frame)
        /\ Len(CatchUpFrames(from)) = n + 1
        /\ a = 1 => CatchUpFrames(from)[1] = MkFrame("snapshot", snap.seq, snap.content)
        /\ \A j \in (a + 1)..n : CatchUpFrames(from)[j]
               = MkFrame("catchup", base + (j - a), log[base + (j - a)])
        /\ CatchUpFrames(from)[n + 1] = MkFrame("status", Len(log), {})
    BY ZenonT(60), <2>0, CatchUpByPlace
  <2> QED BY <2>1
<1>6. ASSUME NEW j \in 1..Len(Q)
      PROVE  /\ Q[j].k # "ack"
             /\ Q[j].payload \subseteq snap.content \cup Logged
             /\ Q[j].k = "snapshot" \/ Q[j].payload \subseteq Logged
  <2>1. CASE j = n + 1
    BY <1>5, <2>1 DEF MkFrame
  <2>2. CASE j \in (a + 1)..n
    <3>1. PICK i : i = base + (j - a)
      OBVIOUS
    <3>2. i \in 1..Len(log)
      BY SMTT(20), <1>1, <2>2, <3>1
    <3>3. Q[j] = MkFrame("catchup", i, log[i])
      BY <1>5, <2>2, <3>1
    <3>4. log[i] \subseteq Logged
      BY <3>2 DEF Logged
    <3> QED BY <3>3, <3>4 DEF MkFrame
  <2>3. CASE j # n + 1 /\ j \notin (a + 1)..n
    <3>1. a = 1 /\ j = 1
      BY <1>5, <2>3
    <3> QED BY SMTT(20), <1>5, <3>1 DEF MkFrame
  <2> QED BY <2>1, <2>2, <2>3
<1>7. from < snap.seq => Q[1].payload = snap.content
  BY <1>5 DEF MkFrame
<1>8. Q \in Seq(Frame) /\ Len(Q) \in Nat \ {0}
  BY <1>5
<1> QED BY <1>6, <1>7, <1>8

\* A Subscribe, and its answer behind what still comes.
LEMMA AskedFor ==
    ASSUME TypeOK, TypeOK', HoleInv, HoleInv', LedgerInv, SameWork,
           NEW s \in DocSubscription, DoSendSubscribe(s), Recorded(s.lastSeq),
           ~sub'.synced, Cold', sub'.decryptGapSeq = 0 => SnapshotRead'
    PROVE  LedgerInv'
<1> DEFINE from == SubscribeFrom(s)
           Q == CatchUpFrames(from)
<1>1. /\ net' = net \o Q /\ recv' = recv /\ snap' = snap /\ sub'.lastSeq = s.lastSeq
      /\ sub'.ydoc = sub.ydoc /\ sub'.decryptGapSeq = sub.decryptGapSeq
  BY DEF DoSendSubscribe, ServerSubscribe, SameWork, DocSubscription
<1>2. from \in Nat /\ Recorded(from) /\ (from = 0 \/ from = s.lastSeq)
  <2>1. from \in Nat
    BY SubscribeFromType
  <2>2. from = 0 \/ from = s.lastSeq
    BY DEF SubscribeFrom
  <2>3. Recorded(0)
    BY ComingType DEF Recorded
  <2> QED BY <2>1, <2>2, <2>3
<1> HIDE DEF from
<1>3. /\ Q \in Seq(Frame)
      /\ Len(Q) \in Nat \ {0}
      /\ \A j \in 1..Len(Q) :
             /\ Q[j].k # "ack"
             /\ Q[j].payload \subseteq snap.content \cup Logged
      /\ from < snap.seq => Q[1].payload = snap.content
  BY <1>2, CatchUpSays
<1> HIDE DEF Q
<1>4. Coming' = Coming \o Q /\ Coming \in Seq(Frame) /\ Len(Coming) \in Nat
  <2>1. recv \in Seq(Frame) /\ net \in Seq(Frame) /\ Coming' = recv \o (net \o Q)
    BY <1>1 DEF Coming, TypeOK
  <2>2. (recv \o net) \o Q = recv \o (net \o Q)
    BY SMTT(20), <1>3, <2>1, ConcatAssociative
  <2> QED BY <2>1, <2>2, ComingType DEF Coming
<1>5. /\ Len(Coming') = Len(Coming) + Len(Q)
      /\ \A j \in 1..Len(Coming) : Coming'[j] = Coming[j]
      /\ \A j \in 1..Len(Q) : Coming'[Len(Coming) + j] = Q[j]
      /\ \A h \in 1..Len(Coming') : h \in 1..Len(Coming) \/ \E j \in 1..Len(Q) : h = Len(Coming) + j
  <2>1. /\ Len(Coming \o Q) = Len(Coming) + Len(Q)
        /\ \A i \in 1..(Len(Coming) + Len(Q)) : (Coming \o Q)[i] =
               IF i <= Len(Coming) THEN Coming[i] ELSE Q[i - Len(Coming)]
    BY <1>3, <1>4, ConcatProperties
  <2>2. ASSUME NEW h \in 1..(Len(Coming) + Len(Q))
        PROVE  h \in 1..Len(Coming) \/ \E j \in 1..Len(Q) : h = Len(Coming) + j
    <3>1. CASE h \in 1..Len(Coming)
      BY <3>1
    <3>2. CASE h \notin 1..Len(Coming)
      <4>1. h - Len(Coming) \in 1..Len(Q) /\ h = Len(Coming) + (h - Len(Coming))
        BY <1>3, <1>4, <3>2
      <4> QED BY <4>1
    <3> QED BY <3>1, <3>2
  <2> QED BY <1>3, <1>4, <2>1, <2>2
<1>6. AcksDue' = AcksDue
  <2>1. \A h \in 1..Len(Coming) : h \in 1..Len(Coming')
    BY <1>3, <1>4, <1>5
  <2>2. \A h \in 1..Len(Coming') : Coming'[h].k = "ack" => h \in 1..Len(Coming)
    BY <1>3, <1>5
  <2> QED BY <1>5, <2>1, <2>2 DEF AcksDue
<1>7. /\ OnDisk' /\ Captures' /\ ProofsStand' /\ VouchedKept' /\ OneFlush'
      /\ Logged' = Logged /\ ServerDoc' = ServerDoc
  BY WorkStands
<1>8. FramesKept'
  <2>1. (snap.content \cup Logged) \cap Ins \subseteq ServerDoc
    BY LoggedIsServed DEF ServerDoc
  <2>2. ASSUME NEW h \in 1..Len(Coming') PROVE Coming'[h].payload \cap Ins \subseteq ServerDoc
    <3>1. CASE h \in 1..Len(Coming)
      BY <1>5, <3>1 DEF LedgerInv, FramesKept
    <3>2. CASE h \notin 1..Len(Coming)
      <4>1. PICK j \in 1..Len(Q) : Coming'[h] = Q[j]
        BY <1>5, <3>2
      <4> QED BY <1>3, <2>1, <4>1
    <3> QED BY <3>1, <3>2
  <2> QED BY <1>7, <2>2 DEF FramesKept
\* Behind the first frame of the answer, the snapshot has come or was not needed.
<1>9. ASSUME sub'.decryptGapSeq = 0, NEW h \in 1..Len(Coming'), h \notin 1..Len(Coming)
      PROVE  SnapReaches(h)'
  <2>1. CASE from < snap.seq
    <3>1. Len(Coming) + 1 \in 1..h
      BY <1>4, <1>9
    <3>2. Coming'[Len(Coming) + 1].payload = snap.content
      BY <1>3, <1>5, <2>1
    <3> QED BY <1>1, <3>1, <3>2 DEF SnapReaches
  <2>2. CASE ~(from < snap.seq)
    <3>1. snap.seq <= sub'.lastSeq
      <4>1. snap.seq \in Nat /\ s.lastSeq \in Nat
        BY DEF TypeOK, DocSubscription
      <4> QED BY <1>1, <1>2, <2>2, <4>1
    <3> QED BY <1>1, <1>9, <3>1 DEF SnapshotRead, SnapReaches
  <2> QED BY <2>1, <2>2
<1>10. SnapshotKnown'
  <2> SUFFICES ASSUME sub'.decryptGapSeq = 0
               PROVE  SnapshotComing' /\ SnapReaches(Len(Coming))'
    BY <1>1 DEF SnapshotKnown, LedgerInv
  <2>1. ASSUME NEW h \in 1..Len(Coming'), Moves(h)', snap.seq <= Coming'[h].seq
        PROVE  SnapReaches(h)'
    <3>1. CASE h \in 1..Len(Coming)
      <4>1. \A j \in 1..h : j \in 1..Len(Coming)
        BY <1>4, <3>1
      <4>2. (Moves(h)' => Moves(h)) /\ (SnapReaches(h) => SnapReaches(h)')
        BY <1>1, <1>5, <1>7, <3>1, <4>1, PlacesStand
      <4>3. SnapshotComing
        BY <1>1 DEF LedgerInv, SnapshotKnown
      <4> QED BY <1>5, <2>1, <3>1, <4>2, <4>3 DEF SnapshotComing
    <3> QED BY <1>9, <3>1
  <2>2. ASSUME NEW h \in Nat, h = Len(Coming') PROVE SnapReaches(h)'
    <3>1. h \in 1..Len(Coming') /\ h \notin 1..Len(Coming)
      BY <1>3, <1>4, <1>5, <2>2
    <3> QED BY <1>9, <3>1
  <2>3. SnapReaches(Len(Coming))'
    BY <2>2, ComingLenNext DEF SnapReaches
  <2> QED BY <1>1, <2>1, <2>3 DEF SnapshotComing
<1>11. Counted' /\ Accounted'
  BY <1>6, WorkAccounted
<1> QED BY <1>7, <1>8, <1>10, <1>11 DEF LedgerInv

\* A socket opened: its Subscribe asks from 0 as long as there is something of
\* the disk's to reconcile, or the start would be stranded.
LEMMA OpenedLedger ==
    ASSUME TypeOK, TypeOK', HoleInv, HoleInv', LedgerInv, Opened, flaws' = {}
    PROVE  LedgerInv'
<1> DEFINE s == [sub EXCEPT !.synced = FALSE]
<1>1. /\ s \in DocSubscription /\ s.seqReady = sub.seqReady /\ ~s.synced
      /\ s.lastSeq = sub.lastSeq /\ s.ydoc = sub.ydoc /\ s.pending = sub.pending
      /\ s.catchUp = sub.catchUp /\ s.serverSV = sub.serverSV /\ s.flushing = sub.flushing
      /\ s.owesReconcile = sub.owesReconcile /\ s.reconciling = sub.reconciling
      /\ s.decryptGapSeq = sub.decryptGapSeq /\ s.catchUpFrom = sub.catchUpFrom
  BY DEF TypeOK, DocSubscription
<1>2. /\ ~open /\ UNCHANGED <<recv, chain, batch, deltas, ckpt, idb, restored, unacked>>
      /\ s.seqReady => ~Strands(s)
  BY DEF Opened, sendVars, diskVars, Mark
<1>3. CASE sub.seqReady
  <2>1. DoSendSubscribe(s)
    BY <1>1, <1>3 DEF Opened
  <2> HIDE DEF s
  <2>2. Recorded(s.lastSeq)
    BY <1>1 DEF HoleInv, ReadCovered
  <2>3. /\ SameWork /\ ~sub'.synced /\ sub'.lastSeq = sub.lastSeq
        /\ sub'.catchUpFrom = SubscribeFrom(s)
    BY <1>1, <1>2, <2>1 DEF SameWork, DoSendSubscribe, ServerSubscribe, DocSubscription
  <2>4. Logged' = Logged /\ ServerDoc' = ServerDoc
    BY <2>3, WorkStands
  <2>5. sub'.decryptGapSeq = 0 => SnapshotRead'
    BY <2>3, <2>4 DEF LedgerInv, SnapshotKnown, SnapshotRead, SameWork
  <2>6. Cold'
    <3>1. SubscribeFrom(s) \in Nat
      BY <1>1, SubscribeFromType
    <3> QED BY <1>1, <1>2, <1>3, <2>3, <2>4, <3>1 DEF Cold, Strands, RestoredIsServed
  <2> QED BY <1>1, <2>1, <2>2, <2>3, <2>5, <2>6, AskedFor
<1>4. CASE ~sub.seqReady
  <2>1. sub' = s /\ UNCHANGED <<log, snap, net>>
    BY <1>1, <1>4 DEF Opened, serverVars
  <2> HIDE DEF s
  <2>2. SameWork
    BY <1>1, <1>2, <2>1 DEF SameWork
  <2>3. Logged' = Logged /\ ServerDoc' = ServerDoc
    BY <2>2, WorkStands
  <2>4. sub'.decryptGapSeq = 0 => SnapshotRead'
    BY <1>1, <2>1, <2>3 DEF LedgerInv, SnapshotKnown, SnapshotRead
  <2>5. Cold'
    BY <1>1, <1>2, <2>1, <2>3, ColdStep DEF LedgerInv
  <2> QED BY <1>1, <1>4, <2>1, <2>2, <2>4, <2>5, NotAsked
<1> QED BY <1>3, <1>4

\* The checkpoint read: it moves the position past no snapshot that has more
\* than the document, or something would be forgotten.
LEMMA SeqLoadedLedger ==
    ASSUME TypeOK, TypeOK', HoleInv, HoleInv', LedgerInv, SeqLoaded, flaws' = {}
    PROVE  LedgerInv'
<1> DEFINE c == LoadSeqCheckpoint(sub.ydoc)
           n == Larger(sub.lastSeq, c)
           s == [sub EXCEPT !.seqReady = TRUE, !.lastSeq = n]
<1>1. n \in Nat /\ Recorded(n)
  BY LoadedPosition
<1>2. /\ ~sub.seqReady /\ ~sub.synced /\ open' = open
      /\ UNCHANGED <<recv, chain, batch, deltas, ckpt, idb, restored, unacked>>
      /\ ~Forgets(c) /\ (open => ~Strands(s))
  BY DEF SeqLoaded, HoleInv, SocketShape, sendVars, diskVars, Mark
<1>3. n = sub.lastSeq \/ (n = c /\ c > 0)
  <2>1. sub.lastSeq \in Nat /\ c \in Nat
    BY DEF TypeOK, DocSubscription, LoadSeqCheckpoint
  <2> QED BY <2>1 DEF Larger
<1> HIDE DEF n, c
<1>4. /\ s \in DocSubscription /\ s.synced = sub.synced /\ s.lastSeq = n
      /\ s.ydoc = sub.ydoc /\ s.pending = sub.pending
      /\ s.catchUp = sub.catchUp /\ s.serverSV = sub.serverSV /\ s.flushing = sub.flushing
      /\ s.owesReconcile = sub.owesReconcile /\ s.reconciling = sub.reconciling
      /\ s.decryptGapSeq = sub.decryptGapSeq /\ s.catchUpFrom = sub.catchUpFrom
  BY <1>1 DEF TypeOK, DocSubscription
<1>5. CASE open
  <2>1. DoSendSubscribe(s)
    BY <1>5 DEF SeqLoaded, n, c
  <2> HIDE DEF s
  <2>2. /\ SameWork /\ ~sub'.synced /\ sub'.lastSeq = n
        /\ sub'.catchUpFrom = SubscribeFrom(s)
    BY <1>2, <1>4, <2>1 DEF SameWork, DoSendSubscribe, ServerSubscribe, DocSubscription
  <2>3. Logged' = Logged /\ ServerDoc' = ServerDoc
    BY <2>2, WorkStands
  <2>4. sub'.decryptGapSeq = 0 => SnapshotRead'
    <3>1. snap.seq \in Nat /\ n \in Nat
      BY <1>1 DEF TypeOK
    <3> QED BY <1>2, <1>3, <2>2, <2>3, <3>1
        DEF LedgerInv, SnapshotKnown, SnapshotRead, SameWork, Forgets
  <2>5. Cold'
    <3>1. SubscribeFrom(s) \in Nat
      BY <1>4, SubscribeFromType
    <3> QED BY <1>2, <1>5, <2>2, <2>3, <3>1 DEF Cold, Strands, RestoredIsServed
  <2> QED BY <1>1, <1>4, <2>1, <2>2, <2>4, <2>5, AskedFor
<1>6. CASE ~open
  <2>1. sub' = s /\ UNCHANGED <<log, snap, net>>
    BY <1>6 DEF SeqLoaded, serverVars, n, c
  <2> HIDE DEF s
  <2>2. SameWork /\ ~sub'.synced
    BY <1>2, <1>4, <2>1 DEF SameWork
  <2>3. Logged' = Logged /\ ServerDoc' = ServerDoc
    BY <2>2, WorkStands
  <2>4. sub'.decryptGapSeq = 0 => SnapshotRead'
    <3>1. snap.seq \in Nat /\ n \in Nat
      BY <1>1 DEF TypeOK
    <3> QED BY <1>2, <1>3, <1>4, <2>1, <2>3, <3>1
        DEF LedgerInv, SnapshotKnown, SnapshotRead, Forgets
  <2>5. Cold'
    BY <1>2, <1>4, <2>1, <2>3, ColdStep DEF LedgerInv
  <2> QED BY <1>2, <1>6, <2>1, <2>2, <2>4, <2>5, NotAsked
<1> QED BY <1>5, <1>6

LEMMA DueHas == ASSUME TypeOK, NEW i \in DeltasDue PROVE Due > 0
<1>1. Cardinality(DeltasDue) # 0
  BY DueType, FS_EmptySet
<1> QED BY <1>1, DueNat DEF Due

\* A close: what was counted on the socket is forgotten, and owed instead.
LEMMA ClosedLedger ==
    ASSUME TypeOK, TypeOK', HoleInv, HoleInv', LedgerInv, Closed PROVE LedgerInv'
<1>1. /\ recv' = Stale(recv) /\ net' = <<>> /\ deltas' = Stale(deltas) /\ ~open'
      /\ unacked' = 0 /\ sub' = ClosedSubscription(sub)
      /\ UNCHANGED <<log, snap, chain, batch, ckpt, idb, restored>>
  BY DEF Closed, diskVars, histVars
<1>2. /\ sub'.ydoc = sub.ydoc /\ sub'.pending = sub.pending /\ sub'.flushing = sub.flushing
      /\ sub'.catchUp = sub.catchUp /\ sub'.serverSV = sub.serverSV /\ ~sub'.synced
      /\ sub'.lastSeq = sub.lastSeq /\ sub'.decryptGapSeq = sub.decryptGapSeq
      /\ sub'.catchUpFrom = sub.catchUpFrom
      /\ sub'.owesReconcile <=> sub.owesReconcile \/ unacked > 0
  BY ZenonT(60), <1>1 DEF ClosedSubscription, TypeOK, DocSubscription
<1>3. Logged' = Logged /\ ServerDoc' = ServerDoc /\ Vouched' = Vouched
  BY <1>1, ServerSame DEF Vouched
<1>4. OnDisk' /\ ProofsStand' /\ OneFlush' /\ VouchedKept'
  BY <1>1, <1>2, <1>3 DEF LedgerInv, OnDisk, ProofsStand, Proven, OneFlush, VouchedKept
<1>5. Captures'
  BY <1>1, <1>2, <1>3 DEF LedgerInv, Captures, IsSnapshot
<1>6. /\ Len(Coming') <= Len(Coming) /\ Len(Coming') \in Nat /\ Len(Coming) \in Nat
      /\ \A j \in 1..Len(Coming') : /\ Coming'[j].k = Coming[j].k
                                    /\ Coming'[j].seq = Coming[j].seq
                                    /\ Coming'[j].payload = Coming[j].payload
  BY <1>1, LeftComing
<1>7. FramesKept'
  <2>1. \A j \in 1..Len(Coming') : j \in 1..Len(Coming)
    BY <1>6
  <2> QED BY <1>3, <1>6, <2>1 DEF LedgerInv, FramesKept
<1>8. SnapshotKnown'
  <2>1. (snap.seq = 0 => snap.content = {})'
    BY <1>1 DEF LedgerInv, SnapshotKnown
  <2> SUFFICES ASSUME sub'.decryptGapSeq = 0 PROVE SnapshotRead' /\ SnapshotComing'
    BY <1>1, <2>1 DEF SnapshotKnown
  <2>2. SnapshotRead /\ SnapshotComing
    BY <1>2 DEF LedgerInv, SnapshotKnown
  <2>3. SnapshotRead'
    BY <1>1, <1>2, <1>3, <2>2 DEF SnapshotRead
  <2>4. ASSUME NEW h \in 1..Len(Coming'), Moves(h)', snap.seq <= Coming'[h].seq
        PROVE  SnapReaches(h)'
    <3>1. h \in 1..Len(Coming) /\ \A j \in 1..h : j \in 1..Len(Coming')
      BY <1>6
    <3>2. (Moves(h)' => Moves(h)) /\ (SnapReaches(h) => SnapReaches(h)')
      BY <1>1, <1>2, <1>3, <1>6, <3>1, PlacesStand
    <3> QED BY <1>6, <2>2, <2>4, <3>1, <3>2 DEF SnapshotComing
  <2> QED BY <1>1, <2>3, <2>4 DEF SnapshotComing
<1>9. DeltasDue' = {} /\ Due' = 0
  BY <1>1, NothingDue
<1>10. Counted'
  BY <1>1, <1>9 DEF Counted
<1>11. Accounted'
  <2>1. Due \in Nat /\ unacked \in Nat
    BY DueNat DEF TypeOK
  <2>2. Debt => Debt'
    BY <1>2, <2>1 DEF Debt
  <2>3. ASSUME NEW i \in DeltasDue PROVE Debt'
    <3>1. Due > 0
      BY <2>3, DueHas
    <3> QED BY <1>2, <2>1, <3>1 DEF Debt, LedgerInv, Counted
  <2> QED BY <1>1, <1>2, <1>3, <2>2, <2>3, AccountedStep DEF LedgerInv
<1>12. Cold'
  BY <1>1, <1>2, <1>3, ColdStep DEF LedgerInv
<1> QED BY <1>4, <1>5, <1>7, <1>8, <1>10, <1>11, <1>12 DEF LedgerInv

\* A launch: the document is what the disk has, and a cold start is to come.
LEMMA RestartLedger ==
    ASSUME TypeOK, TypeOK', HoleInv, HoleInv', LedgerInv, Restart PROVE LedgerInv'
<1>1. /\ ~open' /\ net' = <<>> /\ recv' = <<>>
      /\ chain' = <<>> /\ deltas' = <<>> /\ batch' = {} /\ unacked' = 0
      /\ sub' = FreshSubscription(idb) /\ restored' = idb \cap LocalIns
      /\ UNCHANGED <<log, snap, ckpt, idb>>
  BY DEF Restart, diskVars
<1>2. /\ sub'.ydoc = idb /\ sub'.catchUp = {} /\ sub'.serverSV = {}
      /\ ~sub'.synced /\ sub'.lastSeq = 0 /\ sub'.catchUpFrom = 0
  BY <1>1 DEF FreshSubscription
<1>3. Logged' = Logged /\ ServerDoc' = ServerDoc /\ Vouched' = Vouched
  BY <1>1, ServerSame DEF Vouched
<1>4. Len(chain') = 0 /\ Len(deltas') = 0 /\ Coming' = <<>> /\ Len(Coming') = 0
  BY <1>1 DEF Coming
<1>5. OnDisk' /\ Captures' /\ FramesKept' /\ OneFlush'
  BY <1>1, <1>2, <1>4 DEF OnDisk, Captures, FramesKept, OneFlush
<1>6. ProofsStand' /\ VouchedKept' /\ Cold'
  BY <1>1, <1>2, <1>3, <1>4 DEF LedgerInv, ProofsStand, Proven, VouchedKept, Cold
<1>7. SnapshotKnown'
  <2>1. snap.seq \in Nat /\ (snap.seq = 0 => snap.content = {})
    BY DEF TypeOK, LedgerInv, SnapshotKnown
  <2>2. SnapshotRead'
    BY <1>1, <1>2, <2>1 DEF SnapshotRead
  <2> QED BY <1>1, <1>4, <2>1, <2>2 DEF SnapshotKnown, SnapshotComing
<1>8. Counted'
  <2>1. AcksDue' = {} /\ DeltasDue' = {}
    BY <1>4 DEF AcksDue, DeltasDue
  <2>2. Due' = 0
    BY <2>1, FS_EmptySet DEF Due
  <2> QED BY <1>1, <2>2 DEF Counted
<1>9. Accounted'
  BY <1>1, <1>2 DEF Accounted, OnItsWay
<1> QED BY <1>5, <1>6, <1>7, <1>8, <1>9 DEF LedgerInv

\* The checkpoint is moved when nothing is owed: all it says, the server has.
LEMMA SeqSaveFiresLedger ==
    ASSUME TypeOK, TypeOK', HoleInv, HoleInv', LedgerInv, SeqSaveFires PROVE LedgerInv'
<1>1. /\ UNCHANGED <<log, snap, open, net, recv, chain, batch, deltas, idb, restored,
                     unacked>>
      /\ sub' = [sub EXCEPT !.seqSaveTimer = FALSE]
  BY DEF SeqSaveFires, serverVars, wireVars, sendVars, histVars
<1>2. /\ sub'.ydoc = sub.ydoc /\ sub'.pending = sub.pending /\ sub'.flushing = sub.flushing
      /\ sub'.catchUp = sub.catchUp /\ sub'.serverSV = sub.serverSV
      /\ sub'.owesReconcile = sub.owesReconcile /\ sub'.reconciling = sub.reconciling
      /\ sub'.synced = sub.synced /\ sub'.seqReady = sub.seqReady
      /\ sub'.lastSeq = sub.lastSeq /\ sub'.catchUpFrom = sub.catchUpFrom
      /\ sub'.decryptGapSeq = sub.decryptGapSeq
  BY <1>1 DEF TypeOK, DocSubscription
<1>3. Logged' = Logged /\ ServerDoc' = ServerDoc /\ Coming' = Coming
  BY <1>1, ServerSame DEF Coming
\* Either the checkpoint is as it was, or it is the document's.
<1>4. \/ ckpt' = ckpt
      \/ /\ sub.ydoc \cap LocalIns \subseteq ServerDoc
         /\ Vouched' = sub.ydoc \cap Ins
  <2>1. CASE SaveAllowed(sub) /\ sub.lastSeq > 0
    <3>1. ckpt' = [seq |-> sub.lastSeq, sv |-> StateVector(sub.ydoc)]
      BY <2>1 DEF SeqSaveFires
    <3>2. sub.ydoc \cap LocalIns \subseteq ServerDoc
      BY <2>1, EditsStand DEF SaveAllowed
    <3> QED BY <2>1, <3>1, <3>2 DEF Vouched, StateVector
  <2>2. CASE ~(SaveAllowed(sub) /\ sub.lastSeq > 0)
    BY <2>2 DEF SeqSaveFires
  <2> QED BY <2>1, <2>2
<1>5. OnDisk' /\ ProofsStand' /\ OneFlush' /\ Captures'
  BY <1>1, <1>2, <1>3
  DEF LedgerInv, OnDisk, ProofsStand, Proven, OneFlush, Captures, IsSnapshot
<1>6. FramesKept' /\ Cold'
  BY <1>1, <1>2, <1>3 DEF LedgerInv, FramesKept, Cold
<1>7. VouchedKept'
  <2>1. CASE ckpt' = ckpt
    BY <1>3, <2>1 DEF LedgerInv, VouchedKept, Vouched
  <2>2. CASE sub.ydoc \cap LocalIns \subseteq ServerDoc /\ Vouched' = sub.ydoc \cap Ins
    BY <1>3, <2>2 DEF VouchedKept
  <2> QED BY <1>4, <2>1, <2>2
<1>8. SnapshotKnown'
  BY <1>1, <1>2, <1>3
  DEF LedgerInv, SnapshotKnown, SnapshotRead, SnapshotComing, SnapReaches, Moves
<1>9. Counted' /\ Accounted'
  <2>1. Due' = Due /\ DeltasDue' = DeltasDue
    BY <1>1, <1>3, DueSame
  <2> QED BY <1>1, <1>2, <1>3, <2>1 DEF LedgerInv, Counted, Accounted, OnItsWay
<1> QED BY <1>5, <1>6, <1>7, <1>8, <1>9 DEF LedgerInv

\* What the server has, its snapshot or its log has.
LEMMA ServedOrLogged == TypeOK => ServerDoc \subseteq snap.content \cup Logged
<1> SUFFICES ASSUME TypeOK, NEW e \in ServerDoc PROVE e \in snap.content \cup Logged
  OBVIOUS
<1>1. snap.seq \in Nat /\ Len(log) \in Nat
  BY ComingType DEF TypeOK
<1>2. CASE e \in snap.content
  BY <1>2
<1>3. CASE e \notin snap.content
  <2>1. PICK i \in (snap.seq + 1)..Len(log) : e \in log[i]
    BY <1>3, InServerDoc
  <2>2. i \in 1..Len(log)
    BY <1>1
  <2> QED BY <2>1, <2>2 DEF Logged
<1> QED BY <1>2, <1>3

LEMMA ServedOrLoggedNext == TypeOK' => (ServerDoc \subseteq snap.content \cup Logged)'
BY ServedOrLogged, PTL

\* A snapshot that replaces one has what that one had, or the log has it.
LEMMA NothingReplaced ==
    ASSUME TypeOK, TypeOK', HoleInv', LedgerInv,
           Running("snapshot"), log' = log, Head(chain).seq > snap.seq,
           snap' = [seq |-> Head(chain).seq, content |-> Head(chain).payload]
    PROVE  ServerDoc \cap Ins \subseteq ServerDoc' /\ snap'.content \subseteq sub.ydoc
<1>1. /\ Head(chain) = chain[1] /\ 1 \in 1..Len(chain) /\ IsSnapshot(1)
      /\ snap.seq < chain[1].seq /\ snap'.content = chain[1].payload
  <2>1. chain \in Seq(Task) /\ chain # <<>> /\ Head(chain).k = "snapshot"
    BY DEF Running, TypeOK
  <2>2. Len(chain) \in Nat \ {0} /\ Head(chain) = chain[1] /\ chain[1] \in Task
    BY <2>1, HeadTailProperties, EmptySeq, LenProperties
  <2> QED BY <2>1, <2>2 DEF IsSnapshot, TypeOK, Task
<1> SUFFICES ASSUME NEW e \in ServerDoc \cap Ins PROVE e \in ServerDoc'
  BY <1>1 DEF LedgerInv, Captures
<1>2. e \in snap.content \cup Logged
  BY ServedOrLogged
<1>3. e \in Logged => e \in ServerDoc'
  BY LoggedIsServedNext DEF Logged
<1>4. e \in snap.content => e \in chain[1].payload \cup Logged
  BY <1>1 DEF LedgerInv, Captures
<1>5. e \in chain[1].payload => e \in ServerDoc'
  BY <1>1 DEF ServerDoc
<1> QED BY <1>2, <1>3, <1>4, <1>5

\* A snapshot replaces another: what the server has, it keeps.
LEMMA SnapshotReplaced ==
    ASSUME TypeOK, TypeOK', HoleInv, HoleInv', LedgerInv,
           Running("snapshot"), chain' = Tail(chain), Head(chain).seq > snap.seq,
           snap' = [seq |-> Head(chain).seq, content |-> Head(chain).payload],
           UNCHANGED <<log, open, net, sub, unacked, recv, batch, deltas, idb, ckpt,
                       restored>>
    PROVE  LedgerInv'
<1>1. /\ chain # <<>> /\ Len(chain') = Len(chain) - 1 /\ Len(chain) \in Nat /\ Len(chain) > 0
      /\ Head(chain) = chain[1] /\ chain[1].k = "snapshot" /\ chain[1] \in Task
      /\ \A m \in 1..Len(chain') : chain'[m] = chain[m + 1] /\ m + 1 \in 1..Len(chain)
  BY HeadTailProperties, LenProperties, EmptySeq DEF Running, TypeOK
<1>2. /\ 1 \in 1..Len(chain) /\ IsSnapshot(1) /\ snap'.content = chain[1].payload
      /\ snap'.seq = chain[1].seq /\ snap.seq \in Nat /\ chain[1].seq \in Nat
      /\ snap'.seq # 0 /\ snap.seq < chain[1].seq
  BY <1>1 DEF IsSnapshot, TypeOK, Task
<1>3. Logged' = Logged /\ Coming' = Coming /\ Vouched' = Vouched
  BY DEF Logged, Coming, Vouched
<1>4. ServerDoc \cap Ins \subseteq ServerDoc' /\ snap'.content \subseteq sub.ydoc
  BY NothingReplaced
<1>5. LocalIns \subseteq Ins
  BY DEF Ins
<1>6. Captures'
  <2>1. \A j \in 1..Len(chain') : IsSnapshot(j)' => IsSnapshot(j + 1)
    BY <1>1 DEF IsSnapshot
  <2>2. ASSUME NEW j \in 1..Len(chain'), IsSnapshot(j)'
        PROVE  chain'[j].payload \subseteq sub'.ydoc
    BY <1>1, <2>1, <2>2 DEF LedgerInv, Captures
  <2>3. ASSUME NEW j \in 1..Len(chain'), NEW i \in 1..(j - 1), IsSnapshot(i)', IsSnapshot(j)'
        PROVE  chain'[i].payload \subseteq chain'[j].payload
    <3>1. i \in 1..Len(chain') /\ i + 1 \in 1..((j + 1) - 1) /\ j + 1 \in 1..Len(chain)
      BY <1>1
    <3>2. chain[i + 1].payload \subseteq chain[j + 1].payload
      BY <2>1, <2>3, <3>1 DEF LedgerInv, Captures
    <3> QED BY <1>1, <3>1, <3>2
  <2>4. ASSUME NEW j \in 1..Len(chain'), IsSnapshot(j)'
        PROVE  snap'.content \subseteq chain'[j].payload
    <3>1. 1 \in 1..((j + 1) - 1) /\ j + 1 \in 1..Len(chain) /\ IsSnapshot(j + 1)
      BY <1>1, <2>1, <2>4
    <3>2. chain[1].payload \subseteq chain[j + 1].payload
      BY <1>2, <3>1 DEF LedgerInv, Captures
    <3> QED BY <1>1, <1>2, <3>2
  <2> QED BY <2>2, <2>3, <2>4 DEF Captures
<1>7. SnapshotKnown'
  BY <1>2, <1>3, <1>4 DEF SnapshotKnown, SnapshotRead, SnapshotComing, SnapReaches
<1>8. OnDisk' /\ FramesKept' /\ VouchedKept' /\ Cold'
  <2>1. restored \cap LocalIns = restored
    BY DEF TypeOK
  <2> QED BY <1>3, <1>4, <1>5, <2>1
         DEF LedgerInv, OnDisk, FramesKept, VouchedKept, Cold
<1>9. ProofsStand'
  <2>1. \A S : Proven(S) => Proven(S)'
    BY <1>4, <1>5 DEF Proven
  <2> QED BY <1>1, <2>1 DEF LedgerInv, ProofsStand
<1>10. OneFlush'
  <2> SUFFICES ASSUME NEW j \in 1..Len(chain'), chain'[j].k = "flush"
               PROVE  /\ sub'.flushing
                      /\ \A i \in 1..Len(chain') : chain'[i].k = "flush" => i = j
    BY DEF LedgerInv, OneFlush
  <2>1. chain[j + 1].k = "flush" /\ j + 1 \in 1..Len(chain)
    BY <1>1
  <2>2. \A i \in 1..Len(chain) : chain[i].k = "flush" => i = j + 1
    BY <2>1 DEF LedgerInv, OneFlush
  <2>3. ASSUME NEW i \in 1..Len(chain'), chain'[i].k = "flush" PROVE i = j
    <3>1. i + 1 = j + 1
      BY <1>1, <2>2, <2>3
    <3> QED BY <1>1, <3>1
  <2> QED BY <2>1, <2>3 DEF LedgerInv, OneFlush
<1>11. Counted' /\ Accounted'
  <2>1. Due' = Due /\ DeltasDue' = DeltasDue
    BY <1>3, DueSame
  <2> QED BY <1>4, <1>5, <2>1 DEF LedgerInv, Counted, Accounted, OnItsWay
<1> QED BY <1>6, <1>7, <1>8, <1>9, <1>10, <1>11 DEF LedgerInv

LEMMA SnapshotEncryptedLedger ==
    ASSUME TypeOK, TypeOK', HoleInv, HoleInv', LedgerInv, SnapshotEncrypted
    PROVE  LedgerInv'
<1>1. /\ Running("snapshot") /\ chain # <<>> /\ chain' = Tail(chain)
      /\ UNCHANGED <<log, open, net, sub, unacked, recv, batch, deltas, idb, ckpt, restored>>
  BY DEF SnapshotEncrypted, Running, wireVars, diskVars, histVars
<1>2. CASE snap' # snap
  <2>1. /\ Head(chain).seq > snap.seq
        /\ snap' = [seq |-> Head(chain).seq, content |-> Head(chain).payload]
    BY <1>2 DEF SnapshotEncrypted, ServerPutSnapshot, ClaimedSeq
  <2> QED BY <1>1, <2>1, SnapshotReplaced
<1>3. CASE snap' = snap
  <2>1. SameBooks(sub, sub') /\ SameAccounts(sub, sub')
    BY <1>1, HelpersKeepBooks DEF TypeOK, SameBooks
  <2>2. Follows(chain, chain', Queued) /\ FlushesInTurn
    BY <1>1, ChainFollows DEF FlushesInTurn, LedgerInv, OneFlush
  <2>3. Ordinary /\ Coming' = Coming
    BY <1>1, <1>3, <2>1, <2>2, SentNothing
  <2>4. Counted' /\ Accounted'
    <3>1. Due' = Due /\ ServerGrows
      BY <1>1, <2>3, DueSame DEF Ordinary
    <3> QED BY <1>1, <2>1, <3>1, NothingCounted
  <2> QED BY <1>1, <2>1, <2>3, <2>4, LedgerStands
<1> QED BY <1>2, <1>3

(***************************************************************************)
(* The specification.                                                      *)
(***************************************************************************)
LEMMA InitLedger == Init => LedgerInv
<1> SUFFICES ASSUME Init PROVE LedgerInv
  OBVIOUS
<1>1. /\ log = <<>> /\ snap = [seq |-> 0, content |-> {}] /\ ~open
      /\ net = <<>> /\ recv = <<>> /\ chain = <<>> /\ deltas = <<>> /\ batch = {}
      /\ sub = FreshSubscription({}) /\ unacked = 0 /\ idb = {} /\ restored = {}
      /\ ckpt = [seq |-> 0, sv |-> {}]
  BY DEF Init
<1>2. sub.ydoc = {} /\ sub.catchUp = {} /\ sub.serverSV = {}
  BY <1>1 DEF FreshSubscription
<1>3. Len(chain) = 0 /\ Len(deltas) = 0 /\ Coming = <<>> /\ Len(Coming) = 0
  BY <1>1 DEF Coming
<1>4. Vouched = {} /\ snap.content = {}
  BY <1>1, <1>3 DEF Vouched
<1>5. OnDisk /\ Captures /\ FramesKept /\ ProofsStand
  BY <1>1, <1>2, <1>3, <1>4 DEF OnDisk, Captures, FramesKept, ProofsStand, Proven
<1>6. VouchedKept /\ OneFlush /\ Cold
  BY <1>1, <1>2, <1>3, <1>4 DEF VouchedKept, OneFlush, Cold
<1>7. SnapshotKnown
  BY <1>1, <1>3, <1>4 DEF SnapshotKnown, SnapshotRead, SnapshotComing
<1>8. Counted
  <2>1. AcksDue = {} /\ DeltasDue = {}
    BY <1>3 DEF AcksDue, DeltasDue
  <2>2. Due = 0
    BY <2>1, FS_EmptySet DEF Due
  <2> QED BY <1>1, <2>2 DEF Counted
<1>9. Accounted
  BY <1>2 DEF Accounted
<1> QED BY <1>5, <1>6, <1>7, <1>8, <1>9 DEF LedgerInv

LEMMA StutterLedger ==
    ASSUME TypeOK, TypeOK', HoleInv, HoleInv', LedgerInv, UNCHANGED vars
    PROVE  LedgerInv'
<1>1. UNCHANGED <<log, snap, open, net, sub, unacked, recv, chain, batch, deltas, idb, ckpt,
                  restored>>
  BY DEF vars, histVars
<1>2. SameBooks(sub, sub') /\ SameAccounts(sub, sub') /\ FlushesInTurn
  BY <1>1, HelpersKeepBooks DEF TypeOK, SameBooks, FlushesInTurn, LedgerInv, OneFlush
<1>3. Follows(chain, chain', Queued)
  BY <1>1, ChainFollows
<1>4. Ordinary /\ Coming' = Coming
  BY <1>1, <1>2, <1>3, SentNothing
<1>5. Counted' /\ Accounted'
  <2>1. Due' = Due /\ ServerGrows
    BY <1>1, <1>4, DueSame DEF Ordinary
  <2> QED BY <1>1, <1>2, <2>1, NothingCounted
<1> QED BY <1>1, <1>2, <1>4, <1>5, LedgerStands

LEMMA NextLedger ==
    ASSUME TypeOK, TypeOK', HoleInv, HoleInv', LedgerInv, [Next]_vars, flaws' = {}
    PROVE  LedgerInv'
<1>1. CASE UNCHANGED vars
  BY <1>1, StutterLedger
<1>2. CASE Server
  BY <1>2, PeerUpdateLedger, RequestCompactionLedger DEF Server
<1>3. CASE Life
  BY <1>3, OpenedLedger, SeqLoadedLedger, PersistLedger, SeqSaveFiresLedger DEF Life
<1>4. CASE LocalEdit
  BY <1>4, LocalEditLedger
<1>5. CASE Sending
  BY <1>5, FlushStartsLedger, FlushEncryptedLedger, ReconcileLedger, DeltaRetryFiresLedger,
     RetryDeltaLedger, DeltaEncryptedLedger, SnapshotEncryptedLedger DEF Sending
<1>6. CASE Receive
  BY <1>6, DeliverLedger, ReceivePayloadLedger, ReceiveAckLedger, CompleteSyncLedger,
     HandleCompactRequestLedger DEF Receive
<1>7. CASE Failure
  BY <1>7, ClosedLedger, RestartLedger, FlushFailsLedger, DeltaFailsLedger,
     SnapshotFailsLedger, DecryptFailsLedger DEF Failure
<1> QED BY <1>1, <1>2, <1>3, <1>4, <1>5, <1>6, <1>7 DEF Next

\* The books are right as long as none of FlawKinds has happened.
BooksRight == flaws = {} => HoleInv /\ LedgerInv

LEMMA LedgerInvariant == Spec => [](TypeOK /\ NothingSkippedYet /\ BooksRight)
<1>1. Init => BooksRight
  BY InitHole, InitLedger DEF BooksRight
<1>2. /\ TypeOK /\ NothingSkippedYet /\ BooksRight
      /\ TypeOK' /\ NothingSkippedYet' /\ [Next]_vars
      => BooksRight'
  <2> SUFFICES ASSUME TypeOK, NothingSkippedYet, BooksRight, TypeOK', NothingSkippedYet',
                      [Next]_vars, flaws' = {}
               PROVE  HoleInv' /\ LedgerInv'
    BY DEF BooksRight
  <2>1. flaws = {} /\ HoleInv /\ LedgerInv
    BY FlawsGrow DEF BooksRight
  <2>2. HoleInv'
    BY DEF NothingSkippedYet
  <2> QED BY <2>1, <2>2, NextLedger
<1> QED BY <1>1, <1>2, HoleInvariant, PTL DEF Spec

\* A client that says it owes nothing has every edit of this device with the
\* server: through lost acknowledgements, refused, oversized and failed pushes,
\* deltas under way, closes and crashes, with a disk or without (owesServer,
\* settleAck, completeSync, pushLocalDelta; SAFE-E3), unless one of FlawKinds
\* has happened, which EditsAccounted names.
THEOREM SettledIsServed == Spec => []EditsAccounted
<1>1. TypeOK /\ BooksRight => EditsAccounted
  BY EditsStand DEF BooksRight, EditsAccounted
<1> QED BY <1>1, LedgerInvariant, PTL

\* A checkpoint the next launch would trust describes a document that holds all
\* it skips and nothing of this device's the server lacks (the save timer's
\* checks and loadSeqCheckpoint, SAFE-A10), under the same proviso.
THEOREM CheckpointsTrusted == Spec => []CheckpointSound
<1>1. TypeOK /\ BooksRight => CheckpointSound
  <2> SUFFICES ASSUME TypeOK, HoleInv, LedgerInv, ckpt.seq > 0, ckpt.sv = StateVector(idb)
               PROVE  /\ \A i \in 1..ckpt.seq : log[i] \cap Ins \subseteq idb
                      /\ idb \cap LocalIns \subseteq ServerDoc
    BY DEF CheckpointSound, BooksRight
  <2>1. \A i \in 1..ckpt.seq : log[i] \cap Ins \subseteq idb
    BY DEF HoleInv, CheckpointCovered, Covered, StateVector
  <2>2. idb \cap LocalIns \subseteq ServerDoc
    BY DEF LedgerInv, VouchedKept, Vouched, StateVector, Ins
  <2> QED BY <2>1, <2>2
<1> QED BY <1>1, LedgerInvariant, PTL

(***************************************************************************)
(* What is held back is shown: an insertion too large to push is shown as  *)
(* held on this device for as long as the server lacks it.  The ledger     *)
(* says that what the server lacks makes the client owe.  What is added    *)
(* here is that no debt is idle: each reason to owe has a task in the      *)
(* chain, a timer, or the hold the user sees.                              *)
(***************************************************************************)

Waits(K) == \E j \in 1..Len(chain) : chain[j].k \in K

AllHeld == \A i \in 1..Len(deltas) : deltas[i].held

FlushQueued == sub.flushing => Waits({"flush"})
ReconcileQueued == sub.reconciling => Waits({"reconcile"})
WorkQueued ==
    open /\ sub.synced /\ sub.hasUnsentWork =>
        sub.pending # {} \/ Waits({"flush", "reconcile", "retry"})
DebtShown ==
    open /\ sub.synced /\ sub.owesReconcile =>
        \/ sub.deltaRetryTimer
        \/ Waits({"reconcile", "retry"})
        \/ sub.oversizedPush /\ AllHeld

\* A poisoned chain runs nothing: a client that has one is not idle.
HoldInv == ~poisoned => FlushQueued /\ ReconcileQueued /\ WorkQueued /\ DebtShown

(***************************************************************************)
(* The chain, as the steps move it.                                        *)
(***************************************************************************)
Stay == \A K : Waits(K) => Waits(K)'

LEMMA StaySame == ASSUME chain' = chain PROVE Stay
BY DEF Stay, Waits

LEMMA Enqueued ==
    ASSUME TypeOK, NEW k \in {"flush", "reconcile", "retry", "snapshot"},
           NEW n \in Nat, NEW p \in Payload, Enqueue(k, n, p)
    PROVE  /\ Stay
           /\ ~poisoned => \A K : k \in K => Waits(K)'
<1> DEFINE t == [k |-> k, seq |-> n, payload |-> p]
<1>1. t \in Task /\ t.k = k
  BY DEF Task
<1>2. CASE poisoned
  BY <1>2, StaySame DEF Enqueue
<1>3. CASE ~poisoned
  <2>1. chain' = Append(chain, t) /\ chain \in Seq(Task)
    BY <1>3 DEF Enqueue, TypeOK
  <2> HIDE DEF t
  <2>2. /\ Len(chain') = Len(chain) + 1 /\ chain'[Len(chain) + 1] = t
        /\ \A j \in 1..Len(chain) : chain'[j] = chain[j]
        /\ Len(chain) \in Nat
    BY <1>1, <2>1, AppendProperties, LenProperties
  <2>3. /\ Len(chain) + 1 \in 1..Len(chain')
        /\ \A j \in 1..Len(chain) : j \in 1..Len(chain')
    BY <2>2
  <2> QED BY <1>1, <2>2, <2>3 DEF Stay, Waits
<1> QED BY <1>2, <1>3

LEMMA HeadWaits ==
    ASSUME TypeOK, NEW k, Running(k) PROVE \A K : k \in K => Waits(K)
<1>1. chain # <<>> /\ chain[1].k = k /\ 1 \in 1..Len(chain)
  BY HeadTailProperties, EmptySeq, LenProperties DEF Running, TypeOK
<1> QED BY <1>1 DEF Waits

LEMMA HeadRuns ==
    ASSUME TypeOK, NEW k, Running(k), chain' = Tail(chain)
    PROVE  \A K : k \notin K /\ Waits(K) => Waits(K)'
<1>1. /\ chain \in Seq(Task) /\ chain # <<>> /\ chain[1].k = k
      /\ Len(chain') = Len(chain) - 1 /\ Len(chain) \in Nat
      /\ \A j \in 1..(Len(chain) - 1) : chain'[j] = chain[j + 1]
  BY HeadTailProperties, EmptySeq, LenProperties DEF Running, TypeOK
<1> SUFFICES ASSUME NEW K, k \notin K, NEW j \in 1..Len(chain), chain[j].k \in K
             PROVE  \E i \in 1..Len(chain') : chain'[i].k \in K
  BY DEF Waits
<1>2. j # 1 /\ j - 1 \in 1..(Len(chain) - 1) /\ (j - 1) + 1 = j
  BY <1>1
<1>3. chain'[j - 1] = chain[j] /\ j - 1 \in 1..Len(chain')
  BY <1>1, <1>2
<1> QED BY <1>3

LEMMA NothingWaits == ASSUME chain = <<>>, NEW K PROVE ~Waits(K)
BY EmptySeq DEF Waits

(***************************************************************************)
(* What the subscription has to see to.                                    *)
(***************************************************************************)
SameDuties(s, t) ==
    /\ t.flushing = s.flushing /\ t.reconciling = s.reconciling /\ t.synced = s.synced
    /\ t.hasUnsentWork = s.hasUnsentWork /\ t.pending = s.pending
    /\ t.owesReconcile = s.owesReconcile /\ t.deltaRetryTimer = s.deltaRetryTimer
    /\ t.oversizedPush = s.oversizedPush

LEMMA HelpersKeepDuties ==
    ASSUME NEW s \in DocSubscription, NEW n
    PROVE  /\ SameDuties(s, ScheduleSeqSave(s))
           /\ SameDuties(s, SettleAck(s))
           /\ SameDuties(s, Advance(s, n))
<1>1. SameDuties(s, ScheduleSeqSave(s)) /\ SameDuties(s, s)
  BY DEF SameDuties, ScheduleSeqSave, DocSubscription
<1>2. SameDuties(s, SettleAck(s))
  BY <1>1 DEF SettleAck
<1>3. SameDuties(s, Advance(s, n))
  <2> DEFINE t == [s EXCEPT !.lastSeq = Larger(s.lastSeq, n)]
  <2>1. SameDuties(t, ScheduleSeqSave(t)) /\ SameDuties(s, t)
    BY DEF SameDuties, ScheduleSeqSave, DocSubscription
  <2> HIDE DEF t
  <2>2. SameDuties(s, ScheduleSeqSave(t))
    BY <2>1 DEF SameDuties
  <2>3. Advance(s, n) = ScheduleSeqSave(t) \/ Advance(s, n) = s
    BY DEF Advance, t
  <2> QED BY <1>1, <2>2, <2>3
<1> QED BY <1>1, <1>2, <1>3

\* A step that leaves the duties and lets the queue stand.
LEMMA HoldSame ==
    ASSUME HoldInv, poisoned' = poisoned, open' = open, Stay, SameDuties(sub, sub'),
           AllHeld => AllHeld'
    PROVE  HoldInv'
<1> SUFFICES ASSUME ~poisoned PROVE (FlushQueued /\ ReconcileQueued /\ WorkQueued /\ DebtShown)'
  BY DEF HoldInv
<1>1. FlushQueued /\ ReconcileQueued /\ WorkQueued /\ DebtShown
  BY DEF HoldInv
<1>2. FlushQueued' /\ ReconcileQueued'
  BY <1>1 DEF FlushQueued, ReconcileQueued, SameDuties, Stay
<1>3. WorkQueued'
  BY <1>1 DEF WorkQueued, SameDuties, Stay
<1>4. DebtShown'
  BY <1>1 DEF DebtShown, SameDuties, Stay
<1> QED BY <1>2, <1>3, <1>4

\* The same where the step has no socket, or has not caught up on it.
LEMMA HoldApart ==
    ASSUME HoldInv, poisoned' = poisoned, ~(open' /\ sub'.synced),
           sub'.flushing => sub.flushing /\ (Waits({"flush"}) => Waits({"flush"})'),
           sub'.reconciling => sub.reconciling /\ (Waits({"reconcile"}) => Waits({"reconcile"})')
    PROVE  HoldInv'
BY DEF HoldInv, FlushQueued, ReconcileQueued, WorkQueued, DebtShown

LEMMA DeltasSame == ASSUME deltas' = deltas PROVE AllHeld => AllHeld'
BY DEF AllHeld

(***************************************************************************)
(* The steps.                                                              *)
(***************************************************************************)
LEMMA DutiesTransitive ==
    ASSUME NEW s, NEW t, NEW u, SameDuties(s, t), SameDuties(t, u) PROVE SameDuties(s, u)
BY DEF SameDuties

LEMMA OpenedHold == ASSUME TypeOK, HoldInv, Opened PROVE HoldInv'
<1> DEFINE s == [sub EXCEPT !.synced = FALSE]
<1>1. /\ sub \in DocSubscription /\ poisoned' = poisoned /\ chain' = chain
      /\ sub' = s \/ sub' = [s EXCEPT !.catchUpFrom = SubscribeFrom(s)]
  BY DEF TypeOK, Opened, sendVars, DoSendSubscribe
<1>2. /\ s \in DocSubscription /\ ~s.synced
      /\ s.flushing = sub.flushing /\ s.reconciling = sub.reconciling
  BY <1>1 DEF DocSubscription
<1> HIDE DEF s
<1>3. ~sub'.synced /\ sub'.flushing = sub.flushing /\ sub'.reconciling = sub.reconciling
  BY <1>1, <1>2 DEF DocSubscription
<1>4. Stay
  BY <1>1, StaySame
<1> QED BY <1>1, <1>3, <1>4, HoldApart DEF Stay

LEMMA SeqLoadedHold == ASSUME TypeOK, HoldInv, SeqLoaded PROVE HoldInv'
<1> DEFINE s == [sub EXCEPT !.seqReady = TRUE,
                            !.lastSeq = Larger(@, LoadSeqCheckpoint(sub.ydoc))]
<1>1. /\ sub \in DocSubscription
      /\ UNCHANGED <<poisoned, chain, open, deltas>>
      /\ sub' = s \/ sub' = [s EXCEPT !.catchUpFrom = SubscribeFrom(s)]
  BY DEF TypeOK, SeqLoaded, sendVars, DoSendSubscribe
<1>2. s \in DocSubscription /\ SameDuties(sub, s)
  <2>1. LoadSeqCheckpoint(sub.ydoc) \in Nat
    BY DEF TypeOK, LoadSeqCheckpoint
  <2> QED BY <1>1, <2>1, LargerNat DEF DocSubscription, SameDuties
<1> HIDE DEF s
<1>3. SameDuties(s, sub')
  BY <1>1, <1>2 DEF DocSubscription, SameDuties
<1>4. SameDuties(sub, sub')
  BY <1>2, <1>3, DutiesTransitive
<1> QED BY <1>1, <1>4, StaySame, DeltasSame, HoldSame

LEMMA SeqSaveFiresHold == ASSUME TypeOK, HoldInv, SeqSaveFires PROVE HoldInv'
<1>1. UNCHANGED <<poisoned, chain, open, deltas>> /\ SameDuties(sub, sub')
  BY DEF TypeOK, SeqSaveFires, DocSubscription, SameDuties, sendVars, wireVars
<1> QED BY <1>1, StaySame, DeltasSame, HoldSame

LEMMA ClosedHold == ASSUME TypeOK, HoldInv, Closed PROVE HoldInv'
<1>1. /\ poisoned' = poisoned /\ chain' = chain
      /\ ~open' /\ sub'.flushing = sub.flushing /\ ~sub'.reconciling
  BY DEF TypeOK, Closed, ClosedSubscription, DocSubscription
<1>2. Stay
  BY <1>1, StaySame
<1> QED BY <1>1, <1>2, HoldApart DEF Stay

LEMMA FreshHold ==
    ASSUME NEW d, sub' = FreshSubscription(d) PROVE HoldInv'
<1>1. ~sub'.flushing /\ ~sub'.reconciling /\ ~sub'.synced
  BY DEF FreshSubscription
<1> QED BY <1>1 DEF HoldInv, FlushQueued, ReconcileQueued, WorkQueued, DebtShown

LEMMA LocalEditHold == ASSUME TypeOK, HoldInv, LocalEdit PROVE HoldInv'
<1> PICK e \in Local \ made :
        LET s == [sub EXCEPT !.ydoc = @ \cup {e}, !.pending = @ \cup {e},
                             !.hasUnsentWork = TRUE]
        IN  IF ~open
            THEN sub' = s /\ UNCHANGED chain
            ELSE /\ sub' = [s EXCEPT !.flushing = TRUE,
                                     !.deltaRetryTimer = @ \/ s.oversizedPush]
                 /\ IF s.flushing THEN UNCHANGED chain ELSE Enqueue("flush", 0, {})
  BY DEF LocalEdit
<1> DEFINE s == [sub EXCEPT !.ydoc = @ \cup {e}, !.pending = @ \cup {e},
                            !.hasUnsentWork = TRUE]
<1>1. /\ UNCHANGED <<poisoned, open, deltas>> /\ sub \in DocSubscription
  BY DEF TypeOK, LocalEdit, wireVars
<1>2. /\ s \in DocSubscription /\ e \in s.pending
      /\ s.flushing = sub.flushing /\ s.reconciling = sub.reconciling /\ s.synced = sub.synced
      /\ s.owesReconcile = sub.owesReconcile /\ s.deltaRetryTimer = sub.deltaRetryTimer
      /\ s.oversizedPush = sub.oversizedPush
  <2>1. e \in Edits
    BY DEF Local, Edits, Ins, Del
  <2> QED BY <1>1, <2>1 DEF DocSubscription, Payload
<1>3. CASE ~open
  <2>1. sub' = s /\ chain' = chain
    BY <1>3
  <2> HIDE DEF s
  <2>2. Stay
    BY <2>1, StaySame
  <2> QED BY <1>1, <1>2, <1>3, <2>1, <2>2, HoldApart DEF Stay
<1>4. CASE open
  <2>1. /\ sub' = [s EXCEPT !.flushing = TRUE, !.deltaRetryTimer = @ \/ s.oversizedPush]
        /\ IF s.flushing THEN chain' = chain ELSE Enqueue("flush", 0, {})
    BY <1>4
  <2> HIDE DEF s
  <2>2. /\ sub'.pending = s.pending /\ sub'.reconciling = s.reconciling
        /\ sub'.synced = s.synced /\ sub'.owesReconcile = s.owesReconcile
        /\ sub'.deltaRetryTimer = (s.deltaRetryTimer \/ s.oversizedPush)
        /\ sub'.oversizedPush = s.oversizedPush
    BY <1>2, <2>1 DEF DocSubscription
  <2>3. {} \in Payload
    BY DEF Payload
  <2>4. Stay /\ (~poisoned /\ ~s.flushing => Waits({"flush"})')
    BY <2>1, <2>3, StaySame, Enqueued
  <2> SUFFICES ASSUME ~poisoned PROVE (FlushQueued /\ ReconcileQueued /\ WorkQueued /\ DebtShown)'
    BY <1>1 DEF HoldInv
  <2>5. FlushQueued'
    BY <1>2, <2>4 DEF HoldInv, FlushQueued, Stay
  <2>6. ReconcileQueued'
    BY <1>2, <2>2, <2>4 DEF HoldInv, ReconcileQueued, Stay
  <2>7. WorkQueued'
    BY <1>2, <2>2 DEF WorkQueued
  <2>8. DebtShown'
    BY <1>1, <1>2, <2>2, <2>4 DEF HoldInv, DebtShown, Stay, AllHeld
  <2> QED BY <2>5, <2>6, <2>7, <2>8
<1> QED BY <1>3, <1>4

LEMMA NextBatchHold ==
    ASSUME TypeOK, NEW s \in DocSubscription, NextBatch(s), Running("flush"),
           open' = open, s.reconciling => Waits({"reconcile"}),
           open /\ s.synced /\ s.owesReconcile =>
               \/ s.deltaRetryTimer \/ Waits({"reconcile", "retry"})
               \/ s.oversizedPush /\ AllHeld'
    PROVE  HoldInv'
<1>1. /\ sub'.reconciling = s.reconciling /\ sub'.synced = s.synced
      /\ sub'.owesReconcile = s.owesReconcile /\ sub'.deltaRetryTimer = s.deltaRetryTimer
      /\ sub'.oversizedPush = s.oversizedPush
  BY DEF NextBatch, DocSubscription
<1>2. chain' = chain \/ chain' = Tail(chain)
  BY DEF NextBatch
<1>3. /\ Waits({"reconcile"}) => Waits({"reconcile"})'
      /\ Waits({"reconcile", "retry"}) => Waits({"reconcile", "retry"})'
  BY <1>2, HeadRuns, StaySame DEF Stay
<1>4. sub'.flushing => chain' = chain
  BY DEF NextBatch, DocSubscription
<1>5. sub'.hasUnsentWork => chain' = chain \/ ~open
  BY DEF NextBatch, DocSubscription
<1>6. chain' = chain => Waits({"flush"})' /\ Waits({"flush", "reconcile", "retry"})'
  <2>1. Waits({"flush"}) /\ Waits({"flush", "reconcile", "retry"})
    BY HeadWaits
  <2> QED BY <2>1, StaySame DEF Stay
<1>7. FlushQueued' /\ ReconcileQueued'
  BY <1>1, <1>3, <1>4, <1>6 DEF FlushQueued, ReconcileQueued
<1>8. WorkQueued'
  BY <1>5, <1>6 DEF WorkQueued
<1>9. DebtShown'
  BY <1>1, <1>3 DEF DebtShown
<1> QED BY <1>7, <1>8, <1>9 DEF HoldInv

LEMMA FlushStartsHold == ASSUME TypeOK, HoldInv, FlushStarts PROVE HoldInv'
<1>1. /\ Running("flush") /\ NextBatch(sub) /\ open' = open /\ ~poisoned /\ deltas' = deltas
      /\ sub \in DocSubscription
  BY DEF FlushStarts, Running, wireVars, TypeOK
<1>2. AllHeld => AllHeld'
  BY <1>1, DeltasSame
<1> QED BY <1>1, <1>2, NextBatchHold DEF HoldInv, ReconcileQueued, DebtShown

\* A flush that ends early leaves work in the queue.
LEMMA PutBackHold ==
    ASSUME TypeOK, HoldInv, Running("flush"), batch # {}, chain' = Tail(chain),
           sub' = PutBack(sub) \/ sub' = FailedFlush(sub),
           UNCHANGED <<poisoned, open, deltas>>
    PROVE  HoldInv'
<1>1. sub \in DocSubscription /\ batch \in Payload /\ ~poisoned
  BY DEF TypeOK, Running
<1>2. /\ ~sub'.flushing /\ sub'.pending # {} /\ sub'.reconciling = sub.reconciling
      /\ sub'.synced = sub.synced /\ sub'.owesReconcile = sub.owesReconcile
      /\ sub'.deltaRetryTimer = sub.deltaRetryTimer /\ sub'.oversizedPush = sub.oversizedPush
  <2> DEFINE s == PutBack(sub)
  <2>1. /\ s \in DocSubscription
        /\ ~s.flushing /\ s.pending # {} /\ s.reconciling = sub.reconciling
        /\ s.synced = sub.synced /\ s.owesReconcile = sub.owesReconcile
        /\ s.deltaRetryTimer = sub.deltaRetryTimer /\ s.oversizedPush = sub.oversizedPush
    BY <1>1 DEF PutBack, DocSubscription, Payload
  <2>2. sub' = s \/ sub' = [s EXCEPT !.hasUnsentWork = TRUE]
    BY DEF FailedFlush
  <2> HIDE DEF s
  <2> QED BY <2>1, <2>2 DEF DocSubscription
<1>3. /\ Waits({"reconcile"}) => Waits({"reconcile"})'
      /\ Waits({"reconcile", "retry"}) => Waits({"reconcile", "retry"})'
  BY HeadRuns
<1>4. FlushQueued' /\ WorkQueued'
  BY <1>2 DEF FlushQueued, WorkQueued
<1>5. ReconcileQueued'
  BY <1>1, <1>2, <1>3 DEF HoldInv, ReconcileQueued
<1>6. DebtShown'
  BY <1>1, <1>2, <1>3, DeltasSame DEF HoldInv, DebtShown
<1> QED BY <1>4, <1>5, <1>6 DEF HoldInv

LEMMA AllMarked == ASSUME TypeOK, NEW ds \in Seq(Delta), deltas' = MarkHeld(ds) PROVE AllHeld'
<1>1. Len(MarkHeld(ds)) = Len(ds)
  BY MarkHeldSays
<1>2. \A i \in 1..Len(ds) : MarkHeld(ds)[i].held
  <2>1. \A i \in 1..Len(ds) : ds[i] \in Delta
    BY ElementOfSeq
  <2>2. \A i \in 1..Len(ds) : [ds[i] EXCEPT !.held = TRUE].held
    BY <2>1 DEF Delta
  <2> QED BY <2>2 DEF MarkHeld
<1> QED BY <1>1, <1>2 DEF AllHeld

LEMMA HeldDuties ==
    ASSUME NEW s \in DocSubscription
    PROVE  /\ Held(s) \in DocSubscription /\ Held(s).oversizedPush
           /\ Held(s).flushing = s.flushing /\ Held(s).reconciling = s.reconciling
           /\ Held(s).synced = s.synced /\ Held(s).pending = s.pending
           /\ Held(s).hasUnsentWork = s.hasUnsentWork
           /\ Held(s).deltaRetryTimer = s.deltaRetryTimer
BY DEF Held, DocSubscription

LEMMA FlushEncryptedHold == ASSUME TypeOK, HoldInv, FlushEncrypted PROVE HoldInv'
<1>1. /\ Running("flush") /\ batch # {} /\ open' = open /\ poisoned' = poisoned /\ ~poisoned
      /\ sub \in DocSubscription /\ deltas \in Seq(Delta)
  BY DEF FlushEncrypted, Running, TypeOK
<1>2. CASE ~open
  BY <1>1, <1>2, PutBackHold DEF FlushEncrypted
<1>3. CASE open /\ FlushTooLarge(batch)
  <2>1. NextBatch(Held(sub)) /\ deltas' = MarkHeld(deltas)
    BY <1>3 DEF FlushEncrypted
  <2>2. AllHeld'
    BY <1>1, <2>1, AllMarked
  <2> QED BY <1>1, <2>1, <2>2, HeldDuties, NextBatchHold DEF HoldInv, ReconcileQueued
<1>4. CASE open /\ ~FlushTooLarge(batch)
  <2>1. NextBatch(sub) /\ deltas' = deltas
    BY <1>4 DEF FlushEncrypted
  <2> QED BY <1>1, <2>1, DeltasSame, NextBatchHold DEF HoldInv, ReconcileQueued, DebtShown
<1> QED BY <1>2, <1>3, <1>4

LEMMA SendDeltaHold ==
    ASSUME TypeOK, NEW s \in DocSubscription, NEW sv, SendDelta(s, sv),
           NEW k \in {"reconcile", "retry"}, Running(k), chain' = Tail(chain), open' = open,
           s.flushing => Waits({"flush"}),
           s.reconciling => k = "retry" /\ Waits({"reconcile"})
    PROVE  HoldInv'
<1> DEFINE sent  == [s EXCEPT !.pending = {}, !.hasUnsentWork = FALSE,
                              !.owesReconcile = FALSE]
           clear == [sent EXCEPT !.oversizedPush = FALSE]
<1>1. /\ \/ ~open /\ sub' = s
         \/ sub' = sent \/ sub' = clear \/ sub' = ScheduleSeqSave(clear)
  BY DEF SendDelta
<1>2. /\ sent \in DocSubscription /\ clear \in DocSubscription
      /\ sent.flushing = s.flushing /\ sent.reconciling = s.reconciling
      /\ ~sent.hasUnsentWork /\ ~sent.owesReconcile
      /\ clear.flushing = s.flushing /\ clear.reconciling = s.reconciling
      /\ ~clear.hasUnsentWork /\ ~clear.owesReconcile
  BY DEF DocSubscription, Payload
<1> HIDE DEF sent, clear
<1>3. /\ sub'.flushing = s.flushing /\ sub'.reconciling = s.reconciling
      /\ ~open \/ (~sub'.hasUnsentWork /\ ~sub'.owesReconcile)
  BY <1>1, <1>2, HelpersKeepDuties DEF SameDuties
<1>4. /\ Waits({"flush"}) => Waits({"flush"})'
      /\ k = "retry" /\ Waits({"reconcile"}) => Waits({"reconcile"})'
  BY HeadRuns
<1>5. FlushQueued' /\ ReconcileQueued'
  BY <1>3, <1>4 DEF FlushQueued, ReconcileQueued
<1>6. WorkQueued' /\ DebtShown'
  BY <1>3 DEF WorkQueued, DebtShown
<1> QED BY <1>5, <1>6 DEF HoldInv

LEMMA ReconcileHold == ASSUME TypeOK, HoldInv, Reconcile PROVE HoldInv'
<1> DEFINE s == [sub EXCEPT !.reconciling = FALSE]
           t == [s EXCEPT !.catchUp = {}, !.serverSV = ServerStateVector(s)]
<1>1. /\ Running("reconcile") /\ chain' = Tail(chain) /\ open' = open
      /\ poisoned' = poisoned /\ ~poisoned /\ sub \in DocSubscription
  BY DEF Reconcile, Running, wireVars, TypeOK
<1>2. IF open THEN SendDelta(t, ServerStateVector(s)) ELSE sub' = s
  BY DEF Reconcile
<1>3. s \in DocSubscription /\ ~s.reconciling /\ s.flushing = sub.flushing
  BY <1>1 DEF DocSubscription
<1>4. t \in DocSubscription /\ ~t.reconciling /\ t.flushing = sub.flushing
  <2>1. ServerStateVector(s) \in Payload
    BY <1>3 DEF ServerStateVector, StateVector, DocSubscription, Payload
  <2> HIDE DEF s
  <2> QED BY <1>3, <2>1 DEF DocSubscription, Payload
<1> HIDE DEF s, t
<1>5. CASE open
  BY <1>1, <1>2, <1>4, <1>5, SendDeltaHold DEF HoldInv, FlushQueued
<1>6. CASE ~open
  <2>1. Waits({"flush"}) => Waits({"flush"})'
    BY <1>1, HeadRuns
  <2> QED BY <1>1, <1>2, <1>3, <1>6, <2>1, HoldApart
<1> QED BY <1>5, <1>6

LEMMA RetryDeltaHold == ASSUME TypeOK, HoldInv, RetryDelta PROVE HoldInv'
<1>1. /\ Running("retry") /\ chain' = Tail(chain) /\ open' = open
      /\ poisoned' = poisoned /\ ~poisoned /\ sub \in DocSubscription
      /\ SendDelta(sub, Head(chain).payload)
  BY DEF RetryDelta, Running, wireVars, TypeOK
<1> QED BY <1>1, SendDeltaHold DEF HoldInv, FlushQueued, ReconcileQueued

LEMMA DeltaRetryFiresHold == ASSUME TypeOK, HoldInv, DeltaRetryFires PROVE HoldInv'
<1>1. /\ poisoned' = poisoned /\ open' = open /\ deltas' = deltas
      /\ sub'.flushing = sub.flushing /\ sub'.reconciling = sub.reconciling
      /\ sub'.synced = sub.synced /\ sub'.hasUnsentWork = sub.hasUnsentWork
      /\ sub'.pending = sub.pending /\ sub'.owesReconcile = sub.owesReconcile
      /\ sub.serverSV \in Payload
  BY DEF DeltaRetryFires, TypeOK, DocSubscription, wireVars
<1>2. IF sub.owesReconcile THEN Enqueue("retry", 0, sub.serverSV) ELSE chain' = chain
  BY DEF DeltaRetryFires
<1>3. Stay /\ (sub.owesReconcile /\ ~poisoned => Waits({"reconcile", "retry"})')
  BY <1>1, <1>2, StaySame, Enqueued
<1>4. HoldInv => HoldInv'
  BY <1>1, <1>3 DEF HoldInv, FlushQueued, ReconcileQueued, WorkQueued, DebtShown, Stay
<1> QED BY <1>4

LEMMA TakeBackDuties ==
    ASSUME NEW d, NEW s \in DocSubscription, TakeBack(d, s)
    PROVE  /\ sub'.flushing = s.flushing /\ sub'.reconciling = s.reconciling
           /\ sub'.synced = s.synced /\ sub'.hasUnsentWork = s.hasUnsentWork
           /\ sub'.pending = s.pending /\ sub'.deltaRetryTimer = s.deltaRetryTimer
           /\ sub'.oversizedPush = s.oversizedPush
<1> DEFINE t == IF Settles(d.live) THEN SettleAck(s) ELSE s
<1>1. t \in DocSubscription /\ SameDuties(s, t)
  BY SettleAckType, HelpersKeepDuties DEF SameDuties
<1>2. sub' = [t EXCEPT !.owesReconcile = TRUE]
  BY DEF TakeBack
<1> HIDE DEF t
<1> QED BY <1>1, <1>2 DEF SameDuties, DocSubscription

\* The reconcile is owed again: with a timer, a hold, or no socket.
LEMMA TakenBackHold ==
    ASSUME TypeOK, HoldInv, NEW d, NEW s \in DocSubscription, TakeBack(d, s),
           s.flushing = sub.flushing, s.reconciling = sub.reconciling, s.synced = sub.synced,
           s.hasUnsentWork = sub.hasUnsentWork, s.pending = sub.pending,
           UNCHANGED <<open, chain, poisoned>>,
           ~open \/ s.deltaRetryTimer \/ (s.oversizedPush /\ AllHeld')
    PROVE  HoldInv'
<1>1. Stay
  BY StaySame
<1>2. FlushQueued /\ ReconcileQueued => FlushQueued' /\ ReconcileQueued'
  BY <1>1, TakeBackDuties DEF FlushQueued, ReconcileQueued, Stay
<1>3. WorkQueued => WorkQueued'
  BY <1>1, TakeBackDuties DEF WorkQueued, Stay
<1>4. DebtShown'
  BY TakeBackDuties DEF DebtShown
<1> QED BY <1>2, <1>3, <1>4 DEF HoldInv

LEMMA DeltaFailsHold == ASSUME TypeOK, HoldInv, DeltaFails PROVE HoldInv'
<1>1. PICK i \in 1..Len(deltas) : TakeBack(deltas[i], ScheduleDeltaRetry(sub))
  BY DEF DeltaFails
<1> DEFINE s == ScheduleDeltaRetry(sub)
<1>2. /\ s \in DocSubscription /\ s.deltaRetryTimer
      /\ s.flushing = sub.flushing /\ s.reconciling = sub.reconciling /\ s.synced = sub.synced
      /\ s.hasUnsentWork = sub.hasUnsentWork /\ s.pending = sub.pending
  BY DEF TypeOK, ScheduleDeltaRetry, DocSubscription
<1>3. UNCHANGED <<open, chain, poisoned>>
  BY DEF DeltaFails, wireVars
<1> HIDE DEF s
<1>4. TakeBack(deltas[i], s)
  BY <1>1 DEF s
<1> QED BY <1>2, <1>3, <1>4, TakenBackHold

LEMMA RemovedHeld ==
    ASSUME TypeOK, NEW i \in 1..Len(deltas), deltas' = Remove(deltas, i)
    PROVE  AllHeld => AllHeld'
<1>1. /\ Len(deltas') = Len(deltas) - 1 /\ Len(deltas) \in Nat
      /\ \A j \in 1..(Len(deltas) - 1) :
             deltas'[j] = IF j < i THEN deltas[j] ELSE deltas[j + 1]
  BY RemoveAt, LenProperties DEF TypeOK
<1> SUFFICES ASSUME AllHeld, NEW j \in 1..(Len(deltas) - 1) PROVE deltas'[j].held
  BY <1>1 DEF AllHeld
<1>2. j \in 1..Len(deltas) /\ j + 1 \in 1..Len(deltas)
  BY <1>1
<1> QED BY <1>1, <1>2 DEF AllHeld

LEMMA DeltaEncryptedHold == ASSUME TypeOK, HoldInv, DeltaEncrypted PROVE HoldInv'
<1> PICK i \in 1..Len(deltas) :
        LET d == deltas[i] IN
        CASE ~open ->
               TakeBack(d, sub)
          [] open /\ DeltaTooLarge(d.payload) ->
               /\ TakeBack(d, Held(sub))
               /\ deltas' = MarkHeld(Remove(deltas, i))
          [] open /\ ~DeltaTooLarge(d.payload) ->
               /\ sub' = [sub EXCEPT !.oversizedPush = @ /\ ~ClearsHold(d)]
               /\ deltas' = Remove(deltas, i)
  BY DEF DeltaEncrypted
<1> DEFINE d == deltas[i]
<1>1. /\ UNCHANGED <<open, chain, poisoned>>
      /\ sub \in DocSubscription /\ deltas \in Seq(Delta)
  BY DEF DeltaEncrypted, TypeOK
<1>2. CASE ~open
  <2>1. TakeBack(d, sub)
    BY <1>2
  <2> HIDE DEF d
  <2> QED BY <1>1, <1>2, <2>1, TakenBackHold
<1>3. CASE open /\ DeltaTooLarge(d.payload)
  <2>1. TakeBack(d, Held(sub)) /\ deltas' = MarkHeld(Remove(deltas, i))
    BY <1>3
  <2>2. AllHeld'
    BY <1>1, <2>1, RemoveType, AllMarked
  <2> HIDE DEF d
  <2> QED BY <1>1, <2>1, <2>2, HeldDuties, TakenBackHold
<1>4. CASE open /\ ~DeltaTooLarge(d.payload)
  <2>1. /\ sub' = [sub EXCEPT !.oversizedPush = @ /\ ~ClearsHold(d)]
        /\ deltas' = Remove(deltas, i)
    BY <1>4
  <2>2. AllHeld => ~ClearsHold(d)
    BY DEF AllHeld, ClearsHold
  <2>3. /\ sub'.flushing = sub.flushing /\ sub'.reconciling = sub.reconciling
        /\ sub'.synced = sub.synced /\ sub'.hasUnsentWork = sub.hasUnsentWork
        /\ sub'.pending = sub.pending /\ sub'.owesReconcile = sub.owesReconcile
        /\ sub'.deltaRetryTimer = sub.deltaRetryTimer
        /\ sub'.oversizedPush = (sub.oversizedPush /\ ~ClearsHold(d))
    BY <1>1, <2>1 DEF DocSubscription
  <2> HIDE DEF d
  <2>4. AllHeld => AllHeld'
    BY <2>1, RemovedHeld
  <2>5. Stay
    BY <1>1, StaySame
  <2>6. FlushQueued /\ ReconcileQueued => FlushQueued' /\ ReconcileQueued'
    BY <2>3, <2>5 DEF FlushQueued, ReconcileQueued, Stay
  <2>7. WorkQueued => WorkQueued'
    BY <1>1, <2>3, <2>5 DEF WorkQueued, Stay
  <2>8. DebtShown => DebtShown'
    BY <1>1, <2>2, <2>3, <2>4, <2>5 DEF DebtShown, Stay
  <2> QED BY <1>1, <2>6, <2>7, <2>8 DEF HoldInv
<1> QED BY <1>2, <1>3, <1>4

LEMMA SnapshotTaskHold ==
    ASSUME TypeOK, HoldInv, SnapshotEncrypted \/ SnapshotFails PROVE HoldInv'
<1>1. CASE SnapshotEncrypted
  <2>1. /\ Running("snapshot") /\ chain' = Tail(chain) /\ sub' = sub
        /\ UNCHANGED <<open, deltas, poisoned>>
    BY <1>1 DEF SnapshotEncrypted, wireVars
  <2>2. /\ Waits({"flush"}) => Waits({"flush"})'
        /\ Waits({"reconcile"}) => Waits({"reconcile"})'
        /\ Waits({"reconcile", "retry"}) => Waits({"reconcile", "retry"})'
        /\ Waits({"flush", "reconcile", "retry"}) => Waits({"flush", "reconcile", "retry"})'
    BY <2>1, HeadRuns
  <2>3. AllHeld => AllHeld'
    BY <2>1, DeltasSame
  <2> QED BY <2>1, <2>2, <2>3 DEF HoldInv, FlushQueued, ReconcileQueued, WorkQueued, DebtShown
<1>2. CASE SnapshotFails
  BY <1>2 DEF SnapshotFails, HoldInv
<1> QED BY <1>1, <1>2

LEMMA SnapshotQueuedStays ==
    ASSUME TypeOK, NEW s \in DocSubscription, SendSnapshot(s) PROVE Stay
BY Enqueued DEF SendSnapshot, DocSubscription

LEMMA MaybeCompactStays ==
    ASSUME TypeOK, NEW s \in DocSubscription, MaybeCompact(s) PROVE Stay
BY StaySame, SnapshotQueuedStays DEF MaybeCompact

LEMMA ReceivedHold ==
    ASSUME TypeOK, HoldInv,
           Deliver \/ ReceivePayload \/ ReceiveAck \/ HandleCompactRequest \/ DecryptFails
    PROVE  HoldInv'
<1>0. sub \in DocSubscription
  BY DEF TypeOK
<1>1. UNCHANGED <<poisoned, open, deltas>>
  BY DEF Deliver, ReceivePayload, ReceiveAck, HandleCompactRequest, DecryptFails, wireVars,
         sendVars
<1>2. CASE Deliver
  <2>1. sub' = sub /\ (MaybeCompact(sub) \/ chain' = chain)
    BY <1>2 DEF Deliver
  <2>2. Stay /\ SameDuties(sub, sub')
    BY <1>0, <2>1, MaybeCompactStays, StaySame DEF SameDuties
  <2> QED BY <1>1, <2>2, DeltasSame, HoldSame
<1>3. CASE ReceivePayload
  <2> DEFINE f == Head(recv)
             applied == [sub EXCEPT !.ydoc = @ \cup f.payload,
                                    !.catchUp = IF f.k = "snapshot" \/ ~sub.synced
                                                THEN @ \cup f.payload ELSE @]
  <2>1. /\ sub' = Advance(applied, f.seq)
        /\ MaybeCompact(Advance(applied, f.seq)) \/ chain' = chain
    BY <1>3 DEF ReceivePayload
  <2>2. f \in Frame
    BY <1>3, HeadTailProperties, EmptySeq DEF ReceivePayload, Receiving, TypeOK
  <2>3. applied \in DocSubscription /\ SameDuties(sub, applied)
    BY <1>0, <2>2 DEF DocSubscription, Frame, Payload, SameDuties
  <2>4. f.seq \in Nat
    BY <2>2 DEF Frame
  <2> HIDE DEF f, applied
  <2>5. Advance(applied, f.seq) \in DocSubscription /\ SameDuties(applied, sub')
    BY <2>1, <2>3, <2>4, AdvanceType, HelpersKeepDuties
  <2>6. Stay /\ SameDuties(sub, sub')
    BY <2>1, <2>3, <2>5, DutiesTransitive, MaybeCompactStays, StaySame
  <2> QED BY <1>1, <2>6, DeltasSame, HoldSame
<1>4. CASE ReceiveAck
  <2> DEFINE f == Head(recv)
             s == IF AckAdvances(sub) THEN Advance(sub, f.seq) ELSE sub
             t == IF Settles(f.live) THEN SettleAck(s) ELSE s
  <2>1. sub' = t /\ MaybeCompact(t)
    BY <1>4 DEF ReceiveAck
  <2>2. f \in Frame
    BY <1>4, HeadTailProperties, EmptySeq DEF ReceiveAck, Receiving, TypeOK
  <2>3. f.seq \in Nat
    BY <2>2 DEF Frame
  <2>4. s \in DocSubscription /\ SameDuties(sub, s)
    <3> HIDE DEF f
    <3> QED BY <1>0, <2>3, AdvanceType, HelpersKeepDuties DEF SameDuties
  <2>5. t \in DocSubscription /\ SameDuties(s, t)
    <3> HIDE DEF s
    <3> QED BY <2>4, SettleAckType, HelpersKeepDuties DEF SameDuties
  <2> HIDE DEF s, t
  <2>6. Stay /\ SameDuties(sub, sub')
    BY <2>1, <2>4, <2>5, DutiesTransitive, MaybeCompactStays
  <2> QED BY <1>1, <2>6, DeltasSame, HoldSame
<1>5. CASE HandleCompactRequest
  <2>1. sub' = sub /\ (SendSnapshot(sub) \/ chain' = chain)
    BY <1>5 DEF HandleCompactRequest
  <2>2. Stay /\ SameDuties(sub, sub')
    BY <1>0, <2>1, SnapshotQueuedStays, StaySame DEF SameDuties
  <2> QED BY <1>1, <2>2, DeltasSame, HoldSame
<1>6. CASE DecryptFails
  <2>1. chain' = chain /\ (sub' = sub \/ sub' = [sub EXCEPT !.decryptGapSeq = Head(recv).seq])
    BY <1>6 DEF DecryptFails, sendVars
  <2>2. Stay /\ SameDuties(sub, sub')
    BY <1>0, <2>1, StaySame DEF SameDuties, DocSubscription
  <2> QED BY <1>1, <2>2, DeltasSame, HoldSame
<1> QED BY <1>2, <1>3, <1>4, <1>5, <1>6

\* A catch-up that completes queues the reconcile for whatever is owed.
LEMMA CompleteSyncHold == ASSUME TypeOK, HoldInv, CompleteSync PROVE HoldInv'
<1> DEFINE a == Advance(sub, Head(recv).seq)
           s == [a EXCEPT !.synced = TRUE]
<1>1. /\ UNCHANGED <<poisoned, open, deltas>> /\ sub \in DocSubscription
      /\ IF MustReconcile(s)
         THEN sub' = [s EXCEPT !.reconciling = TRUE] /\ Enqueue("reconcile", 0, {})
         ELSE sub' = [s EXCEPT !.catchUp = {}] /\ chain' = chain
  BY DEF CompleteSync, TypeOK, wireVars
<1>2. Head(recv) \in Frame
  BY HeadTailProperties, EmptySeq DEF CompleteSync, Receiving, TypeOK
<1>3. a \in DocSubscription /\ SameDuties(sub, a)
  BY <1>1, <1>2, AdvanceType, HelpersKeepDuties DEF Frame
<1> HIDE DEF a
<1>4. /\ s \in DocSubscription /\ s.flushing = sub.flushing /\ s.reconciling = sub.reconciling
  BY <1>3 DEF SameDuties, DocSubscription
<1> HIDE DEF s
<1>5. {} \in Payload
  BY DEF Payload
<1>6. CASE MustReconcile(s)
  <2>1. sub'.flushing = sub.flushing
    BY <1>1, <1>4, <1>6 DEF DocSubscription
  <2>2. /\ Stay
        /\ ~poisoned => /\ Waits({"reconcile"})' /\ Waits({"reconcile", "retry"})'
                        /\ Waits({"flush", "reconcile", "retry"})'
    BY <1>1, <1>5, <1>6, Enqueued
  <2> QED BY <1>1, <2>1, <2>2 DEF HoldInv, FlushQueued, ReconcileQueued, WorkQueued, DebtShown, Stay
<1>7. CASE ~MustReconcile(s)
  <2>1. /\ sub'.flushing = sub.flushing /\ sub'.reconciling = sub.reconciling
        /\ ~sub'.hasUnsentWork /\ ~sub'.owesReconcile
    BY <1>1, <1>4, <1>7 DEF MustReconcile, DocSubscription
  <2>2. Stay
    BY <1>1, <1>7, StaySame
  <2> QED BY <1>1, <2>1, <2>2 DEF HoldInv, FlushQueued, ReconcileQueued, WorkQueued, DebtShown, Stay
<1> QED BY <1>6, <1>7

LEMMA QuietHold ==
    ASSUME HoldInv, UNCHANGED <<sub, chain, open, deltas, poisoned>> PROVE HoldInv'
BY StaySame, DeltasSame, HoldSame DEF SameDuties

LEMMA NextHold == ASSUME TypeOK, HoldInv, [Next]_vars PROVE HoldInv'
<1>1. CASE UNCHANGED vars
  BY <1>1, QuietHold DEF vars
<1>2. CASE Server \/ Persist
  BY <1>2, QuietHold DEF Server, PeerUpdate, RequestCompaction, Persist, wireVars, sendVars
<1>3. CASE Opened \/ SeqLoaded \/ SeqSaveFires
  BY <1>3, OpenedHold, SeqLoadedHold, SeqSaveFiresHold
<1>4. CASE LocalEdit
  BY <1>4, LocalEditHold
<1>5. CASE Sending
  BY <1>5, FlushStartsHold, FlushEncryptedHold, ReconcileHold, DeltaRetryFiresHold,
     RetryDeltaHold, DeltaEncryptedHold, SnapshotTaskHold DEF Sending
<1>6. CASE Receive \/ DecryptFails
  BY <1>6, ReceivedHold, CompleteSyncHold DEF Receive
<1>7. CASE Closed \/ Restart
  BY <1>7, ClosedHold, FreshHold DEF Restart
<1>8. CASE FlushFails
  BY <1>8, PutBackHold DEF FlushFails, wireVars
<1>9. CASE DeltaFails \/ SnapshotFails
  BY <1>9, DeltaFailsHold, SnapshotTaskHold
<1> QED BY <1>1, <1>2, <1>3, <1>4, <1>5, <1>6, <1>7, <1>8, <1>9 DEF Next, Life, Failure

LEMMA InitHold == Init => HoldInv
BY DEF Init, HoldInv, FlushQueued, ReconcileQueued, WorkQueued, DebtShown, FreshSubscription

\* An insertion too large to push that the server lacks is shown as held on
\* this device once nothing under way will bring it (holdOversized, and the
\* deltas that predate a hold and do not clear it).
THEOREM HeldIsShown == Spec => []HoldStaysVisible
<1>1. TypeOK /\ BooksRight /\ HoldInv => HoldStaysVisible
  <2> SUFFICES ASSUME TypeOK, HoleInv, LedgerInv, HoldInv, Idle, ~sub.oversizedPush
               PROVE  sub.ydoc \cap Big \subseteq ServerDoc
    BY DEF HoldStaysVisible, BooksRight
  <2>1. \A K : ~Waits(K)
    BY NothingWaits DEF Idle
  <2>2. ~sub.flushing /\ ~sub.reconciling /\ ~sub.hasUnsentWork /\ ~sub.owesReconcile
    BY <2>1 DEF HoldInv, FlushQueued, ReconcileQueued, WorkQueued, DebtShown, Idle
  <2>3. ~OwesServer(sub)
    BY <2>2 DEF OwesServer, Idle
  <2>4. sub.ydoc \cap LocalIns \subseteq ServerDoc
    BY <2>3, EditsStand
  <2> QED BY <2>4, EditsAssumption
<1>2. Init => HoldInv
  BY InitHold
<1>3. TypeOK /\ HoldInv /\ [Next]_vars => HoldInv'
  BY NextHold
<1> QED BY <1>1, <1>2, <1>3, LedgerInvariant, PTL DEF Spec

(***************************************************************************)
(* The promise of DocLog: every step of DocSync is a step of DocLog, or    *)
(* none of its business.  Two of its clauses carry the weight.  The        *)
(* service never loses an edit: a snapshot that replaces one has what only *)
(* that one had (Captures).  And a device is settled only when the service *)
(* has all its edits (Accounted).                                          *)
(***************************************************************************)
Kept == ~OwesServer(sub) => sub.ydoc \cap LocalIns \subseteq ServerDoc

Maps == [Promise!LogNext]_(Promise!logVars)

\* Nothing that the promise is about moves, but perhaps what is said of it.
Inside == sub'.ydoc = sub.ydoc /\ log' = log /\ snap' = snap

LEMMA MapsInside ==
    ASSUME Inside, Kept' PROVE Maps
<1>1. ServerDoc' = ServerDoc
  BY ServerSame DEF Inside
<1>2. sub'.ydoc \cap Ins = sub.ydoc \cap Ins /\ ServerDoc' \cap Ins = ServerDoc \cap Ins
  BY <1>1 DEF Inside
<1>3. CASE (~OwesServer(sub))' = TRUE
  <2>1. (sub.ydoc \cap Ins) \cap LocalIns \subseteq ServerDoc \cap Ins
    <3>1. sub'.ydoc \cap LocalIns \subseteq ServerDoc'
      BY <1>3 DEF Kept
    <3> QED BY <1>1, <3>1 DEF Inside, Ins
  <2> QED BY <1>2, <1>3, <2>1 DEF Maps, Promise!LogNext, Promise!Settle
<1>4. CASE (~OwesServer(sub))' = FALSE
  BY <1>2, <1>4 DEF Maps, Promise!LogNext, Promise!Doubt
<1>5. (~OwesServer(sub))' \in BOOLEAN
  OBVIOUS
<1> QED BY <1>3, <1>4, <1>5

\* The service takes over some of what the document holds.
LEMMA MapsPublish ==
    ASSUME sub'.ydoc = sub.ydoc, ServerDoc \cap Ins \subseteq ServerDoc',
           ServerDoc' \cap Ins \subseteq ServerDoc \cup sub.ydoc,
           (~OwesServer(sub))' => ~OwesServer(sub)
    PROVE  Maps
<1> DEFINE new == (ServerDoc' \cap Ins) \ ServerDoc
<1>1. new \in SUBSET (sub.ydoc \cap Ins)
  OBVIOUS
<1>2. ServerDoc' \cap Ins = (ServerDoc \cap Ins) \cup new
  OBVIOUS
<1>3. (~OwesServer(sub))' \in {~OwesServer(sub), FALSE}
  <2>1. (~OwesServer(sub))' \in BOOLEAN /\ (~OwesServer(sub)) \in BOOLEAN
    OBVIOUS
  <2> QED BY <2>1
<1>4. sub'.ydoc \cap Ins = sub.ydoc \cap Ins
  OBVIOUS
<1> HIDE DEF new
<1>5. Promise!Publish
  BY <1>1, <1>2, <1>3, <1>4 DEF Promise!Publish, Promise!MayDoubt
<1> QED BY <1>5 DEF Maps, Promise!LogNext

\* The document takes over some of what the service keeps.
LEMMA MapsFetch ==
    ASSUME log' = log, snap' = snap, NEW p, p \cap Ins \subseteq ServerDoc,
           sub'.ydoc = sub.ydoc \cup p,
           (~OwesServer(sub))' => ~OwesServer(sub)
    PROVE  Maps
<1>1. ServerDoc' \cap Ins = ServerDoc \cap Ins
  BY ServerSame
<1>2. p \cap Ins \in SUBSET (ServerDoc \cap Ins)
  OBVIOUS
<1>3. (~OwesServer(sub))' \in {~OwesServer(sub), FALSE}
  <2>1. (~OwesServer(sub))' \in BOOLEAN /\ (~OwesServer(sub)) \in BOOLEAN
    OBVIOUS
  <2> QED BY <2>1
<1>4. sub'.ydoc \cap Ins = (sub.ydoc \cap Ins) \cup (p \cap Ins)
  OBVIOUS
<1>5. Promise!Fetch
  BY <1>1, <1>2, <1>3, <1>4 DEF Promise!Fetch, Promise!MayDoubt
<1> QED BY <1>5 DEF Maps, Promise!LogNext

\* A write: of an edit the document has not.
LEMMA MapsWrite ==
    ASSUME log' = log, snap' = snap, NEW e \in LocalIns, e \notin sub.ydoc,
           sub'.ydoc = sub.ydoc \cup {e}, OwesServer(sub)'
    PROVE  Maps
<1>1. ServerDoc' \cap Ins = ServerDoc \cap Ins
  BY ServerSame
<1>2. e \in Ins
  BY DEF Ins
<1>3. sub'.ydoc \cap Ins = (sub.ydoc \cap Ins) \cup {e} /\ e \notin sub.ydoc \cap Ins
  BY <1>2
<1>4. (~OwesServer(sub))' = FALSE
  OBVIOUS
<1>5. Promise!Write
  BY <1>1, <1>3, <1>4 DEF Promise!Write
<1> QED BY <1>5 DEF Maps, Promise!LogNext

LEMMA MapsCrash ==
    ASSUME log' = log, snap' = snap, sub'.ydoc \subseteq sub.ydoc, OwesServer(sub)'
    PROVE  Maps
<1>1. ServerDoc' \cap Ins = ServerDoc \cap Ins
  BY ServerSame
<1>2. sub'.ydoc \cap Ins \in SUBSET (sub.ydoc \cap Ins)
  OBVIOUS
<1>3. (~OwesServer(sub))' = FALSE
  OBVIOUS
<1>4. Promise!Crash
  BY <1>1, <1>2, <1>3 DEF Promise!Crash
<1> QED BY <1>4 DEF Maps, Promise!LogNext

\* Somebody else writes: of a deletion the promise knows nothing.
LEMMA MapsOthers ==
    ASSUME sub' = sub, unacked' = unacked, NEW e \in Peer, ServerDoc' = ServerDoc \cup {e}
    PROVE  Maps
<1>1. sub'.ydoc \cap Ins = sub.ydoc \cap Ins /\ (~OwesServer(sub))' = (~OwesServer(sub))
  BY DEF OwesServer
<1>2. CASE e \in PeerIns
  <2>1. ServerDoc' \cap Ins = (ServerDoc \cap Ins) \cup {e}
    BY <1>2 DEF Ins
  <2>2. Promise!OthersWrite
    BY <1>1, <1>2, <2>1 DEF Promise!OthersWrite
  <2> QED BY <2>2 DEF Maps, Promise!LogNext
<1>3. CASE e \notin PeerIns
  <2>1. e \notin Ins
    BY <1>3, EditsAssumption DEF Peer, Ins, Del, Local
  <2>2. ServerDoc' \cap Ins = ServerDoc \cap Ins
    BY <2>1
  <2> QED BY <1>1, <2>2 DEF Maps, Promise!logVars
<1> QED BY <1>2, <1>3

(***************************************************************************)
(* The actions, each a step of the promise.                                *)
(***************************************************************************)
Sound == TypeOK /\ HoleInv /\ LedgerInv

LEMMA PeerUpdateMaps == ASSUME Sound, PeerUpdate PROVE Maps
<1> PICK e \in Peer : log' = Append(log, {e})
  BY DEF PeerUpdate
<1>1. UNCHANGED <<snap, sub, unacked>>
  BY DEF PeerUpdate
<1>2. {e} \in Payload
  BY DEF Payload, Peer, Edits, Ins, Del
<1>3. ServerDoc' = ServerDoc \cup {e}
  BY <1>1, <1>2, ServerLogged DEF Sound
<1> QED BY <1>1, <1>3, MapsOthers

LEMMA AskedInside ==
    ASSUME NEW s \in DocSubscription, s.ydoc = sub.ydoc,
           DoSendSubscribe(s) \/ (sub' = s /\ UNCHANGED <<log, snap>>)
    PROVE  Inside
BY DEF DoSendSubscribe, ServerSubscribe, DocSubscription, Inside

LEMMA OpenedInside == ASSUME Sound, Opened PROVE Inside
<1> DEFINE s == [sub EXCEPT !.synced = FALSE]
<1>1. s \in DocSubscription /\ s.ydoc = sub.ydoc
  BY DEF Sound, TypeOK, DocSubscription
<1>2. DoSendSubscribe(s) \/ (sub' = s /\ UNCHANGED <<log, snap>>)
  BY DEF Opened, serverVars
<1> HIDE DEF s
<1> QED BY <1>1, <1>2, AskedInside

LEMMA SeqLoadedInside == ASSUME Sound, SeqLoaded PROVE Inside
<1> DEFINE n == Larger(sub.lastSeq, LoadSeqCheckpoint(sub.ydoc))
           s == [sub EXCEPT !.seqReady = TRUE, !.lastSeq = n]
<1>1. n \in Nat
  BY LoadedPosition DEF Sound
<1>2. DoSendSubscribe(s) \/ (sub' = s /\ UNCHANGED <<log, snap>>)
  BY DEF SeqLoaded, serverVars
<1> HIDE DEF n
<1>3. s \in DocSubscription /\ s.ydoc = sub.ydoc
  BY <1>1 DEF Sound, TypeOK, DocSubscription
<1> HIDE DEF s
<1> QED BY <1>2, <1>3, AskedInside

LEMMA LifeInside ==
    ASSUME Sound, Persist \/ SeqSaveFires \/ Closed \/ RequestCompaction PROVE Inside
<1>1. CASE Persist \/ SeqSaveFires \/ RequestCompaction
  BY <1>1 DEF Persist, SeqSaveFires, RequestCompaction, Sound, TypeOK, DocSubscription,
              serverVars, Inside
<1>2. CASE Closed
  BY <1>2 DEF Closed, ClosedSubscription, Sound, TypeOK, DocSubscription, Inside
<1> QED BY <1>1, <1>2

LEMMA RestartMaps == ASSUME Sound, Restart PROVE Maps
<1>1. UNCHANGED <<log, snap>> /\ sub' = FreshSubscription(idb)
  BY DEF Restart
<1>2. sub'.ydoc = idb /\ ~sub'.synced
  BY <1>1 DEF FreshSubscription
<1>3. idb \subseteq sub.ydoc
  BY DEF Sound, LedgerInv, OnDisk
<1>4. OwesServer(sub)'
  BY <1>2 DEF OwesServer
<1> QED BY <1>1, <1>2, <1>3, <1>4, MapsCrash

LEMMA LocalEditMaps == ASSUME Sound, LocalEdit PROVE Maps
<1> PICK e \in Local \ made :
        LET s == [sub EXCEPT !.ydoc = @ \cup {e}, !.pending = @ \cup {e},
                             !.hasUnsentWork = TRUE]
        IN  \/ sub' = s
            \/ sub' = [s EXCEPT !.flushing = TRUE,
                                !.deltaRetryTimer = @ \/ s.oversizedPush]
  BY DEF LocalEdit
<1>1. sub'.ydoc = sub.ydoc \cup {e} /\ sub'.hasUnsentWork
  BY DEF Sound, TypeOK, DocSubscription
<1>2. UNCHANGED <<log, snap>>
  BY DEF LocalEdit, serverVars
<1>3. OwesServer(sub)'
  BY <1>1 DEF OwesServer
<1>4. CASE e \in LocalIns /\ e \notin sub.ydoc
  BY <1>1, <1>2, <1>3, <1>4, MapsWrite
\* Of a deletion the promise knows nothing, but that the note is not settled.
<1>5. CASE e \notin LocalIns \/ e \in sub.ydoc
  <2>1. e \in Ins => e \in sub.ydoc
    BY <1>5, EditsAssumption DEF Local, Peer, Ins, Del
  <2>2. sub'.ydoc \cap Ins = sub.ydoc \cap Ins
    BY <1>1, <2>1
  <2>3. ServerDoc' \cap Ins = ServerDoc \cap Ins
    BY <1>2, ServerSame
  <2>4. (~OwesServer(sub))' = FALSE
    BY <1>3
  <2>5. Promise!Doubt
    BY <2>2, <2>3, <2>4 DEF Promise!Doubt
  <2> QED BY <2>5 DEF Maps, Promise!LogNext
<1> QED BY <1>4, <1>5

\* A push: the service has it, or it was dropped and nothing moved.
LEMMA PushedMaps ==
    ASSUME Sound, Kept', NEW p \in Payload, p \subseteq sub.ydoc, ServerPush(p),
           sub'.ydoc = sub.ydoc, (~OwesServer(sub))' => ~OwesServer(sub)
    PROVE  Maps
<1>1. CASE UNCHANGED <<log, snap>>
  BY <1>1, MapsInside DEF Inside
<1>2. CASE log' = Append(log, p) /\ snap' = snap
  <2>1. ServerDoc' = ServerDoc \cup p
    BY <1>2, ServerLogged DEF Sound
  <2> QED BY <2>1, MapsPublish
<1> QED BY <1>1, <1>2 DEF ServerPush

LEMMA FlushStartsInside == ASSUME Sound, FlushStarts PROVE Inside
<1>1. /\ NextBatch(sub) /\ chain # <<>> /\ UNCHANGED <<log, snap>>
  BY DEF FlushStarts, Running, serverVars
<1>2. sub'.ydoc = sub.ydoc
  BY <1>1, NextBatchKeeps DEF Sound, TypeOK, HoleInv, OwnWorkHeld, SameReading
<1> QED BY <1>1, <1>2 DEF Inside

LEMMA FlushFailsInside == ASSUME Sound, FlushFails PROVE Inside
<1>1. sub' = FailedFlush(sub) /\ UNCHANGED <<log, snap>>
  BY DEF FlushFails, serverVars
<1>2. sub'.ydoc = sub.ydoc
  BY <1>1, HelpersKeepReading DEF Sound, TypeOK, SameReading
<1> QED BY <1>1, <1>2 DEF Inside

LEMMA FlushEncryptedMaps == ASSUME Sound, Kept', FlushEncrypted PROVE Maps
<1>1. chain # <<>> /\ sub \in DocSubscription /\ unacked \in Nat
  BY DEF FlushEncrypted, Running, Sound, TypeOK
<1>2. batch \in Payload /\ batch \subseteq sub.ydoc /\ sub.pending \subseteq sub.ydoc
  BY WorkNow DEF Sound
<1>3. CASE ~open
  <2>1. sub' = PutBack(sub) /\ UNCHANGED <<log, snap>>
    BY <1>3 DEF FlushEncrypted, serverVars
  <2>2. sub'.ydoc = sub.ydoc
    BY <1>1, <2>1, HelpersKeepReading DEF SameReading
  <2> QED BY <2>1, <2>2, MapsInside DEF Inside
<1>4. CASE open /\ FlushTooLarge(batch)
  <2>1. NextBatch(Held(sub)) /\ UNCHANGED <<log, snap>>
    BY <1>4 DEF FlushEncrypted, serverVars
  <2>2. /\ Held(sub) \in DocSubscription /\ Held(sub).ydoc = sub.ydoc
        /\ Held(sub).pending = sub.pending
    BY <1>1, HeldType, HelpersKeepReading DEF SameReading
  <2>3. sub'.ydoc = sub.ydoc
    BY <1>1, <1>2, <2>1, <2>2, NextBatchKeeps DEF Sound, SameReading
  <2> QED BY <2>1, <2>3, MapsInside DEF Inside
<1>5. CASE open /\ ~FlushTooLarge(batch)
  <2>1. ServerPush(batch) /\ unacked' = unacked + 1 /\ NextBatch(sub)
    BY <1>5 DEF FlushEncrypted
  <2>2. sub'.ydoc = sub.ydoc
    BY <1>1, <1>2, <2>1, NextBatchKeeps DEF Sound, SameReading
  <2>3. OwesServer(sub)'
    BY <1>1, <2>1 DEF OwesServer
  <2> QED BY <1>2, <2>1, <2>2, <2>3, PushedMaps
<1> QED BY <1>3, <1>4, <1>5

LEMMA DeltaSentInside == ASSUME Sound, Reconcile \/ RetryDelta PROVE Inside
<1>1. UNCHANGED <<log, snap>>
  BY DEF Reconcile, RetryDelta, serverVars
<1>2. /\ sub \in DocSubscription /\ sub.pending \subseteq sub.ydoc
      /\ DeltasWithin(deltas, sub.ydoc)
  BY WorkNow DEF Sound
<1>3. CASE Reconcile
  <2> DEFINE s == [sub EXCEPT !.reconciling = FALSE]
             t == [s EXCEPT !.catchUp = {}, !.serverSV = ServerStateVector(s)]
  <2>1. s \in DocSubscription /\ s.ydoc = sub.ydoc /\ s.pending = sub.pending
    BY <1>2 DEF DocSubscription
  <2>2. sub' = s \/ SendDelta(t, ServerStateVector(s))
    BY <1>3 DEF Reconcile
  <2>3. t \in DocSubscription /\ t.ydoc = s.ydoc /\ t.pending = s.pending
    <3>1. ServerStateVector(s) \in Payload
      BY <2>1 DEF ServerStateVector, StateVector, DocSubscription, Payload
    <3> HIDE DEF s
    <3> QED BY <2>1, <3>1 DEF DocSubscription, Payload
  <2> HIDE DEF s, t
  <2>4. sub'.ydoc = sub.ydoc
    BY <1>2, <2>1, <2>2, <2>3, SendDeltaKeeps DEF Sound, SameReading
  <2> QED BY <1>1, <2>4 DEF Inside
<1>4. CASE RetryDelta
  <2>1. sub'.ydoc = sub.ydoc
    BY <1>2, <1>4, SendDeltaKeeps DEF RetryDelta, Sound, SameReading
  <2> QED BY <1>1, <2>1 DEF Inside
<1> QED BY <1>3, <1>4

LEMMA TakenBackInside ==
    ASSUME NEW d, NEW s \in DocSubscription, s.ydoc = sub.ydoc, TakeBack(d, s),
           UNCHANGED <<log, snap>>
    PROVE  Inside
BY TakeBackKeeps DEF SameReading, Inside

LEMMA DeltaFailsInside == ASSUME Sound, DeltaFails PROVE Inside
<1>1. UNCHANGED <<log, snap>>
  BY DEF DeltaFails, serverVars
<1>2. PICK d : TakeBack(d, ScheduleDeltaRetry(sub))
  BY DEF DeltaFails
<1>3. sub \in DocSubscription
  BY DEF Sound, TypeOK
<1>4. ScheduleDeltaRetry(sub) \in DocSubscription /\ ScheduleDeltaRetry(sub).ydoc = sub.ydoc
  BY <1>3 DEF ScheduleDeltaRetry, DocSubscription
<1> QED BY <1>1, <1>2, <1>4, TakenBackInside

LEMMA DeltaRetryFiresInside == ASSUME Sound, DeltaRetryFires PROVE Inside
BY DEF DeltaRetryFires, Sound, TypeOK, DocSubscription, serverVars, Inside

LEMMA DeltaEncryptedMaps == ASSUME Sound, Kept', DeltaEncrypted PROVE Maps
<1> PICK i \in 1..Len(deltas) :
        LET d == deltas[i] IN
        CASE ~open ->
               /\ TakeBack(d, sub)
               /\ UNCHANGED <<serverVars, net, faults>>
          [] open /\ DeltaTooLarge(d.payload) ->
               /\ TakeBack(d, Held(sub))
               /\ UNCHANGED <<serverVars, net, faults>>
          [] open /\ ~DeltaTooLarge(d.payload) ->
               /\ ServerPush(d.payload)
               /\ unacked' = IF d.live THEN unacked ELSE unacked + 1
               /\ sub' = [sub EXCEPT !.oversizedPush = @ /\ ~ClearsHold(d)]
  BY DEF DeltaEncrypted
<1> DEFINE d == deltas[i]
<1>1. sub \in DocSubscription /\ unacked \in Nat
  BY DEF Sound, TypeOK
<1>2. d.payload \in Payload /\ d.payload \subseteq sub.ydoc
  <2>1. d \in Delta
    BY ElementOfSeq DEF Sound, TypeOK
  <2>2. d.payload \subseteq sub.ydoc
    BY DEF Sound, HoleInv, OwnWorkHeld
  <2> QED BY <2>1, <2>2 DEF Delta
<1>3. CASE ~open
  BY <1>1, <1>3, TakenBackInside, MapsInside DEF serverVars
<1>4. CASE open /\ DeltaTooLarge(d.payload)
  <2>1. Held(sub) \in DocSubscription /\ Held(sub).ydoc = sub.ydoc
    BY <1>1, HeldType, HelpersKeepReading DEF SameReading
  <2> QED BY <1>4, <2>1, TakenBackInside, MapsInside DEF serverVars
<1>5. CASE open /\ ~DeltaTooLarge(d.payload)
  <2>1. /\ ServerPush(d.payload)
        /\ unacked' = IF d.live THEN unacked ELSE unacked + 1
        /\ sub' = [sub EXCEPT !.oversizedPush = @ /\ ~ClearsHold(d)]
    BY <1>5
  <2> HIDE DEF d
  <2>2. unacked > 0 => unacked' > 0
    BY <1>1, <2>1
  <2>3. /\ sub'.ydoc = sub.ydoc /\ sub'.synced = sub.synced /\ sub'.pending = sub.pending
        /\ sub'.flushing = sub.flushing /\ sub'.hasUnsentWork = sub.hasUnsentWork
        /\ sub'.reconciling = sub.reconciling /\ sub'.owesReconcile = sub.owesReconcile
    BY <1>1, <2>1 DEF DocSubscription
  <2>4. OwesServer(sub) => OwesServer(sub)'
    BY <2>2, <2>3 DEF OwesServer
  <2> QED BY <1>2, <2>1, <2>3, <2>4, PushedMaps
<1> QED BY <1>3, <1>4, <1>5

LEMMA SnapshotMaps ==
    ASSUME Sound, Sound', Kept', SnapshotEncrypted \/ SnapshotFails PROVE Maps
<1>1. UNCHANGED <<log, sub, unacked>>
  BY DEF SnapshotEncrypted, SnapshotFails, serverVars
<1>2. CASE snap' = snap
  BY <1>1, <1>2, MapsInside DEF Inside
<1>3. CASE snap' # snap
  <2>1. /\ Running("snapshot") /\ Head(chain).seq > snap.seq
        /\ snap' = [seq |-> Head(chain).seq, content |-> Head(chain).payload]
    BY <1>3 DEF SnapshotEncrypted, SnapshotFails, serverVars, ServerPutSnapshot, ClaimedSeq
  <2>2. ServerDoc \cap Ins \subseteq ServerDoc' /\ snap'.content \subseteq sub.ydoc
    BY <1>1, <2>1, NothingReplaced DEF Sound
  <2>3. ServerDoc' \cap Ins \subseteq ServerDoc \cup sub.ydoc
    <3>1. ServerDoc' \subseteq snap'.content \cup Logged'
      BY ServedOrLoggedNext DEF Sound
    <3>2. Logged' = Logged /\ Logged \cap Ins \subseteq ServerDoc
      BY <1>1, LoggedIsServed DEF Sound, Logged
    <3> QED BY <2>2, <3>1, <3>2
  <2>4. (~OwesServer(sub))' => ~OwesServer(sub)
    BY <1>1 DEF OwesServer
  <2> QED BY <1>1, <2>2, <2>3, <2>4, MapsPublish
<1> QED BY <1>2, <1>3

LEMMA ReceivePayloadMaps == ASSUME Sound, ReceivePayload PROVE Maps
<1> DEFINE f == Head(recv)
           applied == [sub EXCEPT !.ydoc = @ \cup f.payload,
                                  !.catchUp = IF f.k = "snapshot" \/ ~sub.synced
                                              THEN @ \cup f.payload ELSE @]
<1>1. /\ recv # <<>> /\ recv' = Tail(recv) /\ UNCHANGED <<log, snap, net, unacked>>
      /\ sub' = Advance(applied, f.seq)
  BY DEF ReceivePayload, Receiving, serverVars, wireVars
<1>2. f \in Frame /\ f.seq \in Nat /\ f.payload \in Payload
  BY <1>1, HeadCovered DEF Sound, Frame
<1>3. Coming # <<>> /\ Coming[1] = f /\ 1 \in 1..Len(Coming)
  <2>1. Coming \in Seq(Frame) /\ Coming # <<>> /\ Head(Coming) = f
    BY <1>1, ComingTaken, ComingType DEF Sound, TypeOK
  <2> QED BY <2>1, HeadTailProperties, EmptySeq
<1> HIDE DEF f
<1>4. /\ applied \in DocSubscription
      /\ applied.ydoc = sub.ydoc \cup f.payload /\ applied.pending = sub.pending
      /\ applied.synced = sub.synced /\ applied.hasUnsentWork = sub.hasUnsentWork
      /\ applied.reconciling = sub.reconciling /\ applied.owesReconcile = sub.owesReconcile
      /\ applied.flushing = sub.flushing
  BY <1>2 DEF Sound, TypeOK, DocSubscription, Payload
<1> HIDE DEF applied
<1>5. /\ sub'.ydoc = sub.ydoc \cup f.payload /\ sub'.pending = sub.pending
      /\ sub'.synced = sub.synced /\ sub'.hasUnsentWork = sub.hasUnsentWork
      /\ sub'.reconciling = sub.reconciling /\ sub'.owesReconcile = sub.owesReconcile
      /\ sub'.flushing = sub.flushing
  BY <1>1, <1>2, <1>4, AdvanceMoves, AdvanceBooks
<1>6. OwesServer(sub) => OwesServer(sub)'
  BY <1>1, <1>5 DEF OwesServer
\* What is read, the server has.
<1>7. f.payload \cap Ins \subseteq ServerDoc
  BY <1>3 DEF Sound, LedgerInv, FramesKept
<1> QED BY <1>1, <1>5, <1>6, <1>7, MapsFetch

\* Nothing else that arrives or is read has a part for the document.
LEMMA OtherReadInside ==
    ASSUME Sound,
           Deliver \/ DecryptFails \/ ReceiveAck \/ CompleteSync \/ HandleCompactRequest
    PROVE  Inside
<1>1. UNCHANGED <<log, snap>>
  BY DEF Deliver, DecryptFails, ReceiveAck, CompleteSync, HandleCompactRequest, serverVars
<1>2. sub \in DocSubscription /\ (recv # <<>> => Head(recv).seq \in Nat)
  BY HeadCovered DEF Sound, TypeOK, Frame
<1>3. CASE Deliver \/ DecryptFails \/ HandleCompactRequest
  BY <1>1, <1>2, <1>3
     DEF Deliver, DecryptFails, HandleCompactRequest, DocSubscription, Inside
<1>4. CASE ReceiveAck
  <2> DEFINE s == IF AckAdvances(sub) THEN Advance(sub, Head(recv).seq) ELSE sub
  <2>1. s \in DocSubscription /\ s.ydoc = sub.ydoc
    BY <1>2, <1>4, AdvanceType, AdvanceMoves DEF ReceiveAck, Receiving
  <2>2. sub' = s \/ sub' = SettleAck(s)
    BY <1>4 DEF ReceiveAck
  <2> HIDE DEF s
  <2>3. sub'.ydoc = sub.ydoc
    BY <2>1, <2>2, HelpersKeepReading DEF SameReading
  <2> QED BY <1>1, <2>3 DEF Inside
<1>5. CASE CompleteSync
  <2> DEFINE a == Advance(sub, Head(recv).seq)
             s == [a EXCEPT !.synced = TRUE]
  <2>1. a \in DocSubscription /\ a.ydoc = sub.ydoc
    BY <1>2, <1>5, AdvanceType, AdvanceMoves DEF CompleteSync, Receiving
  <2>2. sub' = [s EXCEPT !.reconciling = TRUE] \/ sub' = [s EXCEPT !.catchUp = {}]
    BY <1>5 DEF CompleteSync
  <2> HIDE DEF a
  <2>3. sub'.ydoc = sub.ydoc
    BY <2>1, <2>2 DEF DocSubscription
  <2> QED BY <1>1, <2>3 DEF Inside
<1> QED BY <1>3, <1>4, <1>5

(***************************************************************************)
(* The specification.                                                      *)
(***************************************************************************)
LEMMA NextMaps == ASSUME Sound, Sound', Kept', [Next]_vars PROVE Maps
<1>1. CASE UNCHANGED vars
  BY <1>1, MapsInside DEF vars, Inside
<1>2. CASE PeerUpdate \/ LocalEdit \/ Restart \/ ReceivePayload
  BY <1>2, PeerUpdateMaps, LocalEditMaps, RestartMaps, ReceivePayloadMaps
<1>3. CASE FlushEncrypted \/ DeltaEncrypted \/ SnapshotEncrypted \/ SnapshotFails
  BY <1>3, FlushEncryptedMaps, DeltaEncryptedMaps, SnapshotMaps
<1>4. CASE Opened \/ SeqLoaded \/ Persist \/ SeqSaveFires \/ Closed \/ RequestCompaction
  BY <1>4, OpenedInside, SeqLoadedInside, LifeInside, MapsInside
<1>5. CASE FlushStarts \/ FlushFails \/ Reconcile \/ RetryDelta \/ DeltaRetryFires \/ DeltaFails
  BY <1>5, FlushStartsInside, FlushFailsInside, DeltaSentInside, DeltaRetryFiresInside,
     DeltaFailsInside, MapsInside
<1>6. CASE Deliver \/ DecryptFails \/ ReceiveAck \/ CompleteSync \/ HandleCompactRequest
  BY <1>6, OtherReadInside, MapsInside
<1> QED BY <1>1, <1>2, <1>3, <1>4, <1>5, <1>6
        DEF Next, Server, Life, Sending, Receive, Failure

LEMMA InitMaps == Init => Promise!LogInit
<1> SUFFICES ASSUME Init PROVE Promise!LogInit
  OBVIOUS
<1>1. sub.ydoc = {} /\ ~sub.synced
  BY DEF Init, FreshSubscription
<1>2. ServerDoc = {}
  BY DEF Init, ServerDoc
<1>3. (~OwesServer(sub)) = FALSE
  BY <1>1 DEF OwesServer
<1> QED BY <1>1, <1>2, <1>3 DEF Promise!LogInit

\* The provider implements the promise of a shared document, whatever closes,
\* refusals, failures and crashes there are: the service never loses an edit of
\* the note, the device takes over only what the service keeps, and the note is
\* settled only when the service has all that was written here (applyUpdate,
\* PutSnapshot, owesServer).  It is said of the runs of the provider in which
\* none of FlawKinds ever happens.
THEOREM PromiseKept == Spec /\ [](flaws = {}) => KeepsPromise
<1>1. TypeOK /\ BooksRight /\ flaws = {} => Sound /\ Kept
  BY EditsStand DEF Sound, BooksRight, Kept
<1>2. Init => Promise!LogInit
  BY InitMaps
<1>3. /\ TypeOK /\ BooksRight /\ flaws = {}
      /\ (TypeOK /\ BooksRight /\ flaws = {})' /\ [Next]_vars
      => Maps
  <2>1. (TypeOK /\ BooksRight /\ flaws = {})' => Sound' /\ Kept'
    BY <1>1, PTL
  <2> QED BY <1>1, <2>1, NextMaps
<1> QED BY <1>2, <1>3, LedgerInvariant, PTL DEF Spec, KeepsPromise, Promise!LogSpec, Maps
=============================================================================
