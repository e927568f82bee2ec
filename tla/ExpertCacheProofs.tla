------------------------- MODULE ExpertCacheProofs -------------------------
(***************************************************************************)
(* ExpertCache, for any number of layers, experts, banks, slots and        *)
(* batches.  First, the slot map is true: IInv is inductive, and           *)
(* ResidencyIsTrue is one of its conjuncts.  Then, relative to IInv, the   *)
(* two streams never touch the same bytes at once and every GEMM reads its *)
(* experts: OrderInv and BytesInv are inductive.                           *)
(***************************************************************************)
EXTENDS ExpertOrderInvariant, SequenceTheorems, TLAPS

LEMMA Constants ==
    /\ NumLayers \in Nat \ {0} /\ NumExperts \in Nat \ {0}
    /\ Sizes \subseteq Nat
  BY ExpertCacheAssumption

LEMMA NoneFacts == None \notin Nat /\ None \notin Ids
  BY ExpertCacheAssumption

USE Constants DEF Layers, Experts

-----------------------------------------------------------------------------
(* Sizes and halves.                                                       *)

LEMMA HalfType == \A l \in Layers : Half(l) \in Halves
  BY DEF Half, Halves

LEMMA RowFacts ==
    \A e \in Experts : Row(0, e) = e /\ Row(1, e) = NumExperts + e
  BY DEF Row

(* The rows of a half are slots below Volatile, one for each expert.       *)
LEMMA BufferFacts ==
    ASSUME NEW b \in Halves
    PROVE  /\ BufferSlots(b) \subseteq 0 .. Volatile - 1
           /\ \A e \in Experts : Row(b, e) \in BufferSlots(b) /\ Row(b, e) - Row(b, 0) = e
  BY RowFacts DEF BufferSlots, Halves, Volatile

LEMMA FrontFacts == BufferSlots(0) = Experts
  BY RowFacts DEF BufferSlots

(* With TypeOK, slot numbers are naturals, the first NumExperts are slots, *)
(* and so are both halves if they are in use.                              *)
LEMMA SlotFacts ==
    ASSUME TypeOK
    PROVE  /\ Slots \subseteq Nat /\ None \notin Slots
           /\ Experts \subseteq Slots
           /\ overlap => \A b \in Halves : BufferSlots(b) \subseteq Slots
<1>1. PICK n \in Sizes : Slots = 0 .. n - 1 /\ n >= NumExperts /\ (overlap => n >= Volatile)
  BY DEF TypeOK
<1>2. n \in Nat
  OBVIOUS
<1>3. overlap => \A b \in Halves : BufferSlots(b) \subseteq Slots
  BY <1>1, <1>2, BufferFacts DEF Volatile
<1> QED
  BY <1>1, <1>2, <1>3, NoneFacts

-----------------------------------------------------------------------------
(* Queues.                                                                 *)

LEMMA TailFacts ==
    ASSUME NEW S, NEW s \in Seq(S), s # << >>
    PROVE  /\ Len(s) \in Nat \ {0} /\ DOMAIN s = 1 .. Len(s) /\ Head(s) = s[1]
           /\ Head(s) \in S
           /\ Tail(s) \in Seq(S) /\ DOMAIN Tail(s) = 1 .. Len(s) - 1
           /\ \A i \in 1 .. Len(s) - 1 : Tail(s)[i] = s[i + 1]
  BY HeadTailProperties, LenProperties, ElementOfSeq

(* d is s with the operations of t behind it.                              *)
Behind(s, t, d) ==
    /\ d \in Seq(Ops)
    /\ \A i \in DOMAIN s : i \in DOMAIN d /\ d[i] = s[i]
    /\ \A k \in DOMAIN t : \E i \in DOMAIN d : d[i] = t[k] /\ \A j \in DOMAIN s : j < i
    /\ \A i \in DOMAIN d :
         \/ i \in DOMAIN s
         \/ (\A j \in DOMAIN s : j < i) /\ \E k \in DOMAIN t : d[i] = t[k]

LEMMA AddedAtEnd ==
    ASSUME NEW s \in Seq(Ops), NEW t \in Seq(Ops)
    PROVE  Behind(s, t, s \o t)
<1> DEFINE d == s \o t
<1>1. /\ d \in Seq(Ops) /\ Len(s) \in Nat /\ Len(t) \in Nat
      /\ DOMAIN s = 1 .. Len(s) /\ DOMAIN t = 1 .. Len(t)
      /\ DOMAIN d = 1 .. Len(s) + Len(t)
  BY ConcatProperties, LenProperties
<1>2. \A i \in 1 .. Len(s) + Len(t) : d[i] = IF i <= Len(s) THEN s[i] ELSE t[i - Len(s)]
  BY ConcatProperties
<1> HIDE DEF d
<1>3. ASSUME NEW k \in DOMAIN t
      PROVE  \E i \in DOMAIN d : d[i] = t[k] /\ \A j \in DOMAIN s : j < i
  <2>1. Len(s) + k \in DOMAIN d /\ d[Len(s) + k] = t[k]
    BY <1>1, <1>2
  <2> QED
    BY <2>1, <1>1
<1>4. ASSUME NEW i \in DOMAIN d, i \notin DOMAIN s
      PROVE  (\A j \in DOMAIN s : j < i) /\ \E k \in DOMAIN t : d[i] = t[k]
  <2>1. i - Len(s) \in DOMAIN t /\ d[i] = t[i - Len(s)]
    BY <1>1, <1>2, <1>4
  <2> QED
    BY <2>1, <1>1, <1>4
<1> QED
  BY <1>1, <1>2, <1>3, <1>4 DEF Behind, d

LEMMA QueueFacts ==
    ASSUME TypeOK
    PROVE  /\ Compute \in Seq(Ops) /\ Copy \in Seq(Ops)
           /\ Len(Compute) \in Nat /\ DOMAIN Compute = 1 .. Len(Compute)
           /\ Len(Copy) \in Nat /\ DOMAIN Copy = 1 .. Len(Copy)
           /\ \A i \in DOMAIN Compute : Compute[i] \in Ops /\ Compute[i].batch \in Nat
           /\ \A c \in DOMAIN Copy : Copy[c] \in Ops /\ Copy[c].batch \in Nat
<1>1. Compute \in Seq(Ops) /\ Copy \in Seq(Ops)
  BY DEF TypeOK, Streams, Compute, Copy
<1>2. /\ Len(Compute) \in Nat /\ DOMAIN Compute = 1 .. Len(Compute)
      /\ Len(Copy) \in Nat /\ DOMAIN Copy = 1 .. Len(Copy)
  BY <1>1, LenProperties
<1>3. /\ \A i \in DOMAIN Compute : Compute[i] \in Ops
      /\ \A c \in DOMAIN Copy : Copy[c] \in Ops
  BY <1>1, <1>2, ElementOfSeq
<1>4. \A op \in Ops : op.batch \in Nat
  BY DEF Ops
<1> QED
  BY <1>1, <1>2, <1>3, <1>4

(* The compute stream runs its head: whatever was behind an operation is   *)
(* behind it still, and the copy stream has not moved.                     *)
LEMMA PopComputeKeeps ==
    ASSUME TypeOK, QueueInv, Compute # << >>, Pop("compute"),
           UNCHANGED <<batch, batches, overlap>>
    PROVE  /\ QueueInv'
           /\ \A l, n : Filling(l, n)' = Filling(l, n)
           /\ \A j \in DOMAIN Compute' :
                j \in Nat \ {0} /\ j + 1 \in DOMAIN Compute /\ Compute'[j] = Compute[j + 1]
<1>1. /\ Compute \in Seq(Ops) /\ Copy \in Seq(Ops)
      /\ Compute' = Tail(Compute) /\ Copy' = Copy
  BY DEF TypeOK, Streams, Pop, Compute, Copy
<1>2. /\ Len(Compute) \in Nat \ {0} /\ DOMAIN Compute = 1 .. Len(Compute)
      /\ DOMAIN Compute' = 1 .. Len(Compute) - 1
      /\ \A i \in 1 .. Len(Compute) - 1 : Compute'[i] = Compute[i + 1]
  BY <1>1, TailFacts
<1>3. \A i \in DOMAIN Compute' :
        i \in Nat /\ i > 0 /\ i + 1 \in DOMAIN Compute /\ Compute'[i] = Compute[i + 1]
  BY <1>2
<1>4. \A l, n : Filling(l, n)' = Filling(l, n)
  BY <1>1 DEF Filling
<1>5. \A c, n : WaitBefore(c, n)' = WaitBefore(c, n)
  BY <1>1 DEF WaitBefore
<1>6. ASSUME NEW i \in DOMAIN Compute', NEW n, RecordAfter(i + 1, n)
      PROVE  RecordAfter(i, n)'
  <2>1. PICK k \in DOMAIN Compute :
           k > i + 1 /\ Compute[k].kind = "record" /\ Compute[k].arg = Begin(n)
    BY <1>6 DEF RecordAfter
  <2>2. /\ k - 1 \in DOMAIN Compute' /\ k - 1 > i
        /\ Compute'[k - 1].kind = "record" /\ Compute'[k - 1].arg = Begin(n)
    BY <2>1, <1>2, <1>3
  <2>3. Begin(n)' = Begin(n)
    BY DEF Begin
  <2> QED
    BY <2>2, <2>3 DEF RecordAfter
<1>7. BatchesInOrder' /\ StreamsFit' /\ StreamsLoadNothing'
  BY <1>1, <1>3 DEF QueueInv, BatchesInOrder, StreamsFit, StreamsLoadNothing, Loading
<1>8. BatchFenced' /\ FillsFenced'
  BY <1>1, <1>3, <1>5, <1>6 DEF QueueInv, BatchFenced, FillsFenced, Loading, WaitQueued, Begin
<1>9. GathersAfterLoads'
  BY <1>3, <1>4 DEF QueueInv, GathersAfterLoads, Loading
<1> QED
  BY <1>3, <1>4, <1>7, <1>8, <1>9 DEF QueueInv

(* The copy stream runs its head.  A wait for the fence is over only when  *)
(* no load is in front of its record, so no fill outruns an earlier load.  *)
LEMMA PopCopyKeeps ==
    ASSUME TypeOK, QueueInv, Runnable("copy"), Pop("copy"),
           UNCHANGED <<batch, batches, overlap>>
    PROVE  /\ QueueInv' /\ Compute' = Compute
           /\ \A l, n :
                Filling(l, n) =>
                  \/ Filling(l, n)'
                  \/ Head(Copy).kind = "fill" /\ Head(Copy).arg.layer = l
<1>1. /\ Compute \in Seq(Ops) /\ Copy \in Seq(Ops) /\ Copy # << >>
      /\ Compute' = Compute /\ Copy' = Tail(Copy)
  BY DEF TypeOK, Streams, Pop, Runnable, Compute, Copy
<1>2. /\ Len(Copy) \in Nat \ {0} /\ DOMAIN Copy = 1 .. Len(Copy) /\ Head(Copy) = Copy[1]
      /\ DOMAIN Copy' = 1 .. Len(Copy) - 1 /\ Len(Copy') = Len(Copy) - 1
      /\ \A c \in 1 .. Len(Copy) - 1 : Copy'[c] = Copy[c + 1]
  BY <1>1, TailFacts, LenProperties
<1>3. \A c \in DOMAIN Copy' : c \in Nat /\ c + 1 \in DOMAIN Copy /\ Copy'[c] = Copy[c + 1]
  BY <1>2
<1>4. \A c \in DOMAIN Copy : c # 1 => c - 1 \in DOMAIN Copy' /\ Copy'[c - 1] = Copy[c]
  BY <1>2
<1>5. ASSUME NEW l, NEW n, Filling(l, n),
             ~ (Copy[1].kind = "fill" /\ Copy[1].arg.layer = l /\ Copy[1].batch = n)
      PROVE  Filling(l, n)'
  BY <1>4, <1>5 DEF Filling
<1>6. \A i, n : RecordAfter(i, n)' = RecordAfter(i, n)
  BY <1>1 DEF RecordAfter, Begin
<1>7. Other("copy") = "compute"
  BY DEF Other, Streams
<1>8. ASSUME NEW i, NEW n, RecordAfter(i, n),
             NEW c \in Int, WaitBefore(c + 1, n)
      PROVE  WaitBefore(c, n)'
  <2>1. Pending("compute", Begin(n))
    BY <1>8 DEF RecordAfter, Pending, Compute
  <2>2. PICK w \in DOMAIN Copy : w < c + 1 /\ Copy[w].kind = "wait" /\ Copy[w].arg = Begin(n)
    BY <1>8 DEF WaitBefore
  <2>3. w # 1
    BY <2>1, <2>2, <1>2, <1>7 DEF Runnable, Copy
  <2>4. w - 1 \in DOMAIN Copy' /\ w - 1 < c /\ Copy'[w - 1] = Copy[w]
    BY <2>2, <2>3, <1>2, <1>4
  <2>5. Begin(n)' = Begin(n)
    BY DEF Begin
  <2> QED
    BY <2>2, <2>4, <2>5 DEF WaitBefore
<1>9. BatchesInOrder' /\ StreamsFit' /\ StreamsLoadNothing'
  BY <1>1, <1>3 DEF QueueInv, BatchesInOrder, StreamsFit, StreamsLoadNothing, Loading
<1>10. ASSUME NEW i, NEW n, RecordAfter(i, n), WaitQueued(n)
       PROVE  WaitQueued(n)'
  <2>1. PICK w \in DOMAIN Copy : Copy[w].kind = "wait" /\ Copy[w].arg = Begin(n)
    BY <1>10 DEF WaitQueued
  <2>2. w \in Int /\ WaitBefore(w + 1, n)
    BY <1>2, <2>1 DEF WaitBefore
  <2>3. WaitBefore(w, n)'
    BY <1>8, <1>10, <2>2
  <2> QED
    BY <2>3 DEF WaitBefore, WaitQueued
<1>11. BatchFenced'
  <2> SUFFICES ASSUME NEW n, n = batches, batch.mode = "streaming",
                      NEW i \in DOMAIN Compute, Loading(Compute[i])
               PROVE  RecordAfter(i, n)' /\ WaitQueued(n)'
    BY <1>1 DEF BatchFenced, Loading
  <2>1. RecordAfter(i, n) /\ WaitQueued(n)
    BY DEF QueueInv, BatchFenced
  <2> QED
    BY <2>1, <1>6, <1>10
<1>12. FillsFenced'
  <2> SUFFICES ASSUME NEW c \in DOMAIN Copy', NEW i \in DOMAIN Compute,
                      NEW n, n = Copy'[c].batch,
                      Copy'[c].kind = "fill", Loading(Compute[i]), Compute[i].batch < n
               PROVE  RecordAfter(i, n)' /\ WaitBefore(c, n)'
    BY <1>1 DEF FillsFenced, Loading
  <2>1. RecordAfter(i, n) /\ WaitBefore(c + 1, n)
    BY <1>3 DEF QueueInv, FillsFenced
  <2> QED
    BY <2>1, <1>3, <1>6, <1>8
<1>13. GathersAfterLoads'
  <2> SUFFICES ASSUME NEW i \in DOMAIN Compute, NEW j \in DOMAIN Compute,
                      i < j, Loading(Compute[i]), Compute[j].kind = "gather",
                      NEW l, l = Compute[j].arg, NEW n, n = Compute[j].batch
               PROVE  Compute[i].batch < n /\ Filling(l, n)'
    BY <1>1 DEF GathersAfterLoads, Loading
  <2>1. Compute[i].batch < n /\ Filling(l, n)
    BY DEF QueueInv, GathersAfterLoads
  <2>2. ASSUME Copy[1].kind = "fill", Copy[1].batch = n
        PROVE  FALSE
    <3>1. WaitBefore(1, n)
      BY <2>1, <2>2, <1>2 DEF QueueInv, FillsFenced
    <3> QED
      BY <3>1, <1>2 DEF WaitBefore
  <2> QED
    BY <2>1, <2>2, <1>5
<1> QED
  BY <1>1, <1>2, <1>5, <1>9, <1>11, <1>12, <1>13 DEF QueueInv

-----------------------------------------------------------------------------
(* What the host appends, x to the compute stream and y to the copy stream.*)

Appends(x, y) ==
    /\ x \in Seq(Ops) /\ y \in Seq(Ops)
    /\ Compute' = Compute \o x /\ Copy' = Copy \o y

(* An operation that is queued stays where it is, new ones come behind.    *)
LEMMA AppendKeeps ==
    ASSUME TypeOK, NEW x, NEW y, Appends(x, y)
    PROVE  /\ \A l, n : Filling(l, n) => Filling(l, n)'
           /\ \A i, n : RecordAfter(i, n) => RecordAfter(i, n)'
           /\ \A c, n : WaitBefore(c, n) => WaitBefore(c, n)'
           /\ \A n : WaitQueued(n) => WaitQueued(n)'
           /\ \A i \in DOMAIN Compute' :
                \/ i \in DOMAIN Compute /\ Compute'[i] = Compute[i]
                \/ /\ \A j \in DOMAIN Compute : j < i
                   /\ \E k \in DOMAIN x : Compute'[i] = x[k]
           /\ \A c \in DOMAIN Copy' :
                \/ c \in DOMAIN Copy /\ Copy'[c] = Copy[c]
                \/ /\ \A w \in DOMAIN Copy : w < c
                   /\ \E k \in DOMAIN y : Copy'[c] = y[k]
<1>1. Behind(Compute, x, Compute') /\ Behind(Copy, y, Copy')
  BY QueueFacts, AddedAtEnd DEF Appends
<1>2. /\ \A i \in DOMAIN Compute : i \in DOMAIN Compute' /\ Compute'[i] = Compute[i]
      /\ \A i \in DOMAIN Compute' :
           \/ i \in DOMAIN Compute
           \/ /\ \A j \in DOMAIN Compute : j < i
              /\ \E k \in DOMAIN x : Compute'[i] = x[k]
  BY <1>1 DEF Behind
<1>3. /\ \A c \in DOMAIN Copy : c \in DOMAIN Copy' /\ Copy'[c] = Copy[c]
      /\ \A c \in DOMAIN Copy' :
           \/ c \in DOMAIN Copy
           \/ /\ \A w \in DOMAIN Copy : w < c
              /\ \E k \in DOMAIN y : Copy'[c] = y[k]
  BY <1>1 DEF Behind
<1>4. \A l, n : Filling(l, n) => Filling(l, n)'
  BY <1>3 DEF Filling
<1>5. \A i, n : RecordAfter(i, n) => RecordAfter(i, n)'
  BY <1>2 DEF RecordAfter, Begin
<1>6. \A c, n : WaitBefore(c, n) => WaitBefore(c, n)'
  BY <1>3 DEF WaitBefore, Begin
<1>7. \A n : WaitQueued(n) => WaitQueued(n)'
  BY <1>3 DEF WaitQueued, Begin
<1> QED
  BY <1>2, <1>3, <1>4, <1>5, <1>6, <1>7

(* Loads are appended only by a batch that does not stream.                *)
LEMMA LoadsKeep ==
    ASSUME TypeOK, QueueInv, NEW x, Appends(x, << >>),
           \A k \in DOMAIN x : x[k].batch = batches /\ x[k].kind # "gather",
           ~ (batch'.mode = "streaming" \/ (batch'.mode = "prefill" /\ overlap)),
           UNCHANGED <<batches, overlap>>
    PROVE  QueueInv'
<1>1. /\ \A i \in DOMAIN Compute' :
           \/ i \in DOMAIN Compute /\ Compute'[i] = Compute[i]
           \/ /\ i \in Int /\ \A j \in DOMAIN Compute : j < i
              /\ Compute'[i].batch = batches /\ Compute'[i].kind # "gather"
      /\ Copy' = Copy
  <2>1. Copy \in Seq(Ops) /\ Compute' \in Seq(Ops)
    BY QueueFacts, AddedAtEnd DEF Appends
  <2>2. Copy' = Copy
    BY <2>1, ConcatEmptySeq DEF Appends
  <2>3. \A i \in DOMAIN Compute' : i \in Int
    BY <2>1, LenProperties
  <2> QED
    BY <2>2, <2>3, AppendKeeps
<1>2. \A i \in DOMAIN Compute : i \in Nat
  BY QueueFacts
<1>3. batches \in Nat
  BY DEF TypeOK
<1>4. BatchesInOrder' /\ StreamsFit' /\ StreamsLoadNothing' /\ BatchFenced'
  BY <1>1, <1>3 DEF QueueInv, BatchesInOrder, StreamsFit, StreamsLoadNothing, BatchFenced
<1>5. FillsFenced'
  <2> SUFFICES ASSUME NEW c \in DOMAIN Copy, NEW i \in DOMAIN Compute', NEW n, n = Copy[c].batch,
                      Copy[c].kind = "fill", Loading(Compute'[i]), Compute'[i].batch < n
               PROVE  RecordAfter(i, n)' /\ WaitBefore(c, n)'
    BY <1>1 DEF FillsFenced, Loading
  <2>1. n <= batches
    BY DEF QueueInv, BatchesInOrder
  <2>2. n \in Nat
    BY QueueFacts
  <2>3. i \in DOMAIN Compute /\ Compute'[i] = Compute[i]
    BY <1>1, <1>3, <2>1, <2>2
  <2>4. RecordAfter(i, n) /\ WaitBefore(c, n)
    BY <2>3 DEF QueueInv, FillsFenced
  <2> QED
    BY <2>4, AppendKeeps
<1>6. GathersAfterLoads'
  <2> SUFFICES ASSUME NEW i \in DOMAIN Compute', NEW j \in DOMAIN Compute',
                      i < j, Loading(Compute'[i]), Compute'[j].kind = "gather",
                      NEW l, l = Compute'[j].arg, NEW n, n = Compute'[j].batch
               PROVE  Compute'[i].batch < n /\ Filling(l, n)'
    BY <1>1 DEF GathersAfterLoads, Loading
  <2>1. j \in DOMAIN Compute /\ Compute'[j] = Compute[j]
    BY <1>1
  <2>2. i \in DOMAIN Compute /\ Compute'[i] = Compute[i]
    BY <1>1, <1>2, <2>1
  <2>3. Compute[i].batch < n /\ Filling(l, n)
    BY <2>1, <2>2 DEF QueueInv, GathersAfterLoads
  <2> QED
    BY <2>2, <2>3, AppendKeeps
<1> QED
  BY <1>4, <1>5, <1>6 DEF QueueInv

(* What a streaming batch appends: no load, and with each gather the copy  *)
(* that completes its layer.                                               *)
StreamOps(x, y) ==
    /\ x \in Seq(Ops) /\ y \in Seq(Ops)
    /\ \A k \in DOMAIN x :
         /\ x[k].batch = batches /\ ~ Loading(x[k])
         /\ x[k].kind = "gather" =>
              \E c \in DOMAIN y :
                y[c].kind = "fill" /\ y[c].arg.layer = x[k].arg /\ y[c].batch = batches
    /\ \A c \in DOMAIN y : y[c].batch = batches

(* The fence itself: begin_prefill records behind all that is queued.      *)
FenceOps(x, y) ==
    /\ \E k \in DOMAIN x : x[k].kind = "record" /\ x[k].arg = Begin(batches)
    /\ \E c \in DOMAIN y : y[c].kind = "wait" /\ y[c].arg = Begin(batches)
    /\ \A c \in DOMAIN y : y[c].kind # "fill"

LEMMA StreamKeeps ==
    ASSUME TypeOK, QueueInv, NEW x, NEW y, Appends(x, y), StreamOps(x, y),
           \/ batch.mode = "streaming"
           \/ batch.mode = "prefill" /\ overlap /\ FenceOps(x, y),
           batch'.mode \in {"streaming", "idle"},
           UNCHANGED <<batches, overlap>>
    PROVE  QueueInv'
<1>1. Behind(Compute, x, Compute') /\ Behind(Copy, y, Copy')
  BY QueueFacts, AddedAtEnd DEF Appends
<1>2. \A i \in DOMAIN Compute' :
        /\ i \in Int
        /\ \/ i \in DOMAIN Compute /\ Compute'[i] = Compute[i]
           \/ /\ \A j \in DOMAIN Compute : j < i
              /\ Compute'[i].batch = batches /\ ~ Loading(Compute'[i])
  <2>1. \A i \in DOMAIN Compute' : i \in Int
    BY <1>1, LenProperties DEF Behind
  <2> QED
    BY <2>1, AppendKeeps DEF StreamOps
<1>3. \A c \in DOMAIN Copy' :
        \/ c \in DOMAIN Copy /\ Copy'[c] = Copy[c]
        \/ /\ \A w \in DOMAIN Copy : w < c
           /\ \E k \in DOMAIN y : Copy'[c] = y[k] /\ y[k].batch = batches
  BY AppendKeeps DEF StreamOps
<1>4. batches \in Nat
  BY DEF TypeOK
<1>5. \A i \in DOMAIN Compute : Loading(Compute[i]) => Compute[i].batch < batches
  BY DEF QueueInv, StreamsLoadNothing, FenceOps
<1>6. BatchesInOrder' /\ StreamsLoadNothing'
  BY <1>2, <1>3, <1>4, <1>5 DEF QueueInv, BatchesInOrder, StreamsLoadNothing, Loading
<1>7. StreamsFit'
  BY <1>3 DEF QueueInv, StreamsFit, FenceOps
<1>8. ASSUME NEW i \in DOMAIN Compute, Loading(Compute[i]), NEW n, n = batches
      PROVE  RecordAfter(i, n)' /\ WaitQueued(n)'
  <2>1. CASE batch.mode = "streaming"
    <3>1. RecordAfter(i, n) /\ WaitQueued(n)
      BY <1>8, <2>1 DEF QueueInv, BatchFenced
    <3> QED
      BY <3>1, AppendKeeps
  <2>2. CASE FenceOps(x, y)
    <3>1. /\ \E k \in DOMAIN x : x[k].kind = "record" /\ x[k].arg = Begin(n)
          /\ \E c \in DOMAIN y : y[c].kind = "wait" /\ y[c].arg = Begin(n)
      BY <2>2, <1>8 DEF FenceOps
    <3>2. /\ \E k \in DOMAIN Compute' :
               k > i /\ Compute'[k].kind = "record" /\ Compute'[k].arg = Begin(n)
          /\ \E w \in DOMAIN Copy' : Copy'[w].kind = "wait" /\ Copy'[w].arg = Begin(n)
      BY <3>1, <1>1, <1>2, QueueFacts DEF Behind
    <3>3. Begin(n)' = Begin(n)
      BY DEF Begin
    <3> QED
      BY <3>2, <3>3 DEF RecordAfter, WaitQueued
  <2> QED
    BY <2>1, <2>2
<1>9. BatchFenced'
  <2> SUFFICES ASSUME NEW i \in DOMAIN Compute', Loading(Compute'[i]), NEW n, n = batches
               PROVE  RecordAfter(i, n)' /\ WaitQueued(n)'
    BY DEF BatchFenced, Loading
  <2> QED
    BY <1>2, <1>8
<1>10. FillsFenced'
  <2> SUFFICES ASSUME NEW c \in DOMAIN Copy', NEW i \in DOMAIN Compute',
                      NEW n, n = Copy'[c].batch,
                      Copy'[c].kind = "fill", Loading(Compute'[i]), Compute'[i].batch < n
               PROVE  RecordAfter(i, n)' /\ WaitBefore(c, n)'
    BY DEF FillsFenced, Loading
  <2>1. i \in DOMAIN Compute /\ Compute'[i] = Compute[i]
    BY <1>2
  <2>2. CASE c \in DOMAIN Copy /\ Copy'[c] = Copy[c]
    <3>1. RecordAfter(i, n) /\ WaitBefore(c, n)
      BY <2>1, <2>2 DEF QueueInv, FillsFenced
    <3> QED
      BY <3>1, AppendKeeps
  <2>3. CASE /\ \A w \in DOMAIN Copy : w < c
             /\ \E k \in DOMAIN y : Copy'[c] = y[k] /\ y[k].batch = batches
    <3>1. batch.mode = "streaming" /\ n = batches
      BY <2>3 DEF FenceOps
    <3>2. RecordAfter(i, n) /\ WaitQueued(n)
      BY <2>1, <3>1 DEF QueueInv, BatchFenced
    <3>3. WaitBefore(c, n)
      BY <2>3, <3>2 DEF WaitQueued, WaitBefore
    <3> QED
      BY <3>2, <3>3, AppendKeeps
  <2> QED
    BY <1>3, <2>2, <2>3
<1>11. GathersAfterLoads'
  <2> SUFFICES ASSUME NEW i \in DOMAIN Compute', NEW j \in DOMAIN Compute',
                      i < j, Loading(Compute'[i]), Compute'[j].kind = "gather",
                      NEW l, l = Compute'[j].arg, NEW n, n = Compute'[j].batch
               PROVE  Compute'[i].batch < n /\ Filling(l, n)'
    BY DEF GathersAfterLoads, Loading
  <2>1. i \in DOMAIN Compute /\ Compute'[i] = Compute[i]
    BY <1>2
  <2>2. CASE j \in DOMAIN Compute /\ Compute'[j] = Compute[j]
    <3>1. Compute[i].batch < n /\ Filling(l, n)
      BY <2>1, <2>2 DEF QueueInv, GathersAfterLoads
    <3> QED
      BY <2>1, <3>1, AppendKeeps
  <2>3. CASE \E k \in DOMAIN x : Compute'[j] = x[k]
    <3>1. /\ n = batches
          /\ \E c \in DOMAIN y : y[c].kind = "fill" /\ y[c].arg.layer = l /\ y[c].batch = n
      BY <2>3 DEF StreamOps
    <3>2. Filling(l, n)'
      BY <3>1, <1>1 DEF Behind, Filling
    <3> QED
      BY <2>1, <3>1, <3>2, <1>5
  <2> QED
    BY <2>2, <2>3, AppendKeeps
<1> QED
  BY <1>6, <1>7, <1>9, <1>10, <1>11 DEF QueueInv

(* A gather the host appends is covered by the copy appended with it.      *)
LEMMA GathersKeep ==
    ASSUME TypeOK, GathersCovered, NEW x, NEW y, Appends(x, y), StreamOps(x, y),
           UNCHANGED <<idOfSlot, batches>>
    PROVE  GathersCovered'
<1>1. Behind(Copy, y, Copy')
  BY QueueFacts, AddedAtEnd DEF Appends
<1> SUFFICES ASSUME NEW j \in DOMAIN Compute', Compute'[j].kind = "gather",
                    NEW l, l = Compute'[j].arg, NEW n, n = Compute'[j].batch
             PROVE  \/ Filling(l, n)'
                    \/ \A s \in Slots : s \in BufferSlots(Half(l)) => idOfSlot[s] = None
  BY DEF GathersCovered, Slots, BufferSlots, Row, Half
<1>2. CASE j \in DOMAIN Compute /\ Compute'[j] = Compute[j]
  BY <1>2, AppendKeeps DEF GathersCovered
<1>3. CASE \E k \in DOMAIN x : Compute'[j] = x[k]
  <2>1. /\ n = batches
        /\ \E c \in DOMAIN y : y[c].kind = "fill" /\ y[c].arg.layer = l /\ y[c].batch = n
    BY <1>3 DEF StreamOps
  <2> QED
    BY <2>1, <1>1 DEF Behind, Filling
<1> QED
  BY <1>2, <1>3, AppendKeeps

-----------------------------------------------------------------------------
(* What prefetch_prefill_layer, wait_prefill_layer and                     *)
(* release_prefill_layer append.                                           *)

Add(q, x, y) == [s \in Streams |-> q[s] \o (IF s = "compute" THEN x ELSE y)]
PlainOp(op) == op.batch = batches /\ op.kind \in {"wait", "record", "fill", "layer_gemm"}
Plain(x) == \A k \in DOMAIN x : PlainOp(x[k])

LEMMA OpTypes ==
    ASSUME batches \in Nat
    PROVE  /\ \A e \in Events : Op("wait", e) \in Ops /\ Op("record", e) \in Ops
           /\ \A l \in Layers : Op("gather", l) \in Ops /\ Op("layer_gemm", l) \in Ops
           /\ \A l \in Layers : Fill(l) \in Ops
           /\ \A l \in Layers : Event("ready", l) \in Events /\ Event("release", l) \in Events
  BY DEF Op, Ops, Events, Event, Fill, Crossing

LEMMA ShortQueues ==
    /\ << >> \in Seq(Ops) /\ DOMAIN << >> = {}
    /\ \A a \in Ops : <<a>> \in Seq(Ops) /\ DOMAIN <<a>> = {1} /\ <<a>>[1] = a
    /\ \A a, b \in Ops : /\ <<a, b>> \in Seq(Ops) /\ DOMAIN <<a, b>> = {1, 2}
                        /\ <<a, b>>[1] = a /\ <<a, b>>[2] = b
<1>1. DOMAIN << >> = {}
  OBVIOUS
<1>2. \A a \in Ops : <<a>> \in Seq(Ops) /\ DOMAIN <<a>> = {1} /\ <<a>>[1] = a
  OBVIOUS
<1>3. \A a, b \in Ops : /\ <<a, b>> \in Seq(Ops) /\ DOMAIN <<a, b>> = {1, 2}
                       /\ <<a, b>>[1] = a /\ <<a, b>>[2] = b
  OBVIOUS
<1> QED
  BY <1>1, <1>2, <1>3

LEMMA WaitForType ==
    ASSUME batches \in Nat, NEW e \in Events \union {None}
    PROVE  WaitFor(e) \in Seq(Ops) /\ Plain(WaitFor(e))
<1>1. CASE e = None
  BY <1>1, ShortQueues DEF WaitFor, Plain
<1>2. CASE e # None
  <2> DEFINE op == Op("wait", e)
  <2>1. op \in Ops /\ PlainOp(op)
    BY <1>2, OpTypes DEF Op, PlainOp
  <2>2. WaitFor(e) = <<op>>
    BY <1>2 DEF WaitFor
  <2> HIDE DEF op
  <2>3. WaitFor(e) \in Seq(Ops) /\ DOMAIN WaitFor(e) = {1} /\ WaitFor(e)[1] = op
    BY <2>1, <2>2, ShortQueues
  <2> QED
    BY <2>1, <2>3 DEF Plain
<1> QED
  BY <1>1, <1>2

LEMMA PlainConcat ==
    ASSUME NEW x \in Seq(Ops), NEW y \in Seq(Ops), Plain(x), Plain(y)
    PROVE  x \o y \in Seq(Ops) /\ Plain(x \o y)
<1> DEFINE d == x \o y
<1>1. Behind(x, y, d)
  BY AddedAtEnd
<1> HIDE DEF d
<1>2. d \in Seq(Ops)
  BY <1>1 DEF Behind
<1>3. \A k \in DOMAIN d : (\E i \in DOMAIN x : d[k] = x[i]) \/ (\E i \in DOMAIN y : d[k] = y[i])
  BY <1>1 DEF Behind
<1>4. Plain(d)
  BY <1>3 DEF Plain
<1> QED
  BY <1>2, <1>4 DEF d

(* The copies of one layer.                                                *)
LEMMA PrefetchOps ==
    ASSUME batches \in Nat, splitting \in BOOLEAN, NEW l \in Layers,
           NEW e \in Events \union {None}
    PROVE  LET x == IF splitting THEN <<Op("gather", l)>> ELSE << >>
               y == WaitFor(e) \o <<Fill(l), Op("record", Event("ready", l))>>
           IN StreamOps(x, y)
<1> DEFINE g == Op("gather", l)
           f == Fill(l)
           r == Op("record", Event("ready", l))
           x == IF splitting THEN <<g>> ELSE << >>
           t == <<f, r>>
           y == WaitFor(e) \o t
<1>1. /\ g \in Ops /\ g.batch = batches /\ g.kind = "gather" /\ g.arg = l
      /\ f \in Ops /\ PlainOp(f) /\ f.kind = "fill" /\ f.arg.layer = l
      /\ r \in Ops /\ PlainOp(r)
  BY OpTypes DEF Op, Fill, PlainOp
<1> HIDE DEF g, f, r
<1>2. t \in Seq(Ops) /\ Plain(t) /\ 1 \in DOMAIN t /\ t[1] = f
  <2>1. t \in Seq(Ops) /\ DOMAIN t = {1, 2} /\ t[1] = f /\ t[2] = r
    BY <1>1, ShortQueues
  <2> QED
    BY <1>1, <2>1 DEF Plain
<1>3. x \in Seq(Ops) /\ \A k \in DOMAIN x : x[k] = g
  <2>1. CASE splitting
    BY <1>1, <2>1, ShortQueues
  <2>2. CASE ~ splitting
    BY <2>2, ShortQueues
  <2> QED
    BY <2>1, <2>2
<1> HIDE DEF x, t
<1>4. y \in Seq(Ops) /\ Plain(y) /\ Behind(WaitFor(e), t, y)
  BY <1>2, WaitForType, PlainConcat, AddedAtEnd
<1> HIDE DEF y
<1>5. \E c \in DOMAIN y : y[c] = f
  BY <1>2, <1>4 DEF Behind
<1>6. StreamOps(x, y)
  BY <1>1, <1>3, <1>4, <1>5 DEF StreamOps, Plain, PlainOp, Loading
<1> QED
  BY <1>6 DEF x, y, t, g, f, r

LEMMA StreamOpsConcat ==
    ASSUME NEW x, NEW y, StreamOps(x, y), NEW v, NEW w, StreamOps(v, w)
    PROVE  StreamOps(x \o v, y \o w)
<1>1. Behind(x, v, x \o v) /\ Behind(y, w, y \o w)
  BY AddedAtEnd DEF StreamOps
<1> DEFINE a == x \o v   b == y \o w
<1>2. Behind(x, v, a) /\ Behind(y, w, b)
  BY <1>1
<1> HIDE DEF a, b
<1>3. \A k \in DOMAIN a : (\E i \in DOMAIN x : a[k] = x[i]) \/ (\E i \in DOMAIN v : a[k] = v[i])
  BY <1>2 DEF Behind
<1>4. \A k \in DOMAIN b : (\E i \in DOMAIN y : b[k] = y[i]) \/ (\E i \in DOMAIN w : b[k] = w[i])
  BY <1>2 DEF Behind
<1>5. /\ \A i \in DOMAIN y : \E k \in DOMAIN b : b[k] = y[i]
      /\ \A i \in DOMAIN w : \E k \in DOMAIN b : b[k] = w[i]
  BY <1>2 DEF Behind
<1>6. a \in Seq(Ops) /\ b \in Seq(Ops)
  BY <1>2 DEF Behind
<1>9. \A k \in DOMAIN b : b[k].batch = batches
  BY <1>4 DEF StreamOps
<1>7. ASSUME NEW k \in DOMAIN a
      PROVE  /\ a[k].batch = batches /\ ~ Loading(a[k])
             /\ a[k].kind = "gather" =>
                  \E c \in DOMAIN b :
                    b[c].kind = "fill" /\ b[c].arg.layer = a[k].arg /\ b[c].batch = batches
  <2>1. CASE \E i \in DOMAIN x : a[k] = x[i]
    BY <2>1, <1>5 DEF StreamOps
  <2>2. CASE \E i \in DOMAIN v : a[k] = v[i]
    BY <2>2, <1>5 DEF StreamOps
  <2> QED
    BY <1>3, <2>1, <2>2
<1>8. StreamOps(a, b)
  BY <1>6, <1>7, <1>9 DEF StreamOps
<1> QED
  BY <1>8 DEF a, b

(* The GEMM of one layer.                                                  *)
LEMMA UseOps ==
    ASSUME batches \in Nat, NEW l \in Layers, NEW e \in Events \union {None}
    PROVE  StreamOps(WaitFor(e) \o <<Op("layer_gemm", l), Op("record", Event("release", l))>>,
                     << >>)
<1> DEFINE g == Op("layer_gemm", l)
           r == Op("record", Event("release", l))
           t == <<g, r>>
           x == WaitFor(e) \o t
<1>1. g \in Ops /\ PlainOp(g) /\ r \in Ops /\ PlainOp(r)
  BY OpTypes DEF Op, PlainOp
<1> HIDE DEF g, r
<1>2. t \in Seq(Ops) /\ DOMAIN t = {1, 2} /\ t[1] = g /\ t[2] = r
  BY <1>1, ShortQueues
<1>3. Plain(t)
  BY <1>1, <1>2 DEF Plain
<1> HIDE DEF t
<1>4. x \in Seq(Ops) /\ Plain(x)
  BY <1>2, <1>3, WaitForType, PlainConcat
<1> HIDE DEF x
<1>5. StreamOps(x, << >>)
  BY <1>4, ShortQueues DEF StreamOps, Plain, PlainOp, Loading
<1> QED
  BY <1>5 DEF x, t, g, r

(* The host's working copy of the queues q and the halves b.               *)
Work(q, b) == [queue |-> q, buffers |-> b]

LEMMA EnqueueAdd ==
    ASSUME NEW q \in [Streams -> Seq(Ops)], NEW x \in Seq(Ops), NEW y \in Seq(Ops)
    PROVE  /\ Add(q, x, y) \in [Streams -> Seq(Ops)]
           /\ Enqueue(Enqueue(q, "compute", x), "copy", y) = Add(q, x, y)
           /\ Enqueue(q, "compute", x) = Add(q, x, << >>)
           /\ Add(q, << >>, << >>) = q
<1>1. /\ q["compute"] \in Seq(Ops) /\ q["copy"] \in Seq(Ops)
      /\ q["compute"] \o x \in Seq(Ops) /\ q["copy"] \o y \in Seq(Ops)
      /\ q["compute"] \o << >> = q["compute"] /\ q["copy"] \o << >> = q["copy"]
  BY ConcatProperties, ConcatEmptySeq DEF Streams
<1>2. Enqueue(Enqueue(q, "compute", x), "copy", y) = Add(q, x, y)
  BY DEF Add, Streams, Enqueue
<1>3. Enqueue(q, "compute", x) = Add(q, x, << >>)
  BY <1>1 DEF Add, Streams, Enqueue
<1>4. Add(q, << >>, << >>) = q
  BY <1>1 DEF Add, Streams
<1>5. Add(q, x, y) \in [Streams -> Seq(Ops)]
  BY <1>1 DEF Add, Streams
<1> QED
  BY <1>2, <1>3, <1>4, <1>5

LEMMA OpsAssociative ==
    ASSUME NEW a \in Seq(Ops), NEW b \in Seq(Ops), NEW c \in Seq(Ops)
    PROVE  (a \o b) \o c = a \o (b \o c)
  OBVIOUS

LEMMA AddAdd ==
    ASSUME NEW q \in [Streams -> Seq(Ops)], NEW x \in Seq(Ops), NEW y \in Seq(Ops),
           NEW v \in Seq(Ops), NEW w \in Seq(Ops)
    PROVE  Add(Add(q, x, y), v, w) = Add(q, x \o v, y \o w)
<1>1. q["compute"] \in Seq(Ops) /\ q["copy"] \in Seq(Ops)
  BY DEF Streams
<1>2. ASSUME NEW s \in Seq(Ops)
      PROVE  (s \o x) \o v = s \o (x \o v)
  OBVIOUS
<1>3. ASSUME NEW s \in Seq(Ops)
      PROVE  (s \o y) \o w = s \o (y \o w)
  OBVIOUS
<1> QED
  BY <1>1, <1>2, <1>3 DEF Add, Streams

LEMMA PrefetchStep ==
    ASSUME batches \in Nat, splitting \in BOOLEAN,
           NEW q \in [Streams -> Seq(Ops)], NEW b \in [Halves -> HalfStates], NEW l \in Nat
    PROVE  \E x, y : \E c \in [Halves -> HalfStates] :
             StreamOps(x, y) /\ Prefetch(Work(q, b), l) = Work(Add(q, x, y), c)
<1>1. CASE l \notin Layers \/ b[Half(l)].layer = l
  <2>1. Prefetch(Work(q, b), l) = Work(q, b)
    BY <1>1 DEF Prefetch, Work
  <2>2. StreamOps(<< >>, << >>)
    BY ShortQueues DEF StreamOps
  <2>3. Add(q, << >>, << >>) = q
    BY EnqueueAdd, ShortQueues
  <2> QED
    BY <2>1, <2>2, <2>3
<1>2. CASE l \in Layers /\ b[Half(l)].layer # l
  <2> DEFINE h == Half(l)
             x == IF splitting THEN <<Op("gather", l)>> ELSE << >>
             y == WaitFor(b[h].freed) \o <<Fill(l), Op("record", Event("ready", l))>>
             c == [b EXCEPT ![h] = [@ EXCEPT !.layer = l, !.released = FALSE,
                                             !.ready = Event("ready", l)]]
  <2>1. h \in Halves /\ b[h] \in HalfStates
    BY <1>2, HalfType
  <2>2. StreamOps(x, y)
    BY <1>2, <2>1, PrefetchOps DEF HalfStates
  <2>3. c \in [Halves -> HalfStates]
    BY <1>2, <2>1, OpTypes DEF HalfStates
  <2>4. Prefetch(Work(q, b), l) =
          Work(Enqueue(Enqueue(q, "compute", x), "copy", y), c)
    BY <1>2 DEF Prefetch, Work
  <2> HIDE DEF x, y, c
  <2>5. Prefetch(Work(q, b), l) = Work(Add(q, x, y), c)
    BY <2>2, <2>4, EnqueueAdd DEF StreamOps
  <2> QED
    BY <2>2, <2>3, <2>5
<1> QED
  BY <1>1, <1>2

LEMMA UseStep ==
    ASSUME batches \in Nat,
           NEW q \in [Streams -> Seq(Ops)], NEW b \in [Halves -> HalfStates], NEW l \in Layers
    PROVE  \E x, y : \E c \in [Halves -> HalfStates] :
             StreamOps(x, y) /\ UseHalf(Work(q, b), l) = Work(Add(q, x, y), c)
<1> DEFINE h == Half(l)
           x == WaitFor(b[h].ready) \o <<Op("layer_gemm", l), Op("record", Event("release", l))>>
           c == [b EXCEPT ![h] = [@ EXCEPT !.released = TRUE, !.freed = Event("release", l)]]
<1>1. h \in Halves /\ b[h] \in HalfStates
  BY HalfType
<1>2. StreamOps(x, << >>)
  BY <1>1, UseOps DEF HalfStates
<1>3. c \in [Halves -> HalfStates]
  BY <1>1, OpTypes DEF HalfStates
<1>4. UseHalf(Work(q, b), l) = Work(Enqueue(q, "compute", x), c)
  BY DEF UseHalf, Work
<1> HIDE DEF x, c
<1>5. UseHalf(Work(q, b), l) = Work(Add(q, x, << >>), c)
  BY <1>2, <1>4, EnqueueAdd, ShortQueues DEF StreamOps
<1> QED
  BY <1>2, <1>3, <1>5

(* One layer of a streamed prefill: what StreamLayer appends in all.       *)
LEMMA StreamLayerAppends ==
    ASSUME TypeOK, StreamLayer
    PROVE  /\ \E x, y : StreamOps(x, y) /\ Appends(x, y)
           /\ queue' \in [Streams -> Seq(Ops)] /\ buffers' \in [Halves -> HalfStates]
<1> DEFINE l == batch.layer
           m == l + 1
           W == [Halves -> HalfStates]
           Q == [Streams -> Seq(Ops)]
<1>1. /\ batches \in Nat /\ splitting \in BOOLEAN /\ l \in Layers /\ l \in Nat /\ m \in Nat
      /\ queue \in Q /\ buffers \in W
  <2>1. batch.layer \in Layers
    BY DEF TypeOK
  <2>2. /\ batches \in Nat /\ splitting \in BOOLEAN
        /\ queue \in Q /\ buffers \in W
    BY DEF TypeOK
  <2> QED
    BY <2>1, <2>2
<1>2. \A q \in Q, b \in W, k \in Nat : \E x, y : \E c \in W :
        StreamOps(x, y) /\ Prefetch(Work(q, b), k) = Work(Add(q, x, y), c)
  BY <1>1, PrefetchStep
<1>3. \A q \in Q, b \in W, k \in Layers : \E x, y : \E c \in W :
        StreamOps(x, y) /\ UseHalf(Work(q, b), k) = Work(Add(q, x, y), c)
  BY <1>1, UseStep
<1>4. \A q \in Q : \A x, y : StreamOps(x, y) => Add(q, x, y) \in Q
  BY EnqueueAdd DEF StreamOps
<1> DEFINE now == Work(queue, buffers)
           enq == UseHalf(Prefetch(Prefetch(now, l), m), l)
<1>5. queue' = enq.queue /\ buffers' = enq.buffers
  BY DEF StreamLayer, Work
<1>6. \A q, b : Work(q, b).queue = q /\ Work(q, b).buffers = b
  BY DEF Work
<1> HIDE DEF l, m, W, Q
<1>7. PICK x1, y1 : \E b \in W : /\ StreamOps(x1, y1)
                                 /\ Prefetch(now, l) = Work(Add(queue, x1, y1), b)
  BY <1>1, <1>2
<1> DEFINE q1 == Add(queue, x1, y1)
<1>8. PICK b1 \in W : StreamOps(x1, y1) /\ q1 \in Q /\ Prefetch(now, l) = Work(q1, b1)
  BY <1>1, <1>4, <1>7
<1> HIDE DEF q1
<1>9. PICK x2, y2 : \E b \in W : /\ StreamOps(x2, y2)
                                 /\ Prefetch(Work(q1, b1), m) = Work(Add(q1, x2, y2), b)
  BY <1>1, <1>2, <1>8
<1> DEFINE q2 == Add(q1, x2, y2)
<1>10. PICK b2 \in W : StreamOps(x2, y2) /\ q2 \in Q /\ Prefetch(Work(q1, b1), m) = Work(q2, b2)
  BY <1>4, <1>8, <1>9
<1> HIDE DEF q2
<1>11. PICK x3, y3 : \E b \in W : /\ StreamOps(x3, y3)
                                  /\ UseHalf(Work(q2, b2), l) = Work(Add(q2, x3, y3), b)
  BY <1>1, <1>3, <1>10
<1>12. PICK b3 \in W : StreamOps(x3, y3) /\ UseHalf(Work(q2, b2), l) = Work(Add(q2, x3, y3), b3)
  BY <1>11
<1> DEFINE x == (x1 \o x2) \o x3   y == (y1 \o y2) \o y3
<1>13. StreamOps(x1 \o x2, y1 \o y2) /\ StreamOps(x, y)
  BY <1>8, <1>10, <1>12, StreamOpsConcat
<1>14. \A q \in Q : \A u, v, a, b : StreamOps(u, v) /\ StreamOps(a, b) =>
          Add(Add(q, u, v), a, b) = Add(q, u \o a, v \o b)
  BY AddAdd DEF StreamOps, Q
<1>15. q2 = Add(queue, x1 \o x2, y1 \o y2)
  BY <1>1, <1>8, <1>10, <1>14 DEF q1, q2
<1>16. Add(q2, x3, y3) = Add(queue, x, y)
  BY <1>1, <1>12, <1>13, <1>14, <1>15
<1>17. enq = Work(Add(queue, x, y), b3)
  BY <1>8, <1>10, <1>12, <1>16
<1> HIDE DEF enq
<1>18. queue' = Add(queue, x, y) /\ buffers' = b3
  BY <1>5, <1>6, <1>17
<1> HIDE DEF x, y
<1>19. queue' \in [Streams -> Seq(Ops)] /\ buffers' \in [Halves -> HalfStates]
  BY <1>1, <1>4, <1>12, <1>13, <1>18 DEF W, Q
<1>20. Appends(x, y)
  BY <1>13, <1>18 DEF Appends, Add, Streams, Compute, Copy, StreamOps
<1> QED
  BY <1>13, <1>19, <1>20

-----------------------------------------------------------------------------
(* The host's steps.                                                       *)

BatchType == [mode : Modes, layer : Layers, route : Routings \union {None}]

LEMMA FirstType ==
    \A mode \in Modes, route \in Routings \union {None} :
      [mode |-> mode, layer |-> 0, route |-> route] \in BatchType
<1>1. 0 \in Layers
  OBVIOUS
<1> QED
  BY <1>1 DEF BatchType

LEMMA IdleType == Idle \in BatchType /\ Idle.mode = "idle"
  BY FirstType DEF Idle, Modes

LEMMA HostTypes ==
    ASSUME TypeOK, UNCHANGED <<overlap, deviceVars>>,
           batch' \in BatchType,
           batch'.mode \in {"decode", "short_prefill"} => batch'.route \in Routings,
           batches' \in Nat, splitting' \in BOOLEAN,
           buffers' \in [Halves -> HalfStates], queue' \in [Streams -> Seq(Ops)],
           snapshot' \in [Ids -> Nat \union {None}]
    PROVE  TypeOK'
<1>1. /\ overlap' = overlap /\ idOfSlot' = idOfSlot /\ slotForId' = slotForId
      /\ bytes' = bytes /\ usage' = usage /\ routed' = routed /\ Slots' = Slots
  BY DEF deviceVars, Slots
<1>2. \E n \in Sizes : Slots' = 0 .. n - 1 /\ n >= NumExperts /\ (overlap' => n >= Volatile)
  <2>1. PICK n \in Sizes : Slots = 0 .. n - 1 /\ n >= NumExperts /\ (overlap => n >= Volatile)
    BY DEF TypeOK
  <2> QED
    BY <1>1, <2>1
<1>3. Volatile' = Volatile /\ Ids' = Ids
  BY DEF Volatile, Ids
<1> QED
  BY <1>1, <1>2, <1>3 DEF TypeOK, BatchType

LEMMA NextLayerType ==
    ASSUME TypeOK, NextLayer(batch.layer)
    PROVE  /\ batch' \in BatchType
           /\ batch'.mode \in {"decode", "short_prefill"} => batch'.route \in Routings
           /\ batch'.mode \in {batch.mode, "idle"}
<1>1. batch \in BatchType
  BY DEF TypeOK, BatchType
<1>2. CASE batch.layer + 1 \in Layers
  BY <1>1, <1>2 DEF NextLayer, BatchType, TypeOK
<1>3. CASE batch.layer + 1 \notin Layers
  <2>1. batch' = Idle
    BY <1>3 DEF NextLayer
  <2> QED
    BY <2>1, IdleType
<1> QED
  BY <1>2, <1>3

(* The slots a queued copy is to disown.                                   *)
LEMMA DisowningFacts ==
    /\ \A s : s \in Disowning <=> \E l, n : Filling(l, n) /\ s \in BufferSlots(Half(l))
    /\ \A s : s \in Disowning' <=> \E l, n : Filling(l, n)' /\ s \in BufferSlots(Half(l))
<1>1. ASSUME NEW s
      PROVE  s \in Disowning <=> \E l, n : Filling(l, n) /\ s \in BufferSlots(Half(l))
  <2>1. s \in Disowning <=>
          \E c \in DOMAIN Copy : Copy[c].kind = "fill" /\ s \in BufferSlots(Half(Copy[c].arg.layer))
    BY DEF Disowning, Copy
  <2> QED
    BY <2>1 DEF Filling
<1>2. ASSUME NEW s
      PROVE  s \in Disowning' <=> \E l, n : Filling(l, n)' /\ s \in BufferSlots(Half(l))
  <2>1. \A b : BufferSlots(b)' = BufferSlots(b)
    BY DEF BufferSlots, Row
  <2>2. \A l : Half(l)' = Half(l)
    BY DEF Half
  <2>3. s \in Disowning' <=>
          \E c \in DOMAIN Copy' : Copy'[c].kind = "fill" /\ s \in BufferSlots(Half(Copy'[c].arg.layer))
    BY <2>1, <2>2 DEF Disowning, Copy
  <2> QED
    BY <2>3 DEF Filling
<1> QED
  BY <1>1, <1>2

(* While the caches stand and no copy is done, the maps stay true.         *)
LEMMA ResidencyKept ==
    ASSUME ResidencyIsTrue, UNCHANGED <<slotForId, idOfSlot, bytes>>,
           \A l, n : Filling(l, n) => Filling(l, n)'
    PROVE  ResidencyIsTrue'
  BY DisowningFacts DEF ResidencyIsTrue, Slots, Ids

LEMMA NoGathersKeep ==
    ASSUME TypeOK, GathersCovered, NEW x, NEW y, Appends(x, y),
           \A k \in DOMAIN x : x[k].kind # "gather",
           UNCHANGED idOfSlot
    PROVE  GathersCovered'
<1> SUFFICES ASSUME NEW j \in DOMAIN Compute', Compute'[j].kind = "gather",
                    NEW l, l = Compute'[j].arg, NEW n, n = Compute'[j].batch
             PROVE  \/ Filling(l, n)'
                    \/ \A s \in Slots : s \in BufferSlots(Half(l)) => idOfSlot[s] = None
  BY DEF GathersCovered, Slots, BufferSlots, Row, Half
<1>1. j \in DOMAIN Compute /\ Compute'[j] = Compute[j]
  BY AppendKeeps
<1> QED
  BY <1>1, AppendKeeps DEF GathersCovered

LEMMA StartBatchKeeps ==
    ASSUME IInv, NEW mode \in {"prefill", "decode", "short_prefill"},
           NEW route \in Routings \union {None}, mode # "prefill" => route \in Routings,
           StartBatch(mode, route)
    PROVE  IInv'
<1>1. TypeOK /\ QueueInv /\ batches \in Nat
  BY DEF IInv, TypeOK
<1>2. /\ batch' = [mode |-> mode, layer |-> 0, route |-> route] /\ batches' = batches + 1
      /\ queue' = queue /\ Compute' = Compute /\ Copy' = Copy /\ overlap' = overlap
      /\ slotForId' = slotForId /\ idOfSlot' = idOfSlot /\ bytes' = bytes
  BY DEF StartBatch, Compute, Copy, deviceVars
<1>13. batches' = batches + 1 /\ batches' \in Nat
  <2>1. batches' = batches + 1
    BY DEF StartBatch
  <2> QED
    BY <1>1, <2>1
<1>3. TypeOK'
  <2>1. batch' \in BatchType /\ batch'.mode = mode /\ batch'.route = route
    BY <1>2, FirstType DEF Modes
  <2>2. /\ batch'.mode \in {"decode", "short_prefill"} => batch'.route \in Routings
        /\ batches' \in Nat
    BY <2>1, <1>13
  <2>3. /\ splitting' \in BOOLEAN /\ buffers' \in [Halves -> HalfStates]
        /\ queue' \in [Streams -> Seq(Ops)] /\ snapshot' \in [Ids -> Nat \union {None}]
        /\ UNCHANGED <<overlap, deviceVars>>
    BY <1>1 DEF StartBatch, TypeOK
  <2> QED
    BY <1>1, <2>1, <2>2, <2>3, HostTypes
<1>4. \A l, n : Filling(l, n)' = Filling(l, n)
  BY <1>2 DEF Filling
<1>5. \A i, n : /\ RecordAfter(i, n)' = RecordAfter(i, n)
                /\ WaitBefore(i, n)' = WaitBefore(i, n)
  BY <1>2 DEF RecordAfter, WaitBefore, Begin
<1>6. /\ \A i \in DOMAIN Compute : Compute[i].batch \in Nat /\ Compute[i].batch <= batches
      /\ \A c \in DOMAIN Copy : Copy[c].batch \in Nat /\ Copy[c].batch <= batches
  BY <1>1, QueueFacts DEF QueueInv, BatchesInOrder
<1>7. BatchesInOrder' /\ StreamsLoadNothing'
  <2>1. /\ \A i \in DOMAIN Compute : Compute[i].batch < batches'
        /\ \A c \in DOMAIN Copy : Copy[c].batch < batches'
    BY <1>1, <1>13, <1>6
  <2> QED
    BY <1>2, <2>1, <1>6, <1>13 DEF BatchesInOrder, StreamsLoadNothing
<1>8. StreamsFit' /\ BatchFenced'
  BY <1>1, <1>2 DEF QueueInv, StreamsFit, BatchFenced
<1>9. FillsFenced'
  BY <1>1, <1>2, <1>5 DEF QueueInv, FillsFenced, Loading
<1>10. GathersAfterLoads'
  BY <1>1, <1>2, <1>4 DEF QueueInv, GathersAfterLoads, Loading
<1>11. GathersCovered'
  BY <1>2, <1>4 DEF IInv, GathersCovered, Slots, BufferSlots, Row, Half
<1>12. ResidencyIsTrue'
  BY <1>2, <1>4, ResidencyKept DEF IInv
<1> QED
  BY <1>3, <1>7, <1>8, <1>9, <1>10, <1>11, <1>12 DEF IInv, QueueInv

(* What begin_prefill appends: the fence, and the snapshot for the split.  *)
LEMMA BeginOps ==
    ASSUME batches \in Nat, NEW snap \in BOOLEAN
    PROVE  LET x == <<Op("record", Event("begin", 0))>>
               y == <<Op("wait", Event("begin", 0))>> \o (IF snap THEN <<Op("snapshot", None)>> ELSE << >>)
           IN StreamOps(x, y) /\ FenceOps(x, y)
<1> DEFINE r == Op("record", Event("begin", 0))
           w == Op("wait", Event("begin", 0))
           p == Op("snapshot", None)
           z == IF snap THEN <<p>> ELSE << >>
           x == <<r>>
           y == <<w>> \o z
<1>1. Event("begin", 0) = Begin(batches) /\ Begin(batches) \in Events
  BY DEF Event, Begin, Events
<1>2. /\ r \in Ops /\ r.batch = batches /\ r.kind = "record" /\ r.arg = Begin(batches)
      /\ w \in Ops /\ w.batch = batches /\ w.kind = "wait" /\ w.arg = Begin(batches)
      /\ p \in Ops /\ p.batch = batches /\ p.kind = "snapshot"
  BY <1>1 DEF Op, Ops
<1> HIDE DEF r, w, p
<1>4. x \in Seq(Ops) /\ DOMAIN x = {1} /\ x[1] = r
  BY <1>2, ShortQueues
<1>5. <<w>> \in Seq(Ops) /\ DOMAIN <<w>> = {1} /\ <<w>>[1] = w
  BY <1>2, ShortQueues
<1>6. z \in Seq(Ops) /\ \A k \in DOMAIN z : z[k] = p
  <2>1. CASE snap
    BY <1>2, <2>1, ShortQueues
  <2>2. CASE ~ snap
    BY <2>2, ShortQueues
  <2> QED
    BY <2>1, <2>2
<1> HIDE DEF x, z
<1>7. Behind(<<w>>, z, y)
  BY <1>5, <1>6, AddedAtEnd
<1> HIDE DEF y
<1>8. /\ y \in Seq(Ops) /\ \A c \in DOMAIN y : y[c] = w \/ y[c] = p
      /\ 1 \in DOMAIN y /\ y[1] = w
  BY <1>5, <1>6, <1>7 DEF Behind
<1>9. StreamOps(x, y)
  BY <1>2, <1>4, <1>8 DEF StreamOps, Loading
<1>10. FenceOps(x, y)
  BY <1>2, <1>4, <1>8 DEF FenceOps
<1> QED
  BY <1>9, <1>10 DEF x, y, z, r, w, p

LEMMA BeginPrefillKeeps ==
    ASSUME IInv, BeginPrefill
    PROVE  IInv'
<1> DEFINE x == <<Op("record", Event("begin", 0))>>
           z == IF splitting' THEN <<Op("snapshot", None)>> ELSE << >>
           y == <<Op("wait", Event("begin", 0))>> \o z
<1>1. /\ TypeOK /\ QueueInv /\ GathersCovered /\ ResidencyIsTrue /\ batches \in Nat
      /\ queue \in [Streams -> Seq(Ops)]
  BY DEF IInv, TypeOK
<1>2. splitting' \in BOOLEAN
  BY ExpertCacheAssumption DEF BeginPrefill
<1>3. StreamOps(x, y) /\ FenceOps(x, y)
  BY <1>1, <1>2, BeginOps
<1>4. Appends(x, y) /\ queue' \in [Streams -> Seq(Ops)]
  <2> DEFINE w == <<Op("wait", Event("begin", 0))>>
  <2>1. queue' = Enqueue(Enqueue(Enqueue(queue, "compute", x), "copy", w), "copy", z)
    BY DEF BeginPrefill, Fence
  <2>2. x \in Seq(Ops) /\ w \in Seq(Ops) /\ z \in Seq(Ops) /\ y = w \o z
    BY <1>1, OpTypes, ShortQueues DEF Op, Ops, Event, Events
  <2> HIDE DEF x, y, z, w
  <2>3. queue["compute"] \in Seq(Ops) /\ queue["copy"] \in Seq(Ops)
    BY <1>1 DEF Streams
  <2>4. /\ queue' = [s \in Streams |-> IF s = "compute" THEN queue["compute"] \o x
                                       ELSE (queue["copy"] \o w) \o z]
    BY <1>1, <2>1 DEF Enqueue, Streams
  <2>5. (queue["copy"] \o w) \o z = queue["copy"] \o y
    BY <2>2, <2>3, OpsAssociative
  <2>6. queue' = Add(queue, x, y)
    BY <2>4, <2>5 DEF Add, Streams
  <2> QED
    BY <1>1, <1>3, <2>6, EnqueueAdd DEF Appends, Add, Streams, Compute, Copy, StreamOps
<1> HIDE DEF x, y
<1>5. /\ batch.mode = "prefill" /\ overlap /\ batch' = [batch EXCEPT !.mode = "streaming"]
      /\ UNCHANGED <<batches, overlap, snapshot, slotForId, idOfSlot, bytes, usage, routed>>
  BY DEF BeginPrefill, deviceVars
<1>6. /\ batch' \in BatchType /\ batch'.mode = "streaming"
      /\ buffers' \in [Halves -> HalfStates]
  <2>1. batch \in BatchType /\ buffers \in [Halves -> HalfStates]
    BY <1>1 DEF TypeOK, BatchType
  <2>2. batch' \in BatchType /\ batch'.mode = "streaming"
    BY <1>5, <2>1 DEF BatchType, Modes
  <2>3. buffers' \in [Halves -> HalfStates]
    BY <2>1 DEF BeginPrefill, HalfStates
  <2> QED
    BY <2>2, <2>3
<1>7. TypeOK'
  BY <1>1, <1>2, <1>4, <1>5, <1>6, HostTypes DEF deviceVars, TypeOK
<1>8. QueueInv'
  BY <1>1, <1>3, <1>4, <1>5, <1>6, StreamKeeps
<1>9. GathersCovered'
  BY <1>1, <1>3, <1>4, <1>5, GathersKeep
<1>10. ResidencyIsTrue'
  BY <1>1, <1>4, <1>5, AppendKeeps, ResidencyKept
<1> QED
  BY <1>7, <1>8, <1>9, <1>10 DEF IInv

LEMMA StreamLayerKeeps ==
    ASSUME IInv, StreamLayer
    PROVE  IInv'
<1>1. TypeOK /\ QueueInv /\ GathersCovered /\ ResidencyIsTrue
  BY DEF IInv
<1>2. PICK x, y : StreamOps(x, y) /\ Appends(x, y)
  BY <1>1, StreamLayerAppends
<1>3. /\ batch.mode = "streaming" /\ NextLayer(batch.layer)
      /\ UNCHANGED <<batches, splitting, overlap, snapshot, slotForId, idOfSlot, bytes, usage, routed>>
  BY DEF StreamLayer, deviceVars
<1>4. TypeOK'
  BY <1>1, <1>3, NextLayerType, StreamLayerAppends, HostTypes DEF deviceVars, TypeOK
<1>5. QueueInv'
  BY <1>1, <1>2, <1>3, NextLayerType, StreamKeeps
<1>6. GathersCovered'
  BY <1>1, <1>2, <1>3, GathersKeep
<1>7. ResidencyIsTrue'
  BY <1>1, <1>2, <1>3, AppendKeeps, ResidencyKept
<1> QED
  BY <1>4, <1>5, <1>6, <1>7 DEF IInv

(* A layer that is not streamed: a load and its GEMM on the compute stream.*)
LEMMA LoadedLayerKeeps ==
    ASSUME IInv, NEW a \in Ops, NEW g \in Ops, a.batch = batches, g.batch = batches,
           a.kind # "gather", g.kind # "gather",
           batch.mode # "streaming", ~ (batch.mode = "prefill" /\ overlap),
           queue' = Enqueue(queue, "compute", <<a, g>>), NextLayer(batch.layer),
           UNCHANGED <<batches, buffers, splitting, overlap, snapshot, deviceVars>>
    PROVE  IInv'
<1> DEFINE x == <<a, g>>
<1>1. /\ TypeOK /\ QueueInv /\ GathersCovered /\ ResidencyIsTrue
      /\ queue \in [Streams -> Seq(Ops)]
  BY DEF IInv, TypeOK
<1>2. /\ x \in Seq(Ops) /\ << >> \in Seq(Ops)
      /\ \A k \in DOMAIN x : x[k].batch = batches /\ x[k].kind # "gather"
  BY ShortQueues
<1>3. queue' = Enqueue(queue, "compute", x)
  OBVIOUS
<1> HIDE DEF x
<1>4. queue' = Add(queue, x, << >>) /\ queue' \in [Streams -> Seq(Ops)]
  <2>1. Enqueue(queue, "compute", x) = Add(queue, x, << >>)
    BY <1>1, <1>2, EnqueueAdd
  <2>2. Add(queue, x, << >>) \in [Streams -> Seq(Ops)]
    BY <1>1, <1>2, EnqueueAdd
  <2> QED
    BY <1>3, <2>1, <2>2
<1>5. Appends(x, << >>)
  BY <1>2, <1>4 DEF Appends, Add, Streams, Compute, Copy
<1>6. UNCHANGED <<slotForId, idOfSlot, bytes>>
  BY DEF deviceVars
<1>7. TypeOK'
  BY <1>1, <1>4, NextLayerType, HostTypes DEF TypeOK
<1>8. QueueInv'
  BY <1>1, <1>2, <1>5, NextLayerType, LoadsKeep
<1>9. GathersCovered'
  BY <1>1, <1>2, <1>5, <1>6, NoGathersKeep
<1>10. ResidencyIsTrue'
  BY <1>1, <1>5, <1>6, AppendKeeps, ResidencyKept
<1> QED
  BY <1>7, <1>8, <1>9, <1>10 DEF IInv

LEMMA MaterializeLayerKeeps ==
    ASSUME IInv, MaterializeLayer
    PROVE  IInv'
<1> DEFINE a == Op("materialize", batch.layer)   g == Op("front_gemm", batch.layer)
<1>1. /\ a \in Ops /\ a.batch = batches /\ a.kind = "materialize"
      /\ g \in Ops /\ g.batch = batches /\ g.kind = "front_gemm"
  <2>1. batch.layer \in Layers /\ batches \in Nat
    BY DEF IInv, TypeOK
  <2> QED
    BY <2>1 DEF Op, Ops
<1>2. /\ queue' = Enqueue(queue, "compute", <<a, g>>) /\ NextLayer(batch.layer)
      /\ batch.mode = "prefill" /\ ~ overlap
      /\ UNCHANGED <<batches, buffers, splitting, overlap, snapshot, deviceVars>>
  BY DEF MaterializeLayer
<1> HIDE DEF a, g
<1> QED
  BY <1>1, <1>2, LoadedLayerKeeps

LEMMA DemandLayerKeeps ==
    ASSUME IInv, DemandLayer
    PROVE  IInv'
<1> DEFINE l == batch.layer
           r == [layer |-> l, active |-> batch.route[l],
                 cap |-> IF batch.mode = "decode" THEN MaxFetch ELSE NumExperts]
           a == Op("load", r)   g == Op("slot_gemm", l)
<1>1. l \in Layers /\ batches \in Nat /\ batch.route \in Routings
  BY DEF IInv, TypeOK, DemandLayer
<1>2. r \in [layer : Layers, active : SUBSET Experts, cap : Nat]
  <2>1. batch.route \in [Layers -> SUBSET Experts] /\ MaxFetch \in Nat
    BY <1>1, ExpertCacheAssumption
  <2> QED
    BY <1>1, <2>1
<1>3. /\ a \in Ops /\ a.batch = batches /\ a.kind = "load"
      /\ g \in Ops /\ g.batch = batches /\ g.kind = "slot_gemm"
  BY <1>1, <1>2 DEF Op, Ops
<1>4. /\ queue' = Enqueue(queue, "compute", <<a, g>>) /\ NextLayer(batch.layer)
      /\ batch.mode \in {"decode", "short_prefill"}
      /\ UNCHANGED <<batches, buffers, splitting, overlap, snapshot, deviceVars>>
  BY DEF DemandLayer
<1> HIDE DEF a, g
<1> QED
  BY <1>3, <1>4, LoadedLayerKeeps

LEMMA RebuildKeeps ==
    ASSUME IInv, NEW n \in Sizes, Rebuild(n)
    PROVE  IInv'
<1>1. /\ queue' = queue /\ Compute = << >> /\ Copy = << >> /\ batch' = batch
      /\ batch.mode = "idle" /\ batches' = batches
  BY DEF Rebuild, Compute, Copy, Streams, Idle
<1>2. Compute' = << >> /\ Copy' = << >>
  BY <1>1 DEF Compute, Copy
<1>3. QueueInv' /\ GathersCovered'
  BY <1>1, <1>2, ShortQueues DEF QueueInv, BatchesInOrder, StreamsFit, StreamsLoadNothing,
     BatchFenced, FillsFenced, GathersAfterLoads, GathersCovered
<1>4. n \in Nat /\ n >= NumExperts
  BY DEF Rebuild
<1>5. /\ slotForId' = [i \in Ids |-> None] /\ idOfSlot' = [s \in 0 .. n - 1 |-> None]
      /\ usage' = [step |-> 0, of |-> [s \in 0 .. n - 1 |-> 0]]
      /\ bytes' = [k \in Banks |-> [s \in 0 .. n - 1 |-> None]]
      /\ buffers' = [b \in Halves |-> EmptyHalf] /\ overlap' = (overlap /\ n >= Volatile)
      /\ UNCHANGED <<splitting, snapshot, routed>>
  BY DEF Rebuild, Cold
<1>6. Slots' = 0 .. n - 1
  BY <1>5 DEF Slots
<1>7. ResidencyIsTrue'
  BY <1>5, <1>6 DEF ResidencyIsTrue, Ids
<1>8. TypeOK'
  <2>1. buffers' \in [Halves -> HalfStates]
    BY <1>5 DEF EmptyHalf, HalfStates
  <2>2. usage' \in [step : Nat, of : [Slots' -> Nat]]
    BY <1>5, <1>6
  <2>3. /\ idOfSlot' \in [Slots' -> Ids \union {None}] /\ slotForId' \in [Ids -> Slots' \union {None}]
        /\ bytes' \in [Banks -> [Slots' -> Ids \union {None}]]
    BY <1>5, <1>6
  <2>4. overlap' \in BOOLEAN /\ (overlap' => n >= Volatile)
    BY <1>5 DEF IInv, TypeOK
  <2>5. \E m \in Sizes : Slots' = 0 .. m - 1 /\ m >= NumExperts /\ (overlap' => m >= Volatile)
    BY <1>4, <1>6, <2>4
  <2>6. Volatile' = Volatile /\ Ids' = Ids
    BY DEF Volatile, Ids
  <2> QED
    BY <1>1, <1>5, <2>1, <2>2, <2>3, <2>4, <2>5, <2>6 DEF IInv, TypeOK
<1> QED
  BY <1>3, <1>7, <1>8 DEF IInv

-----------------------------------------------------------------------------
(* The device's steps.                                                     *)

LEMMA HeadFacts ==
    ASSUME TypeOK, NEW s \in Streams, queue[s] # << >>
    PROVE  /\ Head(queue[s]) \in Ops
           /\ Tail(queue[s]) \in Seq(Ops)
           /\ Pop(s) => queue' \in [Streams -> Seq(Ops)]
<1>1. queue \in [Streams -> Seq(Ops)] /\ queue[s] \in Seq(Ops)
  BY DEF TypeOK
<1>2. Head(queue[s]) \in Ops /\ Tail(queue[s]) \in Seq(Ops)
  BY <1>1, HeadTailProperties
<1>3. Pop(s) => queue' \in [Streams -> Seq(Ops)]
  BY <1>1, <1>2 DEF Pop
<1> QED
  BY <1>2, <1>3

LEMMA ArgTypes ==
    ASSUME NEW op \in Ops
    PROVE  /\ op.kind = "fill" => op.arg.layer \in Layers /\ op.arg.rows \subseteq Experts
           /\ op.kind = "gather" => op.arg \in Layers
           /\ op.kind = "materialize" => op.arg \in Layers
           /\ op.kind = "load" => /\ op.arg.layer \in Layers /\ op.arg.active \subseteq Experts
                                  /\ op.arg.cap \in Nat
  BY DEF Ops

LEMMA DeviceTypes ==
    ASSUME TypeOK, UNCHANGED hostVars, queue' \in [Streams -> Seq(Ops)],
           snapshot' \in [Ids -> Nat \union {None}],
           idOfSlot' \in [Slots -> Ids \union {None}],
           slotForId' \in [Ids -> Slots \union {None}],
           bytes' \in [Banks -> [Slots -> Ids \union {None}]],
           usage' \in [step : Nat, of : [Slots -> Nat]],
           \A e \in DOMAIN routed' : e \in Experts /\ routed'[e] \in Nat \union {None}
    PROVE  TypeOK'
<1>1. Slots' = Slots /\ overlap' = overlap
  BY DEF hostVars, Slots
<1>2. \E n \in Sizes : Slots' = 0 .. n - 1 /\ n >= NumExperts /\ (overlap' => n >= Volatile)
  <2>1. PICK n \in Sizes : Slots = 0 .. n - 1 /\ n >= NumExperts /\ (overlap => n >= Volatile)
    BY DEF TypeOK
  <2> QED
    BY <1>1, <2>1
<1>3. Volatile' = Volatile /\ Ids' = Ids
  BY DEF Volatile, Ids
<1> QED
  BY <1>1, <1>2, <1>3 DEF TypeOK, hostVars

(* An operation of the compute stream other than a load leaves the gathers *)
(* behind it covered.                                                      *)
LEMMA CoverageKept ==
    ASSUME TypeOK, GathersCovered, UNCHANGED idOfSlot,
           \A l, n : Filling(l, n)' = Filling(l, n),
           \A j \in DOMAIN Compute' :
             j \in Nat \ {0} /\ j + 1 \in DOMAIN Compute /\ Compute'[j] = Compute[j + 1]
    PROVE  GathersCovered'
<1> SUFFICES ASSUME NEW j \in DOMAIN Compute', Compute'[j].kind = "gather",
                    NEW l, l = Compute'[j].arg, NEW n, n = Compute'[j].batch
             PROVE  \/ Filling(l, n)'
                    \/ \A s \in Slots : s \in BufferSlots(Half(l)) => idOfSlot[s] = None
  BY DEF GathersCovered, Slots, BufferSlots, Row, Half
<1>1. /\ Compute[j + 1].kind = "gather" /\ j + 1 \in DOMAIN Compute
      /\ l = Compute[j + 1].arg /\ n = Compute[j + 1].batch
  OBVIOUS
<1> QED
  BY <1>1 DEF GathersCovered

(* Behind a load only gathers whose copy has not run are queued.           *)
LEMMA CoverageBehindLoad ==
    ASSUME TypeOK, QueueInv, Compute # << >>, Loading(Head(Compute)),
           \A l, n : Filling(l, n)' = Filling(l, n),
           \A j \in DOMAIN Compute' :
             j \in Nat \ {0} /\ j + 1 \in DOMAIN Compute /\ Compute'[j] = Compute[j + 1]
    PROVE  GathersCovered'
<1> SUFFICES ASSUME NEW j \in DOMAIN Compute', Compute'[j].kind = "gather",
                    NEW l, l = Compute'[j].arg, NEW n, n = Compute'[j].batch
             PROVE  Filling(l, n)'
  BY DEF GathersCovered
<1>1. /\ Compute[j + 1].kind = "gather" /\ j + 1 \in DOMAIN Compute
      /\ l = Compute[j + 1].arg /\ n = Compute[j + 1].batch
  OBVIOUS
<1>2. 1 \in DOMAIN Compute /\ Head(Compute) = Compute[1]
  BY QueueFacts, TailFacts
<1>3. 1 < j + 1
  <2>1. j \in Nat \ {0}
    OBVIOUS
  <2> QED
    BY <2>1
<1> QED
  BY <1>1, <1>2, <1>3 DEF QueueInv, GathersAfterLoads

(* A wait, a record or a GEMM, on either stream.                           *)
LEMMA PassKeeps ==
    ASSUME IInv, NEW s \in Streams, Pass(s)
    PROVE  IInv'
<1>1. TypeOK /\ QueueInv /\ GathersCovered /\ ResidencyIsTrue
  BY DEF IInv
<1>2. /\ queue[s] # << >> /\ Runnable(s) /\ Pop(s) /\ Head(queue[s]).kind # "fill"
      /\ UNCHANGED <<hostVars, snapshot, deviceVars>>
  BY DEF Pass, Runnable
<1>3. /\ UNCHANGED <<batch, batches, overlap, idOfSlot, slotForId, bytes>>
      /\ UNCHANGED <<snapshot, usage, routed>>
  BY <1>2 DEF hostVars, deviceVars
<1>4. TypeOK'
  <2>1. queue' \in [Streams -> Seq(Ops)]
    BY <1>1, <1>2, HeadFacts
  <2> QED
    BY <1>1, <1>2, <1>3, <2>1, DeviceTypes DEF TypeOK
<1>5. CASE s = "compute"
  <2>1. /\ QueueInv' /\ \A l, n : Filling(l, n)' = Filling(l, n)
        /\ \A j \in DOMAIN Compute' :
             j \in Nat \ {0} /\ j + 1 \in DOMAIN Compute /\ Compute'[j] = Compute[j + 1]
    BY <1>1, <1>2, <1>3, <1>5, PopComputeKeeps DEF Compute
  <2>2. GathersCovered'
    BY <1>1, <1>3, <2>1, CoverageKept
  <2>3. ResidencyIsTrue'
    BY <1>1, <1>3, <2>1, ResidencyKept
  <2> QED
    BY <1>4, <2>1, <2>2, <2>3 DEF IInv
<1>6. CASE s = "copy"
  <2>1. /\ QueueInv' /\ Compute' = Compute
        /\ \A l, n : Filling(l, n) => Filling(l, n)'
    BY <1>1, <1>2, <1>3, <1>6, PopCopyKeeps DEF Copy
  <2>2. GathersCovered'
    BY <1>1, <1>3, <2>1 DEF GathersCovered, Slots, BufferSlots, Row, Half
  <2>3. ResidencyIsTrue'
    BY <1>1, <1>3, <2>1, ResidencyKept
  <2> QED
    BY <1>4, <2>1, <2>2, <2>3 DEF IInv
<1> QED
  BY <1>5, <1>6 DEF Streams

LEMMA TakeSnapshotKeeps ==
    ASSUME IInv, TakeSnapshot
    PROVE  IInv'
<1>1. TypeOK /\ QueueInv /\ GathersCovered /\ ResidencyIsTrue
  BY DEF IInv
<1>2. /\ queue["copy"] # << >> /\ Runnable("copy") /\ Pop("copy")
      /\ Head(queue["copy"]).kind # "fill" /\ snapshot' = slotForId
      /\ UNCHANGED <<hostVars, deviceVars>>
  BY DEF TakeSnapshot, AtHead, Runnable
<1>3. /\ UNCHANGED <<batch, batches, overlap, idOfSlot, slotForId, bytes>>
      /\ UNCHANGED <<usage, routed>>
  BY <1>2 DEF hostVars, deviceVars
<1>4. TypeOK'
  <2>1. queue' \in [Streams -> Seq(Ops)]
    BY <1>1, <1>2, HeadFacts DEF Streams
  <2>2. snapshot' \in [Ids -> Nat \union {None}]
    <3>1. Slots \subseteq Nat /\ slotForId \in [Ids -> Slots \union {None}]
      BY <1>1, SlotFacts DEF TypeOK
    <3> QED
      BY <1>2, <3>1
  <2> QED
    BY <1>1, <1>2, <1>3, <2>1, <2>2, DeviceTypes DEF TypeOK
<1>5. /\ QueueInv' /\ Compute' = Compute
      /\ \A l, n : Filling(l, n) => Filling(l, n)'
  BY <1>1, <1>2, <1>3, PopCopyKeeps DEF Copy
<1>6. GathersCovered'
  BY <1>1, <1>3, <1>5 DEF GathersCovered, Slots, BufferSlots, Row, Half
<1>7. ResidencyIsTrue'
  BY <1>1, <1>3, <1>5, ResidencyKept
<1> QED
  BY <1>4, <1>5, <1>6, <1>7 DEF IInv

LEMMA FillHalfKeeps ==
    ASSUME IInv, FillHalf
    PROVE  IInv'
<1> DEFINE l == Head(queue["copy"]).arg.layer
           b == Half(l)
           B == BufferSlots(b)
<1>1. TypeOK /\ QueueInv /\ GathersCovered /\ ResidencyIsTrue
  BY DEF IInv
<1>2. /\ queue["copy"] # << >> /\ Runnable("copy") /\ Pop("copy")
      /\ Head(Copy).kind = "fill" /\ Head(Copy).arg.layer = l /\ Copy # << >>
      /\ UNCHANGED <<hostVars, snapshot, routed>>
  BY DEF FillHalf, AtHead, Runnable, Copy
<1>3. UNCHANGED <<batch, batches, overlap>>
  BY <1>2 DEF hostVars
<1>4. /\ slotForId' = [i \in Ids |-> IF \E s \in B : idOfSlot[s] = i THEN None ELSE slotForId[i]]
      /\ idOfSlot' = [s \in Slots |-> IF s \in B THEN None ELSE idOfSlot[s]]
      /\ usage' = [usage EXCEPT !.of = [s \in Slots |-> IF s \in B THEN 0 ELSE usage.of[s]]]
  BY DEF FillHalf, Disown
<1>5. l \in Layers /\ b \in Halves /\ overlap /\ B \subseteq Slots
  <2>1. l \in Layers
    BY <1>1, <1>2, HeadFacts, ArgTypes DEF Streams, Copy
  <2>2. 1 \in DOMAIN Copy /\ Copy[1] = Head(Copy)
    BY <1>1, <1>2, QueueFacts, TailFacts
  <2>3. overlap
    BY <1>1, <1>2, <2>2 DEF QueueInv, StreamsFit
  <2>4. b \in Halves
    BY <2>1, HalfType
  <2> QED
    BY <1>1, <2>1, <2>3, <2>4, SlotFacts
<1>6. /\ bytes' \in [Banks -> [Slots -> Ids \union {None}]]
      /\ \A k \in Banks, s \in Slots : s \notin B => bytes'[k][s] = bytes[k][s]
  <2> DEFINE rows == Head(queue["copy"]).arg.rows
             Hit(k, s) == \E e \in Experts : s = Row(b, e) /\ (k \in SmallBanks \/ e \in rows)
             val(s) == <<l, s - Row(b, 0)>>
  <2>1. bytes' = [k \in Banks |-> [s \in Slots |-> IF Hit(k, s) THEN val(s) ELSE bytes[k][s]]]
    BY DEF FillHalf
  <2>2. \A k, s : Hit(k, s) => s \in B /\ val(s) \in Ids
    BY <1>5, BufferFacts DEF Ids
  <2>3. bytes \in [Banks -> [Slots -> Ids \union {None}]]
    BY <1>1 DEF TypeOK
  <2> HIDE DEF Hit, val, B
  <2> QED
    BY <2>1, <2>2, <2>3
<1>7. TypeOK'
  <2>1. queue' \in [Streams -> Seq(Ops)]
    BY <1>1, <1>2, HeadFacts DEF Streams
  <2>2. /\ idOfSlot \in [Slots -> Ids \union {None}] /\ slotForId \in [Ids -> Slots \union {None}]
        /\ usage \in [step : Nat, of : [Slots -> Nat]] /\ snapshot \in [Ids -> Nat \union {None}]
        /\ \A e \in DOMAIN routed : e \in Experts /\ routed[e] \in Nat \union {None}
    BY <1>1 DEF TypeOK
  <2> HIDE DEF B
  <2>3. /\ idOfSlot' \in [Slots -> Ids \union {None}] /\ slotForId' \in [Ids -> Slots \union {None}]
        /\ usage' \in [step : Nat, of : [Slots -> Nat]]
    BY <1>4, <2>2
  <2> QED
    BY <1>1, <1>2, <1>6, <2>1, <2>2, <2>3, DeviceTypes
<1>8. /\ QueueInv' /\ Compute' = Compute
      /\ \A m, n : Filling(m, n) => Filling(m, n)' \/ m = l
  BY <1>1, <1>2, <1>3, PopCopyKeeps DEF Copy
<1>9. Slots' = Slots
  BY <1>4 DEF Slots
<1>10. GathersCovered'
  <2> SUFFICES ASSUME NEW j \in DOMAIN Compute, Compute[j].kind = "gather",
                      NEW m, m = Compute[j].arg, NEW n, n = Compute[j].batch
               PROVE  \/ Filling(m, n)'
                      \/ \A s \in Slots : s \in BufferSlots(Half(m)) => idOfSlot'[s] = None
    BY <1>8, <1>9 DEF GathersCovered, BufferSlots, Row, Half
  <2> HIDE DEF l
  <2> QED
    BY <1>1, <1>4, <1>8 DEF GathersCovered
<1>11. ResidencyIsTrue'
  <2> HIDE DEF B
  <2>1. ASSUME NEW i \in Ids, slotForId'[i] # None
        PROVE  idOfSlot'[slotForId'[i]] = i
    <3>1. slotForId'[i] = slotForId[i] /\ \A s \in B : idOfSlot[s] # i
      BY <1>4, <2>1
    <3>2. slotForId[i] \in Slots /\ idOfSlot[slotForId[i]] = i
      BY <1>1, <2>1, <3>1 DEF ResidencyIsTrue, TypeOK
    <3> QED
      BY <1>4, <3>1, <3>2
  <2>2. ASSUME NEW s \in Slots, idOfSlot'[s] # None
        PROVE  /\ slotForId'[idOfSlot'[s]] = s
               /\ s \notin Disowning' => \A k \in Banks : bytes'[k][s] = idOfSlot'[s]
    <3>1. s \notin B /\ idOfSlot'[s] = idOfSlot[s] /\ idOfSlot[s] # None
      BY <1>4, <2>2
    <3>2. slotForId[idOfSlot[s]] = s /\ idOfSlot[s] \in Ids
      BY <1>1, <3>1 DEF ResidencyIsTrue, TypeOK
    <3>3. \A t \in B : idOfSlot[t] # idOfSlot[s]
      BY <1>1, <1>5, <3>1, <3>2 DEF ResidencyIsTrue
    <3>4. slotForId'[idOfSlot'[s]] = s
      BY <1>4, <3>1, <3>2, <3>3
    <3>5. s \notin Disowning' => s \notin Disowning
      BY <1>8, <3>1, DisowningFacts DEF B
    <3>6. s \notin Disowning' => \A k \in Banks : bytes'[k][s] = idOfSlot'[s]
      BY <1>1, <1>6, <3>1, <3>5 DEF ResidencyIsTrue
    <3> QED
      BY <3>4, <3>6
  <2> QED
    BY <1>9, <2>1, <2>2 DEF ResidencyIsTrue, Ids
<1> QED
  BY <1>7, <1>8, <1>10, <1>11 DEF IInv

LEMMA GatherHitsKeeps ==
    ASSUME IInv, GatherHits
    PROVE  IInv'
<1> DEFINE l == Head(queue["compute"]).arg
           b == Half(l)
           B == BufferSlots(b)
<1>1. TypeOK /\ QueueInv /\ GathersCovered /\ ResidencyIsTrue
  BY DEF IInv
<1>2. /\ queue["compute"] # << >> /\ Pop("compute") /\ Compute # << >>
      /\ Head(Compute).kind = "gather" /\ Head(Compute).arg = l
      /\ UNCHANGED <<hostVars, snapshot, slotForId, idOfSlot, usage, routed>>
  BY DEF GatherHits, AtHead, Runnable, Compute
<1>3. UNCHANGED <<batch, batches, overlap>>
  BY <1>2 DEF hostVars
<1>4. l \in Layers /\ b \in Halves
  <2>1. l \in Layers
    BY <1>1, <1>2, HeadFacts, ArgTypes DEF Streams, Compute
  <2> QED
    BY <2>1, HalfType
<1>5. /\ bytes' \in [Banks -> [Slots -> Ids \union {None}]]
      /\ \A k \in Banks, s \in Slots : s \notin B => bytes'[k][s] = bytes[k][s]
  <2> DEFINE hits == {e \in Experts : IsHit(<<l, e>>)}
             Hit(k, s) == k \notin SmallBanks /\ \E e \in hits : s = Row(b, e)
             from(s) == slotForId[<<l, s - Row(b, 0)>>]
  <2>1. bytes' = [k \in Banks |-> [s \in Slots |->
                    IF Hit(k, s) THEN bytes[k][from(s)] ELSE bytes[k][s]]]
    BY DEF GatherHits
  <2>2. \A k, s : Hit(k, s) => s \in B /\ from(s) \in Slots
    <3> SUFFICES ASSUME NEW s, NEW e \in Experts, IsHit(<<l, e>>), s = Row(b, e)
                 PROVE  s \in B /\ from(s) \in Slots
      OBVIOUS
    <3>1. s \in B /\ s - Row(b, 0) = e
      BY <1>4, BufferFacts
    <3>2. <<l, e>> \in Ids /\ slotForId \in [Ids -> Slots \union {None}]
      BY <1>1, <1>4 DEF Ids, TypeOK
    <3> QED
      BY <3>1, <3>2 DEF IsHit
  <2>3. bytes \in [Banks -> [Slots -> Ids \union {None}]]
    BY <1>1 DEF TypeOK
  <2> HIDE DEF Hit, from, B
  <2> QED
    BY <2>1, <2>2, <2>3
<1>6. TypeOK'
  <2>1. queue' \in [Streams -> Seq(Ops)]
    BY <1>1, <1>2, HeadFacts DEF Streams
  <2> QED
    BY <1>1, <1>2, <1>5, <2>1, DeviceTypes DEF TypeOK
<1>7. /\ QueueInv' /\ \A m, n : Filling(m, n)' = Filling(m, n)
      /\ \A j \in DOMAIN Compute' :
           j \in Nat \ {0} /\ j + 1 \in DOMAIN Compute /\ Compute'[j] = Compute[j + 1]
  BY <1>1, <1>2, <1>3, PopComputeKeeps
<1>8. GathersCovered'
  BY <1>1, <1>2, <1>7, CoverageKept
<1>9. ResidencyIsTrue'
  <2>1. Slots' = Slots
    BY <1>2 DEF Slots
  <2>2. ASSUME NEW s \in Slots, s \in B, idOfSlot[s] # None
        PROVE  s \in Disowning'
    <3>1. 1 \in DOMAIN Compute /\ Compute[1] = Head(Compute)
      BY <1>1, <1>2, QueueFacts, TailFacts
    <3>2. Filling(l, Compute[1].batch)
      BY <1>1, <1>2, <2>2, <3>1 DEF GathersCovered
    <3> QED
      BY <1>7, <2>2, <3>2, DisowningFacts
  <2>3. ASSUME NEW s \in Slots, idOfSlot[s] # None, s \notin Disowning'
        PROVE  \A k \in Banks : bytes'[k][s] = idOfSlot[s]
    <3>1. s \notin B
      BY <2>2, <2>3
    <3>2. s \notin Disowning
      BY <1>7, <2>3, DisowningFacts
    <3> QED
      BY <1>1, <1>5, <2>3, <3>1, <3>2 DEF ResidencyIsTrue
  <2> QED
    BY <1>1, <1>2, <2>1, <2>3 DEF ResidencyIsTrue, Ids
<1> QED
  BY <1>6, <1>7, <1>8, <1>9 DEF IInv

(* ensure_experts: the new experts were in no slot, each gets one victim,  *)
(* and what the victims held is forgotten.                                 *)
LEMMA LoadKeeps ==
    ASSUME IInv, Load
    PROVE  IInv'
<1> DEFINE l == Head(queue["compute"]).arg.layer
           active == Head(queue["compute"]).arg.active
           missing == {e \in active : slotForId[<<l, e>>] = None}
           many == Min({Head(queue["compute"]).arg.cap, Cardinality(missing)})
           victims == Victims(l, active, many)
           step == usage.step + 1
           NewSlot(new, e) == CHOOSE s \in victims : new[s] = e
           At(new, i) ==
             IF i[1] = l /\ \E s \in victims : new[s] = i[2] THEN NewSlot(new, i[2])
             ELSE IF slotForId[i] \in victims THEN None ELSE slotForId[i]
<1>1. TypeOK /\ QueueInv /\ GathersCovered /\ ResidencyIsTrue
  BY DEF IInv
<1>2. /\ queue["compute"] # << >> /\ Pop("compute") /\ Compute # << >>
      /\ Head(Compute).kind = "load" /\ Head(Compute) = Head(queue["compute"])
      /\ UNCHANGED <<hostVars, snapshot>>
  BY DEF Load, AtHead, Runnable, Compute
<1>3. UNCHANGED <<batch, batches, overlap>>
  BY <1>2 DEF hostVars
<1>4. PICK new \in Injection(victims, missing) :
        /\ slotForId' = [i \in Ids |-> At(new, i)]
        /\ idOfSlot' = [s \in Slots |-> IF s \in victims THEN <<l, new[s]>> ELSE idOfSlot[s]]
        /\ bytes' = [k \in Banks |-> [s \in Slots |->
             IF s \in victims THEN <<l, new[s]>> ELSE bytes[k][s]]]
        /\ usage' = [step |-> step, of |-> [s \in Slots |->
             IF s \in victims \/ \E e \in active : idOfSlot[s] = <<l, e>>
               THEN step ELSE usage.of[s]]]
        /\ routed' = [e \in active |-> At(new, <<l, e>>)]
  BY DEF Load
<1>5. l \in Layers /\ active \subseteq Experts
  BY <1>1, <1>2, HeadFacts, ArgTypes DEF Streams
<1>6. victims \subseteq Slots
  BY DEF Victims
<1>7. /\ \A s \in victims : new[s] \in missing
      /\ \A s, t \in victims : new[s] = new[t] => s = t
  BY <1>4 DEF Injection, IsInjective
<1>8. /\ \A e \in missing : <<l, e>> \in Ids /\ slotForId[<<l, e>>] = None
      /\ \A i \in Ids : i = <<i[1], i[2]>>
  BY <1>5 DEF Ids
<1>9. /\ idOfSlot \in [Slots -> Ids \union {None}] /\ slotForId \in [Ids -> Slots \union {None}]
      /\ bytes \in [Banks -> [Slots -> Ids \union {None}]]
      /\ usage \in [step : Nat, of : [Slots -> Nat]] /\ snapshot \in [Ids -> Nat \union {None}]
  BY <1>1 DEF TypeOK
<1>10. \A s \in victims : NewSlot(new, new[s]) = s
  BY <1>7
<1> HIDE DEF l, active, missing, victims, many, step, NewSlot
<1>11. \A i \in Ids : At(new, i) \in Slots \union {None}
  <2>1. \A i : (\E s \in victims : new[s] = i[2]) => NewSlot(new, i[2]) \in Slots
    BY <1>6, <1>10
  <2> QED
    BY <1>9, <2>1
<1> DEFINE Found(i) == i[1] = l /\ \E s \in victims : new[s] = i[2]
<1>12. /\ \A i : Found(i) => At(new, i) = NewSlot(new, i[2])
       /\ \A i : ~ Found(i) => At(new, i) = IF slotForId[i] \in victims THEN None ELSE slotForId[i]
  OBVIOUS
<1> HIDE DEF At
<1>13. TypeOK'
  <2>1. queue' \in [Streams -> Seq(Ops)]
    BY <1>1, <1>2, HeadFacts DEF Streams
  <2>2. /\ slotForId' \in [Ids -> Slots \union {None}]
        /\ idOfSlot' \in [Slots -> Ids \union {None}]
        /\ bytes' \in [Banks -> [Slots -> Ids \union {None}]]
    BY <1>4, <1>7, <1>8, <1>9, <1>11
  <2>3. step \in Nat
    BY <1>9 DEF step
  <2>4. usage' \in [step : Nat, of : [Slots -> Nat]]
    BY <1>4, <1>9, <2>3
  <2>5. Slots \subseteq Nat
    BY <1>1, SlotFacts
  <2>6. \A e \in active : e \in Experts /\ <<l, e>> \in Ids
    BY <1>5 DEF Ids
  <2>7. \A e \in DOMAIN routed' : e \in Experts /\ routed'[e] \in Nat \union {None}
    BY <1>4, <1>11, <2>5, <2>6
  <2> QED
    BY <1>1, <1>2, <1>9, <2>1, <2>2, <2>4, <2>7, DeviceTypes
<1>14. /\ QueueInv' /\ \A m, n : Filling(m, n)' = Filling(m, n)
       /\ \A j \in DOMAIN Compute' :
            j \in Nat \ {0} /\ j + 1 \in DOMAIN Compute /\ Compute'[j] = Compute[j + 1]
  BY <1>1, <1>2, <1>3, PopComputeKeeps
<1>15. GathersCovered'
  BY <1>1, <1>2, <1>14, CoverageBehindLoad DEF Loading
<1>16. ResidencyIsTrue'
  <2>1. Slots' = Slots
    BY <1>4 DEF Slots
  <2>2. ASSUME NEW i \in Ids, slotForId'[i] # None
        PROVE  idOfSlot'[slotForId'[i]] = i
    <3>1. CASE Found(i)
      <4>1. PICK s \in victims : new[s] = i[2]
        BY <3>1
      <4>2. slotForId'[i] = s
        BY <1>4, <1>10, <1>12, <3>1, <4>1
      <4>3. idOfSlot'[s] = <<l, new[s]>> /\ i = <<i[1], i[2]>> /\ i[1] = l
        BY <1>4, <1>6, <1>8, <3>1
      <4> QED
        BY <4>1, <4>2, <4>3
    <3>2. CASE ~ Found(i)
      <4>1. slotForId'[i] = slotForId[i] /\ slotForId[i] \notin victims
        BY <1>4, <1>12, <2>2, <3>2
      <4>2. slotForId[i] \in Slots /\ idOfSlot[slotForId[i]] = i
        BY <1>1, <1>9, <2>2, <4>1 DEF ResidencyIsTrue
      <4> QED
        BY <1>4, <4>1, <4>2
    <3> QED
      BY <3>1, <3>2
  <2>3. ASSUME NEW s \in Slots, idOfSlot'[s] # None
        PROVE  /\ slotForId'[idOfSlot'[s]] = s
               /\ s \notin Disowning' => \A k \in Banks : bytes'[k][s] = idOfSlot'[s]
    <3>1. CASE s \in victims
      <4> DEFINE i == <<l, new[s]>>
      <4>1. idOfSlot'[s] = i /\ \A k \in Banks : bytes'[k][s] = i
        BY <1>4, <3>1
      <4>2. i \in Ids /\ Found(i) /\ i[2] = new[s]
        BY <1>7, <1>8, <3>1
      <4>3. slotForId'[i] = s
        BY <1>4, <1>10, <1>12, <3>1, <4>2
      <4> QED
        BY <4>1, <4>3
    <3>2. CASE s \notin victims
      <4> DEFINE i == idOfSlot[s]
      <4>1. idOfSlot'[s] = i /\ i # None /\ \A k \in Banks : bytes'[k][s] = bytes[k][s]
        BY <1>4, <2>3, <3>2
      <4>2. i \in Ids /\ slotForId[i] = s
        BY <1>1, <1>9, <4>1 DEF ResidencyIsTrue
      <4>3. s # None
        BY <1>1, SlotFacts
      <4>4. ~ Found(i)
        BY <1>7, <1>8, <4>2, <4>3
      <4>5. slotForId'[i] = s
        BY <1>4, <1>12, <3>2, <4>2, <4>4
      <4>6. s \notin Disowning' => s \notin Disowning
        BY <1>14, DisowningFacts
      <4> QED
        BY <1>1, <4>1, <4>5, <4>6 DEF ResidencyIsTrue
    <3> QED
      BY <3>1, <3>2
  <2> QED
    BY <2>1, <2>2, <2>3 DEF ResidencyIsTrue, Ids
<1> QED
  BY <1>13, <1>14, <1>15, <1>16 DEF IInv

LEMMA MaterializeKeeps ==
    ASSUME IInv, Materialize
    PROVE  IInv'
<1> DEFINE l == Head(queue["compute"]).arg
           front == BufferSlots(0)
           step == usage.step + 1
           SameLayer(s) == idOfSlot[s] # None /\ idOfSlot[s][1] = l
           Displaced(i) == \E s \in front : idOfSlot[s] = i
<1>1. TypeOK /\ QueueInv /\ GathersCovered /\ ResidencyIsTrue
  BY DEF IInv
<1>2. /\ queue["compute"] # << >> /\ Pop("compute") /\ Compute # << >>
      /\ Head(Compute).kind = "materialize" /\ Head(Compute) = Head(queue["compute"])
      /\ UNCHANGED <<hostVars, snapshot, routed>>
  BY DEF Materialize, AtHead, Runnable, Compute
<1>3. UNCHANGED <<batch, batches, overlap>>
  BY <1>2 DEF hostVars
<1>4. /\ slotForId' = [i \in Ids |->
           IF i[1] = l THEN i[2] ELSE IF Displaced(i) THEN None ELSE slotForId[i]]
      /\ idOfSlot' = [s \in Slots |->
           IF s \in front THEN <<l, s>> ELSE IF SameLayer(s) THEN None ELSE idOfSlot[s]]
      /\ bytes' = [k \in Banks |-> [s \in Slots |->
           IF s \in front THEN <<l, s>> ELSE bytes[k][s]]]
      /\ usage' = [step |-> step, of |-> [s \in Slots |->
           IF s \in front THEN step ELSE IF SameLayer(s) THEN 0 ELSE usage.of[s]]]
  BY DEF Materialize
<1>5. l \in Layers /\ front = Experts /\ front \subseteq Slots
  <2>1. l \in Layers
    BY <1>1, <1>2, HeadFacts, ArgTypes DEF Streams
  <2> QED
    BY <1>1, <2>1, FrontFacts, SlotFacts
<1>6. /\ \A s \in front : <<l, s>> \in Ids
      /\ \A i \in Ids : i = <<i[1], i[2]>> /\ i[2] \in front
  BY <1>5 DEF Ids
<1>7. /\ idOfSlot \in [Slots -> Ids \union {None}] /\ slotForId \in [Ids -> Slots \union {None}]
      /\ bytes \in [Banks -> [Slots -> Ids \union {None}]]
      /\ usage \in [step : Nat, of : [Slots -> Nat]] /\ snapshot \in [Ids -> Nat \union {None}]
      /\ \A e \in DOMAIN routed : e \in Experts /\ routed[e] \in Nat \union {None}
  BY <1>1 DEF TypeOK
<1> HIDE DEF l, front, step
<1>8. TypeOK'
  <2>1. queue' \in [Streams -> Seq(Ops)]
    BY <1>1, <1>2, HeadFacts DEF Streams
  <2>2. step \in Nat
    BY <1>7 DEF step
  <2> HIDE DEF SameLayer, Displaced
  <2>3. slotForId' \in [Ids -> Slots \union {None}]
    BY <1>4, <1>5, <1>6, <1>7
  <2>4. /\ idOfSlot' \in [Slots -> Ids \union {None}]
        /\ bytes' \in [Banks -> [Slots -> Ids \union {None}]]
    BY <1>4, <1>6, <1>7
  <2>5. usage' \in [step : Nat, of : [Slots -> Nat]]
    BY <1>4, <1>7, <2>2
  <2> QED
    BY <1>1, <1>2, <1>7, <2>1, <2>3, <2>4, <2>5, DeviceTypes
<1>9. /\ QueueInv' /\ \A m, n : Filling(m, n)' = Filling(m, n)
      /\ \A j \in DOMAIN Compute' :
           j \in Nat \ {0} /\ j + 1 \in DOMAIN Compute /\ Compute'[j] = Compute[j + 1]
  BY <1>1, <1>2, <1>3, PopComputeKeeps
<1>10. GathersCovered'
  BY <1>1, <1>2, <1>9, CoverageBehindLoad DEF Loading
<1>11. ResidencyIsTrue'
  <2>1. Slots' = Slots
    BY <1>4 DEF Slots
  <2>2. ASSUME NEW i \in Ids, slotForId'[i] # None
        PROVE  idOfSlot'[slotForId'[i]] = i
    <3>1. CASE i[1] = l
      <4>1. slotForId'[i] = i[2] /\ i[2] \in front /\ i[2] \in Slots
        BY <1>4, <1>5, <1>6, <3>1
      <4>2. idOfSlot'[i[2]] = <<l, i[2]>>
        BY <1>4, <4>1
      <4> QED
        BY <1>6, <3>1, <4>1, <4>2
    <3>2. CASE i[1] # l
      <4>1. slotForId'[i] = slotForId[i] /\ ~ Displaced(i)
        BY <1>4, <2>2, <3>2
      <4>2. slotForId[i] \in Slots /\ idOfSlot[slotForId[i]] = i
        BY <1>1, <1>7, <2>2, <4>1 DEF ResidencyIsTrue
      <4> QED
        BY <1>4, <3>2, <4>1, <4>2
    <3> QED
      BY <3>1, <3>2
  <2>3. ASSUME NEW s \in Slots, idOfSlot'[s] # None
        PROVE  /\ slotForId'[idOfSlot'[s]] = s
               /\ s \notin Disowning' => \A k \in Banks : bytes'[k][s] = idOfSlot'[s]
    <3>1. CASE s \in front
      <4> DEFINE i == <<l, s>>
      <4>1. /\ idOfSlot'[s] = i /\ i \in Ids /\ i[1] = l /\ i[2] = s
            /\ \A k \in Banks : bytes'[k][s] = i
        BY <1>4, <1>6, <3>1
      <4>2. slotForId'[i] = s
        BY <1>4, <4>1
      <4> QED
        BY <4>1, <4>2
    <3>2. CASE s \notin front
      <4> DEFINE i == idOfSlot[s]
      <4>1. /\ idOfSlot'[s] = i /\ i # None /\ i[1] # l
            /\ \A k \in Banks : bytes'[k][s] = bytes[k][s]
        BY <1>4, <2>3, <3>2
      <4>2. i \in Ids /\ slotForId[i] = s
        BY <1>1, <1>7, <4>1 DEF ResidencyIsTrue
      <4>3. ~ Displaced(i)
        <5> SUFFICES ASSUME NEW t \in front, idOfSlot[t] = i
                     PROVE  FALSE
          OBVIOUS
        <5>1. t \in Slots /\ idOfSlot[t] # None
          BY <1>5, <4>1
        <5>2. slotForId[i] = t
          BY <1>1, <5>1 DEF ResidencyIsTrue
        <5> QED
          BY <3>2, <4>2, <5>2
      <4>4. slotForId'[i] = s
        BY <1>4, <4>1, <4>2, <4>3
      <4>5. s \notin Disowning' => s \notin Disowning
        BY <1>9, DisowningFacts
      <4> QED
        BY <1>1, <4>1, <4>4, <4>5 DEF ResidencyIsTrue
    <3> QED
      BY <3>1, <3>2
  <2> QED
    BY <2>1, <2>2, <2>3 DEF ResidencyIsTrue, Ids
<1> QED
  BY <1>8, <1>9, <1>10, <1>11 DEF IInv

-----------------------------------------------------------------------------

LEMMA InitKeeps == Init => IInv
<1> SUFFICES ASSUME Init PROVE IInv
  OBVIOUS
<1>1. /\ Compute = << >> /\ Copy = << >> /\ queue = [s \in Streams |-> << >>]
      /\ batch = Idle /\ batches = 0 /\ splitting = FALSE
      /\ overlap = (InitialSize >= Volatile)
  BY DEF Init, Compute, Copy, Streams
<1>2. /\ Slots = 0 .. InitialSize - 1 /\ InitialSize \in Sizes /\ InitialSize >= NumExperts
      /\ idOfSlot = [s \in Slots |-> None] /\ slotForId = [i \in Ids |-> None]
      /\ usage = [step |-> 0, of |-> [s \in Slots |-> 0]]
      /\ bytes = [k \in Banks |-> [s \in Slots |-> None]]
      /\ buffers = [b \in Halves |-> EmptyHalf] /\ snapshot = [i \in Ids |-> None]
      /\ routed = << >>
  BY ExpertCacheAssumption DEF Init, Slots
<1>3. QueueInv /\ GathersCovered
  BY <1>1, ShortQueues DEF Idle, QueueInv, BatchesInOrder, StreamsFit, StreamsLoadNothing,
     BatchFenced, FillsFenced, GathersAfterLoads, GathersCovered
<1>4. ResidencyIsTrue
  BY <1>2 DEF ResidencyIsTrue
<1>5. TypeOK
  <2>1. batch \in BatchType /\ batch.mode = "idle"
    BY <1>1, IdleType
  <2>2. queue \in [Streams -> Seq(Ops)]
    BY <1>1, ShortQueues
  <2>3. buffers \in [Halves -> HalfStates]
    BY <1>2 DEF EmptyHalf, HalfStates
  <2>4. /\ usage \in [step : Nat, of : [Slots -> Nat]]
        /\ idOfSlot \in [Slots -> Ids \union {None}] /\ slotForId \in [Ids -> Slots \union {None}]
        /\ bytes \in [Banks -> [Slots -> Ids \union {None}]]
        /\ snapshot \in [Ids -> Nat \union {None}]
    BY <1>2
  <2>5. \E n \in Sizes : Slots = 0 .. n - 1 /\ n >= NumExperts /\ (overlap => n >= Volatile)
    BY <1>1, <1>2
  <2>6. \A e \in DOMAIN routed : e \in Experts /\ routed[e] \in Nat \union {None}
    <3>1. DOMAIN routed = {}
      BY <1>2
    <3> QED
      BY <3>1
  <2>7. batches \in Nat /\ splitting \in BOOLEAN /\ overlap \in BOOLEAN
    <3>1. batches \in Nat /\ splitting \in BOOLEAN
      BY <1>1
    <3>2. (InitialSize >= Volatile) \in BOOLEAN
      OBVIOUS
    <3>3. overlap \in BOOLEAN
      BY <1>1, <3>2, Zenon
    <3> QED
      BY <3>1, <3>3
  <2>8. batch \in [mode : Modes, layer : Layers, route : Routings \union {None}]
    BY <2>1 DEF BatchType
  <2>9. batch.mode \in {"decode", "short_prefill"} => batch.route \in Routings
    BY <2>1
  <2> QED
    BY <2>2, <2>3, <2>4, <2>5, <2>6, <2>7, <2>8, <2>9 DEF TypeOK
<1> QED
  BY <1>3, <1>4, <1>5 DEF IInv

LEMMA StutterKeeps ==
    ASSUME IInv, UNCHANGED vars
    PROVE  IInv'
<1>1. /\ UNCHANGED <<batch, batches, buffers, splitting, overlap, snapshot, queue>>
      /\ UNCHANGED <<slotForId, idOfSlot, usage, bytes, routed>>
  BY DEF vars, hostVars, deviceVars
<1>2. /\ Compute' = Compute /\ Copy' = Copy /\ Slots' = Slots
      /\ TypeOK /\ QueueInv /\ GathersCovered /\ ResidencyIsTrue
  BY <1>1 DEF Compute, Copy, Slots, IInv
<1>3. /\ \A l, n : Filling(l, n)' = Filling(l, n)
      /\ \A i, n : RecordAfter(i, n)' = RecordAfter(i, n)
      /\ \A c, n : WaitBefore(c, n)' = WaitBefore(c, n)
      /\ \A n : WaitQueued(n)' = WaitQueued(n)
  BY <1>2 DEF Filling, RecordAfter, WaitBefore, WaitQueued, Begin
<1>4. TypeOK'
  BY <1>1, <1>2, HostTypes DEF deviceVars, TypeOK, BatchType
<1>5. BatchesInOrder' /\ StreamsFit' /\ StreamsLoadNothing' /\ BatchFenced'
  BY <1>1, <1>2, <1>3 DEF QueueInv, BatchesInOrder, StreamsFit, StreamsLoadNothing,
     BatchFenced, Loading
<1>6. FillsFenced' /\ GathersAfterLoads'
  BY <1>2, <1>3 DEF QueueInv, FillsFenced, GathersAfterLoads, Loading
<1>7. GathersCovered'
  BY <1>1, <1>2, <1>3 DEF GathersCovered, BufferSlots, Row, Half
<1>8. ResidencyIsTrue'
  BY <1>1, <1>2, <1>3, ResidencyKept
<1> QED
  BY <1>4, <1>5, <1>6, <1>7, <1>8 DEF IInv, QueueInv

LEMMA NextKeeps ==
    ASSUME IInv, [Next]_vars
    PROVE  IInv'
<1>1. CASE StartBatch("prefill", None)
  BY <1>1, StartBatchKeeps
<1>2. CASE \E mode \in {"decode", "short_prefill"}, route \in Routings : StartBatch(mode, route)
  BY <1>2, StartBatchKeeps
<1>3. CASE \E n \in Sizes : Rebuild(n)
  BY <1>3, RebuildKeeps
<1>4. CASE \E s \in Streams : Pass(s)
  BY <1>4, PassKeeps
<1>5. CASE Finished \/ UNCHANGED vars
  BY <1>5, StutterKeeps DEF Finished
<1> QED
  BY <1>1, <1>2, <1>3, <1>4, <1>5, BeginPrefillKeeps, StreamLayerKeeps, MaterializeLayerKeeps,
     DemandLayerKeeps, TakeSnapshotKeeps, FillHalfKeeps, GatherHitsKeeps, LoadKeeps,
     MaterializeKeeps DEF Next, Host, Device

(* IInv holds of every behaviour of the cache.                             *)
THEOREM InvariantHolds == Spec => []IInv
<1>1. Init => IInv
  BY InitKeeps
<1>2. IInv /\ [Next]_vars => IInv'
  BY NextKeeps
<1> QED
  BY <1>1, <1>2, PTL DEF Spec

(* The variables keep their types, and an overlapped prefill its slots.    *)
THEOREM TypeCorrect == Spec => []TypeOK
<1>1. IInv => TypeOK
  BY DEF IInv
<1> QED
  BY <1>1, InvariantHolds, PTL

(* slot_for_id and id_of_slot stay each other's inverse, and a slot they   *)
(* name holds its expert in every bank, but for a half that a queued copy  *)
(* is yet to disown: however the two streams interleave, with batches of   *)
(* every kind behind one another and rebuilds between them.                *)
THEOREM ResidencyHolds == Spec => []ResidencyIsTrue
<1>1. IInv => ResidencyIsTrue
  BY DEF IInv
<1> QED
  BY <1>1, InvariantHolds, PTL


-----------------------------------------------------------------------------
(* A stream that runs its head.                                            *)

LEMMA StreamFacts ==
    ASSUME TypeOK, NEW s \in Streams
    PROVE  /\ queue[s] \in Seq(Ops) /\ Len(queue[s]) \in Nat
           /\ DOMAIN queue[s] = 1 .. Len(queue[s])
           /\ \A i \in DOMAIN queue[s] : queue[s][i] \in Ops
<1>1. queue[s] \in Seq(Ops)
  BY DEF TypeOK
<1>2. Len(queue[s]) \in Nat /\ DOMAIN queue[s] = 1 .. Len(queue[s])
  BY <1>1, LenProperties
<1> QED
  BY <1>1, <1>2, ElementOfSeq

LEMMA OtherStream ==
    ASSUME NEW s \in Streams, NEW t \in Streams, s # t
    PROVE  Other(s) = t /\ Streams = {s, t}
  BY DEF Other, Streams

LEMMA PopFacts ==
    ASSUME TypeOK, NEW s \in Streams, queue[s] # << >>, Pop(s)
    PROVE  /\ 1 \in DOMAIN queue[s] /\ Head(queue[s]) = queue[s][1]
           /\ \A i \in DOMAIN queue'[s] :
                i \in Nat \ {0} /\ i + 1 \in DOMAIN queue[s] /\ queue'[s][i] = queue[s][i + 1]
           /\ \A i \in DOMAIN queue[s] :
                i \in Nat \ {0} /\ (i # 1 => i - 1 \in DOMAIN queue'[s] /\ queue'[s][i - 1] = queue[s][i])
           /\ \A t \in Streams : t # s => queue'[t] = queue[t]
<1>1. queue[s] \in Seq(Ops)
  BY StreamFacts
<1>2. queue'[s] = Tail(queue[s]) /\ \A t \in Streams : t # s => queue'[t] = queue[t]
  BY DEF Pop, TypeOK
<1>3. /\ Len(queue[s]) \in Nat \ {0} /\ DOMAIN queue[s] = 1 .. Len(queue[s])
      /\ Head(queue[s]) = queue[s][1]
      /\ DOMAIN queue'[s] = 1 .. Len(queue[s]) - 1
      /\ \A i \in 1 .. Len(queue[s]) - 1 : queue'[s][i] = queue[s][i + 1]
  BY <1>1, <1>2, TailFacts
<1> QED
  BY <1>2, <1>3

(* What was behind position i + 1 is behind position i.                    *)
LEMMA PopRecords ==
    ASSUME TypeOK, NEW s \in Streams, queue[s] # << >>, Pop(s),
           NEW i \in Nat \ {0}, NEW event, RecordFrom(s, i + 1, event)
    PROVE  RecordFrom(s, i, event)'
<1>1. PICK k \in DOMAIN queue[s] :
        k >= i + 1 /\ queue[s][k].kind = "record" /\ queue[s][k].arg = event
  BY DEF RecordFrom
<1>2. k \in Nat /\ k - 1 >= i /\ k - 1 \in DOMAIN queue'[s] /\ queue'[s][k - 1] = queue[s][k]
  BY <1>1, PopFacts
<1> QED
  BY <1>1, <1>2 DEF RecordFrom

(* The head of a stream that may run is not held back by the other.        *)
LEMMA HeadIsFree ==
    ASSUME TypeOK, NEW s \in Streams, NEW t \in Streams, s # t, Runnable(t), NEW i
    PROVE  ~ Sync(s, i, t, 1)
<1> SUFFICES ASSUME Sync(s, i, t, 1)
             PROVE  FALSE
  OBVIOUS
<1>1. PICK w \in DOMAIN queue[t] :
        w <= 1 /\ queue[t][w].kind = "wait" /\ RecordFrom(s, i, queue[t][w].arg)
  BY DEF Sync
<1>2. queue[t] \in Seq(Ops) /\ queue[t] # << >> /\ DOMAIN queue[t] = 1 .. Len(queue[t])
  BY StreamFacts DEF Runnable
<1>3. w = 1 /\ Head(queue[t]) = queue[t][1]
  BY <1>1, <1>2, TailFacts
<1>4. Pending(s, Head(queue[t]).arg)
  BY <1>1, <1>3 DEF RecordFrom, Pending
<1> QED
  BY <1>1, <1>3, <1>4, OtherStream DEF Runnable

LEMMA PopFirst ==
    ASSUME TypeOK, NEW s \in Streams, NEW t \in Streams, s # t, queue[s] # << >>, Pop(s),
           NEW i \in Nat \ {0}, NEW j, Sync(s, i + 1, t, j)
    PROVE  Sync(s, i, t, j)'
<1>1. PICK w \in DOMAIN queue[t] :
        w <= j /\ queue[t][w].kind = "wait" /\ RecordFrom(s, i + 1, queue[t][w].arg)
  BY DEF Sync
<1>2. PICK event : event = queue[t][w].arg /\ RecordFrom(s, i + 1, event)
  BY <1>1
<1>3. RecordFrom(s, i, event)'
  BY <1>2, PopRecords
<1>4. queue'[t] = queue[t]
  BY PopFacts
<1> QED
  BY <1>1, <1>2, <1>3, <1>4 DEF Sync, RecordFrom

LEMMA PopSecond ==
    ASSUME TypeOK, NEW s \in Streams, NEW t \in Streams, s # t, Runnable(t), Pop(t),
           NEW i, NEW j \in Nat \ {0}, Sync(s, i, t, j + 1)
    PROVE  Sync(s, i, t, j)'
<1>1. PICK w \in DOMAIN queue[t] :
        w <= j + 1 /\ queue[t][w].kind = "wait" /\ RecordFrom(s, i, queue[t][w].arg)
  BY DEF Sync
<1>2. queue[t] # << >>
  BY DEF Runnable
<1>3. w # 1
  <2>1. ASSUME w = 1 PROVE Sync(s, i, t, 1)
    BY <1>1, <2>1 DEF Sync
  <2> QED
    BY <2>1, HeadIsFree
<1>4. /\ w \in Nat /\ w - 1 \in DOMAIN queue'[t] /\ queue'[t][w - 1] = queue[t][w]
      /\ queue'[s] = queue[s]
  BY <1>1, <1>2, <1>3, PopFacts
<1>5. w - 1 <= j
  BY <1>1, <1>4
<1>6. PICK event : event = queue[t][w].arg /\ RecordFrom(s, i, event)
  BY <1>1
<1>7. RecordFrom(s, i, event)'
  BY <1>4, <1>6 DEF RecordFrom
<1> QED
  BY <1>1, <1>4, <1>5, <1>6, <1>7 DEF Sync, RecordFrom

(* The compute stream runs its head: everything OrderInv says of what is   *)
(* behind it stays.                                                        *)
LEMMA PopCompute ==
    ASSUME TypeOK, Compute # << >>, Pop("compute")
    PROVE  /\ 1 \in DOMAIN Compute /\ Head(Compute) = Compute[1] /\ Copy' = Copy
           /\ \A i \in DOMAIN Compute' :
                i \in Nat \ {0} /\ i + 1 \in DOMAIN Compute /\ Compute'[i] = Compute[i + 1]
           /\ \A i \in DOMAIN Compute :
                i \in Nat \ {0} /\ (i # 1 => i - 1 \in DOMAIN Compute' /\ Compute'[i - 1] = Compute[i])
           /\ \A i \in Nat \ {0} : \A event :
                RecordFrom("compute", i + 1, event) => RecordFrom("compute", i, event)'
           /\ \A c, event : RecordFrom("copy", c, event)' = RecordFrom("copy", c, event)
<1>1. /\ "compute" \in Streams /\ "copy" \in Streams /\ queue["compute"] # << >>
      /\ Compute = queue["compute"] /\ Copy = queue["copy"]
      /\ Compute' = queue'["compute"] /\ Copy' = queue'["copy"]
  BY DEF Streams, Compute, Copy
<1>2. \A i \in Nat \ {0} : \A event :
        RecordFrom("compute", i + 1, event) => RecordFrom("compute", i, event)'
  BY <1>1, PopRecords
<1>3. Copy' = Copy
  BY <1>1, PopFacts
<1>4. \A c, event : RecordFrom("copy", c, event)' = RecordFrom("copy", c, event)
  BY <1>1, <1>3 DEF RecordFrom
<1>5. /\ 1 \in DOMAIN Compute /\ Head(Compute) = Compute[1]
      /\ \A i \in DOMAIN Compute' :
           i \in Nat \ {0} /\ i + 1 \in DOMAIN Compute /\ Compute'[i] = Compute[i + 1]
      /\ \A i \in DOMAIN Compute :
           i \in Nat \ {0} /\ (i # 1 => i - 1 \in DOMAIN Compute' /\ Compute'[i - 1] = Compute[i])
  BY <1>1, PopFacts
<1> QED
  BY <1>2, <1>3, <1>4, <1>5

LEMMA PopCopy ==
    ASSUME TypeOK, Copy # << >>, Pop("copy")
    PROVE  /\ 1 \in DOMAIN Copy /\ Head(Copy) = Copy[1] /\ Compute' = Compute
           /\ \A c \in DOMAIN Copy' :
                c \in Nat \ {0} /\ c + 1 \in DOMAIN Copy /\ Copy'[c] = Copy[c + 1]
           /\ \A c \in DOMAIN Copy :
                c \in Nat \ {0} /\ (c # 1 => c - 1 \in DOMAIN Copy' /\ Copy'[c - 1] = Copy[c])
           /\ \A c \in Nat \ {0} : \A event :
                RecordFrom("copy", c + 1, event) => RecordFrom("copy", c, event)'
           /\ \A i, event : RecordFrom("compute", i, event)' = RecordFrom("compute", i, event)
<1>1. /\ "compute" \in Streams /\ "copy" \in Streams /\ queue["copy"] # << >>
      /\ Compute = queue["compute"] /\ Copy = queue["copy"]
      /\ Compute' = queue'["compute"] /\ Copy' = queue'["copy"]
  BY DEF Streams, Compute, Copy
<1>2. \A c \in Nat \ {0} : \A event :
        RecordFrom("copy", c + 1, event) => RecordFrom("copy", c, event)'
  BY <1>1, PopRecords
<1>3. Compute' = Compute
  BY <1>1, PopFacts
<1>4. \A i, event : RecordFrom("compute", i, event)' = RecordFrom("compute", i, event)
  BY <1>1, <1>3 DEF RecordFrom
<1>5. /\ 1 \in DOMAIN Copy /\ Head(Copy) = Copy[1]
      /\ \A c \in DOMAIN Copy' :
           c \in Nat \ {0} /\ c + 1 \in DOMAIN Copy /\ Copy'[c] = Copy[c + 1]
      /\ \A c \in DOMAIN Copy :
           c \in Nat \ {0} /\ (c # 1 => c - 1 \in DOMAIN Copy' /\ Copy'[c - 1] = Copy[c])
  BY <1>1, PopFacts
<1> QED
  BY <1>2, <1>3, <1>4, <1>5

(* What the two streams may run first, after a step of either.             *)
LEMMA SyncAfterCompute ==
    ASSUME TypeOK, Runnable("compute"), Pop("compute"), NEW i \in Nat \ {0}, NEW c
    PROVE  /\ Sync("compute", i + 1, "copy", c) => Sync("compute", i, "copy", c)'
           /\ Sync("copy", c, "compute", i + 1) => Sync("copy", c, "compute", i)'
           /\ ~ Sync("copy", c, "compute", 1)
<1>1. "compute" \in Streams /\ "copy" \in Streams /\ queue["compute"] # << >>
  BY DEF Streams, Runnable
<1> QED
  BY <1>1, PopFirst, PopSecond, HeadIsFree

LEMMA SyncAfterCopy ==
    ASSUME TypeOK, Runnable("copy"), Pop("copy"), NEW i, NEW c \in Nat \ {0}
    PROVE  /\ Sync("copy", c + 1, "compute", i) => Sync("copy", c, "compute", i)'
           /\ Sync("compute", i, "copy", c + 1) => Sync("compute", i, "copy", c)'
           /\ ~ Sync("compute", i, "copy", 1)
<1>1. "compute" \in Streams /\ "copy" \in Streams /\ queue["copy"] # << >>
  BY DEF Streams, Runnable
<1> QED
  BY <1>1, PopFirst, PopSecond, HeadIsFree

LEMMA ComputeStepKeepsOrder ==
    ASSUME IInv, OrderInv, Runnable("compute"), Pop("compute"), UNCHANGED hostVars
    PROVE  OrderInv'
<1>1. /\ TypeOK /\ Compute # << >>
      /\ UNCHANGED <<batch, batches, buffers, splitting, overlap>>
  BY DEF IInv, Runnable, Compute, hostVars
<1>2. /\ 1 \in DOMAIN Compute /\ Copy' = Copy
      /\ \A i \in DOMAIN Compute' :
           i \in Nat \ {0} /\ i + 1 \in DOMAIN Compute /\ Compute'[i] = Compute[i + 1]
      /\ \A i \in DOMAIN Compute :
           i \in Nat \ {0} /\ (i # 1 => i - 1 \in DOMAIN Compute' /\ Compute'[i - 1] = Compute[i])
      /\ \A i \in Nat \ {0} : \A event :
           RecordFrom("compute", i + 1, event) => RecordFrom("compute", i, event)'
      /\ \A c, event : RecordFrom("copy", c, event)' = RecordFrom("copy", c, event)
  BY <1>1, PopCompute
<1>3. KindsByStream'
  BY <1>2 DEF OrderInv, KindsByStream
<1>4. ComputeInOrder'
  <2> SUFFICES ASSUME NEW i \in DOMAIN Compute', NEW j \in DOMAIN Compute', i < j
               PROVE  /\ Compute'[i].batch <= Compute'[j].batch
                      /\ Compute'[i].batch = Compute'[j].batch /\ Compute'[i].kind = "gather" =>
                           /\ Compute'[j].kind = "gather" => Compute'[i].arg < Compute'[j].arg
                           /\ Compute'[j].kind = "layer_gemm" => Compute'[i].arg <= Compute'[j].arg + 1
    BY DEF ComputeInOrder
  <2>1. i + 1 \in DOMAIN Compute /\ j + 1 \in DOMAIN Compute /\ i + 1 < j + 1
        /\ Compute'[i] = Compute[i + 1] /\ Compute'[j] = Compute[j + 1]
    BY <1>2
  <2> QED
    BY <2>1 DEF OrderInv, ComputeInOrder
<1>5. FillsInOrder'
  BY <1>2 DEF OrderInv, FillsInOrder, Earlier
<1>6. GemmsFollow'
  <2> SUFFICES ASSUME NEW j \in DOMAIN Compute', j > 1
               PROVE  /\ Compute'[j].kind = "front_gemm" =>
                           Compute'[j - 1].kind = "materialize" /\ Compute'[j - 1].arg = Compute'[j].arg
                      /\ Compute'[j].kind = "slot_gemm" =>
                           Compute'[j - 1].kind = "load" /\ Compute'[j - 1].arg.layer = Compute'[j].arg
    BY DEF GemmsFollow
  <2>1. j \in Nat /\ j + 1 \in DOMAIN Compute /\ j + 1 > 1 /\ Compute'[j] = Compute[j + 1]
    BY <1>2
  <2>2. j \in DOMAIN Compute /\ Compute'[j - 1] = Compute[j]
    <3>1. Len(Compute) \in Nat /\ DOMAIN Compute = 1 .. Len(Compute)
      BY <1>1, QueueFacts
    <3>2. j \in DOMAIN Compute
      BY <3>1, <2>1
    <3> QED
      BY <3>2, <1>2
  <2>3. (j + 1) - 1 = j
    BY <2>1
  <2> QED
    BY <2>1, <2>2, <2>3 DEF OrderInv, GemmsFollow
<1>7. BatchesOfOneKind'
  BY <1>2 DEF OrderInv, BatchesOfOneKind, OnDemand, OfHalf
<1>8. HostIssued'
  BY <1>1, <1>2 DEF OrderInv, HostIssued, Issued, OnDemand, OfHalf, Half
<1>9. FillsAwaited'
  <2> SUFFICES ASSUME NEW c \in DOMAIN Copy, Copy[c].kind = "fill",
                      NEW event, event = Ready(Copy[c].batch, Copy[c].arg.layer)
               PROVE  /\ RecordFrom("copy", c, event)'
                      /\ \/ batch'.mode = "streaming" /\ Copy[c].batch = batches'
                              /\ Copy[c].arg.layer = batch'.layer
                         \/ \E w \in DOMAIN Compute' :
                              Compute'[w].kind = "wait" /\ Compute'[w].arg = event
    BY <1>2 DEF FillsAwaited, Ready
  <2>1. RecordFrom("copy", c, event)
    BY DEF OrderInv, FillsAwaited
  <2>2. ASSUME NEW w \in DOMAIN Compute, Compute[w].kind = "wait", Compute[w].arg = event
        PROVE  w # 1
    <3>1. Pending("copy", event)
      BY <2>1 DEF RecordFrom, Pending
    <3>2. Head(Compute) = Compute[1]
      BY <1>1, PopCompute
    <3>3. Other("compute") = "copy"
      BY OtherStream DEF Streams
    <3> QED
      BY <2>2, <3>1, <3>2, <3>3 DEF Runnable, Compute
  <2>3. ASSUME NEW w \in DOMAIN Compute, Compute[w].kind = "wait", Compute[w].arg = event
        PROVE  \E v \in DOMAIN Compute' : Compute'[v].kind = "wait" /\ Compute'[v].arg = event
    BY <2>2, <2>3, <1>2
  <2> QED
    BY <1>1, <1>2, <2>1, <2>3 DEF OrderInv, FillsAwaited
<1>10. FenceStands'
  BY <1>1, <1>2 DEF OrderInv, FenceStands, WaitQueued, Begin
<1>11. HalvesKnown'
  BY <1>1, <1>2 DEF OrderInv, HalvesKnown, OfPast, OfHalf, Ready, Half
<1>12. SnapshotsFirst'
  BY <1>1, <1>2 DEF OrderInv, SnapshotsFirst, SnapshotTaken, SnapshotQueued, Loading
<1>13. GathersUndisturbed'
  BY <1>2 DEF OrderInv, GathersUndisturbed, Loading
<1>14. StreamsOrdered'
  <2> SUFFICES ASSUME NEW i \in DOMAIN Compute', NEW c \in DOMAIN Copy
               PROVE  /\ ComputeFirst(Compute[i + 1], Copy[c]) => Sync("compute", i, "copy", c)'
                      /\ CopyFirst(Copy[c], Compute[i + 1]) => Sync("copy", c, "compute", i)'
    BY <1>2 DEF StreamsOrdered, ComputeFirst, CopyFirst, Touches, OfHalf, Half
  <2>1. i \in Nat \ {0} /\ i + 1 \in DOMAIN Compute
    BY <1>2
  <2> QED
    BY <1>1, <2>1, SyncAfterCompute DEF OrderInv, StreamsOrdered
<1> QED
  BY <1>3, <1>4, <1>5, <1>6, <1>7, <1>8, <1>9, <1>10, <1>11, <1>12, <1>13, <1>14 DEF OrderInv

LEMMA CopyStepKeepsOrder ==
    ASSUME IInv, OrderInv, Runnable("copy"), Pop("copy"), UNCHANGED hostVars
    PROVE  OrderInv'
<1>1. /\ TypeOK /\ Copy # << >>
      /\ UNCHANGED <<batch, batches, buffers, splitting, overlap>>
  BY DEF IInv, Runnable, Copy, hostVars
<1>2. /\ 1 \in DOMAIN Copy /\ Compute' = Compute
      /\ \A c \in DOMAIN Copy' :
           c \in Nat \ {0} /\ c + 1 \in DOMAIN Copy /\ Copy'[c] = Copy[c + 1]
      /\ \A c \in DOMAIN Copy :
           c \in Nat \ {0} /\ (c # 1 => c - 1 \in DOMAIN Copy' /\ Copy'[c - 1] = Copy[c])
      /\ \A c \in Nat \ {0} : \A event :
           RecordFrom("copy", c + 1, event) => RecordFrom("copy", c, event)'
      /\ \A i, event : RecordFrom("compute", i, event)' = RecordFrom("compute", i, event)
  BY <1>1, PopCopy
<1>3. KindsByStream'
  BY <1>2 DEF OrderInv, KindsByStream
<1>4. ComputeInOrder' /\ GemmsFollow'
  BY <1>2 DEF OrderInv, ComputeInOrder, GemmsFollow
<1>5. FillsInOrder'
  <2> SUFFICES ASSUME NEW c \in DOMAIN Copy', NEW d \in DOMAIN Copy', c < d,
                      Copy'[c].kind = "fill", Copy'[d].kind = "fill"
               PROVE  Earlier(Copy'[c].batch, Copy'[c].arg.layer, Copy'[d].batch, Copy'[d].arg.layer)
    BY DEF FillsInOrder, Earlier
  <2>1. c + 1 \in DOMAIN Copy /\ d + 1 \in DOMAIN Copy /\ c + 1 < d + 1
        /\ Copy'[c] = Copy[c + 1] /\ Copy'[d] = Copy[d + 1]
    BY <1>2
  <2> QED
    BY <2>1 DEF OrderInv, FillsInOrder
<1>6. BatchesOfOneKind'
  BY <1>2 DEF OrderInv, BatchesOfOneKind, OnDemand, OfHalf
<1>7. HostIssued'
  BY <1>1, <1>2 DEF OrderInv, HostIssued, Issued, OnDemand, OfHalf, Half
<1>8. FillsAwaited'
  <2> SUFFICES ASSUME NEW c \in DOMAIN Copy', Copy'[c].kind = "fill",
                      NEW event, event = Ready(Copy'[c].batch, Copy'[c].arg.layer)
               PROVE  /\ RecordFrom("copy", c, event)'
                      /\ \/ batch.mode = "streaming" /\ Copy'[c].batch = batches
                              /\ Copy'[c].arg.layer = batch.layer
                         \/ \E w \in DOMAIN Compute :
                              Compute[w].kind = "wait" /\ Compute[w].arg = event
    BY <1>1, <1>2 DEF FillsAwaited, Ready
  <2>1. c \in Nat \ {0} /\ c + 1 \in DOMAIN Copy /\ Copy'[c] = Copy[c + 1]
    BY <1>2
  <2>2. /\ RecordFrom("copy", c + 1, event)
        /\ \/ batch.mode = "streaming" /\ Copy'[c].batch = batches
                /\ Copy'[c].arg.layer = batch.layer
           \/ \E w \in DOMAIN Compute : Compute[w].kind = "wait" /\ Compute[w].arg = event
    BY <2>1 DEF OrderInv, FillsAwaited
  <2> QED
    BY <1>2, <2>1, <2>2
<1>9. FenceStands'
  <2> SUFFICES ASSUME batch.mode = "streaming", NEW i \in DOMAIN Compute,
                      NEW n, n = batches, Compute[i].batch < n
               PROVE  RecordFrom("compute", i, Begin(n))' /\ WaitQueued(n)'
    BY <1>1, <1>2 DEF FenceStands, Begin
  <2>1. RecordFrom("compute", i, Begin(n)) /\ WaitQueued(n)
    BY DEF OrderInv, FenceStands
  <2>2. PICK w \in DOMAIN Copy : Copy[w].kind = "wait" /\ Copy[w].arg = Begin(n)
    BY <2>1 DEF WaitQueued
  <2>3. ASSUME w = 1 PROVE FALSE
    <3>1. Sync("compute", i, "copy", 1)
      BY <2>1, <2>2, <2>3 DEF Sync, Copy
    <3> QED
      BY <1>1, <3>1, HeadIsFree DEF Streams
  <2>4. w - 1 \in DOMAIN Copy' /\ Copy'[w - 1] = Copy[w]
    BY <1>2, <2>2, <2>3
  <2>5. Begin(n)' = Begin(n)
    BY DEF Begin
  <2>6. RecordFrom("compute", i, Begin(n))'
    BY <1>2, <2>1, <2>5 DEF RecordFrom
  <2> QED
    BY <2>2, <2>4, <2>5, <2>6 DEF WaitQueued
<1>10. HalvesKnown'
  BY <1>1, <1>2 DEF OrderInv, HalvesKnown, OfPast, OfHalf, Ready, Half
<1>11. SnapshotsFirst'
  <2>1. ASSUME SnapshotTaken', NEW i \in DOMAIN Compute, Loading(Compute[i])
        PROVE  FALSE
    <3>1. ~ SnapshotTaken /\ batch.mode = "streaming"
      BY <1>1, <2>1 DEF OrderInv, SnapshotsFirst, SnapshotTaken
    <3>2. Copy[1].kind = "snapshot" /\ Copy[1].batch = batches
      BY <1>1, <1>2, <2>1, <3>1 DEF OrderInv, SnapshotsFirst, SnapshotTaken, SnapshotQueued
    <3>3. Compute[i].batch < batches
      BY <2>1, <3>1 DEF OrderInv, HostIssued, OnDemand, Loading
    <3>4. Sync("compute", i, "copy", 1)
      BY <1>2, <2>1, <3>2, <3>3
      DEF OrderInv, StreamsOrdered, ComputeFirst, Touches, Loading
    <3> QED
      BY <1>1, <3>4, HeadIsFree DEF Streams
  <2>2. \A c \in DOMAIN Copy' : Copy'[c].kind = "snapshot" =>
           /\ batch.mode = "streaming" /\ splitting /\ batch.layer = 0
           /\ Copy'[c].batch = batches
    BY <1>2 DEF OrderInv, SnapshotsFirst
  <2> QED
    BY <1>1, <1>2, <2>1, <2>2 DEF SnapshotsFirst, Loading
<1>12. GathersUndisturbed'
  BY <1>2 DEF OrderInv, GathersUndisturbed, Loading
<1>13. StreamsOrdered'
  <2> SUFFICES ASSUME NEW i \in DOMAIN Compute, NEW c \in DOMAIN Copy'
               PROVE  /\ ComputeFirst(Compute[i], Copy[c + 1]) => Sync("compute", i, "copy", c)'
                      /\ CopyFirst(Copy[c + 1], Compute[i]) => Sync("copy", c, "compute", i)'
    BY <1>2 DEF StreamsOrdered, ComputeFirst, CopyFirst, Touches, OfHalf, Half
  <2>1. c \in Nat \ {0} /\ c + 1 \in DOMAIN Copy
    BY <1>2
  <2> QED
    BY <1>1, <2>1, SyncAfterCopy DEF OrderInv, StreamsOrdered
<1> QED
  BY <1>3, <1>4, <1>5, <1>6, <1>7, <1>8, <1>9, <1>10, <1>11, <1>12, <1>13 DEF OrderInv

-----------------------------------------------------------------------------
(* What the host appends.                                                  *)

LEMMA AppendFacts ==
    ASSUME TypeOK, NEW x, NEW y, Appends(x, y)
    PROVE  /\ Len(Compute) \in Nat /\ DOMAIN Compute = 1 .. Len(Compute)
           /\ Len(x) \in Nat /\ DOMAIN x = 1 .. Len(x)
           /\ DOMAIN Compute' = 1 .. Len(Compute) + Len(x)
           /\ \A i \in DOMAIN Compute : Compute'[i] = Compute[i]
           /\ \A k \in DOMAIN x : Compute'[Len(Compute) + k] = x[k]
           /\ Len(Copy) \in Nat /\ DOMAIN Copy = 1 .. Len(Copy)
           /\ Len(y) \in Nat /\ DOMAIN y = 1 .. Len(y)
           /\ DOMAIN Copy' = 1 .. Len(Copy) + Len(y)
           /\ \A c \in DOMAIN Copy : Copy'[c] = Copy[c]
           /\ \A k \in DOMAIN y : Copy'[Len(Copy) + k] = y[k]
<1> DEFINE at(s, t) == /\ Len(s) \in Nat /\ DOMAIN s = 1 .. Len(s)
                       /\ Len(t) \in Nat /\ DOMAIN t = 1 .. Len(t)
                       /\ DOMAIN (s \o t) = 1 .. Len(s) + Len(t)
                       /\ \A i \in DOMAIN s : (s \o t)[i] = s[i]
                       /\ \A k \in DOMAIN t : (s \o t)[Len(s) + k] = t[k]
<1>1. ASSUME NEW s \in Seq(Ops), NEW t \in Seq(Ops)
      PROVE  at(s, t)
  <2>1. /\ Len(s) \in Nat /\ DOMAIN s = 1 .. Len(s) /\ Len(t) \in Nat /\ DOMAIN t = 1 .. Len(t)
        /\ DOMAIN (s \o t) = 1 .. Len(s) + Len(t)
    BY ConcatProperties, LenProperties
  <2>2. \A i \in 1 .. Len(s) + Len(t) : (s \o t)[i] = IF i <= Len(s) THEN s[i] ELSE t[i - Len(s)]
    BY ConcatProperties
  <2>3. \A k \in DOMAIN t : (s \o t)[Len(s) + k] = t[k]
    <3> SUFFICES ASSUME NEW k \in DOMAIN t
                 PROVE  (s \o t)[Len(s) + k] = t[k]
      OBVIOUS
    <3>1. Len(s) + k \in 1 .. Len(s) + Len(t) /\ ~ (Len(s) + k <= Len(s)) /\ (Len(s) + k) - Len(s) = k
      BY <2>1
    <3> QED
      BY <3>1, <2>2
  <2> QED
    BY <2>1, <2>2, <2>3
<1>2. at(Compute, x) /\ at(Copy, y)
  BY <1>1, QueueFacts DEF Appends
<1> QED
  BY <1>2 DEF Appends

(* What was in front of an operation is in front of it still.              *)
LEMMA AppendSync ==
    ASSUME TypeOK, NEW x, NEW y, Appends(x, y), NEW i, NEW c
    PROVE  /\ \A event : RecordFrom("compute", i, event) => RecordFrom("compute", i, event)'
           /\ \A event : RecordFrom("copy", c, event) => RecordFrom("copy", c, event)'
           /\ Sync("compute", i, "copy", c) => Sync("compute", i, "copy", c)'
           /\ Sync("copy", c, "compute", i) => Sync("copy", c, "compute", i)'
<1>1. /\ \A k \in DOMAIN Compute : k \in DOMAIN Compute' /\ Compute'[k] = Compute[k]
      /\ \A k \in DOMAIN Copy : k \in DOMAIN Copy' /\ Copy'[k] = Copy[k]
  BY AppendFacts
<1>2. \A event : RecordFrom("compute", i, event) => RecordFrom("compute", i, event)'
  BY <1>1 DEF RecordFrom, Compute
<1>3. \A event : RecordFrom("copy", c, event) => RecordFrom("copy", c, event)'
  BY <1>1 DEF RecordFrom, Copy
<1>4. ASSUME Sync("compute", i, "copy", c)
      PROVE  Sync("compute", i, "copy", c)'
  <2>1. PICK w \in DOMAIN Copy :
          w <= c /\ Copy[w].kind = "wait" /\ RecordFrom("compute", i, Copy[w].arg)
    BY <1>4 DEF Sync, Copy
  <2>2. PICK event : event = Copy[w].arg /\ RecordFrom("compute", i, event)
    BY <2>1
  <2>3. RecordFrom("compute", i, event)' /\ event = Copy'[w].arg
    BY <1>1, <1>2, <2>2
  <2>4. w \in DOMAIN Copy' /\ w <= c /\ Copy'[w].kind = "wait"
    BY <1>1, <2>1
  <2> QED
    BY <2>3, <2>4 DEF Sync, Copy, RecordFrom
<1>5. ASSUME Sync("copy", c, "compute", i)
      PROVE  Sync("copy", c, "compute", i)'
  <2>1. PICK w \in DOMAIN Compute :
          w <= i /\ Compute[w].kind = "wait" /\ RecordFrom("copy", c, Compute[w].arg)
    BY <1>5 DEF Sync, Compute
  <2>2. PICK event : event = Compute[w].arg /\ RecordFrom("copy", c, event)
    BY <2>1
  <2>3. RecordFrom("copy", c, event)' /\ event = Compute'[w].arg
    BY <1>1, <1>3, <2>2
  <2>4. w \in DOMAIN Compute' /\ w <= i /\ Compute'[w].kind = "wait"
    BY <1>1, <2>1
  <2> QED
    BY <2>3, <2>4 DEF Sync, Compute, RecordFrom
<1> QED
  BY <1>2, <1>3, <1>4, <1>5

(* A copy the compute stream is told to wait for is in front of whatever   *)
(* the host appends next.                                                  *)
LEMMA AwaitedIsFirst ==
    ASSUME TypeOK, OrderInv, NEW x, NEW y, Appends(x, y),
           NEW c \in DOMAIN Copy, Copy[c].kind = "fill",
           ~ (batch.mode = "streaming" /\ Copy[c].batch = batches /\ Copy[c].arg.layer = batch.layer),
           NEW i \in DOMAIN Compute', i \notin DOMAIN Compute
    PROVE  Sync("copy", c, "compute", i)'
<1> DEFINE event == Ready(Copy[c].batch, Copy[c].arg.layer)
<1>1. PICK w \in DOMAIN Compute : Compute[w].kind = "wait" /\ Compute[w].arg = event
  BY DEF OrderInv, FillsAwaited
<1>2. RecordFrom("copy", c, event)
  BY DEF OrderInv, FillsAwaited
<1>3. w <= i
  BY <1>1, AppendFacts
<1>4. Sync("copy", c, "compute", i)
  BY <1>1, <1>2, <1>3 DEF Sync, Compute
<1> QED
  BY <1>4, AppendSync

LEMMA OrderedAfterAppend ==
    ASSUME TypeOK, OrderInv, NEW x, NEW y, Appends(x, y),
           \A i \in DOMAIN Compute', c \in DOMAIN Copy' :
             i \notin DOMAIN Compute \/ c \notin DOMAIN Copy =>
               /\ ComputeFirst(Compute'[i], Copy'[c]) => Sync("compute", i, "copy", c)'
               /\ CopyFirst(Copy'[c], Compute'[i]) => Sync("copy", c, "compute", i)'
    PROVE  StreamsOrdered'
<1> SUFFICES ASSUME NEW i \in DOMAIN Compute', NEW c \in DOMAIN Copy'
             PROVE  /\ ComputeFirst(Compute'[i], Copy'[c]) => Sync("compute", i, "copy", c)'
                    /\ CopyFirst(Copy'[c], Compute'[i]) => Sync("copy", c, "compute", i)'
  BY DEF StreamsOrdered, ComputeFirst, CopyFirst, Touches, OfHalf, Half
<1>1. CASE i \in DOMAIN Compute /\ c \in DOMAIN Copy
  <2>1. Compute'[i] = Compute[i] /\ Copy'[c] = Copy[c]
    BY <1>1, AppendFacts
  <2> QED
    BY <1>1, <2>1, AppendSync DEF OrderInv, StreamsOrdered
<1> QED
  BY <1>1

(* A layer that is not streamed: what loads it, and its GEMM.              *)
LoadedPair(a, g) ==
    /\ a \in Ops /\ a.batch = batches /\ g \in Ops /\ g.batch = batches
    /\ \/ a.kind = "materialize" /\ g.kind = "front_gemm" /\ a.arg = g.arg
       \/ a.kind = "load" /\ g.kind = "slot_gemm" /\ a.arg.layer = g.arg

LEMMA EnqueueAppends ==
    ASSUME TypeOK, NEW x \in Seq(Ops), queue' = Enqueue(queue, "compute", x)
    PROVE  Appends(x, << >>)
<1>1. queue \in [Streams -> Seq(Ops)] /\ << >> \in Seq(Ops)
  BY ShortQueues DEF TypeOK
<1>2. queue' = Add(queue, x, << >>)
  BY <1>1, EnqueueAdd
<1> QED
  BY <1>1, <1>2 DEF Appends, Add, Streams, Compute, Copy

LEMMA LoadedLayerAppends ==
    ASSUME TypeOK, MaterializeLayer \/ DemandLayer
    PROVE  /\ \E a, g : LoadedPair(a, g) /\ Appends(<<a, g>>, << >>)
           /\ batch.mode \in {"prefill", "decode", "short_prefill"}
           /\ batch.mode = "prefill" => ~ overlap
           /\ NextLayer(batch.layer)
           /\ UNCHANGED <<batches, buffers, splitting, overlap, snapshot, deviceVars>>
<1>1. CASE MaterializeLayer
  <2> DEFINE a == Op("materialize", batch.layer)   g == Op("front_gemm", batch.layer)
  <2>1. LoadedPair(a, g)
    <3>1. batch.layer \in Layers /\ batches \in Nat
      BY DEF TypeOK
    <3> QED
      BY <3>1 DEF Op, Ops, LoadedPair
  <2>2. queue' = Enqueue(queue, "compute", <<a, g>>)
    BY <1>1 DEF MaterializeLayer
  <2> HIDE DEF a, g
  <2>3. <<a, g>> \in Seq(Ops)
    BY <2>1, ShortQueues DEF LoadedPair
  <2>4. Appends(<<a, g>>, << >>)
    BY <2>2, <2>3, EnqueueAppends
  <2> QED
    BY <1>1, <2>1, <2>4 DEF MaterializeLayer
<1>2. CASE DemandLayer
  <2> DEFINE l == batch.layer
             r == [layer |-> l, active |-> batch.route[l],
                   cap |-> IF batch.mode = "decode" THEN MaxFetch ELSE NumExperts]
             a == Op("load", r)   g == Op("slot_gemm", l)
  <2>1. l \in Layers /\ batches \in Nat /\ batch.route \in Routings
    BY <1>2 DEF TypeOK, DemandLayer
  <2>2. r \in [layer : Layers, active : SUBSET Experts, cap : Nat]
    <3>1. batch.route \in [Layers -> SUBSET Experts] /\ MaxFetch \in Nat
      BY <2>1, ExpertCacheAssumption
    <3> QED
      BY <2>1, <3>1
  <2>3. LoadedPair(a, g)
    BY <2>1, <2>2 DEF Op, Ops, LoadedPair
  <2>4. queue' = Enqueue(queue, "compute", <<a, g>>)
    BY <1>2 DEF DemandLayer
  <2> HIDE DEF a, g
  <2>5. <<a, g>> \in Seq(Ops)
    BY <2>3, ShortQueues DEF LoadedPair
  <2>6. Appends(<<a, g>>, << >>)
    BY <2>4, <2>5, EnqueueAppends
  <2> QED
    BY <1>2, <2>3, <2>6 DEF DemandLayer
<1> QED
  BY <1>1, <1>2

(* Where the pair is queued, with nothing behind it.                       *)
LEMMA PairFacts ==
    ASSUME TypeOK, NEW a, NEW g, LoadedPair(a, g), Appends(<<a, g>>, << >>)
    PROVE  /\ Len(Compute) \in Nat /\ DOMAIN Compute = 1 .. Len(Compute) /\ Copy' = Copy
           /\ DOMAIN Compute' = 1 .. Len(Compute) + 2
           /\ \A i \in DOMAIN Compute : Compute'[i] = Compute[i]
           /\ Compute'[Len(Compute) + 1] = a /\ Compute'[Len(Compute) + 2] = g
           /\ \A i \in DOMAIN Compute' : i \in Int /\
                (i \in DOMAIN Compute \/ i = Len(Compute) + 1 \/ i = Len(Compute) + 2)
<1>1. <<a, g>> \in Seq(Ops) /\ DOMAIN <<a, g>> = {1, 2} /\ <<a, g>>[1] = a /\ <<a, g>>[2] = g
  BY ShortQueues DEF LoadedPair
<1>2. Len(<<a, g>>) = 2
  OBVIOUS
<1>3. Copy' = Copy
  BY QueueFacts, ConcatEmptySeq DEF Appends
<1>4. /\ Len(Compute) \in Nat /\ DOMAIN Compute = 1 .. Len(Compute)
      /\ DOMAIN Compute' = 1 .. Len(Compute) + 2
      /\ \A i \in DOMAIN Compute : Compute'[i] = Compute[i]
      /\ \A k \in {1, 2} : Compute'[Len(Compute) + k] = <<a, g>>[k]
  <2>1. /\ Len(Compute) \in Nat /\ DOMAIN Compute = 1 .. Len(Compute)
        /\ DOMAIN Compute' = 1 .. Len(Compute) + Len(<<a, g>>)
        /\ \A i \in DOMAIN Compute : Compute'[i] = Compute[i]
        /\ \A k \in DOMAIN <<a, g>> : Compute'[Len(Compute) + k] = <<a, g>>[k]
    BY AppendFacts
  <2> QED
    BY <1>1, <1>2, <2>1
<1>5. \A i \in DOMAIN Compute' : i \in Int /\
        (i \in DOMAIN Compute \/ i = Len(Compute) + 1 \/ i = Len(Compute) + 2)
  BY <1>4
<1> QED
  BY <1>1, <1>3, <1>4, <1>5

LEMMA LoadedLayerKeepsOrder ==
    ASSUME IInv, OrderInv, MaterializeLayer \/ DemandLayer
    PROVE  OrderInv'
<1>1. /\ TypeOK /\ BatchesInOrder
      /\ batch.mode \in {"prefill", "decode", "short_prefill"}
      /\ batch.mode = "prefill" => ~ overlap
      /\ UNCHANGED <<batches, buffers, splitting, overlap>>
      /\ batch'.mode \in {batch.mode, "idle"}
  BY LoadedLayerAppends, NextLayerType DEF IInv, QueueInv
<1>2. PICK a, g : LoadedPair(a, g) /\ Appends(<<a, g>>, << >>)
  BY <1>1, LoadedLayerAppends
<1>3. /\ Copy' = Copy
      /\ \A i \in DOMAIN Compute : i \in DOMAIN Compute' /\ Compute'[i] = Compute[i]
      /\ \A i \in DOMAIN Compute' :
           \/ i \in DOMAIN Compute
           \/ /\ i \in Int /\ i \notin DOMAIN Compute /\ \A j \in DOMAIN Compute : j < i
              /\ Compute'[i].batch = batches /\ OnDemand(Compute'[i])
  BY <1>1, <1>2, PairFacts DEF LoadedPair, OnDemand
<1>4. /\ \A c \in DOMAIN Copy : Copy[c].batch < batches
      /\ \A i \in DOMAIN Compute : OfHalf(Compute[i]) => Compute[i].batch < batches
  BY <1>1 DEF OrderInv, HostIssued
<1>5. /\ batches \in Nat
      /\ \A i \in DOMAIN Compute : i \in Nat /\ Compute[i].batch \in Nat /\ Compute[i].batch <= batches
      /\ \A c \in DOMAIN Copy : Copy[c].batch \in Nat
  BY <1>1, QueueFacts DEF TypeOK, BatchesInOrder
<1>6. KindsByStream'
  BY <1>3 DEF OrderInv, KindsByStream, OnDemand
<1>7. ComputeInOrder'
  BY <1>3, <1>5 DEF OrderInv, ComputeInOrder, OnDemand
<1>8. FillsInOrder'
  BY <1>3 DEF OrderInv, FillsInOrder, Earlier
<1>9. GemmsFollow'
  <2> SUFFICES ASSUME NEW j \in DOMAIN Compute', j > 1
               PROVE  /\ Compute'[j].kind = "front_gemm" =>
                           Compute'[j - 1].kind = "materialize" /\ Compute'[j - 1].arg = Compute'[j].arg
                      /\ Compute'[j].kind = "slot_gemm" =>
                           Compute'[j - 1].kind = "load" /\ Compute'[j - 1].arg.layer = Compute'[j].arg
    BY DEF GemmsFollow
  <2>1. CASE j \in DOMAIN Compute
    <3>1. j - 1 \in DOMAIN Compute
      BY <1>1, <2>1, QueueFacts
    <3> QED
      BY <1>3, <2>1, <3>1 DEF OrderInv, GemmsFollow
  <2>2. CASE j = Len(Compute) + 1
    BY <1>1, <1>2, <2>2, PairFacts DEF LoadedPair
  <2>3. CASE j = Len(Compute) + 2
    <3>1. j - 1 = Len(Compute) + 1
      BY <1>1, <2>3, QueueFacts
    <3> QED
      BY <1>1, <1>2, <2>3, <3>1, PairFacts DEF LoadedPair
  <2> QED
    BY <1>1, <1>2, <2>1, <2>2, <2>3, PairFacts
<1>10. BatchesOfOneKind'
  BY <1>3, <1>4, <1>5 DEF OrderInv, BatchesOfOneKind, OnDemand, OfHalf
<1>11. HostIssued'
  BY <1>1, <1>3, <1>4 DEF HostIssued, OnDemand, OfHalf
<1>12. FillsAwaited'
  <2> SUFFICES ASSUME NEW c \in DOMAIN Copy, Copy[c].kind = "fill",
                      NEW event, event = Ready(Copy[c].batch, Copy[c].arg.layer)
               PROVE  /\ RecordFrom("copy", c, event)'
                      /\ \E w \in DOMAIN Compute' :
                           Compute'[w].kind = "wait" /\ Compute'[w].arg = event
    BY <1>3 DEF FillsAwaited, Ready
  <2>1. /\ RecordFrom("copy", c, event)
        /\ \E w \in DOMAIN Compute : Compute[w].kind = "wait" /\ Compute[w].arg = event
    BY <1>1 DEF OrderInv, FillsAwaited
  <2> QED
    BY <1>1, <1>2, <1>3, <2>1, AppendSync
<1>13. FenceStands' /\ HalvesKnown'
  BY <1>1 DEF FenceStands, HalvesKnown
<1>14. SnapshotsFirst'
  BY <1>1, <1>3 DEF OrderInv, SnapshotsFirst, SnapshotTaken, SnapshotQueued
<1>15. GathersUndisturbed'
  BY <1>3, <1>5 DEF OrderInv, GathersUndisturbed, OnDemand, Loading
<1>16. StreamsOrdered'
  <2> SUFFICES ASSUME NEW i \in DOMAIN Compute', NEW c \in DOMAIN Copy', i \notin DOMAIN Compute
               PROVE  /\ ~ ComputeFirst(Compute'[i], Copy'[c])
                      /\ CopyFirst(Copy'[c], Compute'[i]) => Sync("copy", c, "compute", i)'
    BY <1>1, <1>2, <1>3, OrderedAfterAppend
  <2>1. ~ ComputeFirst(Compute'[i], Copy'[c])
    BY <1>3, <1>4, <1>5 DEF ComputeFirst
  <2>2. ASSUME Copy[c].kind = "fill" PROVE Sync("copy", c, "compute", i)'
    BY <1>1, <1>2, <1>3, <2>2, AwaitedIsFirst
  <2> QED
    BY <1>3, <2>1, <2>2 DEF CopyFirst
<1> QED
  BY <1>6, <1>7, <1>8, <1>9, <1>10, <1>11, <1>12, <1>13, <1>14, <1>15, <1>16 DEF OrderInv

LEMMA StartBatchKeepsOrder ==
    ASSUME IInv, OrderInv, NEW mode \in {"prefill", "decode", "short_prefill"}, NEW route,
           StartBatch(mode, route)
    PROVE  OrderInv'
<1>1. /\ batch.mode = "idle" /\ batch'.mode = mode /\ batches' = batches + 1
      /\ queue' = queue /\ UNCHANGED <<buffers, splitting, overlap>>
      /\ batches \in Nat /\ BatchesInOrder /\ TypeOK
  BY DEF StartBatch, Idle, IInv, QueueInv, TypeOK
<1>2. /\ Compute' = Compute /\ Copy' = Copy
      /\ \A s, i, event : RecordFrom(s, i, event)' = RecordFrom(s, i, event)
      /\ \A s, i, t, c : Sync(s, i, t, c)' = Sync(s, i, t, c)
  BY <1>1 DEF Compute, Copy, RecordFrom, Sync
<1>3. /\ \A i \in DOMAIN Compute : Compute[i].batch < batches'
      /\ \A c \in DOMAIN Copy : Copy[c].batch < batches'
  BY <1>1, QueueFacts DEF BatchesInOrder
<1>4. KindsByStream' /\ ComputeInOrder' /\ FillsInOrder' /\ GemmsFollow' /\ BatchesOfOneKind'
  BY <1>2 DEF OrderInv, KindsByStream, ComputeInOrder, FillsInOrder, Earlier, GemmsFollow,
     BatchesOfOneKind, OnDemand, OfHalf
<1>5. HostIssued'
  BY <1>1, <1>2, <1>3 DEF HostIssued
<1>6. FillsAwaited'
  BY <1>1, <1>2 DEF OrderInv, FillsAwaited, Ready
<1>7. FenceStands' /\ HalvesKnown'
  BY <1>1 DEF FenceStands, HalvesKnown
<1>8. SnapshotsFirst' /\ GathersUndisturbed'
  BY <1>1, <1>2 DEF OrderInv, SnapshotsFirst, SnapshotTaken, GathersUndisturbed, Loading
<1>9. StreamsOrdered'
  BY <1>2 DEF OrderInv, StreamsOrdered, ComputeFirst, CopyFirst, Touches, OfHalf, Half
<1> QED
  BY <1>4, <1>5, <1>6, <1>7, <1>8, <1>9 DEF OrderInv

LEMMA PairConcat ==
    ASSUME NEW a \in Ops, NEW b \in Ops
    PROVE  <<a>> \o <<b>> = <<a, b>>
<1> DEFINE x == <<a>>  y == <<b>>  d == <<a, b>>
<1>1. /\ x \in Seq(Ops) /\ Len(x) = 1 /\ x[1] = a
      /\ y \in Seq(Ops) /\ Len(y) = 1 /\ y[1] = b
  OBVIOUS
<1>2. d \in Seq(Ops) /\ Len(d) = 2 /\ d[1] = a /\ d[2] = b
  OBVIOUS
<1> HIDE DEF x, y, d
<1>3. x \o y \in Seq(Ops) /\ Len(x \o y) = 2
  <2>1. x \o y \in Seq(Ops) /\ Len(x \o y) = Len(x) + Len(y)
    BY <1>1, ConcatProperties
  <2> QED
    BY <1>1, <2>1
<1>4. (x \o y)[1] = x[1] /\ (x \o y)[2] = y[2 - 1]
  <2>1. \A i \in 1 .. Len(x) + Len(y) : (x \o y)[i] = IF i <= Len(x) THEN x[i] ELSE y[i - Len(x)]
    BY <1>1, ConcatProperties
  <2>2. 1 \in 1 .. Len(x) + Len(y) /\ 1 <= Len(x) /\ 2 \in 1 .. Len(x) + Len(y) /\ ~ (2 <= Len(x))
    BY <1>1
  <2>3. (x \o y)[2] = y[2 - Len(x)]
    BY <2>1, <2>2
  <2>4. (x \o y)[1] = x[1]
    BY <2>1, <2>2
  <2> QED
    BY <1>1, <2>3, <2>4
<1>5. \A i \in 1 .. 2 : (x \o y)[i] = d[i]
  <2>1. (x \o y)[1] = d[1]
    BY <1>1, <1>2, <1>4
  <2>2. (x \o y)[2] = y[2 - 1]
    BY <1>4
  <2>3. 2 - 1 = 1
    OBVIOUS
  <2>4. \A i \in 1 .. 2 : i = 1 \/ i = 2
    OBVIOUS
  <2> QED
    BY <1>1, <1>2, <2>1, <2>2, <2>3, <2>4
<1>6. x \o y = d
  BY <1>2, <1>3, <1>5, SeqEqual
<1> QED
  BY <1>6 DEF x, y, d

(* What begin_prefill queues: the fence, and for the split the snapshot.   *)
LEMMA BeginFacts ==
    ASSUME TypeOK, BeginPrefill
    PROVE  \E r, w, p \in Ops :
             /\ r.kind = "record" /\ r.arg = Begin(batches) /\ r.batch = batches
             /\ w.kind = "wait" /\ w.arg = Begin(batches) /\ w.batch = batches
             /\ p.kind = "snapshot" /\ p.batch = batches
             /\ Appends(<<r>>, IF splitting' THEN <<w, p>> ELSE <<w>>)
<1> DEFINE r == Op("record", Event("begin", 0))
           w == Op("wait", Event("begin", 0))
           p == Op("snapshot", None)
           z == IF splitting' THEN <<p>> ELSE << >>
           y == IF splitting' THEN <<w, p>> ELSE <<w>>
<1>1. batches \in Nat /\ queue \in [Streams -> Seq(Ops)]
  BY DEF TypeOK
<1>2. Event("begin", 0) = Begin(batches) /\ Begin(batches) \in Events
  BY <1>1 DEF Event, Begin, Events
<1>3. /\ r \in Ops /\ r.batch = batches /\ r.kind = "record" /\ r.arg = Begin(batches)
      /\ w \in Ops /\ w.batch = batches /\ w.kind = "wait" /\ w.arg = Begin(batches)
      /\ p \in Ops /\ p.batch = batches /\ p.kind = "snapshot"
  BY <1>1, <1>2 DEF Op, Ops
<1>4. queue' = Enqueue(Enqueue(Enqueue(queue, "compute", <<r>>), "copy", <<w>>), "copy", z)
  BY DEF BeginPrefill, Fence
<1> HIDE DEF r, w, p
<1>5. /\ <<r>> \in Seq(Ops) /\ <<w>> \in Seq(Ops) /\ z \in Seq(Ops) /\ y \in Seq(Ops)
  BY <1>3, ShortQueues
<1>6. <<w>> \o z = y
  <2>1. CASE splitting'
    <3>1. <<w>> \o <<p>> = <<w, p>>
      BY <1>3, PairConcat
    <3> QED
      BY <2>1, <3>1
  <2>2. CASE ~ splitting'
    <3>1. <<w>> \o << >> = <<w>>
      BY <1>5, ConcatEmptySeq
    <3> QED
      BY <2>2, <3>1
  <2> QED
    BY <2>1, <2>2
<1> HIDE DEF z, y
<1>7. queue["compute"] \in Seq(Ops) /\ queue["copy"] \in Seq(Ops)
  BY <1>1 DEF Streams
<1>8. Compute' = Compute \o <<r>> /\ Copy' = (Copy \o <<w>>) \o z
  BY <1>1, <1>4 DEF Enqueue, Streams, Compute, Copy
<1>9. (Copy \o <<w>>) \o z = Copy \o y
  <2>1. Copy \in Seq(Ops)
    BY <1>7 DEF Copy
  <2>2. (Copy \o <<w>>) \o z = Copy \o (<<w>> \o z)
    BY <1>5, <2>1, OpsAssociative
  <2> QED
    BY <1>6, <2>2
<1>10. Appends(<<r>>, y)
  BY <1>5, <1>8, <1>9 DEF Appends
<1> QED
  BY <1>3, <1>10 DEF y

LEMMA BeginPrefillKeepsOrder ==
    ASSUME IInv, OrderInv, BeginPrefill
    PROVE  OrderInv'
<1>1. /\ TypeOK /\ BatchesInOrder /\ batches \in Nat
      /\ batch.mode = "prefill" /\ batch.layer = 0 /\ overlap
      /\ batch' = [batch EXCEPT !.mode = "streaming"] /\ UNCHANGED <<batches, overlap>>
      /\ batch'.mode = "streaming" /\ batch'.layer = 0
  <2>1. TypeOK /\ BatchesInOrder /\ batches \in Nat
    BY DEF IInv, QueueInv, TypeOK
  <2>2. batch \in BatchType
    BY <2>1 DEF TypeOK, BatchType
  <2> QED
    BY <2>1, <2>2 DEF BeginPrefill, BatchType
<1>2. PICK r, w, p \in Ops :
        /\ r.kind = "record" /\ r.arg = Begin(batches) /\ r.batch = batches
        /\ w.kind = "wait" /\ w.arg = Begin(batches) /\ w.batch = batches
        /\ p.kind = "snapshot" /\ p.batch = batches
        /\ Appends(<<r>>, IF splitting' THEN <<w, p>> ELSE <<w>>)
  BY <1>1, BeginFacts
<1> DEFINE x == <<r>>
           y == IF splitting' THEN <<w, p>> ELSE <<w>>
           L == Len(Compute)   M == Len(Copy)
<1>3. /\ Len(x) = 1 /\ x[1] = r /\ DOMAIN x = {1}
      /\ splitting' => Len(y) = 2 /\ y[1] = w /\ y[2] = p /\ DOMAIN y = {1, 2}
      /\ ~ splitting' => Len(y) = 1 /\ y[1] = w /\ DOMAIN y = {1}
  BY ShortQueues
<1>4. Appends(x, y)
  BY <1>2
<1> HIDE DEF x, y
<1>5. /\ L \in Nat /\ DOMAIN Compute = 1 .. L /\ DOMAIN Compute' = 1 .. L + 1
      /\ \A i \in DOMAIN Compute : Compute'[i] = Compute[i]
      /\ Compute'[L + 1] = r
      /\ M \in Nat /\ DOMAIN Copy = 1 .. M /\ DOMAIN Copy' = 1 .. M + Len(y)
      /\ \A c \in DOMAIN Copy : Copy'[c] = Copy[c]
      /\ Copy'[M + 1] = w /\ (splitting' => Copy'[M + 2] = p)
  <2>1. /\ L \in Nat /\ DOMAIN Compute = 1 .. L /\ DOMAIN Compute' = 1 .. L + Len(x)
        /\ \A i \in DOMAIN Compute : Compute'[i] = Compute[i]
        /\ \A k \in DOMAIN x : Compute'[L + k] = x[k]
        /\ M \in Nat /\ DOMAIN Copy = 1 .. M /\ DOMAIN Copy' = 1 .. M + Len(y)
        /\ \A c \in DOMAIN Copy : Copy'[c] = Copy[c]
        /\ \A k \in DOMAIN y : Copy'[M + k] = y[k]
    BY <1>1, <1>4, AppendFacts
  <2> QED
    BY <1>3, <2>1
<1> HIDE DEF L, M
<1>6. /\ \A i \in DOMAIN Compute' : i \in Nat /\ (i \in DOMAIN Compute \/ (i = L + 1 /\ Compute'[i] = r))
      /\ L + 1 \in DOMAIN Compute' /\ \A i \in DOMAIN Compute : i < L + 1
  BY <1>5
<1>7. /\ \A c \in DOMAIN Copy' :
           /\ c \in Nat
           /\ \/ c \in DOMAIN Copy
              \/ c = M + 1 /\ Copy'[c] = w
              \/ splitting' /\ c = M + 2 /\ Copy'[c] = p
      /\ M + 1 \in DOMAIN Copy' /\ \A c \in DOMAIN Copy : c < M + 1
      /\ splitting' => M + 2 \in DOMAIN Copy'
  <2>1. M \in Nat /\ DOMAIN Copy = 1 .. M /\ Copy'[M + 1] = w
    BY <1>5
  <2>2. CASE splitting'
    <3>1. DOMAIN Copy' = 1 .. M + 2 /\ Copy'[M + 2] = p
      BY <1>3, <1>5, <2>2
    <3>2. \A c \in 1 .. M + 2 : c \in Nat /\ (c \in 1 .. M \/ c = M + 1 \/ c = M + 2)
      BY <2>1
    <3>3. M + 1 \in 1 .. M + 2 /\ M + 2 \in 1 .. M + 2 /\ \A c \in 1 .. M : c < M + 1
      BY <2>1
    <3> QED
      BY <2>1, <2>2, <3>1, <3>2, <3>3
  <2>3. CASE ~ splitting'
    <3>1. DOMAIN Copy' = 1 .. M + 1
      BY <1>3, <1>5, <2>3
    <3>2. \A c \in 1 .. M + 1 : c \in Nat /\ (c \in 1 .. M \/ c = M + 1)
      BY <2>1
    <3>3. M + 1 \in 1 .. M + 1 /\ \A c \in 1 .. M : c < M + 1
      BY <2>1
    <3> QED
      BY <2>1, <2>3, <3>1, <3>2, <3>3
  <2> QED
    BY <2>2, <2>3
<1>8. /\ \A c \in DOMAIN Copy : Copy[c].batch < batches
      /\ \A i \in DOMAIN Compute : Compute[i].batch < batches
  BY <1>1 DEF OrderInv, HostIssued
<1>9. KindsByStream'
  BY <1>2, <1>5, <1>6, <1>7 DEF OrderInv, KindsByStream
<1>10. ComputeInOrder'
  <2> SUFFICES ASSUME NEW i \in DOMAIN Compute', NEW j \in DOMAIN Compute', i < j
               PROVE  /\ Compute'[i].batch <= Compute'[j].batch
                      /\ Compute'[i].batch = Compute'[j].batch /\ Compute'[i].kind = "gather" =>
                           /\ Compute'[j].kind = "gather" => Compute'[i].arg < Compute'[j].arg
                           /\ Compute'[j].kind = "layer_gemm" => Compute'[i].arg <= Compute'[j].arg + 1
    BY DEF ComputeInOrder
  <2>1. i \in DOMAIN Compute /\ Compute'[i] = Compute[i]
    BY <1>5, <1>6
  <2>2. CASE j \in DOMAIN Compute
    BY <1>5, <2>1, <2>2 DEF OrderInv, ComputeInOrder
  <2>3. CASE Compute'[j] = r
    <3>1. Compute[i].batch \in Nat /\ Compute[i].batch < batches
      BY <1>1, <1>8, <2>1, QueueFacts
    <3> QED
      BY <1>1, <1>2, <2>1, <2>3, <3>1
  <2> QED
    BY <1>6, <2>2, <2>3
<1>11. FillsInOrder'
  BY <1>2, <1>5, <1>7 DEF OrderInv, FillsInOrder, Earlier
<1>12. GemmsFollow'
  <2> SUFFICES ASSUME NEW j \in DOMAIN Compute', j > 1
               PROVE  /\ Compute'[j].kind = "front_gemm" =>
                           Compute'[j - 1].kind = "materialize" /\ Compute'[j - 1].arg = Compute'[j].arg
                      /\ Compute'[j].kind = "slot_gemm" =>
                           Compute'[j - 1].kind = "load" /\ Compute'[j - 1].arg.layer = Compute'[j].arg
    BY DEF GemmsFollow
  <2>1. CASE j \in DOMAIN Compute
    <3>1. j - 1 \in DOMAIN Compute
      BY <1>5, <2>1
    <3> QED
      BY <1>5, <2>1, <3>1 DEF OrderInv, GemmsFollow
  <2> QED
    BY <1>2, <1>6, <2>1
<1>13. BatchesOfOneKind'
  <2>1. \A i \in DOMAIN Compute' : OnDemand(Compute'[i]) \/ OfHalf(Compute'[i]) =>
          i \in DOMAIN Compute /\ Compute'[i] = Compute[i]
    BY <1>2, <1>5, <1>6 DEF OnDemand, OfHalf
  <2>2. \A c \in DOMAIN Copy' : Copy'[c].kind = "fill" =>
          c \in DOMAIN Copy /\ Copy'[c] = Copy[c]
    BY <1>2, <1>5, <1>7
  <2> QED
    BY <2>1, <2>2 DEF OrderInv, BatchesOfOneKind, OnDemand, OfHalf
<1>14. HostIssued'
  <2>1. \A i \in DOMAIN Compute' : OnDemand(Compute'[i]) \/ OfHalf(Compute'[i]) =>
          Compute'[i].batch < batches /\ Compute'[i].batch \in Nat
    BY <1>1, <1>2, <1>5, <1>6, <1>8, QueueFacts DEF OnDemand, OfHalf
  <2>2. \A c \in DOMAIN Copy' : Copy'[c].kind = "fill" =>
          Copy'[c].batch < batches /\ Copy'[c].batch \in Nat
    BY <1>1, <1>2, <1>5, <1>7, <1>8, QueueFacts
  <2>3. \A i \in DOMAIN Compute' : OfHalf(Compute'[i]) => Compute'[i].batch # batches
    BY <1>1, <2>1
  <2>4. \A c \in DOMAIN Copy' : Copy'[c].kind = "fill" => Copy'[c].batch # batches
    BY <1>1, <2>2
  <2> QED
    BY <1>1, <2>1, <2>3, <2>4 DEF HostIssued, OnDemand, OfHalf
<1>15. FillsAwaited'
  <2> SUFFICES ASSUME NEW c \in DOMAIN Copy, Copy[c].kind = "fill",
                      NEW event, event = Ready(Copy[c].batch, Copy[c].arg.layer)
               PROVE  /\ RecordFrom("copy", c, event)'
                      /\ \E v \in DOMAIN Compute' :
                           Compute'[v].kind = "wait" /\ Compute'[v].arg = event
    BY <1>2, <1>5, <1>7 DEF FillsAwaited, Ready
  <2>1. /\ RecordFrom("copy", c, event)
        /\ \E v \in DOMAIN Compute : Compute[v].kind = "wait" /\ Compute[v].arg = event
    BY <1>1 DEF OrderInv, FillsAwaited
  <2> QED
    <3>1. RecordFrom("copy", c, event)'
      BY <1>1, <1>4, <2>1, AppendSync
    <3>2. PICK v \in DOMAIN Compute : Compute[v].kind = "wait" /\ Compute[v].arg = event
      BY <2>1
    <3>3. v \in DOMAIN Compute' /\ Compute'[v] = Compute[v]
      BY <1>5
    <3> QED
      BY <3>1, <3>2, <3>3
<1>16. FenceStands'
  <2> SUFFICES ASSUME NEW i \in DOMAIN Compute', Compute'[i].batch < batches,
                      NEW n, n = batches
               PROVE  RecordFrom("compute", i, Begin(n))' /\ WaitQueued(n)'
    BY <1>1 DEF FenceStands, Begin
  <2>1. Begin(n)' = Begin(n)
    BY DEF Begin
  <2>2. i <= L + 1
    BY <1>5
  <2>3. RecordFrom("compute", i, Begin(n))'
    BY <1>2, <1>5, <1>6, <2>1, <2>2 DEF RecordFrom, Compute
  <2> QED
    BY <1>2, <1>5, <1>7, <2>1, <2>3 DEF WaitQueued
<1>17. HalvesKnown'
  <2>1. \A h \in Halves : buffers'[h].layer = None
    <3>1. buffers \in [Halves -> HalfStates]
      BY <1>1 DEF TypeOK
    <3> QED
      BY <3>1 DEF BeginPrefill, HalfStates
  <2>2. \A i \in DOMAIN Compute' : ~ (OfHalf(Compute'[i]) /\ Compute'[i].batch = batches)
    BY <1>1, <1>2, <1>5, <1>6, <1>8, QueueFacts DEF OfHalf
  <2> QED
    BY <1>1, <2>1, <2>2 DEF HalvesKnown, OfPast, OfHalf
<1>18. SnapshotsFirst'
  <2>1. \A c \in DOMAIN Copy' : Copy'[c].kind = "snapshot" => splitting' /\ Copy'[c].batch = batches
    BY <1>1, <1>2, <1>5, <1>7 DEF OrderInv, SnapshotsFirst
  <2>2. splitting' => \E c \in DOMAIN Copy' : Copy'[c].kind = "snapshot"
    BY <1>2, <1>5, <1>7
  <2> QED
    BY <1>1, <2>1, <2>2 DEF SnapshotsFirst, SnapshotTaken, SnapshotQueued
<1>19. GathersUndisturbed'
  BY <1>2, <1>5, <1>6 DEF OrderInv, GathersUndisturbed, Loading
<1>20. StreamsOrdered'
  <2> SUFFICES ASSUME NEW i \in DOMAIN Compute', NEW c \in DOMAIN Copy',
                      i \notin DOMAIN Compute \/ c \notin DOMAIN Copy
               PROVE  /\ ComputeFirst(Compute'[i], Copy'[c]) => Sync("compute", i, "copy", c)'
                      /\ CopyFirst(Copy'[c], Compute'[i]) => Sync("copy", c, "compute", i)'
    BY <1>1, <1>4, OrderedAfterAppend
  <2>1. CASE i \notin DOMAIN Compute
    BY <1>2, <1>6, <2>1 DEF ComputeFirst, CopyFirst, Touches, OfHalf
  <2>2. CASE Copy'[c] = w
    BY <1>2, <2>2 DEF ComputeFirst, CopyFirst
  <2>3. CASE c = M + 2 /\ Copy'[c] = p
    <3>1. ~ CopyFirst(Copy'[c], Compute'[i])
      BY <1>2, <2>3 DEF CopyFirst
    <3>2. Begin(batches)' = Begin(batches)
      BY <1>1 DEF Begin
    <3>3. RecordFrom("compute", i, Begin(batches))'
      BY <1>2, <1>5, <1>6, <3>2 DEF RecordFrom, Compute
    <3>4. /\ M + 1 \in DOMAIN Copy' /\ M + 1 <= c /\ Copy'[M + 1].kind = "wait"
          /\ Copy'[M + 1].arg = Begin(batches)
      BY <1>2, <1>5, <1>7, <2>3
    <3>5. Sync("compute", i, "copy", c)'
      BY <3>2, <3>3, <3>4 DEF Sync, RecordFrom, Copy
    <3> QED
      BY <3>1, <3>5
  <2> QED
    BY <1>7, <2>1, <2>2, <2>3
<1> QED
  BY <1>9, <1>10, <1>11, <1>12, <1>13, <1>14, <1>15, <1>16, <1>17, <1>18, <1>19, <1>20 DEF OrderInv

-----------------------------------------------------------------------------
(* One layer of a streamed prefill, operation by operation.                *)

(* The layer, if prefetching it does anything.                             *)
Taken(b, m) == IF m \in Layers /\ b[Half(m)].layer # m THEN {m} ELSE {}

(* What prefetching the layers of D appends, each stream in layer order.   *)
NewGathers(x, D) ==
    /\ x \in Seq(Ops)
    /\ \A k \in DOMAIN x : x[k].kind = "gather" /\ x[k].batch = batches /\ x[k].arg \in D
    /\ \A k, j \in DOMAIN x : k < j => x[k].arg < x[j].arg
    /\ \A m \in D : \E k \in DOMAIN x : x[k].arg = m
NewFill(y, k, b) ==
    LET m == y[k].arg.layer
        freed == b[Half(m)].freed
    IN /\ y[k] = Fill(m)
       /\ freed # None =>
            \E w \in DOMAIN y : w <= k /\ y[w].kind = "wait" /\ y[w].arg = freed
       /\ \E r \in DOMAIN y : r >= k /\ y[r].kind = "record" /\ y[r].arg = Ready(batches, m)
NewCopies(y, D, b) ==
    /\ y \in Seq(Ops)
    /\ \A k \in DOMAIN y : y[k].batch = batches /\ y[k].kind \in {"wait", "record", "fill"}
    /\ \A k \in DOMAIN y : y[k].kind = "fill" => y[k].arg.layer \in D /\ NewFill(y, k, b)
    /\ \A k, j \in DOMAIN y :
         k < j /\ y[k].kind = "fill" /\ y[j].kind = "fill" => y[k].arg.layer < y[j].arg.layer
    /\ \A m \in D : \E k \in DOMAIN y : y[k].kind = "fill" /\ y[k].arg.layer = m

(* Where the operations of two sequences are in their concatenation.       *)
LEMMA ConcatFacts ==
    ASSUME NEW s \in Seq(Ops), NEW t \in Seq(Ops)
    PROVE  /\ s \o t \in Seq(Ops)
           /\ Len(s) \in Nat /\ DOMAIN s = 1 .. Len(s)
           /\ Len(t) \in Nat /\ DOMAIN t = 1 .. Len(t)
           /\ DOMAIN (s \o t) = 1 .. Len(s) + Len(t) /\ Len(s \o t) = Len(s) + Len(t)
           /\ \A i \in DOMAIN s : i \in DOMAIN (s \o t) /\ (s \o t)[i] = s[i]
           /\ \A k \in DOMAIN t :
                Len(s) + k \in DOMAIN (s \o t) /\ (s \o t)[Len(s) + k] = t[k]
           /\ \A i \in DOMAIN (s \o t) :
                /\ i \in Nat
                /\ \/ i \in DOMAIN s
                   \/ i - Len(s) \in DOMAIN t /\ i > Len(s) /\ (s \o t)[i] = t[i - Len(s)]
<1> DEFINE d == s \o t
<1>1. /\ Len(s) \in Nat /\ DOMAIN s = 1 .. Len(s) /\ Len(t) \in Nat /\ DOMAIN t = 1 .. Len(t)
      /\ d \in Seq(Ops) /\ Len(d) = Len(s) + Len(t) /\ DOMAIN d = 1 .. Len(s) + Len(t)
  BY ConcatProperties, LenProperties
<1>2. \A i \in 1 .. Len(s) + Len(t) : d[i] = IF i <= Len(s) THEN s[i] ELSE t[i - Len(s)]
  BY ConcatProperties
<1> HIDE DEF d
<1>3. \A i \in DOMAIN s : i \in DOMAIN d /\ d[i] = s[i]
  BY <1>1, <1>2
<1>4. \A k \in DOMAIN t : Len(s) + k \in DOMAIN d /\ d[Len(s) + k] = t[k]
  <2> SUFFICES ASSUME NEW k \in DOMAIN t
               PROVE  Len(s) + k \in DOMAIN d /\ d[Len(s) + k] = t[k]
    OBVIOUS
  <2>1. Len(s) + k \in 1 .. Len(s) + Len(t) /\ ~ (Len(s) + k <= Len(s)) /\ (Len(s) + k) - Len(s) = k
    BY <1>1
  <2> QED
    BY <2>1, <1>1, <1>2
<1>5. \A i \in DOMAIN d :
        /\ i \in Nat
        /\ \/ i \in DOMAIN s
           \/ i - Len(s) \in DOMAIN t /\ i > Len(s) /\ d[i] = t[i - Len(s)]
  <2> SUFFICES ASSUME NEW i \in DOMAIN d, i \notin DOMAIN s
               PROVE  i - Len(s) \in DOMAIN t /\ i > Len(s) /\ d[i] = t[i - Len(s)]
    BY <1>1
  <2>1. i \in 1 .. Len(s) + Len(t) /\ ~ (i <= Len(s)) /\ i - Len(s) \in 1 .. Len(t)
    BY <1>1
  <2> QED
    BY <2>1, <1>1, <1>2
<1> QED
  BY <1>1, <1>3, <1>4, <1>5 DEF d

LEMMA GathersConcat ==
    ASSUME NEW x, NEW v, NEW D \in SUBSET Int, NEW E \in SUBSET Int,
           NewGathers(x, D), NewGathers(v, E), \A m \in D, k \in E : m < k
    PROVE  NewGathers(x \o v, D \union E)
<1> DEFINE d == x \o v
<1>1. x \in Seq(Ops) /\ v \in Seq(Ops)
  BY DEF NewGathers
<1>2. /\ d \in Seq(Ops) /\ Len(x) \in Nat /\ DOMAIN x \subseteq Nat /\ DOMAIN v \subseteq Nat
      /\ \A i \in DOMAIN x : i \in DOMAIN d /\ d[i] = x[i]
      /\ \A k \in DOMAIN v : Len(x) + k \in DOMAIN d /\ d[Len(x) + k] = v[k]
      /\ \A i \in DOMAIN d :
           /\ i \in Nat
           /\ \/ i \in DOMAIN x
              \/ i - Len(x) \in DOMAIN v /\ i > Len(x) /\ d[i] = v[i - Len(x)]
      /\ \A i \in DOMAIN x : i <= Len(x)
  BY <1>1, ConcatFacts
<1> HIDE DEF d
<1>3. \A k \in DOMAIN d : d[k].kind = "gather" /\ d[k].batch = batches /\ d[k].arg \in D \union E
  BY <1>2 DEF NewGathers
<1>4. ASSUME NEW k \in DOMAIN d, NEW j \in DOMAIN d, k < j
      PROVE  d[k].arg < d[j].arg
  <2>1. CASE k \in DOMAIN x /\ j \in DOMAIN x
    BY <1>2, <1>4, <2>1 DEF NewGathers
  <2>2. CASE k \in DOMAIN x /\ j \notin DOMAIN x
    <3>1. d[k].arg \in D /\ d[j].arg \in E
      BY <1>2, <2>2 DEF NewGathers
    <3> QED
      BY <3>1
  <2>3. CASE k \notin DOMAIN x
    <3>1. /\ k - Len(x) \in DOMAIN v /\ d[k] = v[k - Len(x)] /\ k > Len(x)
          /\ k \in Nat /\ j \in Nat /\ Len(x) \in Nat
      BY <1>2, <2>3
    <3>2. j \notin DOMAIN x
      BY <1>2, <1>4, <3>1
    <3>3. j - Len(x) \in DOMAIN v /\ d[j] = v[j - Len(x)]
      BY <1>2, <3>2
    <3>4. k - Len(x) < j - Len(x)
      BY <1>4, <3>1
    <3> QED
      BY <3>1, <3>3, <3>4 DEF NewGathers
  <2> QED
    BY <2>1, <2>2, <2>3
<1>5. \A m \in D \union E : \E k \in DOMAIN d : d[k].arg = m
  <2>1. \A m \in D : \E k \in DOMAIN d : d[k].arg = m
    BY <1>2 DEF NewGathers
  <2>2. ASSUME NEW m \in E
        PROVE  \E k \in DOMAIN d : d[k].arg = m
    <3>1. PICK k \in DOMAIN v : v[k].arg = m
      BY DEF NewGathers
    <3>2. Len(x) + k \in DOMAIN d /\ d[Len(x) + k] = v[k]
      BY <1>2
    <3> QED
      BY <3>1, <3>2
  <2> QED
    BY <2>1, <2>2
<1> QED
  BY <1>2, <1>3, <1>4, <1>5 DEF NewGathers, d

LEMMA CopiesConcat ==
    ASSUME NEW y, NEW w, NEW b, NEW D \in SUBSET Int, NEW E \in SUBSET Int,
           NewCopies(y, D, b), NewCopies(w, E, b), \A m \in D, k \in E : m < k
    PROVE  NewCopies(y \o w, D \union E, b)
<1> DEFINE d == y \o w
<1>1. y \in Seq(Ops) /\ w \in Seq(Ops)
  BY DEF NewCopies
<1>2. /\ d \in Seq(Ops) /\ Len(y) \in Nat /\ DOMAIN y \subseteq Nat /\ DOMAIN w \subseteq Nat
      /\ \A i \in DOMAIN y : i \in DOMAIN d /\ d[i] = y[i]
      /\ \A k \in DOMAIN w : Len(y) + k \in DOMAIN d /\ d[Len(y) + k] = w[k]
      /\ \A i \in DOMAIN d :
           /\ i \in Nat
           /\ \/ i \in DOMAIN y
              \/ i - Len(y) \in DOMAIN w /\ i > Len(y) /\ d[i] = w[i - Len(y)]
      /\ \A i \in DOMAIN y : i <= Len(y)
  BY <1>1, ConcatFacts
<1> HIDE DEF d
<1>3. \A k \in DOMAIN d : d[k].batch = batches /\ d[k].kind \in {"wait", "record", "fill"}
  BY <1>2 DEF NewCopies
<1>4. ASSUME NEW k \in DOMAIN d, d[k].kind = "fill"
      PROVE  d[k].arg.layer \in D \union E /\ NewFill(d, k, b)
  <2>1. CASE k \in DOMAIN y
    <3>1. d[k] = y[k] /\ y[k].arg.layer \in D /\ NewFill(y, k, b)
      BY <1>2, <1>4, <2>1 DEF NewCopies
    <3> DEFINE m == y[k].arg.layer   freed == b[Half(m)].freed
    <3>2. /\ y[k] = Fill(m)
          /\ freed # None => \E u \in DOMAIN y : u <= k /\ y[u].kind = "wait" /\ y[u].arg = freed
          /\ \E r \in DOMAIN y : r >= k /\ y[r].kind = "record" /\ y[r].arg = Ready(batches, m)
      BY <3>1 DEF NewFill
    <3>3. d[k].arg.layer = m /\ freed = b[Half(m)].freed /\ m \in D
      BY <3>1
    <3> HIDE DEF m, freed
    <3>4. freed # None => \E u \in DOMAIN d : u <= k /\ d[u].kind = "wait" /\ d[u].arg = freed
      BY <1>2, <3>2
    <3>5. \E r \in DOMAIN d : r >= k /\ d[r].kind = "record" /\ d[r].arg = Ready(batches, m)
      BY <1>2, <3>2
    <3> QED
      BY <3>1, <3>2, <3>3, <3>4, <3>5 DEF NewFill
  <2>2. CASE k \notin DOMAIN y
    <3>1. PICK i \in DOMAIN w : k = Len(y) + i /\ d[k] = w[i]
      <4>1. k - Len(y) \in DOMAIN w /\ d[k] = w[k - Len(y)] /\ k \in Nat /\ Len(y) \in Nat
        BY <1>2, <2>2
      <4>2. k = Len(y) + (k - Len(y))
        BY <4>1
      <4> QED
        BY <4>1, <4>2
    <3>2. w[i].arg.layer \in E /\ NewFill(w, i, b)
      BY <1>4, <3>1 DEF NewCopies
    <3> DEFINE m == w[i].arg.layer   freed == b[Half(m)].freed
    <3>3. /\ w[i] = Fill(m)
          /\ freed # None => \E u \in DOMAIN w : u <= i /\ w[u].kind = "wait" /\ w[u].arg = freed
          /\ \E r \in DOMAIN w : r >= i /\ w[r].kind = "record" /\ w[r].arg = Ready(batches, m)
      BY <3>2 DEF NewFill
    <3>4. d[k].arg.layer = m
      BY <3>1
    <3> HIDE DEF m, freed
    <3>5. \A u \in DOMAIN w : /\ Len(y) + u \in DOMAIN d /\ d[Len(y) + u] = w[u]
                              /\ u <= i => Len(y) + u <= k
                              /\ u >= i => Len(y) + u >= k
      BY <1>2, <3>1
    <3>6. freed # None => \E u \in DOMAIN d : u <= k /\ d[u].kind = "wait" /\ d[u].arg = freed
      BY <3>3, <3>5
    <3>7. \E r \in DOMAIN d : r >= k /\ d[r].kind = "record" /\ d[r].arg = Ready(batches, m)
      BY <3>3, <3>5
    <3>8. freed = b[Half(m)].freed /\ m \in E
      BY <3>2 DEF freed, m
    <3> QED
      BY <3>1, <3>3, <3>4, <3>6, <3>7, <3>8 DEF NewFill
  <2> QED
    BY <2>1, <2>2
<1>5. ASSUME NEW k \in DOMAIN d, NEW j \in DOMAIN d, k < j, d[k].kind = "fill", d[j].kind = "fill"
      PROVE  d[k].arg.layer < d[j].arg.layer
  <2>1. CASE k \in DOMAIN y /\ j \in DOMAIN y
    BY <1>2, <1>5, <2>1 DEF NewCopies
  <2>2. CASE k \in DOMAIN y /\ j \notin DOMAIN y
    <3>1. d[k].arg.layer \in D /\ d[j].arg.layer \in E
      BY <1>2, <1>5, <2>2 DEF NewCopies
    <3> QED
      BY <3>1
  <2>3. CASE k \notin DOMAIN y
    <3>1. /\ k - Len(y) \in DOMAIN w /\ d[k] = w[k - Len(y)] /\ k > Len(y)
          /\ k \in Nat /\ j \in Nat /\ Len(y) \in Nat
      BY <1>2, <2>3
    <3>2. j \notin DOMAIN y
      BY <1>2, <1>5, <3>1
    <3>3. j - Len(y) \in DOMAIN w /\ d[j] = w[j - Len(y)]
      BY <1>2, <3>2
    <3>4. k - Len(y) < j - Len(y)
      BY <1>5, <3>1
    <3> QED
      BY <1>5, <3>1, <3>3, <3>4 DEF NewCopies
  <2> QED
    BY <2>1, <2>2, <2>3
<1>6. \A m \in D \union E : \E k \in DOMAIN d : d[k].kind = "fill" /\ d[k].arg.layer = m
  <2>1. \A m \in D : \E k \in DOMAIN d : d[k].kind = "fill" /\ d[k].arg.layer = m
    BY <1>2 DEF NewCopies
  <2>2. \A m \in E : \E k \in DOMAIN d : d[k].kind = "fill" /\ d[k].arg.layer = m
    BY <1>2 DEF NewCopies
  <2> QED
    BY <2>1, <2>2
<1>7. d \in Seq(Ops)
  BY <1>2
<1>8. /\ \A k \in DOMAIN d : d[k].kind = "fill" => d[k].arg.layer \in D \union E /\ NewFill(d, k, b)
      /\ \A k, j \in DOMAIN d :
         k < j /\ d[k].kind = "fill" /\ d[j].kind = "fill" => d[k].arg.layer < d[j].arg.layer
  BY <1>4, <1>5
<1>9. NewCopies(d, D \union E, b)
  BY <1>3, <1>6, <1>7, <1>8 DEF NewCopies
<1> QED
  BY <1>9 DEF d

LEMMA CopiesOfLayer ==
    ASSUME batches \in Nat, NEW m \in Layers, NEW b \in [Halves -> HalfStates]
    PROVE  NewCopies(WaitFor(b[Half(m)].freed)
                       \o <<Fill(m), Op("record", Event("ready", m))>>, {m}, b)
<1> DEFINE f == Fill(m)
           r == Op("record", Event("ready", m))
           e == b[Half(m)].freed
           v == Op("wait", e)
           t == <<f, r>>
<1>1. e \in Events \union {None}
  BY HalfType DEF HalfStates
<1>2. /\ f \in Ops /\ f.kind = "fill" /\ f.arg.layer = m /\ f.batch = batches
      /\ r \in Ops /\ r.kind = "record" /\ r.batch = batches /\ r.arg = Ready(batches, m)
      /\ e # None => v \in Ops /\ v.kind = "wait" /\ v.arg = e /\ v.batch = batches
  BY <1>1, OpTypes DEF Op, Fill, Event, Ready
<1>3. /\ WaitFor(e) = IF e = None THEN << >> ELSE <<v>>
      /\ f = Fill(m) /\ e = b[Half(m)].freed
  BY DEF WaitFor
<1> HIDE DEF f, r, v, e
<1>4. t \in Seq(Ops) /\ DOMAIN t = {1, 2} /\ t[1] = f /\ t[2] = r
  BY <1>2, ShortQueues
<1> HIDE DEF t
<1>5. CASE e = None
  <2>1. WaitFor(e) \o t = t
    BY <1>3, <1>4, <1>5, ConcatEmptySeq
  <2>2. NewFill(t, 1, b)
    <3>1. t[1].arg.layer = m /\ t[1] = Fill(m) /\ b[Half(m)].freed = None
      BY <1>2, <1>3, <1>4, <1>5
    <3>2. \E k \in DOMAIN t : k >= 1 /\ t[k].kind = "record" /\ t[k].arg = Ready(batches, m)
      BY <1>2, <1>4
    <3> QED
      BY <3>1, <3>2 DEF NewFill
  <2>3. \A k \in DOMAIN t : (t[k] = f \/ t[k] = r) /\ (t[k].kind = "fill" => k = 1)
    BY <1>2, <1>4
  <2>4. NewCopies(t, {m}, b)
    BY <1>2, <1>4, <2>2, <2>3 DEF NewCopies
  <2> QED
    BY <2>1, <2>4 DEF t, f, r, e
<1>6. CASE e # None
  <2> DEFINE s == <<v>>   d == s \o t
  <2>1. s \in Seq(Ops) /\ DOMAIN s = {1} /\ s[1] = v /\ Len(s) = 1
    BY <1>2, <1>6, ShortQueues
  <2>2. WaitFor(e) \o t = d
    BY <1>3, <1>6
  <2> HIDE DEF s
  <2>3. /\ d \in Seq(Ops)
        /\ 1 \in DOMAIN d /\ d[1] = v
        /\ \A k \in DOMAIN t : Len(s) + k \in DOMAIN d /\ d[Len(s) + k] = t[k]
        /\ \A i \in DOMAIN d : i \in Nat /\ (i \in DOMAIN s \/ i - Len(s) \in DOMAIN t)
    <3>1. /\ d \in Seq(Ops)
          /\ \A i \in DOMAIN s : i \in DOMAIN d /\ d[i] = s[i]
          /\ \A k \in DOMAIN t : Len(s) + k \in DOMAIN d /\ d[Len(s) + k] = t[k]
          /\ \A i \in DOMAIN d : i \in Nat /\ (i \in DOMAIN s \/ i - Len(s) \in DOMAIN t)
      BY <1>4, <2>1, ConcatFacts
    <3> HIDE DEF d
    <3> QED
      BY <2>1, <3>1
  <2> HIDE DEF d
  <2>4. 2 \in DOMAIN d /\ d[2] = f /\ 3 \in DOMAIN d /\ d[3] = r
    <3>1. 1 + 1 \in DOMAIN d /\ d[1 + 1] = f /\ 1 + 2 \in DOMAIN d /\ d[1 + 2] = r
      BY <1>4, <2>1, <2>3
    <3>2. 1 + 1 = 2 /\ 1 + 2 = 3
      OBVIOUS
    <3> QED
      BY <3>1, <3>2
  <2>5. \A i \in DOMAIN d : i = 1 \/ i = 2 \/ i = 3
    BY <1>4, <2>1, <2>3
  <2>6. \A k \in DOMAIN d : /\ d[k].batch = batches /\ d[k].kind \in {"wait", "record", "fill"}
                            /\ d[k].kind = "fill" => k = 2 /\ d[k].arg.layer = m
    BY <1>2, <1>6, <2>3, <2>4, <2>5
  <2>7. NewFill(d, 2, b)
    BY <1>2, <1>3, <1>6, <2>3, <2>4 DEF NewFill
  <2>8. NewCopies(d, {m}, b)
    BY <1>2, <2>3, <2>4, <2>6, <2>7 DEF NewCopies
  <2> QED
    BY <2>2, <2>8 DEF t, f, r, e
<1> QED
  BY <1>5, <1>6

(* What prefetching layer m makes of the halves b.                         *)
Prefetched(c, b, m) ==
    /\ \A h \in Halves : h # Half(m) \/ Taken(b, m) = {} => c[h] = b[h]
    /\ m \in Layers =>
         LET h == Half(m)
         IN /\ c[h].layer = m /\ c[h].freed = b[h].freed
            /\ c[h].ready = IF b[h].layer # m THEN Ready(batches, m) ELSE b[h].ready

LEMMA PrefetchShape ==
    ASSUME batches \in Nat, splitting \in BOOLEAN,
           NEW q \in [Streams -> Seq(Ops)], NEW b \in [Halves -> HalfStates], NEW m \in Nat
    PROVE  \E x, y : \E c \in [Halves -> HalfStates] :
             /\ NewGathers(x, IF splitting THEN Taken(b, m) ELSE {})
             /\ NewCopies(y, Taken(b, m), b)
             /\ Prefetch(Work(q, b), m) = Work(Add(q, x, y), c)
             /\ Prefetched(c, b, m)
<1>0. NewGathers(<< >>, {}) /\ NewCopies(<< >>, {}, b)
  BY ShortQueues DEF NewGathers, NewCopies
<1>1. CASE m \notin Layers \/ b[Half(m)].layer = m
  <2>1. Prefetch(Work(q, b), m) = Work(q, b)
    BY <1>1 DEF Prefetch, Work
  <2>2. Taken(b, m) = {}
    BY <1>1 DEF Taken
  <2>3. Add(q, << >>, << >>) = q
    BY EnqueueAdd, ShortQueues
  <2>4. Prefetched(b, b, m)
    BY <1>1, <2>2 DEF Prefetched
  <2> QED
    BY <1>0, <2>1, <2>2, <2>3, <2>4
<1>2. CASE m \in Layers /\ b[Half(m)].layer # m
  <2> DEFINE h == Half(m)
             g == Op("gather", m)
             x == IF splitting THEN <<g>> ELSE << >>
             y == WaitFor(b[h].freed) \o <<Fill(m), Op("record", Event("ready", m))>>
             c == [b EXCEPT ![h] = [@ EXCEPT !.layer = m, !.released = FALSE,
                                             !.ready = Event("ready", m)]]
  <2>1. h \in Halves /\ b[h] \in HalfStates
    BY <1>2, HalfType
  <2>2. Taken(b, m) = {m}
    BY <1>2 DEF Taken
  <2>3. g \in Ops /\ g.kind = "gather" /\ g.arg = m /\ g.batch = batches
    BY <1>2, OpTypes DEF Op
  <2>4. c \in [Halves -> HalfStates]
    BY <1>2, <2>1, OpTypes DEF HalfStates
  <2>5. Prefetched(c, b, m)
    <3>1. /\ c[h].layer = m /\ c[h].freed = b[h].freed /\ c[h].ready = Event("ready", m)
          /\ \A o \in Halves : o # h => c[o] = b[o]
      BY <2>1 DEF HalfStates
    <3>2. Event("ready", m) = Ready(batches, m)
      BY DEF Event, Ready
    <3> HIDE DEF c
    <3> QED
      BY <1>2, <2>2, <3>1, <3>2 DEF Prefetched
  <2>6. Prefetch(Work(q, b), m) =
          Work(Enqueue(Enqueue(q, "compute", x), "copy", y), c)
    BY <1>2 DEF Prefetch, Work
  <2>7. NewCopies(y, {m}, b)
    BY <1>2, CopiesOfLayer
  <2> HIDE DEF g, y, c
  <2>8. NewGathers(<<g>>, {m})
    BY <2>3, ShortQueues DEF NewGathers
  <2>9. NewGathers(x, IF splitting THEN {m} ELSE {})
    BY <1>0, <2>8
  <2> HIDE DEF x
  <2>10. Prefetch(Work(q, b), m) = Work(Add(q, x, y), c)
    BY <2>6, <2>7, <2>9, EnqueueAdd DEF NewGathers, NewCopies
  <2> QED
    BY <2>2, <2>4, <2>5, <2>7, <2>9, <2>10
<1> QED
  BY <1>1, <1>2

(* What using the half of layer l appends to the compute stream.           *)
UseOfHalf(t, l) ==
    /\ t \in Seq(Ops) /\ DOMAIN t = 1 .. 3 /\ Len(t) = 3
    /\ \A k \in 1 .. 3 : t[k].batch = batches
    /\ t[1].kind = "wait" /\ t[1].arg = Ready(batches, l)
    /\ t[2].kind = "layer_gemm" /\ t[2].arg = l
    /\ t[3].kind = "record" /\ t[3].arg = Release(batches, l)

LEMMA UseShape ==
    ASSUME batches \in Nat,
           NEW q \in [Streams -> Seq(Ops)], NEW b \in [Halves -> HalfStates], NEW l \in Layers,
           b[Half(l)].ready = Ready(batches, l)
    PROVE  \E t : \E c \in [Halves -> HalfStates] :
             /\ UseOfHalf(t, l)
             /\ UseHalf(Work(q, b), l) = Work(Add(q, t, << >>), c)
             /\ \A h \in Halves :
                  /\ c[h].layer = b[h].layer /\ c[h].ready = b[h].ready
                  /\ c[h].freed = IF h = Half(l) THEN Release(batches, l) ELSE b[h].freed
<1> DEFINE h == Half(l)
           e == Ready(batches, l)
           v == Op("wait", e)
           g == Op("layer_gemm", l)
           r == Op("record", Event("release", l))
           t == <<v>> \o <<g, r>>
           c == [b EXCEPT ![h] = [@ EXCEPT !.released = TRUE, !.freed = Event("release", l)]]
<1>1. h \in Halves /\ b[h] \in HalfStates
  BY HalfType
<1>2. /\ e \in Events /\ e # None /\ Event("release", l) = Release(batches, l)
  BY ExpertCacheAssumption DEF Ready, Events, Event, Release, HalfStates
<1>3. /\ v \in Ops /\ v.kind = "wait" /\ v.arg = e /\ v.batch = batches
      /\ g \in Ops /\ g.kind = "layer_gemm" /\ g.arg = l /\ g.batch = batches
      /\ r \in Ops /\ r.kind = "record" /\ r.arg = Release(batches, l) /\ r.batch = batches
  BY <1>2, OpTypes DEF Op
<1>4. UseHalf(Work(q, b), l) = Work(Enqueue(q, "compute", t), c)
  BY <1>2 DEF UseHalf, Work, WaitFor
<1>5. c \in [Halves -> HalfStates]
  BY <1>1, OpTypes DEF HalfStates
<1>6. \A o \in Halves :
        /\ c[o].layer = b[o].layer /\ c[o].ready = b[o].ready
        /\ c[o].freed = IF o = h THEN Release(batches, l) ELSE b[o].freed
  BY <1>1, <1>2 DEF HalfStates
<1>7. UseOfHalf(t, l)
  <2> HIDE DEF v, g, r
  <2> DEFINE s == <<v>>   u == <<g, r>>
  <2>1. s \in Seq(Ops) /\ DOMAIN s = {1} /\ s[1] = v /\ Len(s) = 1
    BY <1>3, ShortQueues
  <2>2. u \in Seq(Ops) /\ DOMAIN u = {1, 2} /\ u[1] = g /\ u[2] = r /\ Len(u) = 2
    BY <1>3, ShortQueues
  <2> HIDE DEF s, u
  <2> DEFINE d == s \o u
  <2>3. /\ d \in Seq(Ops) /\ DOMAIN d = 1 .. Len(s) + Len(u) /\ Len(d) = Len(s) + Len(u)
        /\ \A i \in DOMAIN s : d[i] = s[i]
        /\ \A k \in DOMAIN u : d[Len(s) + k] = u[k]
    <3>1. /\ d \in Seq(Ops) /\ DOMAIN d = 1 .. Len(s) + Len(u) /\ Len(d) = Len(s) + Len(u)
          /\ \A i \in DOMAIN s : i \in DOMAIN d /\ d[i] = s[i]
          /\ \A k \in DOMAIN u : Len(s) + k \in DOMAIN d /\ d[Len(s) + k] = u[k]
      BY <2>1, <2>2, ConcatFacts
    <3> HIDE DEF d
    <3> QED
      BY <3>1
  <2> HIDE DEF d
  <2>4. d[1] = v /\ d[1 + 1] = g /\ d[1 + 2] = r /\ 1 + 1 = 2 /\ 1 + 2 = 3
    <3>1. d[Len(s) + 1] = u[1] /\ d[Len(s) + 2] = u[2] /\ d[1] = s[1]
      BY <2>1, <2>2, <2>3
    <3>2. 1 + 1 = 2 /\ 1 + 2 = 3
      OBVIOUS
    <3> QED
      BY <2>1, <2>2, <3>1, <3>2
  <2>5. d[1] = v /\ d[2] = g /\ d[3] = r /\ DOMAIN d = 1 .. 3 /\ Len(d) = 3
    BY <2>1, <2>2, <2>3, <2>4
  <2>6. \A k \in 1 .. 3 : k = 1 \/ k = 2 \/ k = 3
    OBVIOUS
  <2>7. UseOfHalf(d, l)
    BY <1>3, <2>3, <2>5, <2>6 DEF UseOfHalf
  <2> QED
    BY <2>7 DEF d, s, u
<1> HIDE DEF t, c
<1>8. UseHalf(Work(q, b), l) = Work(Add(q, t, << >>), c)
  BY <1>4, <1>7, EnqueueAdd, ShortQueues DEF UseOfHalf
<1> QED
  BY <1>5, <1>6, <1>7, <1>8

(* One layer, as the host begins it: what it prefetches.                   *)
Prefetches == Taken(buffers, batch.layer) \union Taken(buffers, batch.layer + 1)

LEMMA HalvesAlternate ==
    ASSUME NEW l \in Nat
    PROVE  Half(l) # Half(l + 1) /\ Half(l) \in Halves /\ Half(l + 1) \in Halves
  BY DEF Half, Halves

LEMMA StreamLayerShape ==
    ASSUME TypeOK, HalvesKnown, StreamLayer
    PROVE  /\ \E g, t, y :
                /\ NewGathers(g, IF splitting THEN Prefetches ELSE {})
                /\ UseOfHalf(t, batch.layer)
                /\ NewCopies(y, Prefetches, buffers)
                /\ Appends(g \o t, y)
           /\ \A h \in Halves :
                LET m == IF h = Half(batch.layer) THEN batch.layer ELSE batch.layer + 1
                IN IF m \in Layers
                   THEN /\ buffers'[h].layer = m /\ buffers'[h].ready = Ready(batches, m)
                        /\ buffers'[h].freed =
                             IF h = Half(batch.layer) THEN Release(batches, m) ELSE buffers[h].freed
                   ELSE /\ buffers'[h].layer = buffers[h].layer /\ buffers'[h].ready = buffers[h].ready
                        /\ buffers'[h].freed = buffers[h].freed
<1> DEFINE l == batch.layer
           m == l + 1
           n == batches
           W == [Halves -> HalfStates]
           Q == [Streams -> Seq(Ops)]
           G(b, k) == IF splitting THEN Taken(b, k) ELSE {}
<1>0. \A u, v, a, b \in Seq(Ops) :
        Add(Add(queue, u, v), a, b) = Add(queue, u \o a, v \o b)
  <2>1. queue \in [Streams -> Seq(Ops)]
    BY DEF TypeOK
  <2> QED
    BY <2>1, AddAdd
<1>1. /\ n \in Nat /\ splitting \in BOOLEAN /\ l \in Layers /\ l \in Nat /\ m \in Nat
      /\ queue \in Q /\ buffers \in W
      /\ Half(l) # Half(m) /\ Half(l) \in Halves /\ Half(m) \in Halves
  <2>1. batch.layer \in Layers
    BY DEF TypeOK
  <2>2. /\ batches \in Nat /\ splitting \in BOOLEAN
        /\ queue \in Q /\ buffers \in W
    BY DEF TypeOK
  <2>3. l \in Nat /\ m \in Nat
    BY <2>1
  <2> QED
    BY <2>1, <2>2, <2>3, HalvesAlternate
<1>2. \A q \in Q, b \in W, k \in Nat : \E x, y : \E c \in W :
        /\ NewGathers(x, G(b, k)) /\ NewCopies(y, Taken(b, k), b)
        /\ Prefetch(Work(q, b), k) = Work(Add(q, x, y), c) /\ Prefetched(c, b, k)
  BY <1>1, PrefetchShape
<1>3. \A q \in Q : \A x, y : x \in Seq(Ops) /\ y \in Seq(Ops) => Add(q, x, y) \in Q
  BY EnqueueAdd
<1> DEFINE now == Work(queue, buffers)
           enq == UseHalf(Prefetch(Prefetch(now, l), m), l)
<1>4. queue' = enq.queue /\ buffers' = enq.buffers
  BY DEF StreamLayer, Work
<1>5. \A q, b : Work(q, b).queue = q /\ Work(q, b).buffers = b
  BY DEF Work
<1>6. batch.mode = "streaming"
  BY DEF StreamLayer
<1> HIDE DEF l, m, n, W, Q, G
<1>7. PICK x1, y1 : \E b \in W :
        /\ NewGathers(x1, G(buffers, l)) /\ NewCopies(y1, Taken(buffers, l), buffers)
        /\ Prefetch(now, l) = Work(Add(queue, x1, y1), b) /\ Prefetched(b, buffers, l)
  BY <1>1, <1>2
<1> DEFINE q1 == Add(queue, x1, y1)
<1>8. PICK b1 \in W : Prefetch(now, l) = Work(q1, b1) /\ Prefetched(b1, buffers, l)
  BY <1>7
<1>9. /\ q1 \in Q /\ x1 \in Seq(Ops) /\ y1 \in Seq(Ops)
  BY <1>1, <1>3, <1>7 DEF NewGathers, NewCopies
<1> HIDE DEF q1
<1>10. PICK x2, y2 : \E b \in W :
        /\ NewGathers(x2, G(b1, m)) /\ NewCopies(y2, Taken(b1, m), b1)
        /\ Prefetch(Work(q1, b1), m) = Work(Add(q1, x2, y2), b) /\ Prefetched(b, b1, m)
  BY <1>1, <1>2, <1>9
<1> DEFINE q2 == Add(q1, x2, y2)
<1>11. PICK b2 \in W : Prefetch(Work(q1, b1), m) = Work(q2, b2) /\ Prefetched(b2, b1, m)
  BY <1>10
<1>12. q2 \in Q /\ x2 \in Seq(Ops) /\ y2 \in Seq(Ops)
  BY <1>3, <1>9, <1>10 DEF NewGathers, NewCopies
<1> HIDE DEF q2
<1>13. /\ b1[Half(m)] = buffers[Half(m)] /\ b2[Half(l)] = b1[Half(l)]
       /\ b1[Half(l)].layer = l /\ b1[Half(l)].freed = buffers[Half(l)].freed
       /\ b1[Half(l)].ready = Ready(n, l)
  <2>1. /\ b1[Half(m)] = buffers[Half(m)] /\ b2[Half(l)] = b1[Half(l)]
    BY <1>1, <1>8, <1>11 DEF Prefetched
  <2>2. /\ b1[Half(l)].layer = l /\ b1[Half(l)].freed = buffers[Half(l)].freed
        /\ b1[Half(l)].ready =
             IF buffers[Half(l)].layer # l THEN Ready(n, l) ELSE buffers[Half(l)].ready
    BY <1>1, <1>8 DEF Prefetched, n
  <2>3. ASSUME buffers[Half(l)].layer = l
        PROVE  buffers[Half(l)].ready = Ready(n, l)
    <3>1. buffers[Half(l)].layer # None
      BY <1>1, <2>3, NoneFacts
    <3> QED
      BY <1>1, <1>6, <2>3, <3>1 DEF HalvesKnown, n
  <2> QED
    BY <2>1, <2>2, <2>3
<1>14. Taken(b1, m) = Taken(buffers, m) /\ G(b1, m) = G(buffers, m)
  BY <1>13 DEF Taken, G
<1>15. NewCopies(y2, Taken(buffers, m), buffers)
  <2>1. NewCopies(y2, Taken(buffers, m), b1)
    BY <1>10, <1>14
  <2>2. \A k \in DOMAIN y2 : y2[k].kind = "fill" => y2[k].arg.layer = m
    BY <2>1 DEF NewCopies, Taken
  <2>3. \A k \in DOMAIN y2 : y2[k].kind = "fill" => NewFill(y2, k, buffers)
    BY <1>13, <2>1, <2>2 DEF NewCopies, NewFill
  <2> QED
    BY <2>1, <2>3 DEF NewCopies
<1>16. PICK t : \E c \in W :
         /\ UseOfHalf(t, l)
         /\ UseHalf(Work(q2, b2), l) = Work(Add(q2, t, << >>), c)
         /\ \A h \in Halves :
              /\ c[h].layer = b2[h].layer /\ c[h].ready = b2[h].ready
              /\ c[h].freed = IF h = Half(l) THEN Release(n, l) ELSE b2[h].freed
  <2>1. b2[Half(l)].ready = Ready(n, l)
    BY <1>13
  <2>2. \A q \in Q, b \in W, k \in Layers : b[Half(k)].ready = Ready(n, k) =>
          \E u : \E c \in W :
            /\ UseOfHalf(u, k)
            /\ UseHalf(Work(q, b), k) = Work(Add(q, u, << >>), c)
            /\ \A h \in Halves :
                 /\ c[h].layer = b[h].layer /\ c[h].ready = b[h].ready
                 /\ c[h].freed = IF h = Half(k) THEN Release(n, k) ELSE b[h].freed
    BY <1>1, UseShape DEF Q, W, n
  <2> QED
    BY <1>1, <1>11, <1>12, <2>1, <2>2
<1>17. PICK b3 \in W :
         /\ UseOfHalf(t, l)
         /\ UseHalf(Work(q2, b2), l) = Work(Add(q2, t, << >>), b3)
         /\ \A h \in Halves :
              /\ b3[h].layer = b2[h].layer /\ b3[h].ready = b2[h].ready
              /\ b3[h].freed = IF h = Half(l) THEN Release(n, l) ELSE b2[h].freed
  BY <1>16
<1> DEFINE g == x1 \o x2   y == y1 \o y2   x == g \o t
<1>18. t \in Seq(Ops) /\ g \in Seq(Ops) /\ y \in Seq(Ops) /\ x \in Seq(Ops)
  BY <1>9, <1>12, <1>17, ConcatProperties DEF UseOfHalf
<1>19. q2 = Add(queue, g, y)
  <2>1. Add(Add(queue, x1, y1), x2, y2) = Add(queue, x1 \o x2, y1 \o y2)
    BY <1>0, <1>9, <1>12
  <2> QED
    BY <2>1 DEF q1, q2
<1> HIDE DEF g, y, x
<1>20. Add(q2, t, << >>) = Add(queue, x, y)
  <2>1. y \o << >> = y
    BY <1>18, ConcatEmptySeq
  <2>2. Add(Add(queue, g, y), t, << >>) = Add(queue, x, y \o << >>)
    <3>1. << >> \in Seq(Ops) /\ t \in Seq(Ops) /\ g \in Seq(Ops) /\ y \in Seq(Ops)
      BY <1>18, ShortQueues
    <3>2. \A v \in Seq(Ops) : Add(Add(queue, g, y), t, v) = Add(queue, g \o t, y \o v)
      BY <1>0, <3>1
    <3> QED
      BY <3>1, <3>2, Zenon DEF x
  <2> QED
    BY <1>19, <2>1, <2>2
<1>21. queue' = Add(queue, x, y) /\ buffers' = b3
  <2>1. enq = Work(Add(queue, x, y), b3)
    BY <1>8, <1>11, <1>17, <1>20
  <2> QED
    BY <1>4, <1>5, <2>1
<1>22. Appends(x, y)
  BY <1>18, <1>21 DEF Appends, Add, Streams, Compute, Copy
<1>23. NewGathers(g, G(buffers, l) \union G(buffers, m)) /\ NewCopies(y, Prefetches, buffers)
  <2>1. /\ Taken(buffers, l) \in SUBSET Int /\ Taken(buffers, m) \in SUBSET Int
        /\ \A a \in Taken(buffers, l), c \in Taken(buffers, m) : a < c
    BY <1>1 DEF Taken, m
  <2>2. NewCopies(y, Taken(buffers, l) \union Taken(buffers, m), buffers)
    BY <1>7, <1>15, <2>1, CopiesConcat DEF y
  <2>3. /\ G(buffers, l) \in SUBSET Int /\ G(buffers, m) \in SUBSET Int
        /\ \A a \in G(buffers, l), c \in G(buffers, m) : a < c
    BY <2>1 DEF G
  <2>4. NewGathers(g, G(buffers, l) \union G(buffers, m))
    BY <1>7, <1>10, <1>14, <2>3, GathersConcat DEF g
  <2> QED
    BY <2>2, <2>4 DEF Prefetches, l, m
<1>24. G(buffers, l) \union G(buffers, m) = IF splitting THEN Prefetches ELSE {}
  BY DEF G, Prefetches, l, m
<1>25. ASSUME NEW h \in Halves, NEW o, o = IF h = Half(l) THEN l ELSE m
       PROVE  IF o \in Layers
              THEN /\ buffers'[h].layer = o /\ buffers'[h].ready = Ready(n, o)
                   /\ buffers'[h].freed = IF h = Half(l) THEN Release(n, o) ELSE buffers[h].freed
              ELSE /\ buffers'[h].layer = buffers[h].layer /\ buffers'[h].ready = buffers[h].ready
                   /\ buffers'[h].freed = buffers[h].freed
  <2>1. CASE h = Half(l)
    BY <1>1, <1>13, <1>17, <1>21, <1>25, <2>1
  <2>2. CASE h # Half(l)
    <3>1. h = Half(m) /\ o = m
      BY <1>1, <1>25, <2>2 DEF Halves
    <3>2. CASE m \in Layers
      <4>1. /\ b2[h].layer = m /\ b2[h].freed = buffers[h].freed
            /\ b2[h].ready = IF buffers[h].layer # m THEN Ready(n, m) ELSE buffers[h].ready
        BY <1>11, <1>13, <3>1, <3>2 DEF Prefetched, n
      <4>2. ASSUME buffers[h].layer = m
            PROVE  buffers[h].ready = Ready(n, m)
        <5>1. buffers[h].layer # None
          BY <1>1, <4>2, NoneFacts
        <5> QED
          BY <1>6, <4>2, <5>1 DEF HalvesKnown, n
      <4> QED
        BY <1>17, <1>21, <2>2, <3>1, <3>2, <4>1, <4>2
    <3>3. CASE m \notin Layers
      <4>1. b2[h] = buffers[h]
        BY <1>11, <1>13, <3>1, <3>3 DEF Prefetched, Taken
      <4> QED
        BY <1>17, <1>21, <2>2, <3>1, <3>3, <4>1
    <3> QED
      BY <3>2, <3>3
  <2> QED
    BY <2>1, <2>2
<1>26. \E a, c, d : /\ NewGathers(a, IF splitting THEN Prefetches ELSE {})
                    /\ UseOfHalf(c, l) /\ NewCopies(d, Prefetches, buffers)
                    /\ Appends(a \o c, d)
  BY <1>17, <1>22, <1>23, <1>24 DEF x
<1> QED
  BY <1>25, <1>26 DEF l, m, n

(* The same in the queues: the gathers of the layers of D, then, from      *)
(* position p on, the use of the half.                                     *)
ComputeAfter(p, D, l) ==
    /\ p \in Nat /\ DOMAIN Compute' = 1 .. p + 2 /\ Len(Compute) < p
    /\ \A i \in DOMAIN Compute : Compute'[i] = Compute[i]
    /\ Compute'[p].kind = "wait" /\ Compute'[p].arg = Ready(batches, l)
    /\ Compute'[p + 1].kind = "layer_gemm" /\ Compute'[p + 1].arg = l
    /\ Compute'[p + 2].kind = "record" /\ Compute'[p + 2].arg = Release(batches, l)
    /\ \A i \in DOMAIN Compute' : i > Len(Compute) =>
         /\ Compute'[i].batch = batches
         /\ i < p => Compute'[i].kind = "gather" /\ Compute'[i].arg \in D
    /\ \A i, j \in DOMAIN Compute' :
         Len(Compute) < i /\ i < j /\ j < p => Compute'[i].arg < Compute'[j].arg
    /\ \A m \in D : \E i \in DOMAIN Compute' :
         Len(Compute) < i /\ i < p /\ Compute'[i].kind = "gather" /\ Compute'[i].arg = m

CopyAfter(D) ==
    /\ \A c \in DOMAIN Copy : c \in DOMAIN Copy' /\ Copy'[c] = Copy[c]
    /\ \A c \in DOMAIN Copy' : c \in DOMAIN Copy \/ (c \in Nat /\ c > Len(Copy))
    /\ \A c \in DOMAIN Copy' : c > Len(Copy) =>
         Copy'[c].batch = batches /\ Copy'[c].kind \in {"wait", "record", "fill"}
    /\ \A c \in DOMAIN Copy' : c > Len(Copy) /\ Copy'[c].kind = "fill" =>
         LET m == Copy'[c].arg.layer
             freed == buffers[Half(m)].freed
         IN /\ m \in D /\ Copy'[c] = Fill(m)
            /\ freed # None =>
                 \E w \in DOMAIN Copy' : w <= c /\ Copy'[w].kind = "wait" /\ Copy'[w].arg = freed
            /\ \E r \in DOMAIN Copy' :
                 r >= c /\ Copy'[r].kind = "record" /\ Copy'[r].arg = Ready(batches, m)
    /\ \A c, d \in DOMAIN Copy' :
         Len(Copy) < c /\ c < d /\ Copy'[c].kind = "fill" /\ Copy'[d].kind = "fill" =>
           Copy'[c].arg.layer < Copy'[d].arg.layer
    /\ \A m \in D : \E c \in DOMAIN Copy' :
         c > Len(Copy) /\ Copy'[c].kind = "fill" /\ Copy'[c].arg.layer = m

LEMMA ComputeAppended ==
    ASSUME TypeOK, NEW g, NEW t, NEW y, NEW D, NEW l,
           NewGathers(g, D), UseOfHalf(t, l), Appends(g \o t, y)
    PROVE  \E p : ComputeAfter(p, D, l)
<1> DEFINE x == g \o t   L == Len(Compute)   G == Len(g)   p == L + G + 1
<1>1. g \in Seq(Ops) /\ t \in Seq(Ops)
  BY DEF NewGathers, UseOfHalf
<1>2. /\ G \in Nat /\ DOMAIN g = 1 .. G
      /\ DOMAIN x = 1 .. G + 3 /\ Len(x) = G + 3
      /\ \A k \in 1 .. G : x[k] = g[k]
      /\ x[G + 1] = t[1] /\ x[G + 2] = t[2] /\ x[G + 3] = t[3]
  <2>1. /\ x \in Seq(Ops) /\ G \in Nat /\ DOMAIN g = 1 .. G /\ Len(t) = 3 /\ DOMAIN t = 1 .. 3
        /\ DOMAIN x = 1 .. G + Len(t) /\ Len(x) = G + Len(t)
        /\ \A k \in DOMAIN g : k \in DOMAIN x /\ x[k] = g[k]
        /\ \A k \in DOMAIN t : G + k \in DOMAIN x /\ x[G + k] = t[k]
    BY <1>1, ConcatFacts DEF UseOfHalf
  <2> HIDE DEF x, G
  <2>2. 1 \in 1 .. 3 /\ 2 \in 1 .. 3 /\ 3 \in 1 .. 3
    OBVIOUS
  <2> QED
    BY <2>1, <2>2
<1>3. /\ L \in Nat /\ DOMAIN Compute = 1 .. L /\ DOMAIN Compute' = 1 .. L + Len(x)
      /\ \A i \in DOMAIN Compute : Compute'[i] = Compute[i]
      /\ \A k \in DOMAIN x : Compute'[L + k] = x[k]
  BY AppendFacts
<1> HIDE DEF x, G, L
<1>4. p \in Nat /\ L < p /\ DOMAIN Compute' = 1 .. p + 2
  BY <1>2, <1>3
<1>5. Compute'[p] = t[1] /\ Compute'[p + 1] = t[2] /\ Compute'[p + 2] = t[3]
  <2>1. /\ L + (G + 1) = p /\ L + (G + 2) = p + 1 /\ L + (G + 3) = p + 2
        /\ G + 1 \in 1 .. G + 3 /\ G + 2 \in 1 .. G + 3 /\ G + 3 \in 1 .. G + 3
    BY <1>2, <1>3
  <2>2. /\ Compute'[L + (G + 1)] = x[G + 1] /\ Compute'[L + (G + 2)] = x[G + 2]
        /\ Compute'[L + (G + 3)] = x[G + 3]
    BY <1>2, <1>3, <2>1
  <2> QED
    BY <1>2, <2>1, <2>2
<1>6. \A i \in DOMAIN Compute' : i > L /\ i < p =>
        i \in Nat /\ i - L \in DOMAIN g /\ Compute'[i] = g[i - L]
  <2> SUFFICES ASSUME NEW i \in DOMAIN Compute', i > L, i < p
               PROVE  i \in Nat /\ i - L \in DOMAIN g /\ Compute'[i] = g[i - L]
    OBVIOUS
  <2>1. i \in Nat /\ i - L \in 1 .. G /\ i - L \in 1 .. G + 3 /\ L + (i - L) = i
    BY <1>2, <1>3, <1>4
  <2>2. Compute'[L + (i - L)] = x[i - L]
    BY <1>2, <1>3, <2>1
  <2> QED
    BY <1>2, <2>1, <2>2
<1>7. \A i \in DOMAIN Compute' : i > L =>
        /\ Compute'[i].batch = batches
        /\ i < p => Compute'[i].kind = "gather" /\ Compute'[i].arg \in D
  <2> SUFFICES ASSUME NEW i \in DOMAIN Compute', i > L
               PROVE  /\ Compute'[i].batch = batches
                      /\ i < p => Compute'[i].kind = "gather" /\ Compute'[i].arg \in D
    OBVIOUS
  <2>1. CASE i < p
    BY <1>6, <2>1 DEF NewGathers
  <2>2. CASE ~ (i < p)
    <3>1. i = p \/ i = p + 1 \/ i = p + 2
      BY <1>4, <2>2
    <3>2. \A k \in 1 .. 3 : t[k].batch = batches
      BY DEF UseOfHalf
    <3>3. t[1].batch = batches /\ t[2].batch = batches /\ t[3].batch = batches
      BY <3>2
    <3> QED
      BY <1>5, <2>2, <3>1, <3>3
  <2> QED
    BY <2>1, <2>2
<1>8. ASSUME NEW i \in DOMAIN Compute', NEW j \in DOMAIN Compute', L < i, i < j, j < p
      PROVE  Compute'[i].arg < Compute'[j].arg
  <2>1. i \in Nat /\ j \in Nat /\ L < j /\ i < p /\ i - L < j - L
    BY <1>3, <1>4, <1>8
  <2> QED
    BY <1>6, <1>8, <2>1 DEF NewGathers
<1>9. ASSUME NEW m \in D
      PROVE  \E i \in DOMAIN Compute' :
               L < i /\ i < p /\ Compute'[i].kind = "gather" /\ Compute'[i].arg = m
  <2>1. PICK k \in DOMAIN g : g[k].arg = m /\ g[k].kind = "gather"
    BY DEF NewGathers
  <2>2. k \in 1 .. G /\ k \in DOMAIN x /\ x[k] = g[k]
    BY <1>2
  <2>3. Compute'[L + k] = g[k]
    BY <1>3, <2>2
  <2>4. L + k \in DOMAIN Compute' /\ L < L + k /\ L + k < p
    BY <1>2, <1>3, <1>4, <2>2
  <2> QED
    BY <2>1, <2>3, <2>4
<1>10. /\ t[1].kind = "wait" /\ t[1].arg = Ready(batches, l)
       /\ t[2].kind = "layer_gemm" /\ t[2].arg = l
       /\ t[3].kind = "record" /\ t[3].arg = Release(batches, l)
  BY DEF UseOfHalf
<1> HIDE DEF p
<1>11. ComputeAfter(p, D, l)
  BY <1>3, <1>4, <1>5, <1>7, <1>8, <1>9, <1>10 DEF ComputeAfter, L
<1> QED
  BY <1>11

LEMMA CopyAppended ==
    ASSUME TypeOK, NEW x, NEW y, NEW D, NewCopies(y, D, buffers), Appends(x, y)
    PROVE  CopyAfter(D)
<1> DEFINE M == Len(Copy)
<1>1. /\ M \in Nat /\ DOMAIN Copy = 1 .. M /\ DOMAIN Copy' = 1 .. M + Len(y)
      /\ Len(y) \in Nat /\ DOMAIN y = 1 .. Len(y)
      /\ \A c \in DOMAIN Copy : Copy'[c] = Copy[c]
      /\ \A k \in DOMAIN y : Copy'[M + k] = y[k]
  BY AppendFacts
<1> HIDE DEF M
<1>2. /\ \A c \in DOMAIN Copy : c \in DOMAIN Copy' /\ Copy'[c] = Copy[c]
      /\ \A c \in DOMAIN Copy' : c \in DOMAIN Copy \/ (c \in Nat /\ c > M)
  BY <1>1
<1>3. \A c \in DOMAIN Copy' : c > M =>
        c \in Nat /\ c - M \in DOMAIN y /\ Copy'[c] = y[c - M]
  <2> SUFFICES ASSUME NEW c \in DOMAIN Copy', c > M
               PROVE  c \in Nat /\ c - M \in DOMAIN y /\ Copy'[c] = y[c - M]
    OBVIOUS
  <2>1. c \in Nat /\ c - M \in DOMAIN y /\ M + (c - M) = c
    BY <1>1
  <2> QED
    BY <1>1, <2>1
<1>4. \A k \in DOMAIN y : M + k \in DOMAIN Copy' /\ M + k > M /\ Copy'[M + k] = y[k]
  BY <1>1
<1>5. \A c \in DOMAIN Copy' : c > M =>
        Copy'[c].batch = batches /\ Copy'[c].kind \in {"wait", "record", "fill"}
  BY <1>3 DEF NewCopies
<1>6. ASSUME NEW c \in DOMAIN Copy', c > M, Copy'[c].kind = "fill",
             NEW m, m = Copy'[c].arg.layer, NEW freed, freed = buffers[Half(m)].freed
      PROVE  /\ m \in D /\ Copy'[c] = Fill(m)
             /\ freed # None =>
                  \E w \in DOMAIN Copy' : w <= c /\ Copy'[w].kind = "wait" /\ Copy'[w].arg = freed
             /\ \E r \in DOMAIN Copy' :
                  r >= c /\ Copy'[r].kind = "record" /\ Copy'[r].arg = Ready(batches, m)
  <2>1. PICK k \in DOMAIN y : k = c - M /\ Copy'[c] = y[k]
    BY <1>3, <1>6
  <2>2. y[k].arg.layer \in D /\ NewFill(y, k, buffers)
    BY <1>6, <2>1 DEF NewCopies
  <2>3. /\ y[k] = Fill(m) /\ m \in D
        /\ freed # None => \E w \in DOMAIN y : w <= k /\ y[w].kind = "wait" /\ y[w].arg = freed
        /\ \E r \in DOMAIN y : r >= k /\ y[r].kind = "record" /\ y[r].arg = Ready(batches, m)
    BY <1>6, <2>1, <2>2 DEF NewFill
  <2>4. \A w \in DOMAIN y : (w <= k => M + w <= c) /\ (w >= k => M + w >= c)
    BY <1>1, <1>3, <1>6, <2>1
  <2> QED
    BY <1>4, <2>1, <2>3, <2>4
<1>7. ASSUME NEW c \in DOMAIN Copy', NEW d \in DOMAIN Copy', M < c, c < d,
             Copy'[c].kind = "fill", Copy'[d].kind = "fill"
      PROVE  Copy'[c].arg.layer < Copy'[d].arg.layer
  <2>1. c \in Nat /\ d \in Nat /\ M < d /\ c - M < d - M
    BY <1>1, <1>7
  <2> QED
    BY <1>3, <1>7, <2>1 DEF NewCopies
<1>8. ASSUME NEW m \in D
      PROVE  \E c \in DOMAIN Copy' : c > M /\ Copy'[c].kind = "fill" /\ Copy'[c].arg.layer = m
  <2>1. PICK k \in DOMAIN y : y[k].kind = "fill" /\ y[k].arg.layer = m
    BY DEF NewCopies
  <2> QED
    BY <1>4, <2>1
<1> QED
  BY <1>2, <1>5, <1>6, <1>7, <1>8 DEF CopyAfter, M

LEMMA PrefetchesFacts ==
    ASSUME TypeOK
    PROVE  \A m \in Prefetches :
             /\ m \in Layers /\ m \in Nat /\ (m = batch.layer \/ m = batch.layer + 1)
             /\ buffers[Half(m)].layer # m
  BY DEF Prefetches, Taken

LEMMA StreamLayerFacts ==
    ASSUME TypeOK, HalvesKnown, StreamLayer
    PROVE  \E x, y, p :
             /\ Appends(x, y)
             /\ ComputeAfter(p, IF splitting THEN Prefetches ELSE {}, batch.layer)
             /\ CopyAfter(Prefetches)
<1>1. PICK g, t, y :
        /\ NewGathers(g, IF splitting THEN Prefetches ELSE {})
        /\ UseOfHalf(t, batch.layer)
        /\ NewCopies(y, Prefetches, buffers)
        /\ Appends(g \o t, y)
  BY StreamLayerShape
<1>2. PICK p : ComputeAfter(p, IF splitting THEN Prefetches ELSE {}, batch.layer)
  BY <1>1, ComputeAppended
<1>3. CopyAfter(Prefetches)
  BY <1>1, CopyAppended
<1> QED
  BY <1>1, <1>2, <1>3

(* An operation of the compute stream after StreamLayer is an old one, a   *)
(* new gather, or one of the three that use the half.                      *)
NewGather(i, p) ==
    /\ i < p /\ Compute'[i].kind = "gather" /\ splitting
    /\ Compute'[i].arg \in Prefetches
NewUse(i, p) ==
    \/ i = p /\ Compute'[i].kind = "wait"
    \/ i = p + 1 /\ Compute'[i].kind = "layer_gemm" /\ Compute'[i].arg = batch.layer
    \/ i = p + 2 /\ Compute'[i].kind = "record"

LEMMA ComputeSplit ==
    ASSUME TypeOK, NEW p,
           ComputeAfter(p, IF splitting THEN Prefetches ELSE {}, batch.layer)
    PROVE  /\ p \in Nat /\ p \in DOMAIN Compute' /\ p + 1 \in DOMAIN Compute' /\ p + 2 \in DOMAIN Compute'
           /\ \A i \in DOMAIN Compute :
                i \in Nat /\ i < p /\ i \in DOMAIN Compute' /\ Compute'[i] = Compute[i]
           /\ \A i \in DOMAIN Compute' :
                /\ i \in Nat /\ i <= p + 2
                /\ \/ i \in DOMAIN Compute
                   \/ /\ i \notin DOMAIN Compute /\ \A j \in DOMAIN Compute : j < i
                      /\ i > Len(Compute)
                      /\ Compute'[i].batch = batches
                      /\ NewGather(i, p) \/ NewUse(i, p)
<1> DEFINE L == Len(Compute)
<1>1. /\ p \in Nat /\ DOMAIN Compute' = 1 .. p + 2 /\ L < p
      /\ \A i \in DOMAIN Compute : Compute'[i] = Compute[i]
      /\ L \in Nat /\ DOMAIN Compute = 1 .. L
  BY QueueFacts DEF ComputeAfter
<1>2. /\ Compute'[p].kind = "wait"
      /\ Compute'[p + 1].kind = "layer_gemm" /\ Compute'[p + 1].arg = batch.layer
      /\ Compute'[p + 2].kind = "record"
      /\ \A i \in DOMAIN Compute' : i > L =>
           /\ Compute'[i].batch = batches
           /\ i < p => Compute'[i].kind = "gather" /\ splitting /\ Compute'[i].arg \in Prefetches
  BY DEF ComputeAfter
<1> HIDE DEF L
<1>3. \A i \in DOMAIN Compute : i \in Nat /\ i < p /\ i \in DOMAIN Compute' /\ Compute'[i] = Compute[i]
  BY <1>1
<1>4. ASSUME NEW i \in DOMAIN Compute', i \notin DOMAIN Compute
      PROVE  /\ \A j \in DOMAIN Compute : j < i
             /\ i > L
             /\ Compute'[i].batch = batches
             /\ NewGather(i, p) \/ NewUse(i, p)
  <2>1. i \in Nat /\ i > L /\ \A j \in DOMAIN Compute : j < i
    BY <1>1, <1>4
  <2>2. i < p \/ i = p \/ i = p + 1 \/ i = p + 2
    BY <1>1, <2>1
  <2> QED
    BY <1>2, <2>1, <2>2 DEF NewGather, NewUse
<1>5. /\ p \in DOMAIN Compute' /\ p + 1 \in DOMAIN Compute' /\ p + 2 \in DOMAIN Compute'
      /\ \A i \in DOMAIN Compute' : i \in Nat /\ i <= p + 2
  BY <1>1
<1> QED
  BY <1>1, <1>3, <1>4, <1>5 DEF L

LEMMA StreamLayerKeepsOrder ==
    ASSUME IInv, OrderInv, StreamLayer
    PROVE  OrderInv'
<1> DEFINE l == batch.layer   m == l + 1   n == batches
<1>1. /\ TypeOK /\ BatchesInOrder /\ HalvesKnown
      /\ n \in Nat /\ l \in Layers /\ l \in Nat /\ m \in Nat
      /\ Half(l) # Half(m) /\ Half(l) \in Halves /\ Half(m) \in Halves
      /\ batch.mode = "streaming" /\ UNCHANGED <<batches, splitting, overlap>>
      /\ l = 0 /\ splitting => Copy = << >>
  <2>1. TypeOK /\ BatchesInOrder /\ HalvesKnown
    BY DEF IInv, QueueInv, OrderInv
  <2>2. n \in Nat /\ l \in Layers
    BY <2>1 DEF TypeOK
  <2>3. l \in Nat /\ m \in Nat
    BY <2>2
  <2> QED
    BY <2>1, <2>2, <2>3, HalvesAlternate DEF StreamLayer, Copy
<1>2. \/ m \in Layers /\ batch'.mode = "streaming" /\ batch'.layer = m
      \/ m \notin Layers /\ batch'.mode = "idle"
  <2>1. NextLayer(l)
    BY DEF StreamLayer
  <2>2. batch \in BatchType
    BY <1>1 DEF TypeOK, BatchType
  <2> QED
    BY <1>1, <2>1, <2>2 DEF NextLayer, BatchType, Idle
<1>3. PICK x, y, p :
        /\ Appends(x, y)
        /\ ComputeAfter(p, IF splitting THEN Prefetches ELSE {}, l)
        /\ CopyAfter(Prefetches)
  BY <1>1, StreamLayerFacts
<1>4. /\ p \in Nat /\ p \in DOMAIN Compute' /\ p + 1 \in DOMAIN Compute' /\ p + 2 \in DOMAIN Compute'
      /\ \A i \in DOMAIN Compute :
           i \in Nat /\ i < p /\ i \in DOMAIN Compute' /\ Compute'[i] = Compute[i]
      /\ \A i \in DOMAIN Compute' :
           /\ i \in Nat /\ i <= p + 2
           /\ \/ i \in DOMAIN Compute
              \/ /\ i \notin DOMAIN Compute /\ \A j \in DOMAIN Compute : j < i
                 /\ i > Len(Compute)
                 /\ Compute'[i].batch = n
                 /\ NewGather(i, p) \/ NewUse(i, p)
  BY <1>1, <1>3, ComputeSplit
<1>5. /\ Compute'[p].kind = "wait" /\ Compute'[p].arg = Ready(n, l)
      /\ Compute'[p + 2].kind = "record" /\ Compute'[p + 2].arg = Release(n, l)
  BY <1>3 DEF ComputeAfter
<1>6. \A a \in Prefetches :
        a \in Layers /\ a \in Nat /\ (a = l \/ a = m) /\ buffers[Half(a)].layer # a
  BY <1>1, PrefetchesFacts
<1>7. /\ \A c \in DOMAIN Copy : c \in DOMAIN Copy' /\ Copy'[c] = Copy[c] /\ c \in Nat
      /\ \A c \in DOMAIN Copy' :
           \/ c \in DOMAIN Copy
           \/ /\ c \notin DOMAIN Copy /\ c \in Nat /\ \A d \in DOMAIN Copy : d < c
              /\ Copy'[c].batch = n /\ Copy'[c].kind \in {"wait", "record", "fill"}
              /\ Copy'[c].kind = "fill" => Copy'[c].arg.layer \in Prefetches
              /\ c > Len(Copy)
  <2>1. Len(Copy) \in Nat /\ DOMAIN Copy = 1 .. Len(Copy)
    BY <1>1, QueueFacts
  <2> QED
    BY <1>3, <2>1 DEF CopyAfter
<1>8. /\ \A i \in DOMAIN Compute : /\ Compute[i] \in Ops /\ Compute[i].batch \in Nat
                                  /\ Compute[i].batch <= n
      /\ \A c \in DOMAIN Copy : /\ Copy[c] \in Ops /\ Copy[c].batch \in Nat /\ Copy[c].batch <= n
  BY <1>1, QueueFacts DEF BatchesInOrder
<1>9. /\ \A i \in DOMAIN Compute : OfHalf(Compute[i]) => Compute[i].arg \in Nat
      /\ \A c \in DOMAIN Copy : Copy[c].kind = "fill" => Copy[c].arg.layer \in Nat
  BY <1>8 DEF OfHalf, Ops
<1>10. /\ \A i \in DOMAIN Compute : OnDemand(Compute[i]) => Compute[i].batch < n
       /\ \A i \in DOMAIN Compute : OfHalf(Compute[i]) /\ Compute[i].batch = n =>
            /\ Issued(Compute[i].arg)
            /\ Compute[i].kind = "layer_gemm" => Compute[i].arg < l
       /\ \A c \in DOMAIN Copy : Copy[c].kind = "fill" /\ Copy[c].batch = n =>
            Issued(Copy[c].arg.layer)
  BY <1>1 DEF OrderInv, HostIssued
<1>11. \A a \in Nat : Issued(a) => a <= l /\ a < m /\ a \notin Prefetches
  BY <1>1, <1>6 DEF Issued
<1>12. \A h \in Halves :
         LET o == IF h = Half(l) THEN l ELSE m
         IN IF o \in Layers
            THEN /\ buffers'[h].layer = o /\ buffers'[h].ready = Ready(n, o)
                 /\ buffers'[h].freed = IF h = Half(l) THEN Release(n, o) ELSE buffers[h].freed
            ELSE /\ buffers'[h].layer = buffers[h].layer /\ buffers'[h].ready = buffers[h].ready
                 /\ buffers'[h].freed = buffers[h].freed
  BY <1>1, StreamLayerShape
<1>13. KindsByStream'
  BY <1>4, <1>7 DEF OrderInv, KindsByStream, NewGather, NewUse
<1> HIDE DEF l, m, n
<1>14. ComputeInOrder'
  <2> SUFFICES ASSUME NEW i \in DOMAIN Compute', NEW j \in DOMAIN Compute', i < j
               PROVE  /\ Compute'[i].batch <= Compute'[j].batch
                      /\ Compute'[i].batch = Compute'[j].batch /\ Compute'[i].kind = "gather" =>
                           /\ Compute'[j].kind = "gather" => Compute'[i].arg < Compute'[j].arg
                           /\ Compute'[j].kind = "layer_gemm" => Compute'[i].arg <= Compute'[j].arg + 1
    BY DEF ComputeInOrder
  <2>1. CASE i \in DOMAIN Compute /\ j \in DOMAIN Compute
    BY <1>4, <2>1 DEF OrderInv, ComputeInOrder
  <2>2. CASE i \in DOMAIN Compute /\ j \notin DOMAIN Compute
    <3>1. Compute'[i] = Compute[i] /\ Compute[i].batch <= n /\ Compute'[j].batch = n
      BY <1>4, <1>8, <2>2
    <3>2. ASSUME Compute[i].batch = n, Compute[i].kind = "gather"
          PROVE  Compute[i].arg \in Nat /\ Compute[i].arg <= l /\ Compute[i].arg < m /\ Compute[i].arg \notin Prefetches
      BY <1>9, <1>10, <1>11, <2>2, <3>2 DEF OfHalf
    <3>3. ASSUME Compute'[j].kind = "gather"
          PROVE  Compute'[j].arg \in Prefetches
      BY <1>4, <2>2, <3>3 DEF NewGather, NewUse
    <3>4. ASSUME Compute[i].batch = n, Compute[i].kind = "gather", Compute'[j].kind = "gather"
          PROVE  Compute[i].arg < Compute'[j].arg
      <4>1. Compute'[j].arg = l \/ Compute'[j].arg = m
        BY <1>6, <3>3, <3>4
      <4>2. Compute[i].arg # Compute'[j].arg
        BY <3>2, <3>3, <3>4
      <4> QED
        BY <1>1, <3>2, <3>4, <4>1, <4>2
    <3>5. Compute'[j].kind = "layer_gemm" => Compute'[j].arg = l
      BY <1>4, <2>2 DEF NewGather, NewUse, l
    <3> QED
      BY <1>1, <3>1, <3>2, <3>4, <3>5 DEF m
  <2>3. CASE i \notin DOMAIN Compute
    <3>1. j \notin DOMAIN Compute
      BY <1>4, <2>3
    <3>2. Compute'[i].batch = n /\ Compute'[j].batch = n /\ i > Len(Compute) /\ i \in Nat /\ j \in Nat
      BY <1>4, <2>3, <3>1
    <3>3. ASSUME Compute'[i].kind = "gather", Compute'[j].kind = "gather"
          PROVE  Compute'[i].arg < Compute'[j].arg
      <4>1. j < p
        BY <1>4, <3>1, <3>3 DEF NewGather, NewUse
      <4> QED
        BY <1>3, <3>2, <4>1 DEF ComputeAfter
    <3>4. ASSUME Compute'[i].kind = "gather", Compute'[j].kind = "layer_gemm"
          PROVE  Compute'[i].arg <= Compute'[j].arg + 1
      <4>1. Compute'[i].arg \in Prefetches
        BY <1>4, <2>3, <3>4 DEF NewGather, NewUse
      <4>2. Compute'[j].arg = l
        BY <1>4, <3>1, <3>4 DEF NewGather, NewUse, l
      <4> QED
        BY <1>1, <1>6, <4>1, <4>2 DEF m
    <3> QED
      BY <1>1, <3>2, <3>3, <3>4
  <2> QED
    BY <2>1, <2>2, <2>3
<1>15. FillsInOrder'
  <2> SUFFICES ASSUME NEW c \in DOMAIN Copy', NEW d \in DOMAIN Copy', c < d,
                      Copy'[c].kind = "fill", Copy'[d].kind = "fill"
               PROVE  Earlier(Copy'[c].batch, Copy'[c].arg.layer, Copy'[d].batch, Copy'[d].arg.layer)
    BY DEF FillsInOrder, Earlier
  <2>1. CASE c \in DOMAIN Copy /\ d \in DOMAIN Copy
    BY <1>7, <2>1 DEF OrderInv, FillsInOrder
  <2>2. CASE c \in DOMAIN Copy /\ d \notin DOMAIN Copy
    <3>1. /\ Copy'[c] = Copy[c] /\ Copy[c].batch <= n /\ Copy[c].batch \in Nat
          /\ Copy'[d].batch = n /\ Copy'[d].arg.layer \in Prefetches
      BY <1>7, <1>8, <2>2
    <3>2. ASSUME Copy[c].batch = n
          PROVE  Copy[c].arg.layer < Copy'[d].arg.layer
      <4>1. /\ Copy[c].arg.layer \in Nat /\ Copy[c].arg.layer <= l /\ Copy[c].arg.layer < m
            /\ Copy[c].arg.layer \notin Prefetches
        BY <1>9, <1>10, <1>11, <2>2, <3>1, <3>2
      <4>2. Copy'[d].arg.layer = l \/ Copy'[d].arg.layer = m
        BY <1>6, <3>1
      <4>3. Copy[c].arg.layer # Copy'[d].arg.layer
        BY <3>1, <4>1
      <4> QED
        BY <1>1, <4>1, <4>2, <4>3
    <3> QED
      BY <1>1, <3>1, <3>2 DEF Earlier
  <2>3. CASE c \notin DOMAIN Copy
    <3>1. /\ d \notin DOMAIN Copy /\ Copy'[c].batch = n /\ Copy'[d].batch = n /\ c > Len(Copy)
      BY <1>7, <2>3
    <3>2. Copy'[c].arg.layer < Copy'[d].arg.layer
      BY <1>3, <3>1 DEF CopyAfter
    <3> QED
      BY <3>1, <3>2 DEF Earlier
  <2> QED
    BY <2>1, <2>2, <2>3
<1>16. GemmsFollow'
  <2> SUFFICES ASSUME NEW j \in DOMAIN Compute', j > 1
               PROVE  /\ Compute'[j].kind = "front_gemm" =>
                           Compute'[j - 1].kind = "materialize" /\ Compute'[j - 1].arg = Compute'[j].arg
                      /\ Compute'[j].kind = "slot_gemm" =>
                           Compute'[j - 1].kind = "load" /\ Compute'[j - 1].arg.layer = Compute'[j].arg
    BY DEF GemmsFollow
  <2>1. CASE j \in DOMAIN Compute
    <3>1. j - 1 \in DOMAIN Compute
      BY <1>1, <2>1, QueueFacts
    <3> QED
      BY <1>4, <2>1, <3>1 DEF OrderInv, GemmsFollow
  <2>2. CASE j \notin DOMAIN Compute
    BY <1>4, <2>2 DEF NewGather, NewUse
  <2> QED
    BY <2>1, <2>2
<1>17. /\ \A i \in DOMAIN Compute' : OnDemand(Compute'[i]) \/ Loading(Compute'[i]) =>
            i \in DOMAIN Compute /\ Compute'[i] = Compute[i]
       /\ \A i \in DOMAIN Compute' : Compute'[i].batch # n =>
            i \in DOMAIN Compute /\ Compute'[i] = Compute[i]
       /\ \A c \in DOMAIN Copy' : Copy'[c].kind = "snapshot" \/ Copy'[c].batch # n =>
            c \in DOMAIN Copy /\ Copy'[c] = Copy[c]
  BY <1>4, <1>7 DEF OnDemand, Loading, NewGather, NewUse
<1>18. BatchesOfOneKind'
  <2> SUFFICES ASSUME NEW i \in DOMAIN Compute', OnDemand(Compute'[i])
               PROVE  /\ \A j \in DOMAIN Compute' : OfHalf(Compute'[j]) => Compute'[j].batch # Compute'[i].batch
                      /\ \A c \in DOMAIN Copy' : Copy'[c].kind = "fill" => Copy'[c].batch # Compute'[i].batch
    BY DEF BatchesOfOneKind, OnDemand, OfHalf
  <2>1. i \in DOMAIN Compute /\ Compute'[i] = Compute[i] /\ Compute[i].batch # n
    BY <1>1, <1>8, <1>10, <1>17
  <2> QED
    BY <1>17, <2>1 DEF OrderInv, BatchesOfOneKind
<1>19. ASSUME NEW i \in DOMAIN Compute', OfHalf(Compute'[i]), Compute'[i].batch = n
       PROVE  /\ Compute'[i].arg \in Nat
              /\ Compute'[i].arg < m \/ (Compute'[i].arg = m /\ m \in Layers)
              /\ Compute'[i].kind = "layer_gemm" => Compute'[i].arg < m
  <2>1. CASE i \in DOMAIN Compute
    <3>1. Compute'[i] = Compute[i]
      BY <1>4, <2>1
    <3>2. Compute[i].arg \in Nat /\ Issued(Compute[i].arg)
      BY <1>9, <1>10, <1>19, <2>1, <3>1
    <3> QED
      BY <1>1, <1>11, <3>1, <3>2
  <2>2. CASE i \notin DOMAIN Compute
    <3>1. NewGather(i, p) \/ NewUse(i, p)
      BY <1>4, <2>2
    <3>2. CASE NewGather(i, p)
      BY <1>1, <1>6, <3>2 DEF NewGather, m
    <3>3. CASE NewUse(i, p)
      BY <1>1, <1>19, <3>3 DEF NewUse, OfHalf, m, l
    <3> QED
      BY <3>1, <3>2, <3>3
  <2> QED
    BY <2>1, <2>2
<1>20. ASSUME NEW c \in DOMAIN Copy', Copy'[c].kind = "fill", Copy'[c].batch = n
       PROVE  /\ Copy'[c].arg.layer \in Nat
              /\ Copy'[c].arg.layer < m \/ (Copy'[c].arg.layer = m /\ m \in Layers)
  <2>1. CASE c \in DOMAIN Copy
    <3>1. Copy'[c] = Copy[c]
      BY <1>7, <2>1
    <3>2. Copy[c].arg.layer \in Nat /\ Issued(Copy[c].arg.layer)
      BY <1>9, <1>10, <1>20, <2>1, <3>1
    <3> QED
      BY <1>1, <1>11, <3>1, <3>2
  <2>2. CASE c \notin DOMAIN Copy
    <3>1. Copy'[c].arg.layer \in Prefetches
      BY <1>7, <1>20, <2>2
    <3> QED
      BY <1>1, <1>6, <3>1 DEF m
  <2> QED
    BY <2>1, <2>2
<1>21. HostIssued'
  <2> SUFFICES ASSUME batch'.mode = "streaming"
               PROVE  /\ \A i \in DOMAIN Compute' : OnDemand(Compute'[i]) => Compute'[i].batch < n
                      /\ \A i \in DOMAIN Compute' : OfHalf(Compute'[i]) /\ Compute'[i].batch = n =>
                           /\ \/ Compute'[i].arg < batch'.layer
                              \/ /\ Compute'[i].arg = batch'.layer
                                 /\ buffers'[Half(Compute'[i].arg)].layer = Compute'[i].arg
                           /\ Compute'[i].kind = "layer_gemm" => Compute'[i].arg < batch'.layer
                      /\ \A c \in DOMAIN Copy' : Copy'[c].kind = "fill" /\ Copy'[c].batch = n =>
                           \/ Copy'[c].arg.layer < batch'.layer
                           \/ /\ Copy'[c].arg.layer = batch'.layer
                              /\ buffers'[Half(Copy'[c].arg.layer)].layer = Copy'[c].arg.layer
    BY <1>1, <1>2 DEF HostIssued, n, Issued, OnDemand, OfHalf, Half
  <2>1. m \in Layers /\ batch'.layer = m
    BY <1>2
  <2>2. buffers'[Half(m)].layer = m
    BY <1>1, <1>12, <2>1
  <2>3. \A a \in Nat : a < m \/ a = m =>
          a < batch'.layer \/ (a = batch'.layer /\ buffers'[Half(a)].layer = a)
    BY <2>1, <2>2
  <2>4. \A i \in DOMAIN Compute' : OnDemand(Compute'[i]) => Compute'[i].batch < n
    BY <1>10, <1>17
  <2>5. \A i \in DOMAIN Compute' : OfHalf(Compute'[i]) /\ Compute'[i].batch = n =>
          /\ \/ Compute'[i].arg < batch'.layer
             \/ Compute'[i].arg = batch'.layer /\ buffers'[Half(Compute'[i].arg)].layer = Compute'[i].arg
          /\ Compute'[i].kind = "layer_gemm" => Compute'[i].arg < batch'.layer
    BY <1>19, <2>1, <2>3
  <2>6. \A c \in DOMAIN Copy' : Copy'[c].kind = "fill" /\ Copy'[c].batch = n =>
          \/ Copy'[c].arg.layer < batch'.layer
          \/ Copy'[c].arg.layer = batch'.layer /\ buffers'[Half(Copy'[c].arg.layer)].layer = Copy'[c].arg.layer
    BY <1>20, <2>1, <2>3
  <2> QED
    BY <2>4, <2>5, <2>6
<1>22. /\ \A i, event : RecordFrom("compute", i, event) => RecordFrom("compute", i, event)'
       /\ \A c, event : RecordFrom("copy", c, event) => RecordFrom("copy", c, event)'
  BY <1>1, <1>3, AppendSync
<1>23. ASSUME NEW c \in DOMAIN Copy', Copy'[c].kind = "fill",
              NEW event, event = Ready(Copy'[c].batch, Copy'[c].arg.layer)
       PROVE  /\ RecordFrom("copy", c, event)'
              /\ \/ Copy'[c].batch = n /\ Copy'[c].arg.layer = m /\ m \in Layers
                 \/ \E w \in DOMAIN Compute' : Compute'[w].kind = "wait" /\ Compute'[w].arg = event
  <2>1. CASE c \in DOMAIN Copy
    <3>1. Copy'[c] = Copy[c]
      BY <1>7, <2>1
    <3>2. /\ RecordFrom("copy", c, event)
          /\ \/ Copy[c].batch = n /\ Copy[c].arg.layer = l
             \/ \E w \in DOMAIN Compute : Compute[w].kind = "wait" /\ Compute[w].arg = event
      BY <1>23, <2>1, <3>1 DEF OrderInv, FillsAwaited, n, l
    <3>3. CASE Copy[c].batch = n /\ Copy[c].arg.layer = l
      BY <1>4, <1>5, <1>22, <1>23, <3>1, <3>2, <3>3
    <3>4. CASE \E w \in DOMAIN Compute : Compute[w].kind = "wait" /\ Compute[w].arg = event
      <4>1. PICK w \in DOMAIN Compute : Compute[w].kind = "wait" /\ Compute[w].arg = event
        BY <3>4
      <4>2. w \in DOMAIN Compute' /\ Compute'[w] = Compute[w]
        BY <1>4
      <4> QED
        BY <1>22, <3>2, <4>1, <4>2
    <3> QED
      BY <3>2, <3>3, <3>4
  <2>2. CASE c \notin DOMAIN Copy
    <3>1. Copy'[c].batch = n /\ Copy'[c].arg.layer \in Prefetches /\ c > Len(Copy)
      BY <1>7, <1>23, <2>2
    <3>2. \E r \in DOMAIN Copy' : r >= c /\ Copy'[r].kind = "record" /\ Copy'[r].arg = event
      BY <1>3, <1>23, <3>1 DEF CopyAfter, n
    <3>3. RecordFrom("copy", c, event)'
      BY <3>2 DEF RecordFrom, Copy
    <3>4. CASE Copy'[c].arg.layer = l
      BY <1>4, <1>5, <1>23, <3>1, <3>3, <3>4
    <3> QED
      BY <1>6, <3>1, <3>3, <3>4
  <2> QED
    BY <2>1, <2>2
<1>24. FillsAwaited'
  BY <1>1, <1>2, <1>23 DEF FillsAwaited, Ready, n
<1>25. FenceStands'
  <2> SUFFICES ASSUME NEW i \in DOMAIN Compute', Compute'[i].batch < n,
                      NEW begin, begin = Begin(n)
               PROVE  /\ RecordFrom("compute", i, begin)'
                      /\ \E w \in DOMAIN Copy' : Copy'[w].kind = "wait" /\ Copy'[w].arg = begin
    <3>1. Begin(batches)' = Begin(n)
      BY <1>1 DEF Begin, n
    <3> QED
      BY <1>1, <3>1 DEF FenceStands, WaitQueued, n
  <2>1. i \in DOMAIN Compute /\ Compute'[i] = Compute[i]
    BY <1>1, <1>17
  <2>2. /\ RecordFrom("compute", i, begin)
        /\ \E w \in DOMAIN Copy : Copy[w].kind = "wait" /\ Copy[w].arg = begin
    BY <1>1, <2>1 DEF OrderInv, FenceStands, WaitQueued, n
  <2>3. \E w \in DOMAIN Copy' : Copy'[w].kind = "wait" /\ Copy'[w].arg = begin
    BY <1>7, <2>2
  <2> QED
    BY <1>22, <2>2, <2>3
<1> DEFINE Recorded(i, event) == \E k \in DOMAIN Compute' :
             k >= i /\ Compute'[k].kind = "record" /\ Compute'[k].arg = event
<1>26. ASSUME NEW i \in DOMAIN Compute', OfHalf(Compute'[i]), Compute'[i].batch = n,
              Compute'[i].arg # m
       PROVE  LET freed == buffers'[Half(Compute'[i].arg)].freed
              IN freed # None /\ Recorded(i, freed)
  <2>1. /\ Compute'[i].arg \in Nat /\ Half(Compute'[i].arg) \in Halves /\ Compute'[i].arg < m
    BY <1>19, <1>26 DEF Half, Halves
  <2>2. CASE Half(Compute'[i].arg) = Half(l)
    <3> DEFINE freed == buffers'[Half(Compute'[i].arg)].freed
    <3>1. freed = Release(n, l)
      BY <1>1, <1>12, <2>2
    <3>2. freed \in Events
      BY <1>1, <3>1 DEF Release, Events
    <3>3. freed # None
      BY <3>2, ExpertCacheAssumption
    <3>4. p + 2 \in DOMAIN Compute' /\ p + 2 >= i /\ Compute'[p + 2].kind = "record"
          /\ Compute'[p + 2].arg = freed
      BY <1>4, <1>5, <3>1
    <3> HIDE DEF freed
    <3>5. Recorded(i, freed)
      BY <3>4
    <3> QED
      BY <3>3, <3>5 DEF freed
  <2>3. CASE Half(Compute'[i].arg) # Half(l)
    <3>1. Half(Compute'[i].arg) = Half(m)
      BY <1>1, <2>1, <2>3 DEF Halves
    <3>2. Compute'[i].arg # l
      BY <2>3
    <3>3. i \in DOMAIN Compute /\ Compute'[i] = Compute[i]
      <4>1. ASSUME i \notin DOMAIN Compute
            PROVE  Compute'[i].arg = l \/ Compute'[i].arg = m
        <5>1. NewGather(i, p) \/ NewUse(i, p)
          BY <1>4, <4>1
        <5> QED
          BY <1>6, <1>26, <5>1 DEF NewGather, NewUse, OfHalf, l
      <4> QED
        BY <1>4, <1>26, <3>2, <4>1
    <3>4. PICK freed : freed = buffers[Half(m)].freed /\ freed # None /\ RecordFrom("compute", i, freed)
      BY <1>1, <1>26, <3>1, <3>2, <3>3 DEF HalvesKnown, OfPast, n, l
    <3>5. buffers'[Half(m)].freed = freed
      BY <1>1, <1>12, <3>4
    <3>6. Recorded(i, freed)
      BY <1>22, <3>4 DEF RecordFrom, Compute
    <3> QED
      BY <3>1, <3>4, <3>5, <3>6
  <2> QED
    BY <2>2, <2>3
<1>27. HalvesKnown'
  <2> SUFFICES ASSUME batch'.mode = "streaming"
               PROVE  /\ \A h \in Halves : buffers'[h].layer # None =>
                           /\ buffers'[h].layer <= batch'.layer /\ Half(buffers'[h].layer) = h
                           /\ buffers'[h].ready = Ready(n, buffers'[h].layer)
                      /\ \A i \in DOMAIN Compute' :
                         OfHalf(Compute'[i]) /\ Compute'[i].batch = n /\ Compute'[i].arg # batch'.layer =>
                           LET freed == buffers'[Half(Compute'[i].arg)].freed
                           IN freed # None /\ Recorded(i, freed)
    BY <1>1 DEF HalvesKnown, n, Ready, Half, OfPast, OfHalf, RecordFrom, Compute
  <2>1. m \in Layers /\ batch'.layer = m
    BY <1>2
  <2>2. \A h \in Halves : /\ buffers'[h].layer <= batch'.layer /\ Half(buffers'[h].layer) = h
                          /\ buffers'[h].ready = Ready(n, buffers'[h].layer)
    <3> SUFFICES ASSUME NEW h \in Halves
                 PROVE  /\ buffers'[h].layer <= batch'.layer /\ Half(buffers'[h].layer) = h
                        /\ buffers'[h].ready = Ready(n, buffers'[h].layer)
      OBVIOUS
    <3>1. CASE h = Half(l)
      BY <1>1, <1>12, <2>1, <3>1 DEF m
    <3>2. CASE h # Half(l)
      <4>1. h = Half(m)
        BY <1>1, <3>2 DEF Halves
      <4> QED
        BY <1>1, <1>12, <2>1, <3>2, <4>1
    <3> QED
      BY <3>1, <3>2
  <2> QED
    BY <1>26, <2>1, <2>2
<1>28. \A c \in DOMAIN Copy' : Copy'[c].kind # "snapshot"
  <2> SUFFICES ASSUME NEW c \in DOMAIN Copy', Copy'[c].kind = "snapshot"
               PROVE  FALSE
    OBVIOUS
  <2>1. c \in DOMAIN Copy /\ Copy[c].kind = "snapshot"
    BY <1>17
  <2>2. splitting /\ l = 0
    BY <2>1 DEF OrderInv, SnapshotsFirst, l
  <2> QED
    BY <1>1, <2>1, <2>2
<1>29. splitting => \A i \in DOMAIN Compute : ~ Loading(Compute[i])
  <2>1. \A c \in DOMAIN Copy : Copy[c].kind # "snapshot"
    BY <1>7, <1>28
  <2> QED
    BY <1>1, <2>1 DEF OrderInv, SnapshotsFirst, SnapshotTaken, SnapshotQueued
<1>30. SnapshotsFirst'
  BY <1>1, <1>17, <1>28, <1>29 DEF SnapshotsFirst, SnapshotTaken, Loading
<1>31. GathersUndisturbed'
  <2> SUFFICES ASSUME NEW i \in DOMAIN Compute', NEW j \in DOMAIN Compute', i < j,
                      Loading(Compute'[i]), Compute'[j].kind = "gather"
               PROVE  FALSE
    BY DEF GathersUndisturbed, Loading
  <2>1. i \in DOMAIN Compute /\ Loading(Compute[i])
    BY <1>17
  <2>2. CASE j \in DOMAIN Compute
    BY <1>4, <2>1, <2>2 DEF OrderInv, GathersUndisturbed
  <2>3. CASE j \notin DOMAIN Compute
    BY <1>4, <1>29, <2>1, <2>3 DEF NewGather, NewUse
  <2> QED
    BY <2>2, <2>3
<1>32. ASSUME NEW i \in DOMAIN Compute', NEW c \in DOMAIN Copy',
              i \notin DOMAIN Compute \/ c \notin DOMAIN Copy,
              ComputeFirst(Compute'[i], Copy'[c])
       PROVE  Sync("compute", i, "copy", c)'
  <2> DEFINE a == Compute'[i]   o == Copy'[c]
  <2>1. a.batch \in Nat /\ o.batch \in Nat /\ a.batch <= n /\ o.batch <= n
    BY <1>1, <1>4, <1>7, <1>8
  <2>2. o.kind \in {"fill", "snapshot"} /\ o.kind # "snapshot"
    BY <1>28, <1>32 DEF ComputeFirst
  <2>3. i \in DOMAIN Compute
    <3> SUFFICES ASSUME i \notin DOMAIN Compute
                 PROVE  FALSE
      OBVIOUS
    <3>1. a.batch = n
      BY <1>4
    <3>2. /\ OfHalf(a) /\ o.batch = n /\ o.kind = "fill"
          /\ Half(a.arg) = Half(o.arg.layer) /\ a.arg < o.arg.layer
      BY <1>1, <1>32, <2>1, <3>1 DEF ComputeFirst
    <3>3. a.arg = l \/ a.arg = m
      BY <1>4, <1>6, <3>2 DEF NewGather, NewUse, OfHalf, l
    <3>4. o.arg.layer \in Nat /\ (o.arg.layer < m \/ o.arg.layer = m)
      BY <1>20, <3>2
    <3>5. a.arg = l /\ o.arg.layer = m
      BY <1>1, <3>2, <3>3, <3>4 DEF m
    <3> QED
      BY <1>1, <3>2, <3>5
  <2>4. /\ c \notin DOMAIN Copy /\ o.batch = n /\ o.arg.layer \in Prefetches /\ c > Len(Copy)
        /\ \A d \in DOMAIN Copy : d < c
        /\ a = Compute[i] /\ o.kind = "fill"
    BY <1>4, <1>7, <1>32, <2>2, <2>3
  <2>5. CASE a.batch < n
    <3>1. PICK begin : begin = Begin(n) /\ RecordFrom("compute", i, begin)
      BY <1>1, <2>3, <2>4, <2>5 DEF OrderInv, FenceStands, n
    <3>2. \E w \in DOMAIN Copy : Copy[w].kind = "wait" /\ Copy[w].arg = begin
      BY <1>1, <2>3, <2>4, <2>5, <3>1 DEF OrderInv, FenceStands, WaitQueued, n
    <3>3. PICK w \in DOMAIN Copy : Copy[w].kind = "wait" /\ Copy[w].arg = begin
      BY <3>2
    <3>4. w \in DOMAIN Copy' /\ Copy'[w] = Copy[w] /\ w <= c
      BY <1>7, <2>4
    <3>5. RecordFrom("compute", i, begin)'
      BY <1>22, <3>1
    <3> HIDE DEF a, o
    <3> QED
      BY <3>3, <3>4, <3>5 DEF Sync, RecordFrom, Copy
  <2>6. CASE ~ (a.batch < n)
    <3>1. /\ OfHalf(a) /\ a.batch = n
          /\ Half(a.arg) = Half(o.arg.layer) /\ a.arg < o.arg.layer
      BY <1>1, <1>32, <2>1, <2>4, <2>6 DEF ComputeFirst
    <3>2. o.arg.layer = l \/ o.arg.layer = m
      BY <1>6, <2>4
    <3>3. a.arg \in Nat /\ a.arg # l
      BY <1>1, <1>9, <2>3, <2>4, <3>1, <3>2
    <3>4. PICK freed : /\ freed = buffers[Half(a.arg)].freed /\ freed # None
                       /\ RecordFrom("compute", i, freed)
      BY <1>1, <2>3, <2>4, <3>1, <3>3 DEF HalvesKnown, OfPast, n, l
    <3>5. freed = buffers[Half(o.arg.layer)].freed
      BY <3>1, <3>4
    <3>6. \E w \in DOMAIN Copy' : w <= c /\ Copy'[w].kind = "wait" /\ Copy'[w].arg = freed
      BY <1>3, <2>4, <3>4, <3>5 DEF CopyAfter
    <3>7. RecordFrom("compute", i, freed)'
      BY <1>22, <3>4
    <3> HIDE DEF a, o
    <3> QED
      BY <3>6, <3>7 DEF Sync, RecordFrom, Copy
  <2> QED
    BY <2>5, <2>6
<1>33. ASSUME NEW i \in DOMAIN Compute', NEW c \in DOMAIN Copy',
              i \notin DOMAIN Compute \/ c \notin DOMAIN Copy,
              CopyFirst(Copy'[c], Compute'[i])
       PROVE  Sync("copy", c, "compute", i)'
  <2> DEFINE a == Compute'[i]   o == Copy'[c]
  <2>1. a.batch \in Nat /\ o.batch \in Nat /\ a.batch <= n /\ o.batch <= n /\ o.kind = "fill"
    BY <1>1, <1>4, <1>7, <1>8, <1>33 DEF CopyFirst
  <2>2. ASSUME a.batch = n, o.batch = n, i \notin DOMAIN Compute, a.kind = "layer_gemm",
               o.arg.layer = l
        PROVE  Sync("copy", c, "compute", i)'
    <3>1. i = p + 1
      BY <1>4, <2>2 DEF NewGather, NewUse
    <3>2. PICK event : event = Ready(n, l) /\ RecordFrom("copy", c, event)'
      BY <1>23, <2>1, <2>2
    <3>3. p \in DOMAIN Compute' /\ p <= i /\ Compute'[p].kind = "wait" /\ Compute'[p].arg = event
      BY <1>4, <1>5, <3>1, <3>2
    <3> HIDE DEF a, o
    <3> QED
      BY <3>2, <3>3 DEF Sync, RecordFrom, Compute
  <2>3. CASE c \in DOMAIN Copy
    <3>1. i \notin DOMAIN Compute /\ a.batch = n /\ o = Copy[c]
      BY <1>4, <1>7, <1>33, <2>3
    <3>2. CASE o.batch = n /\ o.arg.layer = l
      <4>1. ASSUME OfHalf(a), Half(a.arg) = Half(l), l < a.arg
            PROVE  FALSE
        <5>1. a.arg = l \/ a.arg = m
          BY <1>4, <1>6, <3>1, <4>1 DEF NewGather, NewUse, OfHalf, l
        <5> QED
          BY <1>1, <4>1, <5>1
      <4>2. a.kind = "layer_gemm"
        BY <1>1, <1>33, <2>1, <3>1, <3>2, <4>1 DEF CopyFirst
      <4> QED
        BY <2>2, <3>1, <3>2, <4>2
    <3>3. CASE ~ (o.batch = n /\ o.arg.layer = l)
      <4>1. /\ Copy[c].kind = "fill"
            /\ ~ (batch.mode = "streaming" /\ Copy[c].batch = batches /\ Copy[c].arg.layer = batch.layer)
        BY <2>1, <3>1, <3>3 DEF n, l
      <4> QED
        BY <1>1, <1>3, <2>3, <3>1, <4>1, AwaitedIsFirst
    <3> QED
      BY <3>2, <3>3
  <2>4. CASE c \notin DOMAIN Copy
    <3>1. o.batch = n /\ (o.arg.layer = l \/ o.arg.layer = m)
      BY <1>6, <1>7, <2>1, <2>4
    <3>2. ASSUME OfHalf(a), a.batch = n, Half(a.arg) = Half(o.arg.layer), o.arg.layer < a.arg
          PROVE  FALSE
      <4>1. a.arg \in Nat /\ (a.arg < m \/ a.arg = m)
        BY <1>19, <3>2
      <4>2. a.arg = m /\ o.arg.layer = l
        BY <1>1, <3>1, <3>2, <4>1 DEF m
      <4> QED
        BY <1>1, <3>2, <4>2
    <3>3. a.batch = n /\ a.kind = "layer_gemm" /\ o.arg.layer = a.arg
      BY <1>1, <1>33, <2>1, <3>1, <3>2 DEF CopyFirst
    <3>4. a.arg \in Nat /\ a.arg < m
      BY <1>19, <3>3 DEF OfHalf
    <3>5. a.arg = l
      BY <1>1, <3>1, <3>3, <3>4
    <3>6. i \notin DOMAIN Compute
      <4>1. ASSUME i \in DOMAIN Compute
            PROVE  a.arg < l
        BY <1>4, <1>10, <3>3, <4>1 DEF OfHalf
      <4> QED
        BY <1>1, <3>5, <4>1
    <3> QED
      BY <2>2, <3>1, <3>3, <3>5, <3>6
  <2> QED
    BY <2>3, <2>4
<1>34. StreamsOrdered'
  BY <1>1, <1>3, <1>32, <1>33, OrderedAfterAppend
<1> QED
  BY <1>13, <1>14, <1>15, <1>16, <1>18, <1>21, <1>24, <1>25, <1>27, <1>30, <1>31,
     <1>34 DEF OrderInv

(* With nothing queued and no batch begun there is nothing to keep apart.  *)
LEMMA EmptyQueuesOrdered ==
    ASSUME Compute' = << >>, Copy' = << >>, batch'.mode = "idle"
    PROVE  OrderInv'
<1>1. DOMAIN Compute' = {} /\ DOMAIN Copy' = {}
  BY ShortQueues
<1>2. KindsByStream' /\ ComputeInOrder' /\ FillsInOrder' /\ GemmsFollow' /\ BatchesOfOneKind'
  BY <1>1 DEF KindsByStream, ComputeInOrder, FillsInOrder, GemmsFollow, BatchesOfOneKind
<1>3. HostIssued' /\ FillsAwaited' /\ FenceStands' /\ HalvesKnown'
  BY <1>1 DEF HostIssued, FillsAwaited, FenceStands, HalvesKnown
<1>4. SnapshotsFirst' /\ GathersUndisturbed' /\ StreamsOrdered'
  BY <1>1 DEF SnapshotsFirst, GathersUndisturbed, StreamsOrdered
<1> QED
  BY <1>2, <1>3, <1>4 DEF OrderInv

LEMMA InitOrder == Init => OrderInv
<1> SUFFICES ASSUME Init
             PROVE  OrderInv
  OBVIOUS
<1>1. Compute = << >> /\ Copy = << >> /\ batch.mode = "idle"
  BY DEF Init, Compute, Copy, Streams, Idle
<1>2. DOMAIN Compute = {} /\ DOMAIN Copy = {}
  BY <1>1, ShortQueues
<1>3. KindsByStream /\ ComputeInOrder /\ FillsInOrder /\ GemmsFollow /\ BatchesOfOneKind
  BY <1>2 DEF KindsByStream, ComputeInOrder, FillsInOrder, GemmsFollow, BatchesOfOneKind
<1>4. HostIssued /\ FillsAwaited /\ FenceStands /\ HalvesKnown
  BY <1>1, <1>2 DEF HostIssued, FillsAwaited, FenceStands, HalvesKnown
<1>5. SnapshotsFirst /\ GathersUndisturbed /\ StreamsOrdered
  BY <1>1, <1>2 DEF SnapshotsFirst, SnapshotTaken, GathersUndisturbed, StreamsOrdered
<1> QED
  BY <1>3, <1>4, <1>5 DEF OrderInv

LEMMA StutterKeepsOrder ==
    ASSUME OrderInv, UNCHANGED vars
    PROVE  OrderInv'
<1>1. UNCHANGED <<queue, batch, batches, buffers, splitting, overlap>>
  BY DEF vars, hostVars
<1>2. /\ Compute' = Compute /\ Copy' = Copy
      /\ \A s, i, event : RecordFrom(s, i, event)' = RecordFrom(s, i, event)
      /\ \A s, i, t, c : Sync(s, i, t, c)' = Sync(s, i, t, c)
  BY <1>1 DEF Compute, Copy, RecordFrom, Sync
<1>3. KindsByStream' /\ ComputeInOrder' /\ FillsInOrder' /\ GemmsFollow' /\ BatchesOfOneKind'
  BY <1>2 DEF OrderInv, KindsByStream, ComputeInOrder, FillsInOrder, Earlier, GemmsFollow,
     BatchesOfOneKind, OnDemand, OfHalf
<1>4. HostIssued'
  BY <1>1, <1>2 DEF OrderInv, HostIssued, Issued, OnDemand, OfHalf, Half
<1>5. FillsAwaited'
  BY <1>1, <1>2 DEF OrderInv, FillsAwaited, Ready
<1>6. FenceStands' /\ HalvesKnown'
  BY <1>1, <1>2 DEF OrderInv, FenceStands, WaitQueued, Begin, HalvesKnown, OfPast, OfHalf, Ready, Half
<1>7. SnapshotsFirst' /\ GathersUndisturbed'
  BY <1>1, <1>2 DEF OrderInv, SnapshotsFirst, SnapshotTaken, SnapshotQueued, GathersUndisturbed, Loading
<1>8. StreamsOrdered'
  BY <1>2 DEF OrderInv, StreamsOrdered, ComputeFirst, CopyFirst, Touches, OfHalf, Half
<1> QED
  BY <1>3, <1>4, <1>5, <1>6, <1>7, <1>8 DEF OrderInv

LEMMA NextKeepsOrder ==
    ASSUME IInv, OrderInv, [Next]_vars
    PROVE  OrderInv'
<1>1. CASE StartBatch("prefill", None)
  BY <1>1, StartBatchKeepsOrder
<1>2. ASSUME NEW mode \in {"decode", "short_prefill"}, NEW route \in Routings, StartBatch(mode, route)
      PROVE  OrderInv'
  BY <1>2, StartBatchKeepsOrder
<1>3. CASE BeginPrefill
  BY <1>3, BeginPrefillKeepsOrder
<1>4. CASE StreamLayer
  BY <1>4, StreamLayerKeepsOrder
<1>5. CASE MaterializeLayer \/ DemandLayer
  BY <1>5, LoadedLayerKeepsOrder
<1>6. ASSUME NEW n \in Sizes, Rebuild(n)
      PROVE  OrderInv'
  <2>1. Compute' = << >> /\ Copy' = << >> /\ batch'.mode = "idle"
    BY <1>6 DEF Rebuild, Compute, Copy, Streams, Idle
  <2> QED
    BY <2>1, EmptyQueuesOrdered
<1>7. ASSUME NEW s \in Streams, Runnable(s), Pop(s), UNCHANGED hostVars
      PROVE  OrderInv'
  BY <1>7, ComputeStepKeepsOrder, CopyStepKeepsOrder DEF Streams
<1>8. CASE Device
  BY <1>7, <1>8 DEF Device, Pass, TakeSnapshot, FillHalf, GatherHits, Load, Materialize,
     AtHead, Streams
<1>9. CASE Finished \/ UNCHANGED vars
  BY <1>9, StutterKeepsOrder DEF Finished
<1> QED
  BY <1>1, <1>2, <1>3, <1>4, <1>5, <1>6, <1>8, <1>9 DEF Next, Host

(* What the two streams still have to do is held in order by the events    *)
(* they share, from begin_prefill's fence to the release of a half.        *)
THEOREM OrderHolds == Spec => [](IInv /\ OrderInv)
<1>1. Init => IInv /\ OrderInv
  BY InitKeeps, InitOrder
<1>2. IInv /\ OrderInv /\ [Next]_vars => IInv' /\ OrderInv'
  BY NextKeeps, NextKeepsOrder
<1> QED
  BY <1>1, <1>2, PTL DEF Spec

-----------------------------------------------------------------------------
(***************************************************************************)
(* Where the bytes of each GEMM come from: BytesInv, and the two properties*)
(* the events exist for.                                                   *)
(***************************************************************************)

(* What is queued, by kind.                                                *)

LEMMA OpFacts ==
    ASSUME TypeOK
    PROVE  /\ \A i \in DOMAIN Compute :
                /\ i \in Nat /\ i >= 1 /\ Compute[i] \in Ops /\ Compute[i].batch \in Nat
                /\ OfHalf(Compute[i]) => Compute[i].arg \in Layers /\ Compute[i].arg \in Nat
           /\ \A c \in DOMAIN Copy :
                /\ c \in Nat /\ c >= 1 /\ Copy[c] \in Ops /\ Copy[c].batch \in Nat
                /\ Copy[c].kind = "fill" =>
                     /\ Copy[c].arg.layer \in Layers /\ Copy[c].arg.layer \in Nat
                     /\ Copy[c].arg.rows \subseteq Experts
<1>1. /\ \A i \in DOMAIN Compute : i \in Nat /\ i >= 1 /\ Compute[i] \in Ops /\ Compute[i].batch \in Nat
      /\ \A c \in DOMAIN Copy : c \in Nat /\ c >= 1 /\ Copy[c] \in Ops /\ Copy[c].batch \in Nat
  BY QueueFacts
<1>2. \A op \in Ops :
        /\ OfHalf(op) => op.arg \in Layers /\ op.arg \in Nat
        /\ op.kind = "fill" => /\ op.arg.layer \in Layers /\ op.arg.layer \in Nat
                               /\ op.arg.rows \subseteq Experts
  BY DEF OfHalf, Ops
<1> QED
  BY <1>1, <1>2

(* An expert found above the buffers is there in every bank, whatever the  *)
(* copies are yet to disown.                                               *)
LEMMA HitFacts ==
    ASSUME IInv, NEW i \in Ids, IsHit(i)
    PROVE  /\ slotForId[i] \in Slots /\ slotForId[i] \in Nat /\ slotForId[i] >= Volatile
           /\ idOfSlot[slotForId[i]] = i
           /\ \A b \in Halves : slotForId[i] \notin BufferSlots(b)
           /\ \A k \in Banks : bytes[k][slotForId[i]] = i
<1>1. TypeOK /\ ResidencyIsTrue
  BY DEF IInv
<1>2. slotForId[i] \in Slots /\ slotForId[i] \in Nat /\ slotForId[i] >= Volatile
  BY <1>1, SlotFacts DEF IsHit, TypeOK
<1>3. idOfSlot[slotForId[i]] = i /\ i # None
  BY <1>1, <1>2, NoneFacts DEF ResidencyIsTrue
<1>4. \A b \in Halves : slotForId[i] \notin BufferSlots(b)
  BY <1>2, BufferFacts DEF Volatile
<1>5. slotForId[i] \notin Disowning
  <2>1. \A c \in DOMAIN Copy : Copy[c].kind = "fill" => Half(Copy[c].arg.layer) \in Halves
    BY <1>1, OpFacts, HalfType
  <2> QED
    BY <1>4, <2>1 DEF Disowning, Copy
<1> QED
  BY <1>1, <1>2, <1>3, <1>4, <1>5 DEF ResidencyIsTrue

(* Where a hit slot is there are both halves.                              *)
LEMMA RowsAreSlots ==
    ASSUME TypeOK, NEW s \in Slots, s >= Volatile
    PROVE  \A b \in Halves : BufferSlots(b) \subseteq Slots
<1>1. PICK n \in Sizes : Slots = 0 .. n - 1
  BY DEF TypeOK
<1>2. n \in Nat /\ Volatile \in Nat
  BY DEF Volatile
<1> QED
  BY <1>1, <1>2, BufferFacts

(* Disowning a half leaves what is above the buffers.                      *)
LEMMA FillKeepsHits ==
    ASSUME IInv, FillHalf
    PROVE  \A i \in Ids : IsHit(i)' <=> IsHit(i)
<1> DEFINE B == BufferSlots(Half(Head(queue["copy"]).arg.layer))
<1>1. slotForId' = [i \in Ids |-> IF \E s \in B : idOfSlot[s] = i THEN None ELSE slotForId[i]]
  BY DEF FillHalf, Disown
<1>2. Half(Head(queue["copy"]).arg.layer) \in Halves
  BY HeadFacts, ArgTypes, HalfType DEF FillHalf, AtHead, Runnable, Streams, IInv
<1>3. ASSUME NEW i \in Ids, IsHit(i)
      PROVE  \A s \in B : idOfSlot[s] # i
  <2> SUFFICES ASSUME NEW s \in B, idOfSlot[s] = i
               PROVE  FALSE
    OBVIOUS
  <2>1. overlap
    <3>1. 1 \in DOMAIN Copy /\ Copy[1].kind = "fill"
      BY QueueFacts, TailFacts DEF FillHalf, AtHead, Runnable, Copy, IInv
    <3> QED
      BY <3>1 DEF IInv, QueueInv, StreamsFit
  <2>2. s \in Slots
    BY <1>2, <2>1, SlotFacts DEF IInv
  <2>3. slotForId[i] = s
    BY <2>2, NoneFacts DEF IInv, ResidencyIsTrue
  <2> QED
    BY <1>2, <1>3, <2>3, HitFacts
<1> HIDE DEF B
<1>4. ASSUME NEW i \in Ids
      PROVE  IsHit(i)' <=> IsHit(i)
  <2>1. slotForId'[i] = None \/ slotForId'[i] = slotForId[i]
    BY <1>1
  <2>2. IsHit(i) => slotForId'[i] = slotForId[i]
    BY <1>1, <1>3
  <2> QED
    BY <2>1, <2>2 DEF IsHit, Volatile
<1> QED
  BY <1>4

(* One layer of a streamed prefill, with its p of ComputeAfter: what is old*)
(* on the two streams, what is new, and what of it was issued before.      *)
LEMMA StreamSetting ==
    ASSUME IInv, OrderInv, StreamLayer
    PROVE  /\ \E x, y : Appends(x, y)
           /\ \E p :
                /\ ComputeAfter(p, IF splitting THEN Prefetches ELSE {}, batch.layer)
                /\ p \in Nat /\ p \in DOMAIN Compute' /\ p + 1 \in DOMAIN Compute'
                /\ p + 2 \in DOMAIN Compute'
                /\ \A i \in DOMAIN Compute :
                     i \in Nat /\ i < p /\ i \in DOMAIN Compute' /\ Compute'[i] = Compute[i]
                /\ \A i \in DOMAIN Compute' :
                     /\ i \in Nat /\ i <= p + 2
                     /\ \/ i \in DOMAIN Compute
                        \/ /\ i \notin DOMAIN Compute /\ \A j \in DOMAIN Compute : j < i
                           /\ i > Len(Compute)
                           /\ Compute'[i].batch = batches
                           /\ NewGather(i, p) \/ NewUse(i, p)
                /\ \A c \in DOMAIN Copy : c \in DOMAIN Copy' /\ Copy'[c] = Copy[c]
                /\ \A c \in DOMAIN Copy' :
                     \/ c \in DOMAIN Copy
                     \/ /\ c \notin DOMAIN Copy /\ c > Len(Copy)
                        /\ Copy'[c].batch = batches /\ Copy'[c].kind \in {"wait", "record", "fill"}
                        /\ Copy'[c].kind = "fill" => /\ Copy'[c].arg.layer \in Prefetches
                                                     /\ Copy'[c] = Fill(Copy'[c].arg.layer)
                /\ CopyAfter(Prefetches)
                /\ Compute'[p + 1].kind = "layer_gemm" /\ Compute'[p + 1].arg = batch.layer
                /\ Compute'[p + 1].batch = batches
                /\ DOMAIN Compute' = 1 .. p + 2 /\ Len(Compute) < p
<1>1. TypeOK /\ HalvesKnown
  BY DEF IInv, OrderInv
<1>2. PICK x, y, p :
        /\ Appends(x, y)
        /\ ComputeAfter(p, IF splitting THEN Prefetches ELSE {}, batch.layer)
        /\ CopyAfter(Prefetches)
  BY <1>1, StreamLayerFacts
<1>3. Len(Copy) \in Nat /\ DOMAIN Copy = 1 .. Len(Copy)
  BY <1>1, QueueFacts
<1>4. /\ \A c \in DOMAIN Copy : c \in DOMAIN Copy' /\ Copy'[c] = Copy[c]
      /\ \A c \in DOMAIN Copy' :
           \/ c \in DOMAIN Copy
           \/ /\ c \notin DOMAIN Copy /\ c > Len(Copy)
              /\ Copy'[c].batch = batches /\ Copy'[c].kind \in {"wait", "record", "fill"}
              /\ Copy'[c].kind = "fill" => /\ Copy'[c].arg.layer \in Prefetches
                                           /\ Copy'[c] = Fill(Copy'[c].arg.layer)
  BY <1>2, <1>3 DEF CopyAfter
<1>5. /\ p \in Nat /\ p \in DOMAIN Compute' /\ p + 1 \in DOMAIN Compute'
      /\ p + 2 \in DOMAIN Compute'
      /\ \A i \in DOMAIN Compute :
           i \in Nat /\ i < p /\ i \in DOMAIN Compute' /\ Compute'[i] = Compute[i]
      /\ \A i \in DOMAIN Compute' :
           /\ i \in Nat /\ i <= p + 2
           /\ \/ i \in DOMAIN Compute
              \/ /\ i \notin DOMAIN Compute /\ \A j \in DOMAIN Compute : j < i
                 /\ i > Len(Compute)
                 /\ Compute'[i].batch = batches
                 /\ NewGather(i, p) \/ NewUse(i, p)
  BY <1>1, <1>2, ComputeSplit
<1>6. /\ Compute'[p + 1].kind = "layer_gemm" /\ Compute'[p + 1].arg = batch.layer
      /\ DOMAIN Compute' = 1 .. p + 2 /\ Len(Compute) < p
  BY <1>2 DEF ComputeAfter
<1>7. Compute'[p + 1].batch = batches
  <2>1. p + 1 > Len(Compute)
    <3>1. Len(Compute) \in Nat
      BY <1>1, QueueFacts
    <3> QED
      BY <1>5, <1>6, <3>1
  <2> QED
    BY <1>2, <1>5, <2>1 DEF ComputeAfter
<1> QED
  BY <1>2, <1>4, <1>5, <1>6, <1>7

-----------------------------------------------------------------------------
(* The split of a layer: what crosses the bus, and what is gathered.       *)

SplitInv == SnapshotAgrees /\ RowsSplit

LEMMA SplitAfterCompute ==
    ASSUME IInv, OrderInv, SplitInv, Runnable("compute"), Pop("compute"),
           UNCHANGED hostVars, UNCHANGED snapshot,
           Loading(Head(Compute)) \/ slotForId' = slotForId
    PROVE  SplitInv'
<1>1. TypeOK /\ Compute # << >> /\ UNCHANGED <<batch, splitting>>
  BY DEF IInv, Runnable, Compute, hostVars
<1>2. /\ 1 \in DOMAIN Compute /\ Head(Compute) = Compute[1] /\ Copy' = Copy
      /\ \A i \in DOMAIN Compute' :
           i \in Nat /\ i + 1 > 1 /\ i + 1 \in DOMAIN Compute /\ Compute'[i] = Compute[i + 1]
  <2>1. /\ 1 \in DOMAIN Compute /\ Head(Compute) = Compute[1] /\ Copy' = Copy
        /\ \A i \in DOMAIN Compute' :
             i \in Nat \ {0} /\ i + 1 \in DOMAIN Compute /\ Compute'[i] = Compute[i + 1]
    BY <1>1, PopCompute
  <2> QED
    BY <2>1
<1>3. SnapshotTaken' <=> SnapshotTaken
  BY <1>1, <1>2 DEF SnapshotTaken, SnapshotQueued
<1>4. CASE Loading(Head(Compute))
  <2>1. ~ SnapshotTaken'
    BY <1>2, <1>3, <1>4 DEF OrderInv, SnapshotsFirst
  <2>2. \A j \in DOMAIN Compute' : Compute'[j].kind # "gather"
    BY <1>2, <1>4 DEF OrderInv, GathersUndisturbed
  <2> QED
    BY <2>1, <2>2 DEF SplitInv, SnapshotAgrees, RowsSplit, Twins
<1>5. CASE slotForId' = slotForId
  <2>1. SnapshotAgrees'
    BY <1>3, <1>5 DEF SplitInv, SnapshotAgrees, IsHit, Volatile, Ids
  <2>2. RowsSplit'
    <3> SUFFICES ASSUME NEW j \in DOMAIN Compute', NEW c \in DOMAIN Copy',
                        Compute'[j].kind = "gather", Copy'[c].kind = "fill",
                        Compute'[j].batch = Copy'[c].batch, Compute'[j].arg = Copy'[c].arg.layer,
                        NEW e \in Copy'[c].arg.rows
                 PROVE  ~ IsHit(<<Compute'[j].arg, e>>)
      BY <1>5 DEF RowsSplit, Twins, IsHit, Volatile
    <3>1. j + 1 \in DOMAIN Compute /\ Compute'[j] = Compute[j + 1] /\ Copy' = Copy
      BY <1>2
    <3> QED
      BY <3>1 DEF SplitInv, RowsSplit, Twins
  <2> QED
    BY <2>1, <2>2 DEF SplitInv
<1> QED
  BY <1>4, <1>5

LEMMA SplitAfterCopy ==
    ASSUME IInv, OrderInv, SplitInv, Runnable("copy"), Pop("copy"), UNCHANGED hostVars,
           \A i \in Ids : IsHit(i)' <=> IsHit(i),
           \/ Head(Copy).kind # "snapshot" /\ snapshot' = snapshot
           \/ snapshot' = slotForId
    PROVE  SplitInv'
<1>1. TypeOK /\ Copy # << >> /\ UNCHANGED <<batch, splitting>>
  BY DEF IInv, Runnable, Copy, hostVars
<1>2. /\ 1 \in DOMAIN Copy /\ Head(Copy) = Copy[1] /\ Compute' = Compute
      /\ \A c \in DOMAIN Copy' : c + 1 \in DOMAIN Copy /\ Copy'[c] = Copy[c + 1]
      /\ \A c \in DOMAIN Copy : c # 1 => c - 1 \in DOMAIN Copy' /\ Copy'[c - 1] = Copy[c]
  BY <1>1, PopCopy
<1>3. SnapshotAgrees'
  <2> SUFFICES ASSUME SnapshotTaken', NEW i \in Ids
               PROVE  IsHit(i)' <=> snapshot'[i] # None /\ snapshot'[i] >= Volatile
    BY DEF SnapshotAgrees, Ids, Volatile, IsHit
  <2>1. CASE Head(Copy).kind # "snapshot" /\ snapshot' = snapshot
    <3>1. SnapshotTaken
      BY <1>1, <1>2, <2>1 DEF SnapshotTaken, SnapshotQueued
    <3> QED
      BY <2>1, <3>1 DEF SplitInv, SnapshotAgrees
  <2>2. CASE snapshot' = slotForId
    BY <2>2 DEF IsHit
  <2> QED
    BY <2>1, <2>2
<1>4. RowsSplit'
  <2> SUFFICES ASSUME NEW j \in DOMAIN Compute', NEW c \in DOMAIN Copy',
                      Compute'[j].kind = "gather", Copy'[c].kind = "fill",
                      Compute'[j].batch = Copy'[c].batch, Compute'[j].arg = Copy'[c].arg.layer,
                      NEW e \in Copy'[c].arg.rows, NEW l, l = Compute'[j].arg
               PROVE  ~ IsHit(<<l, e>>)'
    BY DEF RowsSplit, Twins, IsHit, Volatile
  <2>1. /\ c + 1 \in DOMAIN Copy /\ Copy'[c] = Copy[c + 1]
        /\ j \in DOMAIN Compute /\ Compute'[j] = Compute[j]
    BY <1>2
  <2>2. ~ IsHit(<<l, e>>)
    BY <2>1 DEF SplitInv, RowsSplit, Twins
  <2>3. <<l, e>> \in Ids
    BY <1>1, <2>1, OpFacts DEF Ids
  <2> QED
    BY <2>2, <2>3
<1> QED
  BY <1>3, <1>4 DEF SplitInv

(* The host's steps other than StreamLayer.                                *)
LEMMA SplitAfterHost ==
    ASSUME IInv, OrderInv, SplitInv, UNCHANGED <<slotForId, snapshot>>,
           ~ SnapshotTaken', NEW x, NEW y, Appends(x, y),
           \A k \in DOMAIN x : x[k].kind # "gather",
           \A k \in DOMAIN y : y[k].kind # "fill"
    PROVE  SplitInv'
<1>1. /\ \A i \in DOMAIN Compute' : Compute'[i].kind = "gather" =>
           i \in DOMAIN Compute /\ Compute'[i] = Compute[i]
      /\ \A c \in DOMAIN Copy' : Copy'[c].kind = "fill" =>
           c \in DOMAIN Copy /\ Copy'[c] = Copy[c]
  BY AppendKeeps DEF IInv
<1>2. RowsSplit'
  <2> SUFFICES ASSUME NEW j \in DOMAIN Compute', NEW c \in DOMAIN Copy',
                      Compute'[j].kind = "gather", Copy'[c].kind = "fill",
                      Compute'[j].batch = Copy'[c].batch, Compute'[j].arg = Copy'[c].arg.layer,
                      NEW e \in Copy'[c].arg.rows
               PROVE  ~ IsHit(<<Compute'[j].arg, e>>)
    BY DEF RowsSplit, Twins, IsHit, Volatile
  <2>1. /\ j \in DOMAIN Compute /\ Compute'[j] = Compute[j]
        /\ c \in DOMAIN Copy /\ Copy'[c] = Copy[c]
    BY <1>1
  <2> QED
    BY <2>1 DEF SplitInv, RowsSplit, Twins
<1> QED
  BY <1>2 DEF SplitInv, SnapshotAgrees

LEMMA SplitAfterStreamLayer ==
    ASSUME IInv, OrderInv, SplitInv, StreamLayer
    PROVE  SplitInv'
<1>1. /\ TypeOK /\ batch.mode = "streaming" /\ batches \in Nat
      /\ UNCHANGED <<batches, splitting, slotForId, snapshot>>
  BY DEF IInv, StreamLayer, TypeOK, deviceVars
<1>2. PICK p :
        /\ \A i \in DOMAIN Compute : Compute'[i] = Compute[i]
        /\ \A i \in DOMAIN Compute' :
             i \in DOMAIN Compute \/ (Compute'[i].batch = batches /\ (NewGather(i, p) \/ NewUse(i, p)))
        /\ \A c \in DOMAIN Copy : c \in DOMAIN Copy' /\ Copy'[c] = Copy[c]
        /\ \A c \in DOMAIN Copy' :
             \/ c \in DOMAIN Copy
             \/ /\ Copy'[c].batch = batches /\ Copy'[c].kind \in {"wait", "record", "fill"}
                /\ Copy'[c].kind = "fill" => /\ Copy'[c].arg.layer \in Prefetches
                                             /\ Copy'[c] = Fill(Copy'[c].arg.layer)
  BY StreamSetting
<1>3. SnapshotTaken' => SnapshotTaken
  BY <1>1, <1>2 DEF SnapshotTaken, SnapshotQueued
<1>4. \A c \in DOMAIN Copy : Copy[c].kind = "snapshot" => FALSE
  <2> SUFFICES ASSUME NEW c \in DOMAIN Copy, Copy[c].kind = "snapshot"
               PROVE  FALSE
    OBVIOUS
  <2>1. splitting /\ batch.layer = 0
    BY DEF OrderInv, SnapshotsFirst
  <2>2. Copy = << >>
    BY <2>1 DEF StreamLayer, Copy
  <2> QED
    BY <2>2
<1>5. splitting => SnapshotTaken
  BY <1>1, <1>4 DEF SnapshotTaken, SnapshotQueued
<1>6. RowsSplit'
  <2> SUFFICES ASSUME NEW j \in DOMAIN Compute', NEW c \in DOMAIN Copy',
                      Compute'[j].kind = "gather", Copy'[c].kind = "fill",
                      Compute'[j].batch = Copy'[c].batch, Compute'[j].arg = Copy'[c].arg.layer,
                      NEW e \in Copy'[c].arg.rows
               PROVE  ~ IsHit(<<Compute'[j].arg, e>>)
    BY <1>1 DEF RowsSplit, Twins, IsHit, Volatile
  <2>0. \A l : Issued(l) => l \notin Prefetches
    <3>1. \A a \in Prefetches : a \in Nat /\ (a = batch.layer \/ a = batch.layer + 1)
                                /\ buffers[Half(a)].layer # a
      BY <1>1, PrefetchesFacts
    <3>2. batch.layer \in Nat
      BY <1>1 DEF TypeOK
    <3> QED
      BY <3>1, <3>2 DEF Issued
  <2>1. CASE j \in DOMAIN Compute /\ c \in DOMAIN Copy
    BY <1>2, <2>1 DEF SplitInv, RowsSplit, Twins
  <2>2. CASE j \in DOMAIN Compute /\ c \notin DOMAIN Copy
    <3>1. Compute'[j] = Compute[j] /\ Copy'[c].batch = batches /\ Copy'[c].arg.layer \in Prefetches
      BY <1>2, <2>2
    <3>2. Issued(Compute[j].arg)
      BY <1>1, <2>2, <3>1 DEF OrderInv, HostIssued, OfHalf
    <3> QED
      BY <2>0, <3>1, <3>2
  <2>3. CASE j \notin DOMAIN Compute /\ c \in DOMAIN Copy
    <3>1. Copy'[c] = Copy[c] /\ Compute'[j].batch = batches /\ Compute'[j].arg \in Prefetches
      BY <1>2, <2>3 DEF NewGather, NewUse
    <3>2. Issued(Copy[c].arg.layer)
      BY <1>1, <2>3, <3>1 DEF OrderInv, HostIssued
    <3> QED
      BY <2>0, <3>1, <3>2
  <2>4. CASE j \notin DOMAIN Compute /\ c \notin DOMAIN Copy
    <3> DEFINE l == Compute'[j].arg
    <3>1. splitting /\ l \in Prefetches /\ Copy'[c] = Fill(l)
      BY <1>2, <2>4 DEF NewGather, NewUse
    <3>2. e \in Crossing(l)
      BY <3>1 DEF Fill, Op
    <3>3. e \in Experts /\ ~ InSnapshot(l, e)
      BY <3>1, <3>2 DEF Crossing
    <3>4. <<l, e>> \in Ids
      BY <1>1, <3>1, <3>3, PrefetchesFacts DEF Ids
    <3> HIDE DEF l
    <3>5. ~ IsHit(<<l, e>>)
      BY <1>5, <3>1, <3>3, <3>4 DEF SplitInv, SnapshotAgrees, InSnapshot
    <3> QED
      BY <3>5 DEF l
  <2> QED
    BY <2>1, <2>2, <2>3, <2>4
<1>7. SnapshotAgrees'
  BY <1>1, <1>3 DEF SplitInv, SnapshotAgrees, Ids, Volatile, IsHit
<1> QED
  BY <1>6, <1>7 DEF SplitInv

LEMMA StutterKeepsSplit ==
    ASSUME SplitInv, UNCHANGED <<queue, batch, splitting, slotForId, snapshot>>
    PROVE  SplitInv'
<1>1. /\ Compute' = Compute /\ Copy' = Copy
      /\ SnapshotTaken' <=> SnapshotTaken
  BY DEF Compute, Copy, SnapshotTaken, SnapshotQueued
<1>2. SnapshotAgrees'
  BY <1>1 DEF SplitInv, SnapshotAgrees, IsHit, Volatile, Ids
<1>3. RowsSplit'
  BY <1>1 DEF SplitInv, RowsSplit, Twins, IsHit, Volatile
<1> QED
  BY <1>2, <1>3 DEF SplitInv

LEMMA NextKeepsSplit ==
    ASSUME IInv, OrderInv, SplitInv, [Next]_vars
    PROVE  SplitInv'
<1>0. TypeOK
  BY DEF IInv
<1>1. ASSUME NEW mode \in {"prefill", "decode", "short_prefill"}, NEW route, StartBatch(mode, route)
      PROVE  SplitInv'
  <2>1. /\ batch.mode = "idle" /\ batch'.mode # "streaming"
        /\ queue' = queue /\ UNCHANGED <<slotForId, snapshot>>
    BY <1>1 DEF StartBatch, Idle, deviceVars
  <2>2. Compute' = Compute /\ Copy' = Copy
    BY <2>1 DEF Compute, Copy
  <2>3. RowsSplit'
    BY <2>1, <2>2 DEF SplitInv, RowsSplit, Twins, IsHit, Volatile
  <2> QED
    BY <2>1, <2>3 DEF SplitInv, SnapshotAgrees, SnapshotTaken
<1>2. CASE BeginPrefill
  <2>1. /\ batch'.mode = "streaming" /\ batches' = batches
        /\ UNCHANGED <<slotForId, snapshot>>
    BY <1>2 DEF BeginPrefill, deviceVars, IInv, TypeOK
  <2>2. PICK r, w, s \in Ops :
          /\ r.kind = "record" /\ w.kind = "wait" /\ s.kind = "snapshot"
          /\ Appends(<<r>>, IF splitting' THEN <<w, s>> ELSE <<w>>)
    BY <1>0, <1>2, BeginFacts
  <2> DEFINE x == <<r>>   y == IF splitting' THEN <<w, s>> ELSE <<w>>
  <2>3. /\ \A k \in DOMAIN x : x[k].kind # "gather"
        /\ \A k \in DOMAIN y : y[k].kind # "fill"
        /\ splitting' => \E k \in DOMAIN y : y[k].kind = "snapshot"
    <3>1. DOMAIN x = {1} /\ x[1] = r
      OBVIOUS
    <3>2. /\ DOMAIN <<w, s>> = {1, 2} /\ <<w, s>>[1] = w /\ <<w, s>>[2] = s
          /\ DOMAIN <<w>> = {1} /\ <<w>>[1] = w
      OBVIOUS
    <3>3. CASE splitting'
      BY <2>2, <3>1, <3>2, <3>3
    <3>4. CASE ~ splitting'
      BY <2>2, <3>1, <3>2, <3>4
    <3> QED
      BY <3>3, <3>4
  <2>4. Appends(x, y)
    BY <2>2
  <2> HIDE DEF x, y
  <2>5. splitting' => \E c \in DOMAIN Copy' : Copy'[c].kind = "snapshot"
    <3> SUFFICES ASSUME splitting'
                 PROVE  \E c \in DOMAIN Copy' : Copy'[c].kind = "snapshot"
      OBVIOUS
    <3>1. PICK k \in DOMAIN y : y[k].kind = "snapshot"
      BY <2>3
    <3>2. /\ Len(Copy) \in Nat /\ Len(y) \in Nat /\ DOMAIN y = 1 .. Len(y)
          /\ DOMAIN Copy' = 1 .. Len(Copy) + Len(y) /\ Copy'[Len(Copy) + k] = y[k]
      BY <1>0, <2>4, AppendFacts
    <3>3. Len(Copy) + k \in DOMAIN Copy'
      BY <3>2
    <3> QED
      BY <3>1, <3>2, <3>3
  <2>6. ~ SnapshotTaken'
    BY <2>5 DEF SnapshotTaken, SnapshotQueued
  <2> QED
    BY <2>1, <2>3, <2>4, <2>6, SplitAfterHost
<1>3. CASE StreamLayer
  BY <1>3, SplitAfterStreamLayer
<1>4. CASE MaterializeLayer \/ DemandLayer
  <2>1. PICK a, g : LoadedPair(a, g) /\ Appends(<<a, g>>, << >>)
    BY <1>0, <1>4, LoadedLayerAppends
  <2>2. /\ \A k \in DOMAIN <<a, g>> : <<a, g>>[k].kind # "gather"
        /\ \A k \in DOMAIN << >> : (<< >>)[k].kind # "fill"
    <3>1. DOMAIN <<a, g>> = {1, 2} /\ <<a, g>>[1] = a /\ <<a, g>>[2] = g
      OBVIOUS
    <3> QED
      BY <2>1, <3>1 DEF LoadedPair
  <2>3. /\ batch.mode \in {"prefill", "decode", "short_prefill"} /\ NextLayer(batch.layer)
        /\ UNCHANGED <<slotForId, snapshot>>
    BY <1>0, <1>4, LoadedLayerAppends DEF deviceVars
  <2>4. batch'.mode # "streaming"
    BY <1>0, <2>3 DEF NextLayer, Idle, TypeOK
  <2> QED
    BY <2>1, <2>2, <2>3, <2>4, SplitAfterHost DEF SnapshotTaken
<1>5. ASSUME NEW n \in Sizes, Rebuild(n)
      PROVE  SplitInv'
  <2>1. Compute' = << >> /\ batch'.mode = "idle"
    BY <1>5 DEF Rebuild, Compute, Streams, Idle
  <2>2. DOMAIN Compute' = {}
    BY <2>1
  <2> QED
    BY <2>1, <2>2 DEF SplitInv, SnapshotAgrees, SnapshotTaken, RowsSplit
<1>6. CASE Pass("compute") \/ GatherHits
  BY <1>6, SplitAfterCompute DEF Pass, GatherHits, AtHead, hostVars, deviceVars
<1>7. CASE Load \/ Materialize
  BY <1>7, SplitAfterCompute DEF Load, Materialize, AtHead, Loading, Compute, hostVars
<1>8. CASE Pass("copy")
  <2>1. /\ Runnable("copy") /\ Pop("copy") /\ UNCHANGED hostVars
        /\ slotForId' = slotForId /\ Head(Copy).kind # "snapshot" /\ snapshot' = snapshot
    BY <1>8 DEF Pass, Copy, deviceVars
  <2> QED
    BY <2>1, SplitAfterCopy DEF IsHit, Volatile
<1>9. CASE TakeSnapshot
  <2>1. /\ Runnable("copy") /\ Pop("copy") /\ UNCHANGED hostVars
        /\ slotForId' = slotForId /\ snapshot' = slotForId
    BY <1>9 DEF TakeSnapshot, AtHead, Copy, deviceVars
  <2> QED
    BY <2>1, SplitAfterCopy DEF IsHit, Volatile
<1>10. CASE FillHalf
  <2>1. /\ Runnable("copy") /\ Pop("copy") /\ UNCHANGED hostVars
        /\ Head(Copy).kind # "snapshot" /\ snapshot' = snapshot
    BY <1>10 DEF FillHalf, AtHead, Copy
  <2> QED
    BY <1>10, <2>1, FillKeepsHits, SplitAfterCopy
<1>11. CASE Finished \/ UNCHANGED vars
  BY <1>11, StutterKeepsSplit DEF Finished, vars, hostVars, deviceVars
<1> QED
  BY <1>1, <1>2, <1>3, <1>4, <1>5, <1>6, <1>7, <1>8, <1>9, <1>10, <1>11
  DEF Next, Host, Device, Streams

LEMMA InitSplit == Init => SplitInv
<1> SUFFICES ASSUME Init
             PROVE  SplitInv
  OBVIOUS
<1>1. Compute = << >> /\ batch.mode = "idle"
  BY DEF Init, Compute, Streams, Idle
<1>2. DOMAIN Compute = {}
  BY <1>1
<1> QED
  BY <1>1, <1>2 DEF SplitInv, SnapshotAgrees, SnapshotTaken, RowsSplit

-----------------------------------------------------------------------------
(* What the heads of the two streams touch.                                *)

LEMMA HeadsAreFree ==
    ASSUME IInv, OrderInv, Runnable("compute"), Runnable("copy")
    PROVE  /\ 1 \in DOMAIN Compute /\ Head(Compute) = Compute[1]
           /\ 1 \in DOMAIN Copy /\ Head(Copy) = Copy[1]
           /\ ~ ComputeFirst(Head(Compute), Head(Copy))
           /\ ~ CopyFirst(Head(Copy), Head(Compute))
<1>1. TypeOK /\ Compute # << >> /\ Copy # << >>
  BY DEF IInv, Runnable, Compute, Copy
<1>2. /\ 1 \in DOMAIN Compute /\ Head(Compute) = Compute[1]
      /\ 1 \in DOMAIN Copy /\ Head(Copy) = Copy[1]
  BY <1>1, QueueFacts, TailFacts
<1>3. ~ Sync("compute", 1, "copy", 1) /\ ~ Sync("copy", 1, "compute", 1)
  BY <1>1, HeadIsFree DEF Streams
<1> QED
  BY <1>2, <1>3 DEF OrderInv, StreamsOrdered

(* The rows a gather writes, and those it reads.                           *)
GatherWrites(l) == (Banks \ SmallBanks) \X {Row(Half(l), e) : e \in Hits(l)}
GatherReads(l)  == (Banks \ SmallBanks) \X {slotForId[<<l, e>>] : e \in Hits(l)}

LEMMA TouchFacts ==
    ASSUME NEW op
    PROVE  /\ op.kind = "fill" => Writes(op) = FillRows(op) /\ Reads(op) = {}
           /\ op.kind = "gather" =>
                Writes(op) = GatherWrites(op.arg) /\ Reads(op) = GatherReads(op.arg)
           /\ op.kind = "layer_gemm" =>
                Writes(op) = {} /\ Reads(op) = Banks \X BufferSlots(Half(op.arg))
           /\ op.kind \in {"wait", "record", "snapshot"} => Writes(op) = {} /\ Reads(op) = {}
<1>1. ASSUME op.kind = "fill"
      PROVE  Writes(op) = FillRows(op) /\ Reads(op) = {}
  BY <1>1 DEF Writes, Reads
<1>2. ASSUME op.kind = "gather"
      PROVE  Writes(op) = GatherWrites(op.arg)
  BY <1>2 DEF Writes, GatherWrites
<1>3. ASSUME op.kind = "gather"
      PROVE  Reads(op) = GatherReads(op.arg)
  BY <1>3 DEF Reads, GatherReads
<1>4. ASSUME op.kind = "layer_gemm"
      PROVE  Writes(op) = {} /\ Reads(op) = Banks \X BufferSlots(Half(op.arg))
  BY <1>4 DEF Writes, Reads
<1>5. ASSUME op.kind \in {"wait", "record", "snapshot"}
      PROVE  Writes(op) = {} /\ Reads(op) = {}
  BY <1>5 DEF Writes, Reads
<1> QED
  BY <1>1, <1>2, <1>3, <1>4, <1>5

LEMMA HalvesDisjoint ==
    ASSUME NEW a \in Halves, NEW b \in Halves, NEW e \in Experts, NEW f \in Experts,
           Row(a, e) = Row(b, f)
    PROVE  a = b /\ e = f
  BY DEF Halves, Row

LEMMA SplitSeparates ==
    ASSUME IInv, OrderInv, SplitInv
    PROVE  StreamsNeverRace
<1> SUFFICES ASSUME Runnable("compute"), Runnable("copy"),
                    NEW g, g = Head(Compute), NEW c, c = Head(Copy)
             PROVE  ~ Disturbs(g, c) /\ ~ Disturbs(c, g)
  BY DEF StreamsNeverRace, Compute, Copy
<1>0. TypeOK
  BY DEF IInv
<1>1. /\ 1 \in DOMAIN Compute /\ g = Compute[1] /\ 1 \in DOMAIN Copy /\ c = Copy[1]
      /\ ~ ComputeFirst(g, c) /\ ~ CopyFirst(c, g)
  BY HeadsAreFree
<1>2. /\ g.kind \notin {"fill", "snapshot"} /\ g \in Ops /\ g.batch \in Nat
      /\ c.kind \in {"wait", "record", "fill", "snapshot"} /\ c \in Ops /\ c.batch \in Nat
  BY <1>0, <1>1, OpFacts DEF OrderInv, KindsByStream
<1>3. CASE c.kind \in {"wait", "record"}
  BY <1>3, TouchFacts DEF Disturbs, WritesMaps, ReadsMaps
<1>4. CASE c.kind = "snapshot"
  <2>1. batch.mode = "streaming" /\ c.batch = batches
    BY <1>1, <1>4 DEF OrderInv, SnapshotsFirst
  <2>2. ~ OnDemand(g)
    <3> SUFFICES ASSUME OnDemand(g)
                 PROVE  FALSE
      OBVIOUS
    <3>1. g.batch < batches
      BY <1>1, <2>1 DEF OrderInv, HostIssued
    <3> QED
      BY <1>1, <1>4, <2>1, <3>1 DEF ComputeFirst, OnDemand, Touches
  <2> QED
    BY <1>2, <1>4, <2>2, TouchFacts DEF Disturbs, WritesMaps, ReadsMaps, OnDemand
<1>5. CASE c.kind = "fill"
  <2> DEFINE l == c.arg.layer
  <2>1. l \in Layers /\ l \in Nat /\ c.arg.rows \subseteq Experts /\ Half(l) \in Halves
    BY <1>0, <1>1, <1>5, OpFacts, HalfType
  <2>2. CASE g.kind \in {"wait", "record"}
    BY <1>5, <2>2, TouchFacts DEF Disturbs, WritesMaps, ReadsMaps
  <2>3. Touches(g) => g.batch = c.batch
    BY <1>1, <1>2, <1>5 DEF ComputeFirst, CopyFirst
  <2>4. ~ OnDemand(g)
    <3> SUFFICES ASSUME OnDemand(g)
                 PROVE  FALSE
      OBVIOUS
    <3>1. g.batch # c.batch
      BY <1>1, <1>5 DEF OrderInv, BatchesOfOneKind
    <3>2. Touches(g)
      BY DEF OnDemand, Touches
    <3> QED
      BY <2>3, <3>1, <3>2
  <2>5. CASE OfHalf(g)
    <3>1. g.arg \in Layers /\ g.arg \in Nat /\ Half(g.arg) \in Halves /\ g.batch = c.batch
      BY <1>0, <1>1, <2>3, <2>5, OpFacts, HalfType DEF OfHalf, Touches
    <3>2. Half(g.arg) = Half(l) => g.kind = "gather" /\ g.arg = l
      BY <1>1, <1>5, <2>1, <2>5, <3>1 DEF ComputeFirst, CopyFirst, OfHalf
    <3>3. \A r \in FillRows(c) : \E k \in Banks, e \in Experts :
            /\ r = <<k, Row(Half(l), e)>>
            /\ k \in SmallBanks \/ e \in c.arg.rows
      BY <2>1, ExpertCacheAssumption DEF FillRows
    <3>4. /\ Writes(c) = FillRows(c) /\ Reads(c) = {}
          /\ ~ WritesMaps(g) /\ ~ ReadsMaps(g)
      BY <1>5, <2>5, TouchFacts DEF WritesMaps, ReadsMaps, OfHalf
    <3> HIDE DEF l
    <3>5. CASE g.kind = "layer_gemm"
      <4>1. Writes(g) = {} /\ Reads(g) = Banks \X BufferSlots(Half(g.arg))
        BY <3>5, TouchFacts
      <4>2. FillRows(c) \intersect Reads(g) = {}
        <5> SUFFICES ASSUME NEW r \in FillRows(c), r \in Reads(g)
                     PROVE  FALSE
          OBVIOUS
        <5>1. PICK k \in Banks, e \in Experts : r = <<k, Row(Half(l), e)>>
          BY <3>3
        <5>2. Row(Half(l), e) \in BufferSlots(Half(g.arg))
          BY <4>1, <5>1
        <5>3. PICK f \in Experts : Row(Half(l), e) = Row(Half(g.arg), f)
          BY <5>2 DEF BufferSlots
        <5> QED
          BY <2>1, <3>1, <3>2, <3>5, <5>3, HalvesDisjoint DEF l
      <4> QED
        BY <3>4, <4>1, <4>2 DEF Disturbs
    <3>6. CASE g.kind = "gather"
      <4>1. Writes(g) = GatherWrites(g.arg) /\ Reads(g) = GatherReads(g.arg)
        BY <3>6, TouchFacts
      <4>2. FillRows(c) \intersect Writes(g) = {}
        <5> SUFFICES ASSUME NEW r \in FillRows(c), r \in Writes(g)
                     PROVE  FALSE
          OBVIOUS
        <5>1. PICK k \in Banks, e \in Experts :
                r = <<k, Row(Half(l), e)>> /\ (k \in SmallBanks \/ e \in c.arg.rows)
          BY <3>3
        <5>2. PICK j \in Banks \ SmallBanks, f \in Hits(g.arg) : r = <<j, Row(Half(g.arg), f)>>
          BY <4>1 DEF GatherWrites
        <5>3. k = j /\ Row(Half(l), e) = Row(Half(g.arg), f) /\ f \in Experts
          BY <5>1, <5>2 DEF Hits
        <5>4. Half(l) = Half(g.arg) /\ e = f
          BY <2>1, <3>1, <5>3, HalvesDisjoint DEF l
        <5>5. g.arg = l /\ e \in c.arg.rows /\ IsHit(<<g.arg, e>>)
          BY <3>2, <5>1, <5>2, <5>3, <5>4 DEF Hits
        <5> QED
          BY <1>1, <1>5, <3>1, <3>6, <5>5 DEF SplitInv, RowsSplit, Twins, l
      <4>3. FillRows(c) \intersect Reads(g) = {}
        <5> SUFFICES ASSUME NEW r \in FillRows(c), r \in Reads(g)
                     PROVE  FALSE
          OBVIOUS
        <5>1. PICK k \in Banks, e \in Experts : r = <<k, Row(Half(l), e)>>
          BY <3>3
        <5>6. r \in GatherReads(g.arg)
          BY <4>1
        <5>2. PICK j \in Banks \ SmallBanks, f \in Hits(g.arg) : r = <<j, slotForId[<<g.arg, f>>]>>
          BY <5>6 DEF GatherReads
        <5>3. IsHit(<<g.arg, f>>) /\ <<g.arg, f>> \in Ids
          BY <3>1 DEF Hits, Ids
        <5>5. Row(Half(l), e) = slotForId[<<g.arg, f>>]
          BY <5>1, <5>2
        <5>4. Row(Half(l), e) \in BufferSlots(Half(l))
          BY DEF BufferSlots
        <5> QED
          BY <2>1, <5>3, <5>4, <5>5, HitFacts DEF l
      <4> QED
        BY <3>4, <4>2, <4>3 DEF Disturbs
    <3> QED
      BY <2>5, <3>5, <3>6 DEF OfHalf
  <2>6. g.kind \in {"wait", "record"} \/ OnDemand(g) \/ OfHalf(g)
    BY <1>2 DEF Ops, OnDemand, OfHalf
  <2> QED
    BY <2>2, <2>4, <2>5, <2>6
<1> QED
  BY <1>2, <1>3, <1>4, <1>5

-----------------------------------------------------------------------------
(* What a step of the device does to the bytes.                            *)

LEMMA FillEffect ==
    ASSUME IInv, FillHalf
    PROVE  LET l == Head(Copy).arg.layer   rows == Head(Copy).arg.rows
           IN /\ l \in Layers /\ l \in Nat /\ Half(l) \in Halves /\ rows \subseteq Experts
              /\ \A b \in Halves : BufferSlots(b) \subseteq Slots
              /\ Slots' = Slots
              /\ \A k \in Banks, e \in Experts : k \in SmallBanks \/ e \in rows =>
                   bytes'[k][Row(Half(l), e)] = <<l, e>>
              /\ \A k \in Banks, e \in Experts : k \notin SmallBanks /\ e \notin rows =>
                   bytes'[k][Row(Half(l), e)] = bytes[k][Row(Half(l), e)]
              /\ \A k \in Banks, s \in Slots : s \notin BufferSlots(Half(l)) =>
                   bytes'[k][s] = bytes[k][s] /\ idOfSlot'[s] = idOfSlot[s]
              /\ \A s \in BufferSlots(Half(l)) : idOfSlot'[s] = None
<1> DEFINE l == Head(Copy).arg.layer   rows == Head(Copy).arg.rows   B == BufferSlots(Half(l))
           Hit(k, s) == \E e \in Experts : s = Row(Half(l), e) /\ (k \in SmallBanks \/ e \in rows)
           val(s) == <<l, s - Row(Half(l), 0)>>
<1>1. TypeOK /\ Copy # << >> /\ Head(Copy).kind = "fill"
  BY DEF IInv, FillHalf, AtHead, Runnable, Copy
<1>2. 1 \in DOMAIN Copy /\ Head(Copy) = Copy[1]
  BY <1>1, QueueFacts, TailFacts
<1>3. l \in Layers /\ l \in Nat /\ Half(l) \in Halves /\ rows \subseteq Experts
  BY <1>1, <1>2, OpFacts, HalfType
<1>4. B \subseteq Slots /\ \A b \in Halves : BufferSlots(b) \subseteq Slots
  <2>1. overlap
    BY <1>1, <1>2 DEF IInv, QueueInv, StreamsFit
  <2> QED
    BY <1>1, <1>3, <2>1, SlotFacts
<1>5. /\ bytes' = [k \in Banks |-> [s \in Slots |-> IF Hit(k, s) THEN val(s) ELSE bytes[k][s]]]
      /\ idOfSlot' = [s \in Slots |-> IF s \in B THEN None ELSE idOfSlot[s]]
  BY DEF FillHalf, Disown, Copy
<1>6. Slots' = Slots
  BY <1>5 DEF Slots
<1>7. \A e \in Experts : Row(Half(l), e) \in B /\ val(Row(Half(l), e)) = <<l, e>>
  BY <1>3, BufferFacts
<1>8. \A k \in Banks, e \in Experts : Hit(k, Row(Half(l), e)) <=> k \in SmallBanks \/ e \in rows
  BY <1>3, HalvesDisjoint
<1>9. \A k, s : Hit(k, s) => s \in B
  BY <1>7
<1> HIDE DEF l, rows, B, Hit, val
<1>10. \A k \in Banks, e \in Experts : k \in SmallBanks \/ e \in rows =>
         bytes'[k][Row(Half(l), e)] = <<l, e>>
  BY <1>4, <1>5, <1>7, <1>8
<1>11. \A k \in Banks, e \in Experts : k \notin SmallBanks /\ e \notin rows =>
         bytes'[k][Row(Half(l), e)] = bytes[k][Row(Half(l), e)]
  BY <1>4, <1>5, <1>7, <1>8
<1>12. \A k \in Banks, s \in Slots : s \notin B =>
         bytes'[k][s] = bytes[k][s] /\ idOfSlot'[s] = idOfSlot[s]
  BY <1>5, <1>9
<1>13. \A s \in B : idOfSlot'[s] = None
  BY <1>4, <1>5
<1> QED
  BY <1>3, <1>4, <1>6, <1>10, <1>11, <1>12, <1>13 DEF l, rows, B

LEMMA GatherEffect ==
    ASSUME IInv, GatherHits
    PROVE  LET l == Head(Compute).arg
           IN /\ l \in Layers /\ l \in Nat /\ Half(l) \in Halves
              /\ Slots' = Slots /\ UNCHANGED <<idOfSlot, slotForId>>
              /\ \A k \in Banks, e \in Experts : k \notin SmallBanks /\ IsHit(<<l, e>>) =>
                   bytes'[k][Row(Half(l), e)] = <<l, e>>
              /\ \A k \in Banks, e \in Experts :
                   (k \in SmallBanks \/ ~ IsHit(<<l, e>>)) /\ Row(Half(l), e) \in Slots =>
                     bytes'[k][Row(Half(l), e)] = bytes[k][Row(Half(l), e)]
              /\ \A k \in Banks, s \in Slots : s \notin BufferSlots(Half(l)) =>
                   bytes'[k][s] = bytes[k][s]
              /\ (\A b \in Halves : BufferSlots(b) \subseteq Slots) \/ bytes' = bytes
<1> DEFINE l == Head(Compute).arg
           hits == {e \in Experts : IsHit(<<l, e>>)}
           Hit(k, s) == k \notin SmallBanks /\ \E e \in hits : s = Row(Half(l), e)
           from(s) == slotForId[<<l, s - Row(Half(l), 0)>>]
<1>1. TypeOK /\ Compute # << >> /\ Head(Compute).kind = "gather"
  BY DEF IInv, GatherHits, AtHead, Runnable, Compute
<1>2. 1 \in DOMAIN Compute /\ Head(Compute) = Compute[1]
  BY <1>1, QueueFacts, TailFacts
<1>3. l \in Layers /\ l \in Nat /\ Half(l) \in Halves
  BY <1>1, <1>2, OpFacts, HalfType DEF OfHalf
<1>4. bytes' = [k \in Banks |-> [s \in Slots |->
                   IF Hit(k, s) THEN bytes[k][from(s)] ELSE bytes[k][s]]]
  BY DEF GatherHits, Compute
<1>5. UNCHANGED <<idOfSlot, slotForId>> /\ Slots' = Slots
  BY DEF GatherHits, Slots
<1>6. \A e \in Experts : Row(Half(l), e) \in BufferSlots(Half(l)) /\ from(Row(Half(l), e)) = slotForId[<<l, e>>]
  BY <1>3, BufferFacts
<1>7. \A k \in Banks, e \in Experts : Hit(k, Row(Half(l), e)) <=> k \notin SmallBanks /\ IsHit(<<l, e>>)
  <2> SUFFICES ASSUME NEW e \in Experts
               PROVE  (\E f \in hits : Row(Half(l), e) = Row(Half(l), f)) <=> e \in hits
    OBVIOUS
  <2>1. \A f \in hits : f \in Experts
    OBVIOUS
  <2> HIDE DEF l, hits
  <2> QED
    BY <1>3, <2>1, HalvesDisjoint
<1>8. ASSUME NEW e \in Experts, IsHit(<<l, e>>)
      PROVE  /\ \A b \in Halves : BufferSlots(b) \subseteq Slots
             /\ Row(Half(l), e) \in Slots
             /\ \A k \in Banks : bytes[k][slotForId[<<l, e>>]] = <<l, e>>
  <2>1. <<l, e>> \in Ids
    BY <1>3 DEF Ids
  <2>2. /\ slotForId[<<l, e>>] \in Slots /\ slotForId[<<l, e>>] >= Volatile
        /\ \A k \in Banks : bytes[k][slotForId[<<l, e>>]] = <<l, e>>
    BY <1>8, <2>1, HitFacts
  <2> QED
    BY <1>1, <1>3, <1>6, <2>2, RowsAreSlots
<1>9. \A k, s : Hit(k, s) => s \in BufferSlots(Half(l))
  BY <1>6
<1> HIDE DEF l, Hit, from
<1>10. \A k \in Banks, e \in Experts : k \notin SmallBanks /\ IsHit(<<l, e>>) =>
         bytes'[k][Row(Half(l), e)] = <<l, e>>
  BY <1>4, <1>6, <1>7, <1>8
<1>11. \A k \in Banks, e \in Experts :
         (k \in SmallBanks \/ ~ IsHit(<<l, e>>)) /\ Row(Half(l), e) \in Slots =>
           bytes'[k][Row(Half(l), e)] = bytes[k][Row(Half(l), e)]
  BY <1>4, <1>7
<1>12. \A k \in Banks, s \in Slots : s \notin BufferSlots(Half(l)) => bytes'[k][s] = bytes[k][s]
  BY <1>4, <1>9
<1>13. (\A b \in Halves : BufferSlots(b) \subseteq Slots) \/ bytes' = bytes
  <2> SUFFICES ASSUME ~ \A b \in Halves : BufferSlots(b) \subseteq Slots
               PROVE  bytes' = bytes
    OBVIOUS
  <2>1. \A k, s : ~ Hit(k, s)
    BY <1>8 DEF Hit
  <2>2. bytes \in [Banks -> [Slots -> Ids \union {None}]]
    BY <1>1 DEF TypeOK
  <2>3. bytes' = [k \in Banks |-> [s \in Slots |-> bytes[k][s]]]
    BY <1>4, <2>1
  <2>4. \A k \in Banks : bytes[k] = [s \in Slots |-> bytes[k][s]]
    BY <2>2
  <2> QED
    BY <2>2, <2>3, <2>4
<1> QED
  BY <1>3, <1>5, <1>10, <1>11, <1>12, <1>13 DEF l

(* A load writes a slot with the expert it enters in the map, and a route  *)
(* it rewrites is to a slot it wrote or one it found the expert in.        *)
LEMMA LoadEffect ==
    ASSUME IInv, Load
    PROVE  LET l == Head(Compute).arg.layer
           IN /\ l \in Layers /\ Slots' = Slots
              /\ \A k \in Banks, s \in Slots :
                   \/ bytes'[k][s] = idOfSlot'[s]
                   \/ bytes'[k][s] = bytes[k][s] /\ idOfSlot'[s] = idOfSlot[s]
              /\ \A e \in DOMAIN routed' : routed'[e] # None =>
                   /\ routed'[e] \in Slots
                   /\ \/ \A k \in Banks : bytes'[k][routed'[e]] = <<l, e>>
                      \/ /\ idOfSlot[routed'[e]] = <<l, e>>
                         /\ \A k \in Banks : bytes'[k][routed'[e]] = bytes[k][routed'[e]]
<1> DEFINE l == Head(queue["compute"]).arg.layer
           active == Head(queue["compute"]).arg.active
           missing == {e \in active : slotForId[<<l, e>>] = None}
           many == Min({Head(queue["compute"]).arg.cap, Cardinality(missing)})
           victims == Victims(l, active, many)
           NewSlot(new, e) == CHOOSE s \in victims : new[s] = e
           At(new, i) ==
             IF i[1] = l /\ \E s \in victims : new[s] = i[2] THEN NewSlot(new, i[2])
             ELSE IF slotForId[i] \in victims THEN None ELSE slotForId[i]
<1>1. TypeOK /\ ResidencyIsTrue /\ queue["compute"] # << >> /\ Head(queue["compute"]).kind = "load"
  BY DEF IInv, Load, AtHead, Runnable
<1>2. PICK new \in Injection(victims, missing) :
        /\ idOfSlot' = [s \in Slots |-> IF s \in victims THEN <<l, new[s]>> ELSE idOfSlot[s]]
        /\ bytes' = [k \in Banks |-> [s \in Slots |->
             IF s \in victims THEN <<l, new[s]>> ELSE bytes[k][s]]]
        /\ routed' = [e \in active |-> At(new, <<l, e>>)]
  BY DEF Load
<1>3. l \in Layers /\ active \subseteq Experts
  BY <1>1, HeadFacts, ArgTypes DEF Streams
<1>4. victims \subseteq Slots
  BY DEF Victims
<1>5. \A s, t \in victims : new[s] = new[t] => s = t
  BY <1>2 DEF Injection, IsInjective
<1>6. \A s \in victims : NewSlot(new, new[s]) = s
  BY <1>5
<1> HIDE DEF l, active, missing, victims, many, NewSlot
<1>7. Slots' = Slots
  BY <1>2 DEF Slots
<1>8. ASSUME NEW e \in active, routed'[e] # None
      PROVE  /\ routed'[e] \in Slots
             /\ \/ \A k \in Banks : bytes'[k][routed'[e]] = <<l, e>>
                \/ /\ idOfSlot[routed'[e]] = <<l, e>>
                   /\ \A k \in Banks : bytes'[k][routed'[e]] = bytes[k][routed'[e]]
  <2> DEFINE i == <<l, e>>
  <2>1. i \in Ids /\ i[1] = l /\ i[2] = e
    BY <1>3 DEF Ids
  <2>2. routed'[e] = At(new, i)
    BY <1>2
  <2>3. CASE \E s \in victims : new[s] = e
    <3>1. PICK s \in victims : new[s] = e
      BY <2>3
    <3>2. routed'[e] = s
      BY <1>6, <2>1, <2>2, <3>1
    <3> QED
      BY <1>2, <1>4, <3>1, <3>2
  <2>4. CASE ~ \E s \in victims : new[s] = e
    <3>1. routed'[e] = IF slotForId[i] \in victims THEN None ELSE slotForId[i]
      BY <2>1, <2>2, <2>4
    <3> HIDE DEF i
    <3>2. routed'[e] = slotForId[i] /\ slotForId[i] \notin victims /\ slotForId[i] # None
      BY <1>8, <3>1
    <3>3. slotForId[i] \in Slots /\ idOfSlot[slotForId[i]] = i
      BY <1>1, <2>1, <3>2 DEF ResidencyIsTrue, TypeOK
    <3> QED
      BY <1>2, <3>2, <3>3 DEF i
  <2> QED
    BY <2>3, <2>4
<1>9. \A k \in Banks, s \in Slots :
        \/ bytes'[k][s] = idOfSlot'[s]
        \/ bytes'[k][s] = bytes[k][s] /\ idOfSlot'[s] = idOfSlot[s]
  BY <1>2
<1> QED
  BY <1>2, <1>3, <1>7, <1>8, <1>9 DEF l, Compute

LEMMA MaterializeEffect ==
    ASSUME IInv, Materialize
    PROVE  LET l == Head(Compute).arg
           IN /\ l \in Layers /\ Slots' = Slots /\ routed' = routed
              /\ \A k \in Banks, s \in Slots :
                   \/ bytes'[k][s] = idOfSlot'[s]
                   \/ idOfSlot'[s] = None
                   \/ bytes'[k][s] = bytes[k][s] /\ idOfSlot'[s] = idOfSlot[s]
              /\ \A k \in Banks, e \in Experts : bytes'[k][Row(0, e)] = <<l, e>>
<1> DEFINE l == Head(Compute).arg   front == BufferSlots(0)
           SameLayer(s) == idOfSlot[s] # None /\ idOfSlot[s][1] = l
<1>1. TypeOK /\ queue["compute"] # << >> /\ Head(Compute).kind = "materialize"
  BY DEF IInv, Materialize, AtHead, Runnable, Compute
<1>2. /\ idOfSlot' = [s \in Slots |->
           IF s \in front THEN <<l, s>> ELSE IF SameLayer(s) THEN None ELSE idOfSlot[s]]
      /\ bytes' = [k \in Banks |-> [s \in Slots |->
           IF s \in front THEN <<l, s>> ELSE bytes[k][s]]]
      /\ routed' = routed
  BY DEF Materialize, Compute
<1>3. l \in Layers /\ front = Experts /\ front \subseteq Slots
  <2>1. l \in Layers
    BY <1>1, HeadFacts, ArgTypes DEF Streams, Compute
  <2> QED
    BY <1>1, <2>1, FrontFacts, SlotFacts
<1> HIDE DEF l, front, SameLayer
<1>4. Slots' = Slots
  BY <1>2 DEF Slots
<1>5. \A k \in Banks, s \in Slots :
        \/ bytes'[k][s] = idOfSlot'[s]
        \/ idOfSlot'[s] = None
        \/ bytes'[k][s] = bytes[k][s] /\ idOfSlot'[s] = idOfSlot[s]
  BY <1>2
<1>6. \A k \in Banks, e \in Experts : bytes'[k][Row(0, e)] = <<l, e>>
  BY <1>2, <1>3, RowFacts
<1> QED
  BY <1>2, <1>3, <1>4, <1>5, <1>6 DEF l

-----------------------------------------------------------------------------
(* What the GEMMs over slots find.                                         *)

LoadsInv == HeadLoaded /\ ResidencyForLoads

(* A half stays disturbed until the copy into it is done.                  *)
LEMMA DisturbedKept ==
    ASSUME \A i \in DOMAIN Compute' : Loading(Compute'[i]) =>
             (\E j \in DOMAIN Compute : Compute[j] = Compute'[i]) \/ Compute'[i].batch = batches,
           \A c \in DOMAIN Copy : Copy[c].batch <= batches,
           NEW s,
           \A c \in DOMAIN Copy :
             Copy[c].kind = "fill" /\ s \in BufferSlots(Half(Copy[c].arg.layer)) =>
               \E d \in DOMAIN Copy' : Copy'[d] = Copy[c],
           Disturbed(s)
    PROVE  Disturbed(s)'
<1>1. PICK c \in DOMAIN Copy :
        /\ Copy[c].kind = "fill" /\ s \in BufferSlots(Half(Copy[c].arg.layer))
        /\ \A i \in DOMAIN Compute : Loading(Compute[i]) => Compute[i].batch >= Copy[c].batch
  BY DEF Disturbed
<1>2. PICK d \in DOMAIN Copy' : Copy'[d] = Copy[c]
  BY <1>1
<1>3. \A i \in DOMAIN Compute' : Loading(Compute'[i]) => Compute'[i].batch >= Copy'[d].batch
  <2> SUFFICES ASSUME NEW i \in DOMAIN Compute', Loading(Compute'[i])
               PROVE  Compute'[i].batch >= Copy'[d].batch
    OBVIOUS
  <2>1. CASE \E j \in DOMAIN Compute : Compute[j] = Compute'[i]
    BY <1>1, <1>2, <2>1
  <2>2. CASE Compute'[i].batch = batches
    BY <1>2, <2>2
  <2> QED
    BY <2>1, <2>2
<1> QED
  BY <1>1, <1>2, <1>3 DEF Disturbed, BufferSlots, Half, Row, Loading

(* A step that changes no byte but of slots the maps name rightly.         *)
LEMMA ResidencyForLoadsKept ==
    ASSUME ResidencyForLoads,
           \A i \in DOMAIN Compute' : Loading(Compute'[i]) =>
             (\E j \in DOMAIN Compute : Compute[j] = Compute'[i]) \/ Compute'[i].batch = batches,
           \A c \in DOMAIN Copy : Copy[c].batch <= batches,
           \A c \in DOMAIN Copy : Copy[c].kind = "fill" => \E d \in DOMAIN Copy' : Copy'[d] = Copy[c],
           Slots' = Slots,
           \A k \in Banks, s \in Slots :
             \/ bytes'[k][s] = idOfSlot'[s]
             \/ idOfSlot'[s] = None
             \/ bytes'[k][s] = bytes[k][s] /\ idOfSlot'[s] = idOfSlot[s]
    PROVE  ResidencyForLoads'
<1> SUFFICES ASSUME NEW s \in Slots, idOfSlot'[s] # None, ~ Disturbed(s)', NEW k \in Banks
             PROVE  bytes'[k][s] = idOfSlot'[s]
  BY DEF ResidencyForLoads
<1>1. ~ Disturbed(s)
  BY DisturbedKept
<1> QED
  BY <1>1 DEF ResidencyForLoads

LEMMA ResidencyForLoadsAfterFill ==
    ASSUME IInv, ResidencyForLoads, FillHalf
    PROVE  ResidencyForLoads'
<1> DEFINE B == BufferSlots(Half(Head(Copy).arg.layer))
<1>1. /\ TypeOK /\ Copy # << >> /\ Pop("copy")
      /\ \A c \in DOMAIN Copy : Copy[c].batch <= batches
  BY DEF IInv, QueueInv, BatchesInOrder, FillHalf, AtHead, Runnable, Copy
<1>2. /\ Slots' = Slots
      /\ \A k \in Banks, s \in Slots : s \notin B => bytes'[k][s] = bytes[k][s] /\ idOfSlot'[s] = idOfSlot[s]
      /\ \A s \in B : idOfSlot'[s] = None
  BY FillEffect
<1> SUFFICES ASSUME NEW s \in Slots, idOfSlot'[s] # None, ~ Disturbed(s)', NEW k \in Banks
             PROVE  bytes'[k][s] = idOfSlot'[s]
  BY <1>2 DEF ResidencyForLoads
<1>3. s \notin B
  BY <1>2
<1>4. ~ Disturbed(s)
  <2>1. /\ 1 \in DOMAIN Copy /\ Head(Copy) = Copy[1] /\ Compute' = Compute
        /\ \A c \in DOMAIN Copy : c # 1 => c - 1 \in DOMAIN Copy' /\ Copy'[c - 1] = Copy[c]
    BY <1>1, PopCopy
  <2>2. \A c \in DOMAIN Copy :
          Copy[c].kind = "fill" /\ s \in BufferSlots(Half(Copy[c].arg.layer)) =>
            \E d \in DOMAIN Copy' : Copy'[d] = Copy[c]
    BY <1>3, <2>1
  <2> QED
    BY <1>1, <2>1, <2>2, DisturbedKept
<1> QED
  BY <1>2, <1>3, <1>4 DEF ResidencyForLoads

LEMMA ResidencyForLoadsAfterGather ==
    ASSUME IInv, OrderInv, ResidencyForLoads, GatherHits
    PROVE  ResidencyForLoads'
<1> DEFINE l == Head(Compute).arg   n == Head(Compute).batch   B == BufferSlots(Half(l))
<1>1. /\ TypeOK /\ Compute # << >> /\ Pop("compute") /\ Head(Compute).kind = "gather"
      /\ \A c \in DOMAIN Copy : Copy[c].batch <= batches
  BY DEF IInv, QueueInv, BatchesInOrder, GatherHits, AtHead, Runnable, Compute
<1>2. /\ Slots' = Slots /\ UNCHANGED idOfSlot
      /\ \A k \in Banks, s \in Slots : s \notin B => bytes'[k][s] = bytes[k][s]
  BY GatherEffect
<1>3. /\ 1 \in DOMAIN Compute /\ Head(Compute) = Compute[1] /\ Copy' = Copy
      /\ \A i \in DOMAIN Compute' :
           i \in Nat \ {0} /\ i + 1 \in DOMAIN Compute /\ Compute'[i] = Compute[i + 1]
  BY <1>1, PopCompute
<1> SUFFICES ASSUME NEW s \in Slots, idOfSlot'[s] # None, ~ Disturbed(s)', NEW k \in Banks
             PROVE  bytes'[k][s] = idOfSlot'[s]
  BY <1>2 DEF ResidencyForLoads
<1>4. ~ Disturbed(s)
  BY <1>1, <1>3, DisturbedKept
<1>5. CASE s \in B
  <2>1. Filling(l, n)
    <3>1. Filling(l, n) \/ \A t \in Slots : t \in B => idOfSlot[t] = None
      BY <1>1, <1>3 DEF IInv, GathersCovered
    <3> QED
      BY <1>2, <1>5, <3>1
  <2>2. PICK c \in DOMAIN Copy : Copy[c].kind = "fill" /\ Copy[c].arg.layer = l /\ Copy[c].batch = n
    BY <2>1 DEF Filling
  <2>3. \A i \in DOMAIN Compute' : Compute'[i].batch >= n
    <3> SUFFICES ASSUME NEW i \in DOMAIN Compute'
                 PROVE  Compute'[i].batch >= n
      OBVIOUS
    <3>1. 1 < i + 1 /\ i + 1 \in DOMAIN Compute /\ Compute'[i] = Compute[i + 1]
      BY <1>3
    <3>2. Compute[1].batch <= Compute[i + 1].batch
      BY <1>3, <3>1 DEF OrderInv, ComputeInOrder
    <3>3. Compute[1].batch \in Nat /\ Compute[i + 1].batch \in Nat
      BY <1>1, <1>3, <3>1, OpFacts
    <3> QED
      BY <1>3, <3>1, <3>2, <3>3
  <2>4. Disturbed(s)'
    <3>1. /\ c \in DOMAIN Copy' /\ Copy'[c].kind = "fill" /\ s \in BufferSlots(Half(Copy'[c].arg.layer))
          /\ \A i \in DOMAIN Compute' : Loading(Compute'[i]) => Compute'[i].batch >= Copy'[c].batch
      BY <1>3, <1>5, <2>2, <2>3
    <3> QED
      BY <3>1 DEF Disturbed, BufferSlots, Half, Row, Loading
  <2> QED
    BY <2>4
<1>6. CASE s \notin B
  BY <1>2, <1>4, <1>6 DEF ResidencyForLoads
<1> QED
  BY <1>5, <1>6

LEMMA HeadOfNext ==
    ASSUME IInv'
    PROVE  Compute' # << >> => 1 \in DOMAIN Compute' /\ Head(Compute') = Compute'[1]
<1>1. Compute' \in Seq(Ops)
  <2>1. queue' \in [Streams -> Seq(Ops)']
    BY DEF IInv, TypeOK
  <2>2. Ops' = Ops
    BY DEF Ops, Events
  <2> QED
    BY <2>1, <2>2 DEF Compute, Streams
<1> QED
  BY <1>1, TailFacts

(* The head stays, or it is no GEMM over slots.                            *)
LEMMA HeadLoadedKept ==
    ASSUME HeadLoaded, IInv, IInv', UNCHANGED <<bytes, routed>>,
           \A i \in DOMAIN Compute' :
             \/ i \in DOMAIN Compute /\ Compute'[i] = Compute[i]
             \/ i = 1 => Compute'[i].kind \notin {"front_gemm", "slot_gemm"}
    PROVE  HeadLoaded'
<1> SUFFICES ASSUME Compute' # << >>
             PROVE  LET op == Head(Compute')
                    IN /\ op.kind = "front_gemm" =>
                            \A k \in Banks, e \in Experts : bytes'[k][Row(0, e)] = <<op.arg, e>>
                       /\ op.kind = "slot_gemm" =>
                            \A k \in Banks, e \in DOMAIN routed' : routed'[e] # None =>
                                bytes'[k][routed'[e]] = <<op.arg, e>>
  BY DEF HeadLoaded, Row
<1>1. 1 \in DOMAIN Compute' /\ Head(Compute') = Compute'[1]
  BY HeadOfNext
<1>2. CASE 1 \in DOMAIN Compute /\ Compute'[1] = Compute[1]
  <2>1. Compute # << >> /\ Head(Compute) = Compute[1]
    <3>1. DOMAIN Compute # {} /\ Compute \in Seq(Ops)
      BY <1>2, QueueFacts DEF IInv
    <3>2. Compute # << >>
      BY <3>1
    <3> QED
      BY <3>1, <3>2, TailFacts
  <2> QED
    BY <1>1, <1>2, <2>1 DEF HeadLoaded
<1>3. CASE Compute'[1].kind \notin {"front_gemm", "slot_gemm"}
  BY <1>1, <1>3
<1> QED
  BY <1>1, <1>2, <1>3

LEMMA HeadAfterCompute ==
    ASSUME IInv, OrderInv, IInv', Compute # << >>, Pop("compute"), Compute' # << >>
    PROVE  /\ Head(Compute').kind = "front_gemm" =>
                Head(Compute).kind = "materialize" /\ Head(Compute).arg = Head(Compute').arg
           /\ Head(Compute').kind = "slot_gemm" =>
                Head(Compute).kind = "load" /\ Head(Compute).arg.layer = Head(Compute').arg
<1>1. 1 \in DOMAIN Compute' /\ Head(Compute') = Compute'[1]
  BY HeadOfNext
<1>2. /\ Head(Compute) = Compute[1]
      /\ 1 + 1 \in DOMAIN Compute /\ Compute'[1] = Compute[1 + 1]
  BY <1>1, PopCompute DEF IInv
<1>3. 2 \in DOMAIN Compute /\ Head(Compute') = Compute[2] /\ 2 > 1 /\ 2 - 1 = 1
  BY <1>1, <1>2
<1> QED
  BY <1>2, <1>3 DEF OrderInv, GemmsFollow

LEMMA HeadLoadedAfterCompute ==
    ASSUME IInv, OrderInv, LoadsInv, IInv', Runnable("compute"), Pop("compute"),
           Head(Compute).kind = "load" => Load,
           Head(Compute).kind = "materialize" => Materialize
    PROVE  HeadLoaded'
<1>0. TypeOK /\ Compute # << >>
  BY DEF IInv, Runnable, Compute
<1> SUFFICES ASSUME Compute' # << >>, NEW op, op = Head(Compute')
             PROVE  /\ op.kind = "front_gemm" =>
                            \A k \in Banks, e \in Experts : bytes'[k][Row(0, e)] = <<op.arg, e>>
                    /\ op.kind = "slot_gemm" =>
                            \A k \in Banks, e \in DOMAIN routed' : routed'[e] # None =>
                                bytes'[k][routed'[e]] = <<op.arg, e>>
  BY DEF HeadLoaded, Row
<1>1. /\ op.kind = "front_gemm" =>
           Head(Compute).kind = "materialize" /\ Head(Compute).arg = op.arg
      /\ op.kind = "slot_gemm" =>
           Head(Compute).kind = "load" /\ Head(Compute).arg.layer = op.arg
  BY <1>0, HeadAfterCompute
<1>2. ASSUME op.kind = "front_gemm"
      PROVE  \A k \in Banks, e \in Experts : bytes'[k][Row(0, e)] = <<op.arg, e>>
  BY <1>1, <1>2, MaterializeEffect
<1>3. ASSUME op.kind = "slot_gemm", NEW k \in Banks, NEW e \in DOMAIN routed', routed'[e] # None
      PROVE  bytes'[k][routed'[e]] = <<op.arg, e>>
  <2> DEFINE s == routed'[e]
  <2>1. Load /\ Head(Compute).kind = "load" /\ Head(Compute).arg.layer = op.arg
    BY <1>1, <1>3
  <2>2. /\ s \in Slots
        /\ \/ \A j \in Banks : bytes'[j][s] = <<op.arg, e>>
           \/ idOfSlot[s] = <<op.arg, e>> /\ \A j \in Banks : bytes'[j][s] = bytes[j][s]
    BY <1>3, <2>1, LoadEffect
  <2>3. ~ Disturbed(s)
    <3> SUFFICES ASSUME NEW c \in DOMAIN Copy, Copy[c].kind = "fill",
                        \A i \in DOMAIN Compute : Loading(Compute[i]) => Compute[i].batch >= Copy[c].batch
                 PROVE  FALSE
      BY DEF Disturbed
    <3>1. /\ 1 \in DOMAIN Compute /\ Compute[1].kind = "load" /\ Compute[1].batch \in Nat
          /\ Copy[c].batch \in Nat
      BY <1>0, <2>1, PopCompute, OpFacts
    <3>2. Compute[1].batch # Copy[c].batch
      BY <3>1 DEF OrderInv, BatchesOfOneKind, OnDemand
    <3>3. Copy[c].batch < Compute[1].batch
      BY <3>1, <3>2 DEF Loading
    <3>4. Sync("copy", c, "compute", 1)
      BY <3>1, <3>3 DEF OrderInv, StreamsOrdered, CopyFirst, Touches
    <3> QED
      BY <1>0, <3>4, HeadIsFree DEF Streams
  <2>4. <<op.arg, e>> # None
    <3>1. op.arg \in Layers /\ e \in Experts
      <4>1. \A f \in DOMAIN routed' : f \in Experts
        BY DEF IInv, TypeOK
      <4> QED
        BY <1>3, <2>1, <4>1, LoadEffect
    <3> QED
      BY <3>1, NoneFacts DEF Ids
  <2> HIDE DEF s
  <2>5. idOfSlot[s] = <<op.arg, e>> => bytes[k][s] = <<op.arg, e>>
    BY <2>2, <2>3, <2>4 DEF LoadsInv, ResidencyForLoads
  <2> QED
    BY <2>2, <2>5 DEF s
<1> QED
  BY <1>2, <1>3

LEMMA HeadLoadedAfterFill ==
    ASSUME IInv, OrderInv, HeadLoaded, FillHalf, IInv'
    PROVE  HeadLoaded'
<1>1. /\ TypeOK /\ Runnable("copy") /\ Copy # << >> /\ Head(Copy).kind = "fill" /\ Pop("copy")
      /\ routed' = routed
  BY DEF IInv, FillHalf, AtHead, Runnable, Copy
<1>2. 1 \in DOMAIN Copy /\ Head(Copy) = Copy[1] /\ Compute' = Compute
  BY <1>1, PopCopy
<1>3. ASSUME Compute # << >>, Head(Compute).kind \in {"front_gemm", "slot_gemm"}
      PROVE  FALSE
  <2>1. Runnable("compute")
    BY <1>3 DEF Runnable, Compute
  <2>2. /\ 1 \in DOMAIN Compute /\ Head(Compute) = Compute[1]
        /\ ~ ComputeFirst(Head(Compute), Head(Copy)) /\ ~ CopyFirst(Head(Copy), Head(Compute))
    BY <1>1, <2>1, HeadsAreFree
  <2>3. Compute[1].batch # Copy[1].batch
    BY <1>1, <1>2, <1>3, <2>2 DEF OrderInv, BatchesOfOneKind, OnDemand
  <2>4. Compute[1].batch \in Nat /\ Copy[1].batch \in Nat
    BY <1>1, <1>2, <2>2, OpFacts
  <2> QED
    BY <1>1, <1>2, <1>3, <2>2, <2>3, <2>4 DEF ComputeFirst, CopyFirst, Touches
<1> QED
  BY <1>2, <1>3 DEF HeadLoaded

LEMMA LoadsAfterHost ==
    ASSUME IInv, IInv', LoadsInv, UNCHANGED <<bytes, routed, idOfSlot>>,
           \A i \in DOMAIN Compute' :
             \/ i \in DOMAIN Compute /\ Compute'[i] = Compute[i]
             \/ /\ Compute'[i].batch = batches
                /\ i = 1 => Compute'[i].kind \notin {"front_gemm", "slot_gemm"},
           \A c \in DOMAIN Copy : Copy[c].kind = "fill" => \E d \in DOMAIN Copy' : Copy'[d] = Copy[c]
    PROVE  LoadsInv'
<1>1. HeadLoaded'
  BY HeadLoadedKept DEF LoadsInv
<1>2. ResidencyForLoads'
  <2>1. \A i \in DOMAIN Compute' : Loading(Compute'[i]) =>
          (\E j \in DOMAIN Compute : Compute[j] = Compute'[i]) \/ Compute'[i].batch = batches
    OBVIOUS
  <2>2. \A c \in DOMAIN Copy : Copy[c].batch <= batches
    BY DEF IInv, QueueInv, BatchesInOrder
  <2>3. /\ Slots' = Slots
        /\ \A k \in Banks, s \in Slots : bytes'[k][s] = bytes[k][s] /\ idOfSlot'[s] = idOfSlot[s]
    BY DEF Slots
  <2> QED
    BY <2>1, <2>2, <2>3, ResidencyForLoadsKept DEF LoadsInv
<1> QED
  BY <1>1, <1>2 DEF LoadsInv

LEMMA LoadsAfterCompute ==
    ASSUME IInv, OrderInv, LoadsInv, IInv', Runnable("compute"), Pop("compute"),
           Head(Compute).kind = "load" => Load,
           Head(Compute).kind = "materialize" => Materialize,
           GatherHits \/ Load \/ Materialize \/ UNCHANGED <<bytes, idOfSlot>>
    PROVE  LoadsInv'
<1>0. TypeOK /\ Compute # << >> /\ \A c \in DOMAIN Copy : Copy[c].batch <= batches
  BY DEF IInv, QueueInv, BatchesInOrder, Runnable, Compute
<1>1. HeadLoaded'
  BY HeadLoadedAfterCompute
<1>2. /\ \A i \in DOMAIN Compute' : Loading(Compute'[i]) =>
           (\E j \in DOMAIN Compute : Compute[j] = Compute'[i]) \/ Compute'[i].batch = batches
      /\ \A c \in DOMAIN Copy : Copy[c].kind = "fill" => \E d \in DOMAIN Copy' : Copy'[d] = Copy[c]
  <2>1. /\ Copy' = Copy
        /\ \A i \in DOMAIN Compute' : i + 1 \in DOMAIN Compute /\ Compute'[i] = Compute[i + 1]
    BY <1>0, PopCompute
  <2> QED
    BY <2>1
<1>3. CASE GatherHits
  BY <1>1, <1>3, ResidencyForLoadsAfterGather DEF LoadsInv
<1>4. CASE Load
  <2>1. /\ Slots' = Slots
        /\ \A k \in Banks, s \in Slots :
             \/ bytes'[k][s] = idOfSlot'[s]
             \/ bytes'[k][s] = bytes[k][s] /\ idOfSlot'[s] = idOfSlot[s]
    BY <1>4, LoadEffect
  <2>2. ResidencyForLoads'
    BY <1>0, <1>2, <2>1, ResidencyForLoadsKept DEF LoadsInv
  <2> QED
    BY <1>1, <2>2 DEF LoadsInv
<1>5. CASE Materialize
  <2>1. /\ Slots' = Slots
        /\ \A k \in Banks, s \in Slots :
             \/ bytes'[k][s] = idOfSlot'[s]
             \/ idOfSlot'[s] = None
             \/ bytes'[k][s] = bytes[k][s] /\ idOfSlot'[s] = idOfSlot[s]
    BY <1>5, MaterializeEffect
  <2>2. ResidencyForLoads'
    BY <1>0, <1>2, <2>1, ResidencyForLoadsKept DEF LoadsInv
  <2> QED
    BY <1>1, <2>2 DEF LoadsInv
<1>6. CASE UNCHANGED <<bytes, idOfSlot>>
  <2>1. /\ Slots' = Slots
        /\ \A k \in Banks, s \in Slots : bytes'[k][s] = bytes[k][s] /\ idOfSlot'[s] = idOfSlot[s]
    BY <1>6 DEF Slots
  <2>2. ResidencyForLoads'
    BY <1>0, <1>2, <2>1, ResidencyForLoadsKept DEF LoadsInv
  <2> QED
    BY <1>1, <2>2 DEF LoadsInv
<1> QED
  BY <1>3, <1>4, <1>5, <1>6

LEMMA NextKeepsLoads ==
    ASSUME IInv, OrderInv, LoadsInv, IInv', [Next]_vars
    PROVE  LoadsInv'
<1>0. TypeOK
  BY DEF IInv
<1>1. ASSUME UNCHANGED <<queue, bytes, routed, idOfSlot>>
      PROVE  LoadsInv'
  <2>1. Compute' = Compute /\ Copy' = Copy
    BY <1>1 DEF Compute, Copy
  <2> QED
    BY <1>1, <2>1, LoadsAfterHost
<1>2. CASE BeginPrefill
  <2>1. UNCHANGED <<bytes, routed, idOfSlot>>
    BY <1>2 DEF BeginPrefill, deviceVars
  <2>2. PICK r, w, s \in Ops :
          /\ r.kind = "record" /\ r.batch = batches
          /\ Appends(<<r>>, IF splitting' THEN <<w, s>> ELSE <<w>>)
    BY <1>0, <1>2, BeginFacts
  <2> DEFINE x == <<r>>   y == IF splitting' THEN <<w, s>> ELSE <<w>>
  <2>3. \A k \in DOMAIN x : x[k] = r
    OBVIOUS
  <2>4. Appends(x, y)
    BY <2>2
  <2> HIDE DEF x, y
  <2>5. \A i \in DOMAIN Compute' :
          \/ i \in DOMAIN Compute /\ Compute'[i] = Compute[i]
          \/ \E k \in DOMAIN x : Compute'[i] = x[k]
    BY <1>0, <2>4, AppendKeeps
  <2>6. \A c \in DOMAIN Copy : c \in DOMAIN Copy' /\ Copy'[c] = Copy[c]
    <3>1. /\ Len(Copy) \in Nat /\ DOMAIN Copy = 1 .. Len(Copy) /\ Len(y) \in Nat
          /\ DOMAIN Copy' = 1 .. Len(Copy) + Len(y)
          /\ \A c \in DOMAIN Copy : Copy'[c] = Copy[c]
      BY <1>0, <2>4, AppendFacts
    <3> QED
      BY <3>1
  <2> QED
    BY <2>1, <2>2, <2>3, <2>5, <2>6, LoadsAfterHost
<1>3. CASE StreamLayer
  <2>1. UNCHANGED <<bytes, routed, idOfSlot>>
    BY <1>3 DEF StreamLayer, deviceVars
  <2>2. PICK p :
          /\ \A i \in DOMAIN Compute : Compute'[i] = Compute[i]
          /\ \A i \in DOMAIN Compute' :
               i \in DOMAIN Compute \/ (Compute'[i].batch = batches /\ (NewGather(i, p) \/ NewUse(i, p)))
          /\ \A c \in DOMAIN Copy : c \in DOMAIN Copy' /\ Copy'[c] = Copy[c]
    BY <1>3, StreamSetting
  <2>3. \A i \in DOMAIN Compute' :
          \/ i \in DOMAIN Compute /\ Compute'[i] = Compute[i]
          \/ /\ Compute'[i].batch = batches
             /\ i = 1 => Compute'[i].kind \notin {"front_gemm", "slot_gemm"}
    BY <2>2 DEF NewGather, NewUse
  <2> QED
    BY <2>1, <2>2, <2>3, LoadsAfterHost
<1>4. CASE MaterializeLayer \/ DemandLayer
  <2>1. PICK a, g : LoadedPair(a, g) /\ Appends(<<a, g>>, << >>)
    BY <1>0, <1>4, LoadedLayerAppends
  <2>2. UNCHANGED <<bytes, routed, idOfSlot>>
    BY <1>0, <1>4, LoadedLayerAppends DEF deviceVars
  <2>3. /\ Copy' = Copy /\ Len(Compute) \in Nat
        /\ \A i \in DOMAIN Compute : Compute'[i] = Compute[i]
        /\ Compute'[Len(Compute) + 1] = a /\ Compute'[Len(Compute) + 2] = g
        /\ \A i \in DOMAIN Compute' : i \in Int /\
             (i \in DOMAIN Compute \/ i = Len(Compute) + 1 \/ i = Len(Compute) + 2)
    BY <1>0, <2>1, PairFacts
  <2>4. \A i \in DOMAIN Compute' :
          \/ i \in DOMAIN Compute /\ Compute'[i] = Compute[i]
          \/ /\ Compute'[i].batch = batches
             /\ i = 1 => Compute'[i].kind \notin {"front_gemm", "slot_gemm"}
    <3> SUFFICES ASSUME NEW i \in DOMAIN Compute', i \notin DOMAIN Compute
                 PROVE  /\ Compute'[i].batch = batches
                        /\ i = 1 => Compute'[i].kind \notin {"front_gemm", "slot_gemm"}
      BY <2>3
    <3>1. CASE i = Len(Compute) + 1
      BY <2>1, <2>3, <3>1 DEF LoadedPair
    <3>2. CASE i = Len(Compute) + 2
      <4>1. i # 1
        BY <2>3, <3>2
      <4> QED
        BY <2>1, <2>3, <3>2, <4>1 DEF LoadedPair
    <3> QED
      BY <2>3, <3>1, <3>2
  <2> QED
    BY <2>2, <2>3, <2>4, LoadsAfterHost
<1>5. ASSUME NEW n \in Sizes, Rebuild(n)
      PROVE  LoadsInv'
  <2>1. Compute' = << >> /\ idOfSlot' = [s \in 0 .. n - 1 |-> None]
    BY <1>5 DEF Rebuild, Cold, Compute, Streams
  <2>2. ResidencyForLoads'
    BY <2>1 DEF ResidencyForLoads, Slots
  <2>3. HeadLoaded'
    BY <2>1 DEF HeadLoaded
  <2> QED
    BY <2>2, <2>3 DEF LoadsInv
<1>6. CASE Pass("compute") \/ GatherHits \/ Load \/ Materialize
  <2>1. /\ Runnable("compute") /\ Pop("compute")
        /\ Head(Compute).kind = "load" => Load
        /\ Head(Compute).kind = "materialize" => Materialize
        /\ GatherHits \/ Load \/ Materialize \/ UNCHANGED <<bytes, idOfSlot>>
    BY <1>6 DEF Pass, GatherHits, Load, Materialize, AtHead, deviceVars, Compute
  <2> QED
    BY <2>1, LoadsAfterCompute
<1>7. CASE Pass("copy") \/ TakeSnapshot
  <2>1. /\ Pop("copy") /\ Copy # << >> /\ Head(Copy).kind # "fill"
        /\ UNCHANGED <<bytes, routed, idOfSlot>>
    BY <1>7 DEF Pass, TakeSnapshot, AtHead, Runnable, deviceVars, Copy
  <2>2. /\ Head(Copy) = Copy[1] /\ Compute' = Compute
        /\ \A c \in DOMAIN Copy : c # 1 => c - 1 \in DOMAIN Copy' /\ Copy'[c - 1] = Copy[c]
    BY <1>0, <2>1, PopCopy
  <2>3. \A c \in DOMAIN Copy : Copy[c].kind = "fill" => \E d \in DOMAIN Copy' : Copy'[d] = Copy[c]
    BY <2>1, <2>2
  <2> QED
    BY <2>1, <2>2, <2>3, LoadsAfterHost
<1>8. CASE FillHalf
  BY <1>8, HeadLoadedAfterFill, ResidencyForLoadsAfterFill DEF LoadsInv
<1>9. ASSUME NEW mode, NEW route, StartBatch(mode, route)
      PROVE  LoadsInv'
  BY <1>1, <1>9 DEF StartBatch, deviceVars
<1>10. CASE Finished \/ UNCHANGED vars
  BY <1>1, <1>10 DEF Finished, vars, deviceVars
<1> QED
  BY <1>2, <1>3, <1>4, <1>5, <1>6, <1>7, <1>8, <1>9, <1>10
  DEF Next, Host, Device, Streams

LEMMA InitLoads == Init => LoadsInv
<1> SUFFICES ASSUME Init
             PROVE  LoadsInv
  OBVIOUS
<1>1. Compute = << >> /\ idOfSlot = [s \in 0 .. InitialSize - 1 |-> None]
  BY DEF Init, Compute, Streams
<1> QED
  BY <1>1 DEF LoadsInv, HeadLoaded, ResidencyForLoads, Slots

-----------------------------------------------------------------------------
(* What the GEMM of a streamed layer finds.                                *)

Arrives(n, l, k, e, j) ==
    InRow(n, l, k, e) \/ FillBrings(n, l, k, e) \/ GatherBrings(n, l, k, e, j)

(* Nothing new is from before layer l of batch n.                          *)
Harmless(n, l) ==
    /\ \A i \in DOMAIN Compute' :
         \/ \E h \in DOMAIN Compute : Compute[h] = Compute'[i]
         \/ /\ Compute'[i].kind = "gather" => ~ Earlier(Compute'[i].batch, Compute'[i].arg, n, l)
            /\ Loading(Compute'[i]) => Compute'[i].batch >= n
    /\ \A c \in DOMAIN Copy' :
         \/ \E d \in DOMAIN Copy : Copy[d] = Copy'[c]
         \/ Copy'[c].kind = "fill" => ~ Earlier(Copy'[c].batch, Copy'[c].arg.layer, n, l)

LEMMA SettledKept ==
    ASSUME NEW n, NEW l, Settled(n, l), Harmless(n, l)
    PROVE  Settled(n, l)'
<1>1. ASSUME NEW c \in DOMAIN Copy', Copy'[c].kind = "fill", Half(Copy'[c].arg.layer) = Half(l)
      PROVE  ~ Earlier(Copy'[c].batch, Copy'[c].arg.layer, n, l)
  BY <1>1 DEF Settled, Harmless
<1>2. ASSUME NEW i \in DOMAIN Compute', Compute'[i].kind = "gather", Half(Compute'[i].arg) = Half(l)
      PROVE  ~ Earlier(Compute'[i].batch, Compute'[i].arg, n, l)
  BY <1>2 DEF Settled, Harmless
<1>3. ASSUME NEW i \in DOMAIN Compute', Loading(Compute'[i])
      PROVE  Compute'[i].batch >= n
  BY <1>3 DEF Settled, Harmless
<1> QED
  BY <1>1, <1>2, <1>3 DEF Settled, Earlier, Half, Loading

(* A step that moves no byte and takes away neither copy nor gather.       *)
LEMMA ArrivesKept ==
    ASSUME NEW n, NEW l, NEW k, NEW e, NEW j, NEW m,
           Arrives(n, l, k, e, j), Harmless(n, l),
           UNCHANGED bytes, IsHit(<<l, e>>) => IsHit(<<l, e>>)',
           \A i \in DOMAIN Compute : i < j /\ Compute[i].kind = "gather" =>
             \E h \in DOMAIN Compute' : h < m /\ Compute'[h] = Compute[i],
           \A c \in DOMAIN Copy : Copy[c].kind = "fill" =>
             \E d \in DOMAIN Copy' : Copy'[d] = Copy[c]
    PROVE  Arrives(n, l, k, e, m)'
<1>1. ASSUME InRow(n, l, k, e)
      PROVE  InRow(n, l, k, e)'
  <2>1. Settled(n, l)'
    BY <1>1, SettledKept DEF InRow
  <2> QED
    BY <1>1, <2>1 DEF InRow, Row, Half
<1>2. ASSUME FillBrings(n, l, k, e)
      PROVE  FillBrings(n, l, k, e)'
  BY <1>2 DEF FillBrings
<1>3. ASSUME GatherBrings(n, l, k, e, j)
      PROVE  GatherBrings(n, l, k, e, m)'
  <2>1. PICK i \in DOMAIN Compute :
          i < j /\ Compute[i].kind = "gather" /\ Compute[i].batch = n /\ Compute[i].arg = l
    BY <1>3 DEF GatherBrings
  <2>2. PICK h \in DOMAIN Compute' : h < m /\ Compute'[h] = Compute[i]
    BY <2>1
  <2> QED
    BY <1>3, <2>1, <2>2 DEF GatherBrings
<1> QED
  BY <1>1, <1>2, <1>3 DEF Arrives

LEMMA ComingFacts ==
    ASSUME NEW n \in 0 .. batches, NEW l \in Layers, NEW j \in 1 .. Len(Compute) + 1,
           LayersComing, Uses(n, l, j), NEW k \in Banks, NEW e \in Experts
    PROVE  Arrives(n, l, k, e, j)
  BY DEF LayersComing, Arrives

(* A use after the compute stream ran its head was one a position later.   *)
LEMMA UsesAfterCompute ==
    ASSUME TypeOK, Compute # << >>, Pop("compute"), UNCHANGED hostVars,
           NEW n, NEW l, NEW j \in 1 .. Len(Compute') + 1, Uses(n, l, j)'
    PROVE  Uses(n, l, j + 1) /\ j + 1 \in 1 .. Len(Compute) + 1
<1>1. /\ \A i \in DOMAIN Compute' :
           i \in Nat \ {0} /\ i + 1 \in DOMAIN Compute /\ Compute'[i] = Compute[i + 1]
      /\ Len(Compute') = Len(Compute) - 1 /\ Len(Compute) \in Nat \ {0}
      /\ UNCHANGED <<batch, batches, buffers>>
  <2>1. Compute' = Tail(Compute)
    BY DEF Pop, TypeOK, Compute, Streams
  <2>2. Compute \in Seq(Ops)
    BY QueueFacts
  <2> QED
    BY <2>1, <2>2, PopCompute, TailFacts, HeadTailProperties DEF hostVars
<1>2. j + 1 \in 1 .. Len(Compute) + 1
  BY <1>1
<1>3. CASE j \in DOMAIN Compute' /\ Compute'[j].kind = "layer_gemm"
           /\ Compute'[j].batch = n /\ Compute'[j].arg = l
  <2>1. j + 1 \in DOMAIN Compute /\ Compute'[j] = Compute[j + 1]
    BY <1>1, <1>3
  <2> QED
    BY <1>2, <1>3, <2>1 DEF Uses
<1>4. CASE /\ j = Len(Compute') + 1 /\ batch'.mode = "streaming" /\ batch'.layer = l
           /\ batches' = n /\ buffers'[Half(l)].layer = l
  <2>1. j + 1 = Len(Compute) + 1
    BY <1>1, <1>4
  <2> QED
    BY <1>1, <1>2, <1>4, <2>1 DEF Uses
<1> QED
  BY <1>3, <1>4 DEF Uses, Half

LEMMA PassKeepsComing ==
    ASSUME IInv, LayersComing, Pass("compute")
    PROVE  LayersComing'
<1>1. /\ TypeOK /\ Compute # << >> /\ Pop("compute") /\ Head(Compute).kind # "gather"
      /\ UNCHANGED <<hostVars, bytes, slotForId>> /\ batches' = batches
  BY DEF IInv, Pass, Runnable, Compute, hostVars, deviceVars
<1>2. /\ 1 \in DOMAIN Compute /\ Head(Compute) = Compute[1] /\ Copy' = Copy
      /\ \A i \in DOMAIN Compute' : i + 1 \in DOMAIN Compute /\ Compute'[i] = Compute[i + 1]
      /\ \A i \in DOMAIN Compute :
           i \in Nat \ {0} /\ (i # 1 => i - 1 \in DOMAIN Compute' /\ Compute'[i - 1] = Compute[i])
  BY <1>1, PopCompute
<1> SUFFICES ASSUME NEW l \in Layers, NEW n \in 0 .. batches, NEW j \in 1 .. Len(Compute') + 1,
                    Uses(n, l, j)', NEW k \in Banks, NEW e \in Experts
             PROVE  Arrives(n, l, k, e, j)'
  BY <1>1 DEF LayersComing, Arrives
<1>3. Uses(n, l, j + 1) /\ j + 1 \in 1 .. Len(Compute) + 1
  BY <1>1, UsesAfterCompute
<1>4. Arrives(n, l, k, e, j + 1)
  BY <1>3, ComingFacts
<1>5. Harmless(n, l)
  BY <1>2 DEF Harmless
<1>6. \A i \in DOMAIN Compute : i < j + 1 /\ Compute[i].kind = "gather" =>
        \E h \in DOMAIN Compute' : h < j /\ Compute'[h] = Compute[i]
  <2> SUFFICES ASSUME NEW i \in DOMAIN Compute, i < j + 1, Compute[i].kind = "gather"
               PROVE  \E h \in DOMAIN Compute' : h < j /\ Compute'[h] = Compute[i]
    OBVIOUS
  <2>1. i # 1
    BY <1>1, <1>2
  <2>2. i \in Nat \ {0} /\ i - 1 \in DOMAIN Compute' /\ Compute'[i - 1] = Compute[i]
    BY <1>2, <2>1
  <2>3. i - 1 < j
    <3>1. Len(Compute) \in Nat
      BY <1>1, QueueFacts
    <3>2. j + 1 \in Nat /\ j \in Int
      BY <1>3
    <3> QED
      BY <2>2, <3>2
  <2> QED
    BY <2>2, <2>3
<1>7. IsHit(<<l, e>>) => IsHit(<<l, e>>)'
  BY <1>1 DEF IsHit, Volatile
<1> QED
  BY <1>1, <1>2, <1>4, <1>5, <1>6, <1>7, ArrivesKept

(* The head of the compute stream, in front of the use of a layer, is of   *)
(* no later batch, and if it gathers the same half of no later layer.      *)
LEMMA UseBehindHead ==
    ASSUME IInv, OrderInv, NEW n \in Nat, NEW l \in Layers, NEW j \in Nat, j > 1, Uses(n, l, j),
           1 \in DOMAIN Compute
    PROVE  /\ Loading(Compute[1]) => Compute[1].batch < n
           /\ Compute[1].kind = "gather" /\ Half(Compute[1].arg) = Half(l) =>
                ~ Earlier(n, l, Compute[1].batch, Compute[1].arg)
<1>0. /\ TypeOK /\ l \in Nat /\ Compute[1].batch \in Nat
      /\ Compute[1].kind = "gather" => Compute[1].arg \in Nat
      /\ Compute[1].batch <= batches
  <2>1. TypeOK
    BY DEF IInv
  <2>2. Compute[1].batch \in Nat /\ (OfHalf(Compute[1]) => Compute[1].arg \in Nat)
    BY <2>1, OpFacts
  <2> QED
    BY <2>1, <2>2 DEF IInv, QueueInv, BatchesInOrder, OfHalf
<1>1. CASE j \in DOMAIN Compute /\ Compute[j].kind = "layer_gemm"
           /\ Compute[j].batch = n /\ Compute[j].arg = l
  <2>1. Compute[1].batch <= n
    BY <1>1 DEF OrderInv, ComputeInOrder
  <2>2. Loading(Compute[1]) => Compute[1].batch # n
    BY <1>1 DEF OrderInv, BatchesOfOneKind, OnDemand, OfHalf, Loading
  <2>3. Compute[1].kind = "gather" /\ Compute[1].batch = n => Compute[1].arg <= l + 1
    BY <1>1 DEF OrderInv, ComputeInOrder
  <2>4. Half(l) # Half(l + 1)
    BY <1>0, HalvesAlternate
  <2>5. Compute[1].kind = "gather" /\ Compute[1].batch = n /\ l < Compute[1].arg => Compute[1].arg = l + 1
    BY <1>0, <2>3
  <2> QED
    BY <1>0, <2>1, <2>2, <2>4, <2>5 DEF Earlier
<1>2. CASE batch.mode = "streaming" /\ batch.layer = l /\ batches = n
  <2>1. Loading(Compute[1]) => Compute[1].batch < n
    BY <1>2 DEF OrderInv, HostIssued, OnDemand, Loading
  <2>2. Compute[1].kind = "gather" /\ Compute[1].batch = n => Issued(Compute[1].arg)
    BY <1>2 DEF OrderInv, HostIssued, OfHalf
  <2> QED
    BY <1>0, <1>2, <2>1, <2>2 DEF Earlier, Issued
<1> QED
  BY <1>1, <1>2 DEF Uses

LEMMA LoadKeepsComing ==
    ASSUME IInv, OrderInv, LayersComing, Load \/ Materialize
    PROVE  LayersComing'
<1>1. /\ TypeOK /\ Compute # << >> /\ Pop("compute") /\ Loading(Head(Compute))
      /\ UNCHANGED hostVars /\ batches' = batches /\ batches \in Nat
  BY DEF IInv, TypeOK, Load, Materialize, AtHead, Runnable, Compute, hostVars, Loading
<1>2. 1 \in DOMAIN Compute /\ Head(Compute) = Compute[1] /\ Copy' = Copy
  BY <1>1, PopCompute
<1> SUFFICES ASSUME NEW l \in Layers, NEW n \in 0 .. batches, NEW j \in 1 .. Len(Compute') + 1,
                    Uses(n, l, j)', NEW k \in Banks, NEW e \in Experts
             PROVE  Arrives(n, l, k, e, j)'
  BY <1>1 DEF LayersComing, Arrives
<1>3. Uses(n, l, j + 1) /\ j + 1 \in 1 .. Len(Compute) + 1
  BY <1>1, UsesAfterCompute
<1>4. Arrives(n, l, k, e, j + 1)
  BY <1>3, ComingFacts
<1>5. n \in Nat /\ j + 1 \in Nat /\ j + 1 > 1
  BY <1>1, <1>3
<1>6. Compute[1].batch < n
  BY <1>1, <1>2, <1>3, <1>5, UseBehindHead
<1>7. ~ InRow(n, l, k, e)
  <2>1. Compute[1].batch \in Nat
    BY <1>1, <1>2, OpFacts
  <2> QED
    BY <1>1, <1>2, <1>5, <1>6, <2>1 DEF InRow, Settled
<1>8. ~ GatherBrings(n, l, k, e, j + 1)
  <2> SUFFICES ASSUME NEW i \in DOMAIN Compute, Compute[i].kind = "gather"
               PROVE  FALSE
    BY DEF GatherBrings
  <2>1. i # 1 /\ i \in Nat /\ i >= 1
    BY <1>1, <1>2, OpFacts DEF Loading
  <2>2. 1 < i
    BY <2>1
  <2> QED
    BY <1>1, <1>2, <2>2 DEF OrderInv, GathersUndisturbed
<1>9. FillBrings(n, l, k, e)
  BY <1>4, <1>7, <1>8 DEF Arrives
<1>10. FillBrings(n, l, k, e)'
  BY <1>2, <1>9 DEF FillBrings
<1> QED
  BY <1>10 DEF Arrives

LEMMA GatherKeepsComing ==
    ASSUME IInv, OrderInv, LayersComing, GatherHits
    PROVE  LayersComing'
<1> DEFINE g == Head(Compute).arg   m == Head(Compute).batch
<1>1. /\ TypeOK /\ Compute # << >> /\ Pop("compute") /\ Head(Compute).kind = "gather"
      /\ UNCHANGED hostVars /\ batches' = batches /\ batches \in Nat /\ Runnable("compute")
  BY DEF IInv, TypeOK, GatherHits, AtHead, Runnable, Compute, hostVars
<1>2. /\ 1 \in DOMAIN Compute /\ Head(Compute) = Compute[1] /\ Copy' = Copy
      /\ \A i \in DOMAIN Compute' :
           i \in Nat \ {0} /\ i + 1 \in DOMAIN Compute /\ Compute'[i] = Compute[i + 1]
      /\ \A i \in DOMAIN Compute :
           i \in Nat \ {0} /\ (i # 1 => i - 1 \in DOMAIN Compute' /\ Compute'[i - 1] = Compute[i])
  BY <1>1, PopCompute
<1>3. /\ g \in Layers /\ g \in Nat /\ Half(g) \in Halves
      /\ Slots' = Slots /\ UNCHANGED slotForId
      /\ \A k \in Banks, e \in Experts : k \notin SmallBanks /\ IsHit(<<g, e>>) =>
           bytes'[k][Row(Half(g), e)] = <<g, e>>
      /\ \A k \in Banks, e \in Experts :
           (k \in SmallBanks \/ ~ IsHit(<<g, e>>)) /\ Row(Half(g), e) \in Slots =>
             bytes'[k][Row(Half(g), e)] = bytes[k][Row(Half(g), e)]
      /\ \A k \in Banks, s \in Slots : s \notin BufferSlots(Half(g)) =>
           bytes'[k][s] = bytes[k][s]
      /\ (\A b \in Halves : BufferSlots(b) \subseteq Slots) \/ bytes' = bytes
  BY GatherEffect
<1>4. m \in Nat
  BY <1>1, <1>2, OpFacts
<1> SUFFICES ASSUME NEW l \in Layers, NEW n \in 0 .. batches, NEW j \in 1 .. Len(Compute') + 1,
                    Uses(n, l, j)', NEW k \in Banks, NEW e \in Experts
             PROVE  Arrives(n, l, k, e, j)'
  BY <1>1 DEF LayersComing, Arrives
<1>5. Uses(n, l, j + 1) /\ j + 1 \in 1 .. Len(Compute) + 1
  BY <1>1, UsesAfterCompute
<1>6. Arrives(n, l, k, e, j + 1)
  BY <1>5, ComingFacts
<1>7. n \in Nat /\ l \in Nat /\ j + 1 \in Nat /\ j + 1 > 1 /\ j \in Nat /\ Half(l) \in Halves
  BY <1>1, <1>5, HalfType
<1>8. Half(g) = Half(l) => ~ Earlier(n, l, m, g)
  BY <1>1, <1>2, <1>5, <1>7, UseBehindHead
<1>9. Harmless(n, l)
  BY <1>2 DEF Harmless
<1> HIDE DEF g, m
<1>10. CASE InRow(n, l, k, e)
  <2>1. Settled(n, l)'
    BY <1>9, <1>10, SettledKept DEF InRow
  <2>2. bytes[k][Row(Half(l), e)] = <<l, e>> /\ (Half(g) = Half(l) => ~ Earlier(m, g, n, l))
    BY <1>1, <1>2, <1>10 DEF InRow, Settled, g, m
  <2>3. bytes'[k][Row(Half(l), e)] = <<l, e>>
    <3>1. CASE bytes' = bytes
      BY <2>2, <3>1
    <3>2. CASE Row(Half(l), e) \in Slots /\ Half(g) # Half(l)
      <4>1. Row(Half(l), e) \notin BufferSlots(Half(g))
        BY <1>3, <1>7, <3>2, HalvesDisjoint DEF BufferSlots
      <4> QED
        BY <1>3, <2>2, <3>2, <4>1
    <3>3. CASE Row(Half(l), e) \in Slots /\ Half(g) = Half(l)
      <4>1. g = l
        BY <1>3, <1>4, <1>7, <1>8, <2>2, <3>3 DEF Earlier
      <4> QED
        BY <1>3, <2>2, <3>3, <4>1
    <3>4. Row(Half(l), e) \in BufferSlots(Half(l))
      BY DEF BufferSlots
    <3> QED
      BY <1>3, <1>7, <3>1, <3>2, <3>3, <3>4
  <2>4. InRow(n, l, k, e)'
    BY <2>1, <2>3 DEF InRow, Row, Half
  <2> QED
    BY <2>4 DEF Arrives
<1>11. CASE FillBrings(n, l, k, e)
  <2>1. FillBrings(n, l, k, e)'
    BY <1>2, <1>11 DEF FillBrings
  <2> QED
    BY <2>1 DEF Arrives
<1>12. CASE GatherBrings(n, l, k, e, j + 1)
  <2>1. PICK i \in DOMAIN Compute :
          i < j + 1 /\ Compute[i].kind = "gather" /\ Compute[i].batch = n /\ Compute[i].arg = l
    BY <1>12 DEF GatherBrings
  <2>2. k \notin SmallBanks /\ IsHit(<<l, e>>)
    BY <1>12 DEF GatherBrings
  <2>3. CASE i # 1
    <3>1. i \in Nat \ {0} /\ i - 1 \in DOMAIN Compute' /\ Compute'[i - 1] = Compute[i]
      BY <1>2, <2>3
    <3>2. i - 1 < j
      BY <1>7, <2>1, <3>1
    <3>3. IsHit(<<l, e>>)'
      BY <1>3, <2>2 DEF IsHit, Volatile
    <3>4. GatherBrings(n, l, k, e, j)'
      BY <2>1, <2>2, <3>1, <3>2, <3>3 DEF GatherBrings
    <3> QED
      BY <3>4 DEF Arrives
  <2>4. CASE i = 1
    <3>1. g = l /\ m = n
      BY <1>2, <2>1, <2>4 DEF g, m
    <3>2. bytes'[k][Row(Half(l), e)] = <<l, e>>
      BY <1>3, <2>2, <3>1
    <3>3. ASSUME NEW c \in DOMAIN Copy', Copy'[c].kind = "fill", Half(Copy'[c].arg.layer) = Half(l),
                 Earlier(Copy'[c].batch, Copy'[c].arg.layer, n, l)
          PROVE  FALSE
      <4>1. CopyFirst(Copy[c], Compute[1])
        BY <1>1, <1>2, <3>1, <3>3 DEF CopyFirst, Earlier, Touches, OfHalf, g, m
      <4>2. Sync("copy", c, "compute", 1)
        BY <1>2, <3>3, <4>1 DEF OrderInv, StreamsOrdered
      <4> QED
        BY <1>1, <4>2, HeadIsFree DEF Streams
    <3>4. \A h \in DOMAIN Compute' :
            /\ Compute'[h].batch \in Nat /\ Compute'[h].batch >= n
            /\ Compute'[h].kind = "gather" => ~ Earlier(Compute'[h].batch, Compute'[h].arg, n, l)
      <4> SUFFICES ASSUME NEW h \in DOMAIN Compute'
                   PROVE  /\ Compute'[h].batch \in Nat /\ Compute'[h].batch >= n
                          /\ Compute'[h].kind = "gather" =>
                               ~ Earlier(Compute'[h].batch, Compute'[h].arg, n, l)
        OBVIOUS
      <4>1. h + 1 \in DOMAIN Compute /\ Compute'[h] = Compute[h + 1] /\ 1 < h + 1
        BY <1>2
      <4>2. /\ Compute[h + 1].batch \in Nat
            /\ Compute[h + 1].kind = "gather" => Compute[h + 1].arg \in Nat
        BY <1>1, <4>1, OpFacts DEF OfHalf
      <4>3. /\ Compute[1].batch <= Compute[h + 1].batch
            /\ Compute[1].batch = Compute[h + 1].batch /\ Compute[h + 1].kind = "gather" =>
                 Compute[1].arg < Compute[h + 1].arg
        BY <1>1, <1>2, <4>1 DEF OrderInv, ComputeInOrder
      <4> QED
        BY <1>2, <1>7, <3>1, <4>1, <4>2, <4>3 DEF Earlier, g, m
    <3>5. Settled(n, l)'
      BY <3>3, <3>4 DEF Settled, Earlier, Half, Loading
    <3>6. InRow(n, l, k, e)'
      BY <3>2, <3>5 DEF InRow, Row, Half
    <3> QED
      BY <3>6 DEF Arrives
  <2> QED
    BY <2>3, <2>4
<1> QED
  BY <1>6, <1>10, <1>11, <1>12 DEF Arrives

LEMMA CopyPassKeepsComing ==
    ASSUME IInv, LayersComing, Pass("copy") \/ TakeSnapshot
    PROVE  LayersComing'
<1>1. /\ TypeOK /\ Copy # << >> /\ Pop("copy") /\ Head(Copy).kind # "fill"
      /\ UNCHANGED <<hostVars, bytes, slotForId>> /\ batches' = batches
  BY DEF IInv, Pass, TakeSnapshot, AtHead, Runnable, Copy, hostVars, deviceVars
<1>2. /\ 1 \in DOMAIN Copy /\ Head(Copy) = Copy[1] /\ Compute' = Compute
      /\ \A c \in DOMAIN Copy' : c + 1 \in DOMAIN Copy /\ Copy'[c] = Copy[c + 1]
      /\ \A c \in DOMAIN Copy : c # 1 => c - 1 \in DOMAIN Copy' /\ Copy'[c - 1] = Copy[c]
  BY <1>1, PopCopy
<1> SUFFICES ASSUME NEW l \in Layers, NEW n \in 0 .. batches, NEW j \in 1 .. Len(Compute) + 1,
                    Uses(n, l, j)', NEW k \in Banks, NEW e \in Experts
             PROVE  Arrives(n, l, k, e, j)'
  BY <1>1, <1>2 DEF LayersComing, Arrives
<1>3. Uses(n, l, j)
  BY <1>1, <1>2 DEF Uses, Half, hostVars
<1>4. Arrives(n, l, k, e, j)
  BY <1>3, ComingFacts
<1>5. Harmless(n, l)
  BY <1>2 DEF Harmless
<1>6. \A c \in DOMAIN Copy : Copy[c].kind = "fill" => \E d \in DOMAIN Copy' : Copy'[d] = Copy[c]
  BY <1>1, <1>2
<1>7. IsHit(<<l, e>>) => IsHit(<<l, e>>)'
  BY <1>1 DEF IsHit, Volatile
<1> QED
  BY <1>1, <1>2, <1>4, <1>5, <1>6, <1>7, ArrivesKept

(* A copy that may run is of no later layer than a use of its half.        *)
LEMMA UseBehindCopy ==
    ASSUME IInv, OrderInv, Runnable("copy"), NEW n \in Nat, NEW l \in Layers, NEW j, Uses(n, l, j),
           1 \in DOMAIN Copy, Copy[1].kind = "fill", Half(Copy[1].arg.layer) = Half(l)
    PROVE  ~ Earlier(n, l, Copy[1].batch, Copy[1].arg.layer)
<1>0. TypeOK /\ l \in Nat /\ Copy[1].batch \in Nat /\ Copy[1].arg.layer \in Nat
  BY OpFacts DEF IInv
<1>1. CASE j \in DOMAIN Compute /\ Compute[j].kind = "layer_gemm"
           /\ Compute[j].batch = n /\ Compute[j].arg = l
  <2> SUFFICES ASSUME Earlier(n, l, Copy[1].batch, Copy[1].arg.layer)
               PROVE  FALSE
    OBVIOUS
  <2>1. ComputeFirst(Compute[j], Copy[1])
    BY <1>1 DEF ComputeFirst, Earlier, Touches, OfHalf
  <2>2. Sync("compute", j, "copy", 1)
    BY <1>1, <2>1 DEF OrderInv, StreamsOrdered
  <2> QED
    BY <1>0, <2>2, HeadIsFree DEF Streams
<1>2. CASE batch.mode = "streaming" /\ batch.layer = l /\ batches = n
  <2>1. Copy[1].batch <= batches
    BY DEF IInv, QueueInv, BatchesInOrder
  <2>2. Copy[1].batch = n => Issued(Copy[1].arg.layer)
    BY <1>2 DEF OrderInv, HostIssued
  <2> QED
    BY <1>0, <1>2, <2>1, <2>2 DEF Earlier, Issued
<1> QED
  BY <1>1, <1>2 DEF Uses

LEMMA FillKeepsComing ==
    ASSUME IInv, OrderInv, LayersComing, FillHalf
    PROVE  LayersComing'
<1> DEFINE m == Head(Copy).batch   g == Head(Copy).arg.layer   rows == Head(Copy).arg.rows
<1>1. /\ TypeOK /\ Copy # << >> /\ Pop("copy") /\ Head(Copy).kind = "fill"
      /\ UNCHANGED hostVars /\ batches' = batches /\ batches \in Nat /\ Runnable("copy")
  BY DEF IInv, TypeOK, FillHalf, AtHead, Runnable, Copy, hostVars
<1>2. /\ 1 \in DOMAIN Copy /\ Head(Copy) = Copy[1] /\ Compute' = Compute
      /\ \A c \in DOMAIN Copy' :
           c \in Nat \ {0} /\ c + 1 \in DOMAIN Copy /\ Copy'[c] = Copy[c + 1]
      /\ \A c \in DOMAIN Copy : c # 1 => c - 1 \in DOMAIN Copy' /\ Copy'[c - 1] = Copy[c]
  BY <1>1, PopCopy
<1>3. /\ g \in Layers /\ g \in Nat /\ Half(g) \in Halves
      /\ \A b \in Halves : BufferSlots(b) \subseteq Slots
      /\ \A k \in Banks, e \in Experts : k \in SmallBanks \/ e \in rows =>
           bytes'[k][Row(Half(g), e)] = <<g, e>>
      /\ \A k \in Banks, e \in Experts : k \notin SmallBanks /\ e \notin rows =>
           bytes'[k][Row(Half(g), e)] = bytes[k][Row(Half(g), e)]
      /\ \A k \in Banks, s \in Slots : s \notin BufferSlots(Half(g)) =>
           bytes'[k][s] = bytes[k][s]
  BY FillEffect
<1>4. m \in Nat
  BY <1>1, <1>2, OpFacts
<1> SUFFICES ASSUME NEW l \in Layers, NEW n \in 0 .. batches, NEW j \in 1 .. Len(Compute) + 1,
                    Uses(n, l, j)', NEW k \in Banks, NEW e \in Experts
             PROVE  Arrives(n, l, k, e, j)'
  BY <1>1, <1>2 DEF LayersComing, Arrives
<1>5. Uses(n, l, j)
  BY <1>1, <1>2 DEF Uses, Half, hostVars
<1>6. Arrives(n, l, k, e, j)
  BY <1>5, ComingFacts
<1>7. n \in Nat /\ l \in Nat /\ Half(l) \in Halves
  BY <1>1, HalfType
<1>8. Half(g) = Half(l) => ~ Earlier(n, l, m, g)
  BY <1>1, <1>2, <1>5, <1>7, UseBehindCopy
<1>9. Harmless(n, l)
  BY <1>2 DEF Harmless
<1>10. CASE InRow(n, l, k, e)
  <2>1. Settled(n, l)'
    BY <1>9, <1>10, SettledKept DEF InRow
  <2>2. bytes[k][Row(Half(l), e)] = <<l, e>> /\ (Half(g) = Half(l) => ~ Earlier(m, g, n, l))
    BY <1>1, <1>2, <1>10 DEF InRow, Settled
  <2> HIDE DEF m, g, rows
  <2>3. bytes'[k][Row(Half(l), e)] = <<l, e>>
    <3>1. CASE Half(g) # Half(l)
      <4>1. Row(Half(l), e) \notin BufferSlots(Half(g))
        BY <1>3, <1>7, <3>1, HalvesDisjoint DEF BufferSlots
      <4>2. Row(Half(l), e) \in Slots
        BY <1>3, <1>7 DEF BufferSlots
      <4> QED
        BY <1>3, <2>2, <4>1, <4>2
    <3>2. CASE Half(g) = Half(l)
      <4>1. g = l
        BY <1>3, <1>4, <1>7, <1>8, <2>2, <3>2 DEF Earlier
      <4> QED
        BY <1>3, <2>2, <4>1
    <3> QED
      BY <3>1, <3>2
  <2>4. InRow(n, l, k, e)'
    BY <2>1, <2>3 DEF InRow, Row, Half
  <2> QED
    BY <2>4 DEF Arrives
<1>11. CASE FillBrings(n, l, k, e)
  <2>1. PICK c \in DOMAIN Copy :
          /\ Copy[c].kind = "fill" /\ Copy[c].batch = n /\ Copy[c].arg.layer = l
          /\ k \in SmallBanks \/ e \in Copy[c].arg.rows
    BY <1>11 DEF FillBrings
  <2>2. CASE c # 1
    <3>1. FillBrings(n, l, k, e)'
      BY <1>2, <2>1, <2>2 DEF FillBrings
    <3> QED
      BY <3>1 DEF Arrives
  <2>3. CASE c = 1
    <3>1. m = n /\ g = l /\ (k \in SmallBanks \/ e \in rows)
      BY <1>2, <2>1, <2>3
    <3>2. bytes'[k][Row(Half(l), e)] = <<l, e>>
      BY <1>3, <3>1
    <3>3. \A d \in DOMAIN Copy' : Copy'[d].kind = "fill" =>
            ~ Earlier(Copy'[d].batch, Copy'[d].arg.layer, n, l)
      <4> SUFFICES ASSUME NEW d \in DOMAIN Copy', Copy'[d].kind = "fill"
                   PROVE  ~ Earlier(Copy'[d].batch, Copy'[d].arg.layer, n, l)
        OBVIOUS
      <4>1. d + 1 \in DOMAIN Copy /\ Copy'[d] = Copy[d + 1] /\ 1 < d + 1
        BY <1>2
      <4>2. Copy[d + 1].batch \in Nat /\ Copy[d + 1].arg.layer \in Nat
        BY <1>1, <4>1, OpFacts
      <4>3. Earlier(n, l, Copy[d + 1].batch, Copy[d + 1].arg.layer)
        BY <1>1, <1>2, <2>1, <2>3, <4>1 DEF OrderInv, FillsInOrder
      <4> QED
        BY <1>7, <4>1, <4>2, <4>3 DEF Earlier
    <3>4. \A i \in DOMAIN Compute : ~ ComputeFirst(Compute[i], Copy[1])
      <4>1. \A i \in DOMAIN Compute : ~ Sync("compute", i, "copy", 1)
        BY <1>1, HeadIsFree DEF Streams
      <4> QED
        BY <1>2, <4>1 DEF OrderInv, StreamsOrdered
    <3>5. ASSUME NEW i \in DOMAIN Compute, Compute[i].kind = "gather", Half(Compute[i].arg) = Half(l)
          PROVE  ~ Earlier(Compute[i].batch, Compute[i].arg, n, l)
      BY <2>1, <2>3, <3>4, <3>5 DEF ComputeFirst, Touches, OfHalf, Earlier
    <3>6. ASSUME NEW i \in DOMAIN Compute, Loading(Compute[i])
          PROVE  Compute[i].batch >= n
      <4>1. Compute[i].batch \in Nat
        BY <1>1, OpFacts
      <4>2. ~ (Compute[i].batch < n)
        BY <2>1, <2>3, <3>4, <3>6 DEF ComputeFirst, Touches, Loading
      <4> QED
        BY <1>7, <4>1, <4>2
    <3>7. Settled(n, l)'
      BY <1>2, <3>3, <3>5, <3>6 DEF Settled, Earlier, Half, Loading
    <3>8. InRow(n, l, k, e)'
      BY <3>2, <3>7 DEF InRow, Row, Half
    <3> QED
      BY <3>8 DEF Arrives
  <2> QED
    BY <2>2, <2>3
<1>12. CASE GatherBrings(n, l, k, e, j)
  <2>1. <<l, e>> \in Ids
    BY DEF Ids
  <2>2. IsHit(<<l, e>>)' /\ k \notin SmallBanks
    BY <1>12, <2>1, FillKeepsHits DEF GatherBrings
  <2>3. GatherBrings(n, l, k, e, j)'
    BY <1>2, <1>12, <2>2 DEF GatherBrings
  <2> QED
    BY <2>3 DEF Arrives
<1> QED
  BY <1>6, <1>10, <1>11, <1>12 DEF Arrives

(* What a layer prefetched now will hold comes with its copy, or with the  *)
(* gather of what the snapshot found.                                      *)
LEMMA PrefetchBrings ==
    ASSUME IInv, OrderInv, SplitInv, StreamLayer, NEW p, NEW l \in Prefetches, NEW n, n = batches,
           ComputeAfter(p, IF splitting THEN Prefetches ELSE {}, batch.layer),
           CopyAfter(Prefetches), NEW k \in Banks, NEW e \in Experts
    PROVE  FillBrings(n, l, k, e)' \/ GatherBrings(n, l, k, e, p)'
<1>1. /\ TypeOK /\ batch.mode = "streaming" /\ l \in Layers
      /\ UNCHANGED <<splitting, slotForId>>
  <2>1. TypeOK
    BY DEF IInv
  <2> QED
    BY <2>1, PrefetchesFacts DEF StreamLayer, deviceVars
<1>2. PICK c \in DOMAIN Copy' :
        /\ Copy'[c].kind = "fill" /\ Copy'[c].arg.layer = l
        /\ Copy'[c].batch = batches /\ Copy'[c] = Fill(l)
  BY DEF CopyAfter
<1>3. Copy'[c].arg.rows = Crossing(l)
  BY <1>2 DEF Fill, Op
<1>4. CASE k \in SmallBanks \/ e \in Crossing(l)
  <2>1. FillBrings(n, l, k, e)'
    BY <1>2, <1>3, <1>4 DEF FillBrings
  <2> QED
    BY <2>1
<1>5. CASE k \notin SmallBanks /\ e \notin Crossing(l)
  <2>1. splitting /\ InSnapshot(l, e)
    BY <1>5 DEF Crossing
  <2>2. ~ SnapshotQueued
    <3> SUFFICES ASSUME SnapshotQueued
                 PROVE  FALSE
      OBVIOUS
    <3>1. batch.layer = 0
      BY DEF SnapshotQueued, OrderInv, SnapshotsFirst
    <3>2. Copy = << >>
      BY <2>1, <3>1 DEF StreamLayer, Copy
    <3> QED
      BY <3>2 DEF SnapshotQueued
  <2>3. SnapshotTaken /\ <<l, e>> \in Ids
    BY <1>1, <2>1, <2>2 DEF SnapshotTaken, Ids
  <2>4. IsHit(<<l, e>>)
    BY <2>1, <2>3 DEF SplitInv, SnapshotAgrees, InSnapshot
  <2>5. IsHit(<<l, e>>)'
    BY <1>1, <2>4 DEF IsHit, Volatile
  <2>6. PICK i \in DOMAIN Compute' :
          Len(Compute) < i /\ i < p /\ Compute'[i].kind = "gather" /\ Compute'[i].arg = l
    BY <2>1 DEF ComputeAfter
  <2>7. Len(Compute) \in Nat /\ i \in Nat
    <3>1. p + 2 \in Nat /\ DOMAIN Compute' = 1 .. p + 2
      BY DEF ComputeAfter
    <3> QED
      BY <1>1, <3>1, QueueFacts
  <2>8. Compute'[i].batch = n
    BY <2>6, <2>7 DEF ComputeAfter
  <2>9. GatherBrings(n, l, k, e, p)'
    BY <1>5, <2>5, <2>6, <2>8 DEF GatherBrings
  <2> QED
    BY <2>9
<1> QED
  BY <1>4, <1>5

LEMMA StreamKeepsComing ==
    ASSUME IInv, OrderInv, SplitInv, LayersComing, StreamLayer
    PROVE  LayersComing'
<1>1. /\ TypeOK /\ batch.mode = "streaming" /\ batches \in Nat
      /\ batch.layer \in Layers /\ batch.layer \in Nat
      /\ batches' = batches /\ UNCHANGED <<slotForId, bytes>> /\ NextLayer(batch.layer)
  BY DEF IInv, StreamLayer, TypeOK, deviceVars
<1>2. PICK p :
        /\ ComputeAfter(p, IF splitting THEN Prefetches ELSE {}, batch.layer)
        /\ p \in Nat
        /\ \A i \in DOMAIN Compute :
             i \in Nat /\ i < p /\ i \in DOMAIN Compute' /\ Compute'[i] = Compute[i]
        /\ \A i \in DOMAIN Compute' :
             /\ i \in Nat
             /\ \/ i \in DOMAIN Compute
                \/ Compute'[i].batch = batches /\ (NewGather(i, p) \/ NewUse(i, p))
        /\ \A c \in DOMAIN Copy : c \in DOMAIN Copy' /\ Copy'[c] = Copy[c]
        /\ \A c \in DOMAIN Copy' :
             \/ c \in DOMAIN Copy
             \/ /\ Copy'[c].batch = batches
                /\ Copy'[c].kind = "fill" => Copy'[c].arg.layer \in Prefetches
        /\ CopyAfter(Prefetches)
        /\ DOMAIN Compute' = 1 .. p + 2
  BY StreamSetting
<1>3. Len(Compute) \in Nat /\ DOMAIN Compute = 1 .. Len(Compute)
  BY <1>1, QueueFacts
<1>4. Len(Compute') = p + 2
  <2>1. \E s : Compute' = Compute \o s /\ s \in Seq(Ops)
    BY StreamSetting DEF Appends
  <2>2. Compute \in Seq(Ops)
    BY <1>1, QueueFacts
  <2>3. Compute' \in Seq(Ops)
    BY <2>1, <2>2, ConcatProperties
  <2>4. Len(Compute') \in Nat /\ DOMAIN Compute' = 1 .. Len(Compute')
    BY <2>3, LenProperties
  <2> QED
    BY <1>2, <2>4
<1> SUFFICES ASSUME NEW l \in Layers, NEW n \in 0 .. batches, NEW j \in 1 .. Len(Compute') + 1,
                    Uses(n, l, j)', NEW k \in Banks, NEW e \in Experts
             PROVE  Arrives(n, l, k, e, j)'
  BY <1>1 DEF LayersComing, Arrives
<1>5. n \in Nat /\ l \in Nat /\ j \in Nat
  BY <1>1, <1>2, <1>4
<1>6. \A g \in Prefetches : g \in Nat /\ g >= batch.layer
  BY <1>1, PrefetchesFacts
<1>7. ASSUME n = batches => l <= batch.layer
      PROVE  Harmless(n, l)
  <2>1. \A g \in Prefetches : ~ Earlier(batches, g, n, l)
    BY <1>1, <1>5, <1>6, <1>7 DEF Earlier
  <2>2. \A i \in DOMAIN Compute' : i \notin DOMAIN Compute =>
          /\ Compute'[i].batch = batches /\ ~ Loading(Compute'[i])
          /\ Compute'[i].kind = "gather" => Compute'[i].arg \in Prefetches
    BY <1>2 DEF NewGather, NewUse, Loading
  <2> QED
    BY <1>2, <2>1, <2>2 DEF Harmless
<1>8. IsHit(<<l, e>>) => IsHit(<<l, e>>)'
  BY <1>1 DEF IsHit, Volatile
<1>9. ASSUME l \in Prefetches, n = batches, j >= p
      PROVE  Arrives(n, l, k, e, j)'
  <2>1. FillBrings(n, l, k, e)' \/ GatherBrings(n, l, k, e, p)'
    BY <1>2, <1>9, PrefetchBrings
  <2>2. ASSUME GatherBrings(n, l, k, e, p)'
        PROVE  GatherBrings(n, l, k, e, j)'
    <3>1. PICK i \in DOMAIN Compute' :
            i < p /\ Compute'[i].kind = "gather" /\ Compute'[i].batch = n /\ Compute'[i].arg = l
      BY <2>2 DEF GatherBrings
    <3>2. i < j
      BY <1>2, <1>5, <1>9, <3>1
    <3> QED
      BY <2>2, <3>1, <3>2 DEF GatherBrings
  <2> QED
    BY <2>1, <2>2 DEF Arrives
<1>10. ASSUME NEW i \in Nat, Uses(n, l, i), i \in 1 .. Len(Compute) + 1, i <= j,
              n = batches => l <= batch.layer
       PROVE  Arrives(n, l, k, e, j)'
  <2>1. Arrives(n, l, k, e, i) /\ Harmless(n, l)
    BY <1>7, <1>10, ComingFacts
  <2>2. \A h \in DOMAIN Compute : h < i => h < j /\ h \in DOMAIN Compute' /\ Compute'[h] = Compute[h]
    BY <1>2, <1>5, <1>10
  <2> QED
    BY <1>1, <1>2, <1>8, <2>1, <2>2, ArrivesKept
<1>11. CASE j \in DOMAIN Compute /\ Compute'[j].kind = "layer_gemm"
            /\ Compute'[j].batch = n /\ Compute'[j].arg = l
  <2>1. Compute'[j] = Compute[j] /\ j \in 1 .. Len(Compute) + 1
    BY <1>2, <1>3, <1>11
  <2>2. Uses(n, l, j)
    BY <1>11, <2>1 DEF Uses
  <2>3. n = batches => l < batch.layer
    BY <1>1, <1>11, <2>1 DEF OrderInv, HostIssued, OfHalf
  <2> QED
    BY <1>1, <1>5, <1>10, <2>1, <2>2, <2>3
<1>12. CASE /\ j \in DOMAIN Compute' /\ j \notin DOMAIN Compute /\ Compute'[j].kind = "layer_gemm"
            /\ Compute'[j].batch = n /\ Compute'[j].arg = l
  <2>1. n = batches /\ j = p + 1 /\ l = batch.layer
    BY <1>2, <1>12 DEF NewGather, NewUse
  <2>2. CASE l \in Prefetches
    BY <1>2, <1>9, <2>1, <2>2
  <2>3. CASE l \notin Prefetches
    <3>1. buffers[Half(l)].layer = l
      BY <2>1, <2>3 DEF Prefetches, Taken
    <3>2. Uses(n, l, Len(Compute) + 1)
      BY <1>1, <2>1, <3>1 DEF Uses
    <3>3. Len(Compute) + 1 <= j
      <4>1. Len(Compute) < p
        BY <1>2 DEF ComputeAfter
      <4> QED
        BY <1>2, <1>3, <2>1, <4>1
    <3> QED
      BY <1>1, <1>3, <1>10, <2>1, <3>2, <3>3
  <2> QED
    BY <2>2, <2>3
<1>13. CASE j = Len(Compute') + 1 /\ batch'.mode = "streaming" /\ batch'.layer = l /\ batches' = n
  <2>1. l = batch.layer + 1 /\ n = batches /\ j >= p
    <3>1. batch' = [batch EXCEPT !.layer = batch.layer + 1]
      BY <1>1, <1>13 DEF NextLayer, Idle
    <3> QED
      BY <1>1, <1>2, <1>4, <1>13, <3>1 DEF TypeOK
  <2>2. l \in Prefetches
    <3> SUFFICES ASSUME l \notin Prefetches
                 PROVE  FALSE
      OBVIOUS
    <3>1. buffers[Half(l)].layer = l /\ Half(l) \in Halves
      BY <2>1, HalfType DEF Prefetches, Taken
    <3>2. l # None
      BY <1>5, NoneFacts
    <3>3. l <= batch.layer
      BY <1>1, <3>1, <3>2 DEF OrderInv, HalvesKnown
    <3> QED
      BY <1>1, <2>1, <3>3
  <2> QED
    BY <1>9, <2>1, <2>2
<1> QED
  BY <1>11, <1>12, <1>13 DEF Uses

(* A step of the host that queues neither gather, nor copy, nor use.       *)
LEMMA ComingAfterHost ==
    ASSUME IInv, LayersComing, UNCHANGED <<bytes, slotForId>>,
           \A i \in DOMAIN Compute : i \in DOMAIN Compute' /\ Compute'[i] = Compute[i],
           \A i \in DOMAIN Compute' :
             \/ i \in DOMAIN Compute
             \/ Compute'[i].kind \notin {"gather", "layer_gemm"} /\ Compute'[i].batch = batches,
           \A c \in DOMAIN Copy : c \in DOMAIN Copy' /\ Copy'[c] = Copy[c],
           \A c \in DOMAIN Copy' : c \in DOMAIN Copy \/ Copy'[c].kind # "fill",
           batch'.mode = "streaming" => \A l \in Layers : buffers'[Half(l)].layer # l
    PROVE  LayersComing'
<1>1. TypeOK /\ batches \in Nat /\ \A i \in DOMAIN Compute : Compute[i].batch <= batches
  BY DEF IInv, TypeOK, QueueInv, BatchesInOrder
<1> SUFFICES ASSUME NEW l \in Layers, NEW n, NEW j, Uses(n, l, j)', NEW k \in Banks, NEW e \in Experts
             PROVE  Arrives(n, l, k, e, j)'
  BY DEF LayersComing, Arrives
<1>2. j \in DOMAIN Compute' /\ Compute'[j].kind = "layer_gemm" /\ Compute'[j].batch = n /\ Compute'[j].arg = l
  BY DEF Uses, Half
<1>3. j \in DOMAIN Compute /\ Compute'[j] = Compute[j] /\ Compute[j].batch = n
  BY <1>2
<1>4. n \in 0 .. batches /\ j \in 1 .. Len(Compute) + 1
  BY <1>1, <1>3, OpFacts, QueueFacts
<1>5. Uses(n, l, j)
  BY <1>2, <1>3 DEF Uses
<1>6. Arrives(n, l, k, e, j)
  BY <1>4, <1>5, ComingFacts
<1>7. batches >= n
  BY <1>1, <1>4
<1>8. Harmless(n, l)
  BY <1>7 DEF Harmless
<1>9. IsHit(<<l, e>>) => IsHit(<<l, e>>)'
  BY DEF IsHit, Volatile
<1> QED
  BY <1>6, <1>8, <1>9, ArrivesKept

LEMMA EmptyComing ==
    ASSUME Compute' = << >>, batch'.mode = "idle"
    PROVE  LayersComing'
  BY DEF LayersComing, Uses

LEMMA NextKeepsComing ==
    ASSUME IInv, OrderInv, SplitInv, LayersComing, [Next]_vars
    PROVE  LayersComing'
<1>0. TypeOK
  BY DEF IInv
<1>1. ASSUME UNCHANGED <<queue, bytes, slotForId>>,
             batch'.mode = "streaming" => UNCHANGED <<batch, batches, buffers>>,
             batch'.mode # "streaming" => batches' \in Nat
      PROVE  LayersComing'
  <2>1. Compute' = Compute /\ Copy' = Copy
    BY <1>1 DEF Compute, Copy
  <2>2. CASE batch'.mode # "streaming"
    BY <1>1, <2>1, <2>2, ComingAfterHost
  <2>3. CASE batch'.mode = "streaming"
    <3>1. UNCHANGED <<batch, batches, buffers>>
      BY <1>1, <2>3
    <3> SUFFICES ASSUME NEW l \in Layers, NEW n \in 0 .. batches, NEW j \in 1 .. Len(Compute) + 1,
                        Uses(n, l, j)', NEW k \in Banks, NEW e \in Experts
                 PROVE  Arrives(n, l, k, e, j)'
      BY <2>1, <3>1 DEF LayersComing, Arrives
    <3>2. Uses(n, l, j)
      BY <2>1, <3>1 DEF Uses, Half
    <3>3. Arrives(n, l, k, e, j)
      BY <3>2, ComingFacts
    <3>4. Harmless(n, l)
      BY <2>1 DEF Harmless
    <3>5. IsHit(<<l, e>>) => IsHit(<<l, e>>)'
      BY <1>1 DEF IsHit, Volatile
    <3> QED
      BY <1>1, <2>1, <3>3, <3>4, <3>5, ArrivesKept
  <2> QED
    BY <2>2, <2>3
<1>2. CASE BeginPrefill
  <2>1. UNCHANGED <<bytes, slotForId>> /\ \A b \in Halves : buffers'[b].layer = None
    BY <1>0, <1>2 DEF BeginPrefill, deviceVars, TypeOK, HalfStates
  <2>2. PICK r, w, s \in Ops :
          /\ r.kind = "record" /\ r.batch = batches /\ w.kind = "wait" /\ s.kind = "snapshot"
          /\ Appends(<<r>>, IF splitting' THEN <<w, s>> ELSE <<w>>)
    BY <1>0, <1>2, BeginFacts
  <2> DEFINE x == <<r>>   y == IF splitting' THEN <<w, s>> ELSE <<w>>
  <2>3. /\ \A k \in DOMAIN x : x[k] = r
        /\ \A k \in DOMAIN y : y[k] \in {w, s}
    <3>0. DOMAIN <<r>> = {1} /\ <<r>>[1] = r /\ DOMAIN <<w>> = {1} /\ <<w>>[1] = w
      BY <2>2, ShortQueues
    <3>1. /\ \A k \in DOMAIN <<r>> : <<r>>[k] = r
          /\ \A k \in DOMAIN <<w>> : <<w>>[k] = w
      BY <3>0
    <3>4. DOMAIN <<w, s>> = {1, 2} /\ <<w, s>>[1] = w /\ <<w, s>>[2] = s
      BY <2>2, ShortQueues
    <3>5. \A k \in DOMAIN <<w, s>> : <<w, s>>[k] \in {w, s}
      BY <3>4
    <3>2. CASE splitting'
      BY <3>1, <3>2, <3>5
    <3>3. CASE ~ splitting'
      BY <3>1, <3>3
    <3> QED
      BY <3>2, <3>3
  <2>4. Appends(x, y)
    BY <2>2
  <2> HIDE DEF x, y
  <2>5. /\ \A i \in DOMAIN Compute' :
             \/ i \in DOMAIN Compute /\ Compute'[i] = Compute[i]
             \/ \E k \in DOMAIN x : Compute'[i] = x[k]
        /\ \A c \in DOMAIN Copy' :
             \/ c \in DOMAIN Copy /\ Copy'[c] = Copy[c]
             \/ \E k \in DOMAIN y : Copy'[c] = y[k]
    BY <1>0, <2>4, AppendKeeps
  <2>6. /\ \A c \in DOMAIN Copy : c \in DOMAIN Copy' /\ Copy'[c] = Copy[c]
        /\ \A i \in DOMAIN Compute : i \in DOMAIN Compute' /\ Compute'[i] = Compute[i]
    <3>1. /\ Len(Compute) \in Nat /\ DOMAIN Compute = 1 .. Len(Compute) /\ Len(x) \in Nat
          /\ DOMAIN Compute' = 1 .. Len(Compute) + Len(x)
          /\ \A i \in DOMAIN Compute : Compute'[i] = Compute[i]
          /\ Len(Copy) \in Nat /\ DOMAIN Copy = 1 .. Len(Copy) /\ Len(y) \in Nat
          /\ DOMAIN Copy' = 1 .. Len(Copy) + Len(y)
          /\ \A c \in DOMAIN Copy : Copy'[c] = Copy[c]
      BY <1>0, <2>4, AppendFacts
    <3> QED
      BY <3>1
  <2>7. \A l \in Layers : buffers'[Half(l)].layer # l
    <3>1. \A l \in Layers : l # None
      BY NoneFacts
    <3> QED
      BY <2>1, <3>1, HalfType
  <2> QED
    BY <2>1, <2>2, <2>3, <2>5, <2>6, <2>7, ComingAfterHost
<1>3. CASE StreamLayer
  BY <1>3, StreamKeepsComing
<1>4. CASE MaterializeLayer \/ DemandLayer
  <2>1. PICK a, g : LoadedPair(a, g) /\ Appends(<<a, g>>, << >>)
    BY <1>0, <1>4, LoadedLayerAppends
  <2>2. UNCHANGED <<bytes, slotForId>> /\ batch'.mode # "streaming"
    <3>1. batch.mode # "streaming" /\ NextLayer(batch.layer) /\ UNCHANGED deviceVars
      BY <1>0, <1>4, LoadedLayerAppends
    <3> QED
      BY <1>0, <3>1, NextLayerType DEF deviceVars
  <2>3. /\ Copy' = Copy /\ Len(Compute) \in Nat /\ DOMAIN Compute = 1 .. Len(Compute)
        /\ DOMAIN Compute' = 1 .. Len(Compute) + 2
        /\ \A i \in DOMAIN Compute : Compute'[i] = Compute[i]
        /\ Compute'[Len(Compute) + 1] = a /\ Compute'[Len(Compute) + 2] = g
        /\ \A i \in DOMAIN Compute' : i \in Int /\
             (i \in DOMAIN Compute \/ i = Len(Compute) + 1 \/ i = Len(Compute) + 2)
    BY <1>0, <2>1, PairFacts
  <2>4. \A i \in DOMAIN Compute' :
          \/ i \in DOMAIN Compute
          \/ Compute'[i].kind \notin {"gather", "layer_gemm"} /\ Compute'[i].batch = batches
    BY <2>1, <2>3 DEF LoadedPair
  <2>5. \A i \in DOMAIN Compute : i \in DOMAIN Compute' /\ Compute'[i] = Compute[i]
    BY <2>3
  <2> QED
    BY <2>2, <2>3, <2>4, <2>5, ComingAfterHost
<1>5. ASSUME NEW n \in Sizes, Rebuild(n)
      PROVE  LayersComing'
  <2>1. Compute' = << >> /\ batch'.mode = "idle"
    BY <1>5 DEF Rebuild, Compute, Streams, Idle
  <2> QED
    BY <2>1, EmptyComing
<1>6. CASE Pass("compute")
  BY <1>6, PassKeepsComing
<1>7. CASE Pass("copy") \/ TakeSnapshot
  BY <1>7, CopyPassKeepsComing
<1>8. CASE FillHalf
  BY <1>8, FillKeepsComing
<1>9. CASE GatherHits
  BY <1>9, GatherKeepsComing
<1>10. CASE Load \/ Materialize
  BY <1>10, LoadKeepsComing
<1>11. ASSUME NEW mode \in {"prefill", "decode", "short_prefill"}, NEW route, StartBatch(mode, route)
       PROVE  LayersComing'
  <2>1. UNCHANGED <<queue, bytes, slotForId>> /\ batch'.mode # "streaming" /\ batches' = batches + 1
    BY <1>11 DEF StartBatch, deviceVars
  <2> QED
    BY <1>0, <1>1, <2>1 DEF TypeOK
<1>12. CASE Finished \/ UNCHANGED vars
  BY <1>0, <1>1, <1>12 DEF Finished, vars, hostVars, deviceVars, TypeOK
<1> QED
  BY <1>2, <1>3, <1>4, <1>5, <1>6, <1>7, <1>8, <1>9, <1>10, <1>11, <1>12
  DEF Next, Host, Device, Streams

LEMMA InitComing == Init => LayersComing
  BY DEF Init, LayersComing, Uses, Compute, Streams, Idle

-----------------------------------------------------------------------------
(* What every reachable state has.                                         *)

(* The bytes a GEMM that is queued reads are there, or on their way and in *)
(* time: behind prefetch_prefill_layer's copy, prefill_hit_compact's       *)
(* gather, materialize_layer or ensure_experts.                            *)
THEOREM BytesHolds == Spec => [](IInv /\ OrderInv /\ BytesInv)
<1>1. BytesInv <=> SplitInv /\ LayersComing /\ LoadsInv
  BY DEF BytesInv, SplitInv, LoadsInv
<1>2. BytesInv' <=> SplitInv' /\ LayersComing' /\ LoadsInv'
  BY DEF BytesInv, SplitInv, LoadsInv
<1>3. Init => IInv /\ OrderInv /\ BytesInv
  BY <1>1, InitKeeps, InitOrder, InitSplit, InitComing, InitLoads
<1>4. IInv /\ OrderInv /\ BytesInv /\ [Next]_vars => IInv' /\ OrderInv' /\ BytesInv'
  BY <1>1, <1>2, NextKeeps, NextKeepsOrder, NextKeepsSplit, NextKeepsComing, NextKeepsLoads
<1> QED
  BY <1>3, <1>4, PTL DEF Spec

(* Operations of the two streams that may run at once touch no byte in     *)
(* common, one of them writing, nor the slot map: begin_prefill's fence and*)
(* the ready and release events of the two halves are enough.              *)
THEOREM StreamsNeverRaceHolds == Spec => []StreamsNeverRace
<1>1. IInv /\ OrderInv /\ BytesInv => StreamsNeverRace
  BY SplitSeparates DEF BytesInv, SplitInv
<1> QED
  BY <1>1, BytesHolds, PTL

(* The half of a layer whose GEMM may run is whole: its copy has run, for  *)
(* wait_prefill_layer waits for it, and its gather is in front.            *)
LEMMA LayerIsWhole ==
    ASSUME IInv, OrderInv, LayersComing, Runnable("compute"), Head(Compute).kind = "layer_gemm"
    PROVE  \A e \in Experts : \A k \in Banks :
             bytes[k][Row(Half(Head(Compute).arg), e)] = <<Head(Compute).arg, e>>
<1>1. TypeOK /\ 1 \in DOMAIN Compute /\ Head(Compute) = Compute[1]
  <2>1. TypeOK /\ Compute # << >> /\ Compute \in Seq(Ops)
    BY QueueFacts DEF IInv, Runnable, Compute
  <2> QED
    BY <2>1, TailFacts
<1>2. PICK n, l : n = Compute[1].batch /\ l = Compute[1].arg
  OBVIOUS
<1>3. /\ n \in 0 .. batches /\ l \in Layers /\ 1 \in 1 .. Len(Compute) + 1
  <2>1. Compute[1].batch \in Nat /\ Compute[1].arg \in Layers
    BY <1>1, OpFacts DEF OfHalf
  <2>2. Compute[1].batch <= batches /\ batches \in Nat
    BY <1>1 DEF IInv, TypeOK, QueueInv, BatchesInOrder
  <2>3. Len(Compute) \in Nat
    BY <1>1, QueueFacts
  <2> QED
    BY <1>2, <2>1, <2>2, <2>3
<1>4. Uses(n, l, 1)
  BY <1>1, <1>2 DEF Uses
<1> SUFFICES ASSUME NEW e \in Experts, NEW k \in Banks
             PROVE  bytes[k][Row(Half(l), e)] = <<l, e>>
  BY <1>1, <1>2
<1>5. Arrives(n, l, k, e, 1)
  BY <1>3, <1>4, ComingFacts
<1>6. ~ FillBrings(n, l, k, e)
  <2> SUFFICES ASSUME NEW c \in DOMAIN Copy, Copy[c].kind = "fill", Copy[c].batch = n,
                      Copy[c].arg.layer = l
               PROVE  FALSE
    BY DEF FillBrings
  <2>1. CopyFirst(Copy[c], Compute[1])
    BY <1>1, <1>2 DEF CopyFirst
  <2>2. Sync("copy", c, "compute", 1)
    BY <1>1, <2>1 DEF OrderInv, StreamsOrdered
  <2> QED
    BY <1>1, <2>2, HeadIsFree DEF Streams
<1>7. ~ GatherBrings(n, l, k, e, 1)
  BY <1>1, OpFacts DEF GatherBrings
<1> QED
  BY <1>5, <1>6, <1>7 DEF Arrives, InRow

(* A GEMM about to run has its experts' weights in every bank: the half    *)
(* wait_prefill_layer gave it, the first slots after materialize_layer, or *)
(* the slots ensure_experts rewrote its routes to.                         *)
THEOREM GemmReadsItsExpertsHolds == Spec => []GemmReadsItsExperts
<1>1. ASSUME IInv, OrderInv, BytesInv, Runnable("compute")
      PROVE  /\ Head(Compute).kind = "layer_gemm" =>
                  \A e \in Experts : \A k \in Banks :
                    bytes[k][Row(Half(Head(Compute).arg), e)] = <<Head(Compute).arg, e>>
             /\ Head(Compute).kind = "front_gemm" =>
                  \A e \in Experts : \A k \in Banks :
                    bytes[k][Row(0, e)] = <<Head(Compute).arg, e>>
             /\ Head(Compute).kind = "slot_gemm" =>
                  \A e \in DOMAIN routed : routed[e] # None =>
                    \A k \in Banks : bytes[k][routed[e]] = <<Head(Compute).arg, e>>
  <2>1. LayersComing /\ HeadLoaded /\ Compute # << >>
    BY <1>1 DEF BytesInv, Runnable, Compute
  <2> QED
    BY <1>1, <2>1, LayerIsWhole DEF HeadLoaded
<1>2. IInv /\ OrderInv /\ BytesInv => GemmReadsItsExperts
  BY <1>1 DEF GemmReadsItsExperts, Compute
<1> QED
  BY <1>2, BytesHolds, PTL
=============================================================================
