------------------------ MODULE ExpertOrderInvariant ------------------------
(***************************************************************************)
(* The inductive invariants of ExpertCache behind StreamsNeverRace and     *)
(* GemmReadsItsExperts.  OrderInv is about the queues and the host: which  *)
(* operations of the two streams the events keep apart.  BytesInv says     *)
(* where the bytes of each GEMM that is queued are yet to come from.       *)
(***************************************************************************)
EXTENDS ExpertCacheInvariant

Ready(n, l)   == [what |-> "ready", batch |-> n, layer |-> l]
Release(n, l) == [what |-> "release", batch |-> n, layer |-> l]

(* An event is recorded behind operation i of stream s, and waited for in  *)
(* front of operation j of stream t: i runs before j.                      *)
RecordFrom(s, i, event) ==
    \E k \in DOMAIN queue[s] :
        k >= i /\ queue[s][k].kind = "record" /\ queue[s][k].arg = event
Sync(s, i, t, j) ==
    \E w \in DOMAIN queue[t] :
        w <= j /\ queue[t][w].kind = "wait" /\ RecordFrom(s, i, queue[t][w].arg)

Touches(op)  == op.kind \notin {"wait", "record"}
OfHalf(op)   == op.kind \in {"gather", "layer_gemm"}
OnDemand(op) == op.kind \in {"load", "slot_gemm", "materialize", "front_gemm"}

(* An operation a of the compute stream must run before c of the copy      *)
(* stream, or c before a.  Only the copy and the gather of one layer may   *)
(* run at once.                                                            *)
ComputeFirst(a, c) ==
    \/ Touches(a) /\ c.kind \in {"fill", "snapshot"} /\ a.batch < c.batch
    \/ /\ OfHalf(a) /\ c.kind = "fill" /\ a.batch = c.batch
       /\ Half(a.arg) = Half(c.arg.layer) /\ a.arg < c.arg.layer
CopyFirst(c, a) ==
    \/ c.kind = "fill" /\ Touches(a) /\ c.batch < a.batch
    \/ /\ c.kind = "fill" /\ OfHalf(a) /\ c.batch = a.batch
       /\ Half(a.arg) = Half(c.arg.layer) /\ c.arg.layer < a.arg
    \/ /\ c.kind = "fill" /\ a.kind = "layer_gemm" /\ c.batch = a.batch
       /\ c.arg.layer = a.arg

StreamsOrdered ==
    \A i \in DOMAIN Compute, c \in DOMAIN Copy :
        /\ ComputeFirst(Compute[i], Copy[c]) => Sync("compute", i, "copy", c)
        /\ CopyFirst(Copy[c], Compute[i]) => Sync("copy", c, "compute", i)

(* Each stream has operations of its own kinds.                            *)
KindsByStream ==
    /\ \A i \in DOMAIN Compute : Compute[i].kind \notin {"fill", "snapshot"}
    /\ \A c \in DOMAIN Copy : Copy[c].kind \in {"wait", "record", "fill", "snapshot"}

(* Batches follow one another on the compute stream, and in a batch the    *)
(* gathers their layers; the GEMM of a layer is behind its gather, and at  *)
(* most the gather of one layer more.  The copies follow their layers.     *)
ComputeInOrder ==
    \A i, j \in DOMAIN Compute : i < j =>
        /\ Compute[i].batch <= Compute[j].batch
        /\ Compute[i].batch = Compute[j].batch /\ Compute[i].kind = "gather" =>
             /\ Compute[j].kind = "gather" => Compute[i].arg < Compute[j].arg
             /\ Compute[j].kind = "layer_gemm" => Compute[i].arg <= Compute[j].arg + 1
Earlier(n, k, m, l) == n < m \/ (n = m /\ k < l)
FillsInOrder ==
    \A c, d \in DOMAIN Copy : c < d /\ Copy[c].kind = "fill" /\ Copy[d].kind = "fill" =>
        Earlier(Copy[c].batch, Copy[c].arg.layer, Copy[d].batch, Copy[d].arg.layer)

(* A GEMM over slots is directly behind what loads them.                   *)
GemmsFollow ==
    \A j \in DOMAIN Compute : j > 1 =>
        /\ Compute[j].kind = "front_gemm" =>
             Compute[j - 1].kind = "materialize" /\ Compute[j - 1].arg = Compute[j].arg
        /\ Compute[j].kind = "slot_gemm" =>
             Compute[j - 1].kind = "load" /\ Compute[j - 1].arg.layer = Compute[j].arg

(* A batch streams its layers or has them on demand, never both.           *)
BatchesOfOneKind ==
    \A i \in DOMAIN Compute : OnDemand(Compute[i]) =>
        /\ \A j \in DOMAIN Compute : OfHalf(Compute[j]) => Compute[j].batch # Compute[i].batch
        /\ \A c \in DOMAIN Copy : Copy[c].kind = "fill" => Copy[c].batch # Compute[i].batch

(* What the host has enqueued of the batch it is at: the layers before the *)
(* one it is at, and that one if it has been prefetched.                   *)
Issued(l) == l < batch.layer \/ (l = batch.layer /\ buffers[Half(l)].layer = l)
HostIssued ==
    /\ batch.mode \in {"prefill", "decode", "short_prefill"} =>
         /\ \A c \in DOMAIN Copy : Copy[c].batch < batches
         /\ \A i \in DOMAIN Compute : OfHalf(Compute[i]) => Compute[i].batch < batches
    /\ batch.mode = "prefill" /\ overlap =>
         \A i \in DOMAIN Compute : Compute[i].batch < batches
    /\ batch.mode = "streaming" =>
         /\ \A i \in DOMAIN Compute : OnDemand(Compute[i]) => Compute[i].batch < batches
         /\ \A i \in DOMAIN Compute : OfHalf(Compute[i]) /\ Compute[i].batch = batches =>
              /\ Issued(Compute[i].arg)
              /\ Compute[i].kind = "layer_gemm" => Compute[i].arg < batch.layer
         /\ \A c \in DOMAIN Copy : Copy[c].kind = "fill" /\ Copy[c].batch = batches =>
              Issued(Copy[c].arg.layer)

(* Every copy signals its layer, and but for the layer the host is at, the *)
(* compute stream is told to wait for it.                                  *)
FillsAwaited ==
    \A c \in DOMAIN Copy : Copy[c].kind = "fill" =>
        LET event == Ready(Copy[c].batch, Copy[c].arg.layer)
        IN /\ RecordFrom("copy", c, event)
           /\ \/ batch.mode = "streaming" /\ Copy[c].batch = batches
                   /\ Copy[c].arg.layer = batch.layer
              \/ \E w \in DOMAIN Compute : Compute[w].kind = "wait" /\ Compute[w].arg = event

(* The fence of the batch being streamed stands in front of it.            *)
FenceStands ==
    batch.mode = "streaming" =>
        \A i \in DOMAIN Compute : Compute[i].batch < batches =>
            RecordFrom("compute", i, Begin(batches)) /\ WaitQueued(batches)

(* The halves as the host keeps them: the event to wait for, and the one   *)
(* behind all the GEMMs and gathers that used the half before.             *)
OfPast(op) == OfHalf(op) /\ op.batch = batches /\ op.arg # batch.layer
HalvesKnown ==
    batch.mode = "streaming" =>
        /\ \A h \in Halves : buffers[h].layer # None =>
             /\ buffers[h].layer <= batch.layer /\ Half(buffers[h].layer) = h
             /\ buffers[h].ready = Ready(batches, buffers[h].layer)
        /\ \A i \in DOMAIN Compute :
             OfPast(Compute[i]) =>
                  LET freed == buffers[Half(Compute[i].arg)].freed
                  IN freed # None /\ RecordFrom("compute", i, freed)

(* The snapshot is of the batch being streamed, before its first layer;    *)
(* once it is taken no load is queued.                                     *)
SnapshotQueued == \E c \in DOMAIN Copy : Copy[c].kind = "snapshot"
SnapshotTaken == batch.mode = "streaming" /\ splitting /\ ~ SnapshotQueued
SnapshotsFirst ==
    /\ \A c \in DOMAIN Copy : Copy[c].kind = "snapshot" =>
         /\ batch.mode = "streaming" /\ splitting /\ batch.layer = 0
         /\ Copy[c].batch = batches
    /\ SnapshotTaken => \A i \in DOMAIN Compute : ~ Loading(Compute[i])

(* No gather is queued behind a load.                                      *)
GathersUndisturbed ==
    \A i, j \in DOMAIN Compute :
        i < j /\ Loading(Compute[i]) => Compute[j].kind # "gather"

OrderInv ==
    /\ KindsByStream
    /\ ComputeInOrder
    /\ FillsInOrder
    /\ GemmsFollow
    /\ BatchesOfOneKind
    /\ HostIssued
    /\ FillsAwaited
    /\ FenceStands
    /\ HalvesKnown
    /\ SnapshotsFirst
    /\ GathersUndisturbed
    /\ StreamsOrdered

-----------------------------------------------------------------------------
(* The snapshot the host splits a layer by is still true.                  *)
SnapshotAgrees ==
    SnapshotTaken => \A i \in Ids :
        IsHit(i) <=> snapshot[i] # None /\ snapshot[i] >= Volatile

(* What crosses the bus for a layer is what its gather will not bring.     *)
Twins(a, c) ==
    a.kind = "gather" /\ c.kind = "fill" /\ a.batch = c.batch /\ a.arg = c.arg.layer
RowsSplit ==
    \A j \in DOMAIN Compute, c \in DOMAIN Copy :
        Twins(Compute[j], Copy[c]) =>
             \A e \in Copy[c].arg.rows : ~ IsHit(<<Compute[j].arg, e>>)

(* Nothing that writes the half of layer l of batch n, and is from before  *)
(* it, is still queued.                                                    *)
Settled(n, l) ==
    /\ \A c \in DOMAIN Copy : Copy[c].kind = "fill" /\ Half(Copy[c].arg.layer) = Half(l) =>
         ~ Earlier(Copy[c].batch, Copy[c].arg.layer, n, l)
    /\ \A i \in DOMAIN Compute :
         /\ Compute[i].kind = "gather" /\ Half(Compute[i].arg) = Half(l) =>
              ~ Earlier(Compute[i].batch, Compute[i].arg, n, l)
         /\ Loading(Compute[i]) => Compute[i].batch >= n

(* Expert e of layer l is in its row of bank k, or a copy queued brings it,*)
(* or a gather in front of position j of the compute stream.               *)
InRow(n, l, k, e) == Settled(n, l) /\ bytes[k][Row(Half(l), e)] = <<l, e>>
FillBrings(n, l, k, e) ==
    \E c \in DOMAIN Copy :
        /\ Copy[c].kind = "fill" /\ Copy[c].batch = n /\ Copy[c].arg.layer = l
        /\ k \in SmallBanks \/ e \in Copy[c].arg.rows
GatherBrings(n, l, k, e, j) ==
    /\ k \notin SmallBanks /\ IsHit(<<l, e>>)
    /\ \E i \in DOMAIN Compute :
         i < j /\ Compute[i].kind = "gather" /\ Compute[i].batch = n /\ Compute[i].arg = l

(* The GEMM of layer l of batch n is at position j, or its layer is the    *)
(* next of the host and has been prefetched.                               *)
Uses(n, l, j) ==
    \/ /\ j \in DOMAIN Compute /\ Compute[j].kind = "layer_gemm"
       /\ Compute[j].batch = n /\ Compute[j].arg = l
    \/ /\ j = Len(Compute) + 1 /\ batch.mode = "streaming" /\ batch.layer = l
       /\ batches = n /\ buffers[Half(l)].layer = l

LayersComing ==
    \A l \in Layers, n \in 0 .. batches, j \in 1 .. Len(Compute) + 1 : Uses(n, l, j) =>
        \A k \in Banks, e \in Experts :
            InRow(n, l, k, e) \/ FillBrings(n, l, k, e) \/ GatherBrings(n, l, k, e, j)

(* The GEMM at the head of the compute stream has been loaded.             *)
HeadLoaded ==
    Compute # << >> =>
        LET op == Head(Compute)
        IN /\ op.kind = "front_gemm" =>
                \A k \in Banks, e \in Experts : bytes[k][Row(0, e)] = <<op.arg, e>>
           /\ op.kind = "slot_gemm" =>
                \A k \in Banks, e \in DOMAIN routed : routed[e] # None =>
                    bytes[k][routed[e]] = <<op.arg, e>>

(* A half is disturbed when a copy into it is queued and no load is in     *)
(* front of that copy; any other slot the maps name holds its expert.      *)
Disturbed(s) ==
    \E c \in DOMAIN Copy :
        /\ Copy[c].kind = "fill" /\ s \in BufferSlots(Half(Copy[c].arg.layer))
        /\ \A i \in DOMAIN Compute : Loading(Compute[i]) => Compute[i].batch >= Copy[c].batch
ResidencyForLoads ==
    \A s \in Slots : idOfSlot[s] # None /\ ~ Disturbed(s) =>
        \A k \in Banks : bytes[k][s] = idOfSlot[s]

BytesInv ==
    /\ SnapshotAgrees
    /\ RowsSplit
    /\ LayersComing
    /\ HeadLoaded
    /\ ResidencyForLoads

=============================================================================
