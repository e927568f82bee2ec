---------------------------- MODULE ExpertCache ----------------------------
(***************************************************************************)
(* The MoE expert cache (moe/offload_cache.py) as layers/moe.py drives it. *)
(* The host enqueues work on two device streams: the compute stream, with  *)
(* the expert GEMMs and the on-demand loads, and the copy stream, which    *)
(* brings the next layer of a prefill into the other half of a double      *)
(* buffer.  The halves borrow the first slots of the one slot cache.  The  *)
(* streams are ordered by events alone.                                    *)
(*                                                                         *)
(* Abstractions.  The calls made for one layer are one host step: a slow   *)
(* device is as good as a fast host.  A record of an event is an operation *)
(* of its stream with a name of its own, and a wait for it is over when it *)
(* is no longer queued.  The host's own wait inside a buffer invalidation  *)
(* is left out.  Bytes are the name of the expert they belong to.          *)
(***************************************************************************)
EXTENDS Integers, Sequences, FiniteSets, FiniteSetsExt, Functions

CONSTANTS
    NumLayers, NumExperts,
    Banks,          \* the weight tensors of an expert
    SmallBanks,     \* those whose rows are below _SMALL_BANK_FEAT_BYTES
    Sizes,          \* slot counts a rebuild may ask for
    InitialSize,    \* cache_size at start
    HitD2D,         \* prefill_hit_d2d
    MaxFetch,       \* hybrid_max_fetch
    Routings,       \* per layer, the experts a batch may be routed to
    MaxBatches,     \* bound of the model: batches the engine runs
    None

Layers  == 0 .. NumLayers - 1
Experts == 0 .. NumExperts - 1
Ids     == Layers \X Experts
Events  == [what : {"begin", "ready", "release"}, batch : Nat, layer : Nat]

ASSUME ExpertCacheAssumption ==
    /\ NumLayers \in Nat \ {0} /\ NumExperts \in Nat \ {0}
    /\ Sizes \subseteq Nat /\ InitialSize \in Sizes /\ InitialSize >= NumExperts
    /\ SmallBanks \subseteq Banks /\ HitD2D \in BOOLEAN
    /\ Routings \subseteq [Layers -> SUBSET Experts]
    /\ MaxFetch \in Nat /\ MaxBatches \in Nat
    /\ None \notin Nat /\ None \notin Ids /\ None \notin Routings /\ None \notin Events

VARIABLES
    batch,          \* what the host is enqueuing: a mode and its next layer
    batches,        \* how many batches it has begun
    buffers,        \* per half: its layer, released, and its last two events
    splitting,      \* _prefill_hit_d2d_active
    overlap,        \* prefill_overlap
    snapshot,       \* _prefill_slot_snapshot: slot_for_id at begin_prefill
    queue,          \* the operations of each stream, oldest first
    slotForId,      \* slot_for_id
    idOfSlot,       \* id_of_slot
    usage,          \* usage, with the step counter
    bytes,          \* whose weights a bank has in a slot
    routed          \* the topk_ids a load has rewritten to slots

hostVars   == <<batch, batches, buffers, splitting, overlap>>
deviceVars == <<slotForId, idOfSlot, usage, bytes, routed>>
vars == <<hostVars, snapshot, queue, deviceVars>>

Halves  == {0, 1}
Streams == {"compute", "copy"}
Slots   == DOMAIN idOfSlot
Half(l) == l % 2
Row(b, e) == b * NumExperts + e                  \* position is expert id
BufferSlots(b) == {Row(b, e) : e \in Experts}
Volatile == 2 * NumExperts                       \* the buffers own slots below

Idle == [mode |-> "idle", layer |-> 0, route |-> None]
EmptyHalf == [layer |-> None, released |-> TRUE, freed |-> None, ready |-> None]

(* Object construction, and what a rebuild to n slots reallocates.         *)
Cold(n) ==
    /\ buffers' = [b \in Halves |-> EmptyHalf]
    /\ overlap' = (overlap /\ n >= Volatile)
    /\ slotForId' = [i \in Ids |-> None]
    /\ idOfSlot' = [s \in 0 .. n - 1 |-> None]
    /\ usage' = [step |-> 0, of |-> [s \in 0 .. n - 1 |-> 0]]
    /\ bytes' = [k \in Banks |-> [s \in 0 .. n - 1 |-> None]]

Init ==
    /\ batch = Idle /\ batches = 0 /\ splitting = FALSE
    /\ overlap = (InitialSize >= Volatile)
    /\ buffers = [b \in Halves |-> EmptyHalf]
    /\ snapshot = [i \in Ids |-> None] /\ routed = << >>
    /\ queue = [s \in Streams |-> << >>]
    /\ slotForId = [i \in Ids |-> None]
    /\ idOfSlot = [s \in 0 .. InitialSize - 1 |-> None]
    /\ usage = [step |-> 0, of |-> [s \in 0 .. InitialSize - 1 |-> 0]]
    /\ bytes = [k \in Banks |-> [s \in 0 .. InitialSize - 1 |-> None]]

-----------------------------------------------------------------------------
(* The host.  enq is what a call for one layer works on: the queues and the*)
(* two halves.                                                             *)

Event(what, l) == [what |-> what, batch |-> batches, layer |-> l]
Op(kind, arg) == [kind |-> kind, arg |-> arg, batch |-> batches]
Enqueue(q, stream, ops) == [q EXCEPT ![stream] = @ \o ops]

(* A stream waits for an event's last record, if there ever was one.       *)
WaitFor(event) == IF event = None THEN << >> ELSE <<Op("wait", event)>>

(* What crosses the bus: the whole layer for small banks, and otherwise the*)
(* rows the snapshot does not find above the buffers.                      *)
SnapshotAny(l, e) == snapshot[<<l, e>>] # None  \* mutant: buffer slots too
InSnapshot(l, e) == snapshot[<<l, e>>] # None /\ snapshot[<<l, e>>] >= Volatile
Crossing(l) == {e \in Experts : ~ (splitting /\ InSnapshot(l, e))}

Fill(l) == Op("fill", [layer |-> l, rows |-> Crossing(l)])

(* prefetch_prefill_layer, with the split of _prefetch_split.              *)
Prefetch(enq, l) ==
    LET b == Half(l)
        gathered == IF splitting THEN <<Op("gather", l)>> ELSE << >>
        copied == WaitFor(enq.buffers[b].freed)
                    \o <<Fill(l), Op("record", Event("ready", l))>>
    IN IF l \notin Layers \/ enq.buffers[b].layer = l THEN enq
       ELSE [queue |-> Enqueue(Enqueue(enq.queue, "compute", gathered), "copy", copied),
             buffers |-> [enq.buffers EXCEPT ![b] =
               [@ EXCEPT !.layer = l, !.released = FALSE, !.ready = Event("ready", l)]]]

(* wait_prefill_layer, the GEMM over the half, release_prefill_layer.      *)
UseHalf(enq, l) ==
    [queue |-> Enqueue(enq.queue, "compute",
                 WaitFor(enq.buffers[Half(l)].ready)
                   \o <<Op("layer_gemm", l), Op("record", Event("release", l))>>),
     buffers |-> [enq.buffers EXCEPT ![Half(l)] =
                   [@ EXCEPT !.released = TRUE, !.freed = Event("release", l)]]]

(* The assertion of prefetch_prefill_layer: a half is not taken unreleased.*)
MayTake(l) ==
    LET h == buffers[Half(l)] IN l \in Layers /\ h.layer \notin {None, l} => h.released

NextLayer(l) ==
    batch' = IF l + 1 \in Layers THEN [batch EXCEPT !.layer = l + 1] ELSE Idle

(* A batch is launched while the one before may still run: the loop has    *)
(* waited for the copy-out of the one before that.                         *)
StartBatch(mode, route) ==
    /\ batch = Idle /\ batches < MaxBatches
    /\ \A i \in DOMAIN queue["compute"] : queue["compute"][i].batch = batches
    /\ batch' = [mode |-> mode, layer |-> 0, route |-> route]
    /\ batches' = batches + 1
    /\ UNCHANGED <<buffers, splitting, overlap, snapshot, queue, deviceVars>>

(* begin_prefill: the copy stream is fenced behind the compute stream; for *)
(* the split it then takes the snapshot.                                   *)
Unfenced(q) == q                \* mutant: the decode before may still run
Fence(q) ==
    Enqueue(Enqueue(q, "compute", <<Op("record", Event("begin", 0))>>),
            "copy", <<Op("wait", Event("begin", 0))>>)

BeginPrefill ==
    /\ batch.mode = "prefill" /\ batch.layer = 0 /\ overlap
    /\ batch' = [batch EXCEPT !.mode = "streaming"]
    /\ splitting' = (HitD2D /\ Cardinality(Slots) > Volatile)
    /\ queue' = Enqueue(Fence(queue), "copy",
                        IF splitting' THEN <<Op("snapshot", None)>> ELSE << >>)
    /\ buffers' = [b \in Halves |-> [buffers[b] EXCEPT !.layer = None, !.released = TRUE]]
    /\ UNCHANGED <<batches, overlap, snapshot, deviceVars>>

(* One layer of an overlapped prefill.  Before the first, the host waits   *)
(* for the snapshot (prefill_copy_stream.synchronize).                     *)
StreamLayer ==
    LET l == batch.layer
        now == [queue |-> queue, buffers |-> buffers]
        enq == UseHalf(Prefetch(Prefetch(now, l), l + 1), l)
    IN /\ batch.mode = "streaming"
       /\ l = 0 /\ splitting => queue["copy"] = << >>
       /\ MayTake(l) /\ MayTake(l + 1)
       /\ queue' = enq.queue /\ buffers' = enq.buffers
       /\ NextLayer(l)
       /\ UNCHANGED <<batches, splitting, overlap, snapshot, deviceVars>>

(* One layer of a prefill without overlap: materialize_layer, copy_missing.*)
MaterializeLayer ==
    LET l == batch.layer
    IN /\ batch.mode = "prefill" /\ ~ overlap
       /\ queue' = Enqueue(queue, "compute",
                           <<Op("materialize", l), Op("front_gemm", l)>>)
       /\ NextLayer(l)
       /\ UNCHANGED <<batches, buffers, splitting, overlap, snapshot, deviceVars>>

(* One layer loaded on demand, for a decode or a short prefill: the experts*)
(* routed to, of which a hybrid decode fetches only so many.               *)
DemandLayer ==
    LET l == batch.layer
        active == batch.route[l]
        cap == IF batch.mode = "decode" THEN MaxFetch ELSE NumExperts
    IN /\ batch.mode \in {"decode", "short_prefill"}
       /\ queue' = Enqueue(queue, "compute",
                     <<Op("load", [layer |-> l, active |-> active, cap |-> cap]),
                       Op("slot_gemm", l)>>)
       /\ NextLayer(l)
       /\ UNCHANGED <<batches, buffers, splitting, overlap, snapshot, deviceVars>>

(* rebuild, between batches and after a device synchronize.                *)
Rebuild(n) ==
    /\ batch = Idle /\ \A s \in Streams : queue[s] = << >>
    /\ n # Cardinality(Slots) /\ n >= NumExperts
    /\ Cold(n)
    /\ UNCHANGED <<batch, batches, splitting, snapshot, queue, routed>>

-----------------------------------------------------------------------------
(* The device.  Each stream runs its operations in order.                  *)

Other(s) == CHOOSE t \in Streams : t # s
Pending(s, event) ==
    \E i \in DOMAIN queue[s] : queue[s][i].kind = "record" /\ queue[s][i].arg = event

Runnable(s) ==
    /\ queue[s] # << >>
    /\ Head(queue[s]).kind = "wait" => ~ Pending(Other(s), Head(queue[s]).arg)

AtHead(s, kind) == Runnable(s) /\ Head(queue[s]).kind = kind
Pop(s) == queue' = [queue EXCEPT ![s] = Tail(@)]

(* A wait that is over, a record, or a GEMM: nothing in the caches changes.*)
Pass(s) ==
    /\ Runnable(s)
    /\ Head(queue[s]).kind \in {"wait", "record", "layer_gemm", "front_gemm", "slot_gemm"}
    /\ Pop(s)
    /\ UNCHANGED <<hostVars, snapshot, deviceVars>>

TakeSnapshot ==
    /\ AtHead("copy", "snapshot") /\ Pop("copy")
    /\ snapshot' = slotForId
    /\ UNCHANGED <<hostVars, deviceVars>>

(* _invalidate_prefill_buffer: the half disowns what its slots held.       *)
DisownSlots(b) ==               \* mutant: the experts keep their entries
    /\ slotForId' = slotForId
    /\ idOfSlot' = [s \in Slots |-> IF s \in BufferSlots(b) THEN None ELSE idOfSlot[s]]
    /\ usage' = [usage EXCEPT !.of = [s \in Slots |->
         IF s \in BufferSlots(b) THEN 0 ELSE usage.of[s]]]
Disown(b) ==
    /\ slotForId' = [i \in Ids |->
         IF \E s \in BufferSlots(b) : idOfSlot[s] = i THEN None ELSE slotForId[i]]
    /\ idOfSlot' = [s \in Slots |-> IF s \in BufferSlots(b) THEN None ELSE idOfSlot[s]]
    /\ usage' = [usage EXCEPT !.of = [s \in Slots |->
         IF s \in BufferSlots(b) THEN 0 ELSE usage.of[s]]]

FillHalf ==
    LET l == Head(queue["copy"]).arg.layer
        b == Half(l)
        Arrives(k, e) == k \in SmallBanks \/ e \in Head(queue["copy"]).arg.rows
    IN /\ AtHead("copy", "fill") /\ Pop("copy")
       /\ Disown(b)
       /\ bytes' = [k \in Banks |-> [s \in Slots |->
            IF \E e \in Experts : s = Row(b, e) /\ Arrives(k, e)
              THEN <<l, s - Row(b, 0)>> ELSE bytes[k][s]]]
       /\ UNCHANGED <<hostVars, snapshot, routed>>

(* prefill_hit_compact and the gather after it: the experts that are in the*)
(* cache above the buffers now.                                            *)
IsHit(i) == slotForId[i] # None /\ slotForId[i] >= Volatile

GatherHits ==
    LET l == Head(queue["compute"]).arg
        b == Half(l)
        hits == {e \in Experts : IsHit(<<l, e>>)}
    IN /\ AtHead("compute", "gather") /\ Pop("compute")
       /\ bytes' = [k \in Banks |-> [s \in Slots |->
            IF k \notin SmallBanks /\ \E e \in hits : s = Row(b, e)
              THEN bytes[k][slotForId[<<l, s - Row(b, 0)>>]] ELSE bytes[k][s]]]
       /\ UNCHANGED <<hostVars, snapshot, slotForId, idOfSlot, usage, routed>>

(* The victims of a load: of the slots without an expert in use, those used*)
(* longest ago.                                                            *)
Older(s, t) == usage.of[s] < usage.of[t] \/ (usage.of[s] = usage.of[t] /\ s < t)
Victims(l, active, n) ==
    LET free == {s \in Slots : \A e \in active : idOfSlot[s] # <<l, e>>}
    IN {s \in free : Cardinality({t \in free : Older(t, s)}) < n}

(* ensure_experts or ensure_experts_hybrid, then copy_missing.  Which of   *)
(* the missing are fetched, and into which victim, is left open.           *)
Load ==
    LET l == Head(queue["compute"]).arg.layer
        active == Head(queue["compute"]).arg.active
        missing == {e \in active : slotForId[<<l, e>>] = None}
        many == Min({Head(queue["compute"]).arg.cap, Cardinality(missing)})
        victims == Victims(l, active, many)
        step == usage.step + 1
    IN /\ AtHead("compute", "load") /\ Pop("compute")
       /\ \E new \in Injection(victims, missing) :
            LET NewSlot(e) == CHOOSE s \in victims : new[s] = e
                At(i) == IF i[1] = l /\ \E s \in victims : new[s] = i[2] THEN NewSlot(i[2])
                         ELSE IF slotForId[i] \in victims THEN None ELSE slotForId[i]
            IN /\ slotForId' = [i \in Ids |-> At(i)]
               /\ idOfSlot' = [s \in Slots |->
                    IF s \in victims THEN <<l, new[s]>> ELSE idOfSlot[s]]
               /\ bytes' = [k \in Banks |-> [s \in Slots |->
                    IF s \in victims THEN <<l, new[s]>> ELSE bytes[k][s]]]
               /\ usage' = [step |-> step, of |-> [s \in Slots |->
                    IF s \in victims \/ \E e \in active : idOfSlot[s] = <<l, e>>
                      THEN step ELSE usage.of[s]]]
               /\ routed' = [e \in active |-> At(<<l, e>>)]
       /\ UNCHANGED <<hostVars, snapshot>>

(* materialize_layer and copy_missing: the whole layer into the first slots*)
Materialize ==
    LET l == Head(queue["compute"]).arg
        front == BufferSlots(0)
        step == usage.step + 1
        SameLayer(s) == idOfSlot[s] # None /\ idOfSlot[s][1] = l
    IN /\ AtHead("compute", "materialize") /\ Pop("compute")
       /\ slotForId' = [i \in Ids |->
            IF i[1] = l THEN i[2]
            ELSE IF \E s \in front : idOfSlot[s] = i THEN None ELSE slotForId[i]]
       /\ idOfSlot' = [s \in Slots |->
            IF s \in front THEN <<l, s>> ELSE IF SameLayer(s) THEN None ELSE idOfSlot[s]]
       /\ bytes' = [k \in Banks |-> [s \in Slots |->
            IF s \in front THEN <<l, s>> ELSE bytes[k][s]]]
       /\ usage' = [step |-> step, of |-> [s \in Slots |->
            IF s \in front THEN step ELSE IF SameLayer(s) THEN 0 ELSE usage.of[s]]]
       /\ UNCHANGED <<hostVars, snapshot, routed>>

Finished ==
    /\ batch = Idle /\ batches = MaxBatches /\ \A s \in Streams : queue[s] = << >>
    /\ UNCHANGED vars

Host ==
    \/ StartBatch("prefill", None)
    \/ \E mode \in {"decode", "short_prefill"}, route \in Routings : StartBatch(mode, route)
    \/ BeginPrefill \/ StreamLayer \/ MaterializeLayer \/ DemandLayer
    \/ \E n \in Sizes : Rebuild(n)

Device ==
    \/ \E s \in Streams : Pass(s)
    \/ TakeSnapshot \/ FillHalf \/ GatherHits \/ Load \/ Materialize

Next == Host \/ Device \/ Finished
Spec == Init /\ [][Next]_vars

(* Properties.                                                             *)

Ops ==
    [kind : {"wait", "record"}, arg : Events, batch : Nat]
      \union [kind : {"snapshot"}, arg : {None}, batch : Nat]
      \union [kind : {"gather", "layer_gemm", "materialize", "front_gemm", "slot_gemm"},
              arg : Layers, batch : Nat]
      \union [kind : {"fill"}, arg : [layer : Layers, rows : SUBSET Experts], batch : Nat]
      \union [kind : {"load"}, batch : Nat,
              arg : [layer : Layers, active : SUBSET Experts, cap : Nat]]
HalfStates == [layer : Layers \union {None}, released : BOOLEAN,
               freed : Events \union {None}, ready : Events \union {None}]

Modes == {"idle", "prefill", "streaming", "decode", "short_prefill"}

(* The types of the variables, and the sizes an overlapped prefill needs.  *)
TypeOK ==
    /\ batch \in [mode : Modes, layer : Layers, route : Routings \union {None}]
    /\ batch.mode \in {"decode", "short_prefill"} => batch.route \in Routings
    /\ batches \in Nat /\ splitting \in BOOLEAN /\ overlap \in BOOLEAN
    /\ buffers \in [Halves -> HalfStates]
    /\ queue \in [Streams -> Seq(Ops)]
    /\ \E n \in Sizes : Slots = 0 .. n - 1 /\ n >= NumExperts /\ (overlap => n >= Volatile)
    /\ idOfSlot \in [Slots -> Ids \union {None}]
    /\ slotForId \in [Ids -> Slots \union {None}]
    /\ snapshot \in [Ids -> Nat \union {None}]
    /\ bytes \in [Banks -> [Slots -> Ids \union {None}]]
    /\ usage \in [step : Nat, of : [Slots -> Nat]]
    /\ \A e \in DOMAIN routed : e \in Experts /\ routed[e] \in Nat \union {None}

(* A GEMM about to run finds, in every bank, the weights of the experts it *)
(* is for: each row of the half it was given, the first slots after a      *)
(* materialize, and the slot of each routed expert the GPU computes (views *)
(* of wait_prefill_layer, bank_views, the topk_ids ensure_experts rewrote).*)
GemmReadsItsExperts ==
    Runnable("compute") =>
        LET op == Head(queue["compute"])
            Holds(s, e) == \A k \in Banks : bytes[k][s] = <<op.arg, e>>
        IN /\ op.kind = "layer_gemm" => \A e \in Experts : Holds(Row(Half(op.arg), e), e)
           /\ op.kind = "front_gemm" => \A e \in Experts : Holds(Row(0, e), e)
           /\ op.kind = "slot_gemm" =>
                \A e \in DOMAIN routed : routed[e] # None => Holds(routed[e], e)

(* The bank rows an operation writes or reads.                             *)
FillRows(op) ==
    {<<k, Row(Half(op.arg.layer), e)>> : k \in SmallBanks, e \in Experts}
      \union {<<k, Row(Half(op.arg.layer), e)>> : k \in Banks, e \in op.arg.rows}
Hits(l) == {e \in Experts : IsHit(<<l, e>>)}

Writes(op) ==
    CASE op.kind = "fill" -> FillRows(op)
      [] op.kind = "gather" ->
           (Banks \ SmallBanks) \X {Row(Half(op.arg), e) : e \in Hits(op.arg)}
      [] op.kind \in {"load", "materialize"} -> Banks \X Slots
      [] OTHER -> {}
Reads(op) ==
    CASE op.kind = "gather" ->
           (Banks \ SmallBanks) \X {slotForId[<<op.arg, e>>] : e \in Hits(op.arg)}
      [] op.kind = "layer_gemm" -> Banks \X BufferSlots(Half(op.arg))
      [] op.kind = "front_gemm" -> Banks \X BufferSlots(0)
      [] op.kind = "slot_gemm" ->      \* a route left to the CPU reads slot 0
           {<<k, IF routed[e] = None THEN 0 ELSE routed[e]>> :
              k \in Banks, e \in DOMAIN routed}
      [] OTHER -> {}

(* The slot map and the usage counters; of these a gather reads no entry   *)
(* that an invalidation writes.                                            *)
WritesMaps(op) == op.kind \in {"fill", "load", "materialize"}
ReadsMaps(op)  == op.kind = "snapshot"

Disturbs(a, b) ==
    \/ Writes(a) \intersect (Writes(b) \union Reads(b)) # {}
    \/ WritesMaps(a) /\ (WritesMaps(b) \/ ReadsMaps(b))

(* Operations both streams may run at once never touch the same bytes, one *)
(* of them writing: what begin_prefill's fence and the ready and release   *)
(* events of the two halves are for.                                       *)
StreamsNeverRace ==
    Runnable("compute") /\ Runnable("copy") =>
        LET g == Head(queue["compute"])  c == Head(queue["copy"])
        IN ~ Disturbs(g, c) /\ ~ Disturbs(c, g)

(* The two maps are each other's inverse, and a slot they name holds its   *)
(* expert in every bank, unless the slot is in a half a queued copy is yet *)
(* to disown: a stale entry would make a later ensure_experts call a hit.  *)
Disowning ==
    UNION {BufferSlots(Half(queue["copy"][i].arg.layer)) :
             i \in {j \in DOMAIN queue["copy"] : queue["copy"][j].kind = "fill"}}

ResidencyIsTrue ==
    /\ \A i \in Ids : slotForId[i] # None => idOfSlot[slotForId[i]] = i
    /\ \A s \in Slots : idOfSlot[s] # None =>
         /\ slotForId[idOfSlot[s]] = s
         /\ s \notin Disowning => \A k \in Banks : bytes[k][s] = idOfSlot[s]

=============================================================================
