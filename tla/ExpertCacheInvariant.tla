------------------------ MODULE ExpertCacheInvariant ------------------------
(***************************************************************************)
(* The inductive invariant of ExpertCache behind ResidencyIsTrue: what the *)
(* two streams still hold for each other.                                  *)
(***************************************************************************)
EXTENDS ExpertCache

Compute == queue["compute"]
Copy    == queue["copy"]

Loading(op) == op.kind \in {"load", "materialize"}
Begin(n) == [what |-> "begin", batch |-> n, layer |-> 0]

(* A copy of layer l for batch n is queued.                                *)
Filling(l, n) ==
    \E c \in DOMAIN Copy :
        Copy[c].kind = "fill" /\ Copy[c].arg.layer = l /\ Copy[c].batch = n

(* The fence of batch n: its record is queued behind operation i of the    *)
(* compute stream, its wait in front of operation c of the copy stream.    *)
RecordAfter(i, n) ==
    \E k \in DOMAIN Compute : k > i /\ Compute[k].kind = "record" /\ Compute[k].arg = Begin(n)
WaitBefore(c, n) ==
    \E w \in DOMAIN Copy : w < c /\ Copy[w].kind = "wait" /\ Copy[w].arg = Begin(n)
WaitQueued(n) == \E w \in DOMAIN Copy : Copy[w].kind = "wait" /\ Copy[w].arg = Begin(n)

(* Nothing queued is from a batch to come.                                 *)
BatchesInOrder ==
    /\ \A i \in DOMAIN Compute : Compute[i].batch <= batches
    /\ \A c \in DOMAIN Copy : Copy[c].batch <= batches

(* Layers are streamed only where the halves fit.                          *)
StreamsFit ==
    /\ batch.mode = "streaming" => overlap
    /\ \A c \in DOMAIN Copy : Copy[c].kind = "fill" => overlap

(* A batch that streams its layers loads none of them.                     *)
StreamsLoadNothing ==
    batch.mode = "streaming" \/ (batch.mode = "prefill" /\ overlap) =>
        \A i \in DOMAIN Compute : Loading(Compute[i]) => Compute[i].batch < batches

(* While an earlier batch has a load to run, the fence of the batch being  *)
(* streamed stands.                                                        *)
BatchFenced ==
    batch.mode = "streaming" =>
        \A i \in DOMAIN Compute : Loading(Compute[i]) =>
            RecordAfter(i, batches) /\ WaitQueued(batches)

(* So a copy into a half runs after the loads of the batches before it.    *)
FillsFenced ==
    \A c \in DOMAIN Copy, i \in DOMAIN Compute :
        Copy[c].kind = "fill" /\ Loading(Compute[i]) /\ Compute[i].batch < Copy[c].batch =>
            RecordAfter(i, Copy[c].batch) /\ WaitBefore(c, Copy[c].batch)

(* A gather behind a load belongs to a later batch, whose copy of that     *)
(* layer has not run.                                                      *)
GathersAfterLoads ==
    \A i, j \in DOMAIN Compute :
        i < j /\ Loading(Compute[i]) /\ Compute[j].kind = "gather" =>
            /\ Compute[i].batch < Compute[j].batch
            /\ Filling(Compute[j].arg, Compute[j].batch)

(* A gather writes a half that is disowned, or about to be.                *)
GathersCovered ==
    \A j \in DOMAIN Compute : Compute[j].kind = "gather" =>
        \/ Filling(Compute[j].arg, Compute[j].batch)
        \/ \A s \in Slots : s \in BufferSlots(Half(Compute[j].arg)) => idOfSlot[s] = None

QueueInv ==
    /\ BatchesInOrder
    /\ StreamsFit
    /\ StreamsLoadNothing
    /\ BatchFenced
    /\ FillsFenced
    /\ GathersAfterLoads

IInv == TypeOK /\ QueueInv /\ GathersCovered /\ ResidencyIsTrue

=============================================================================
