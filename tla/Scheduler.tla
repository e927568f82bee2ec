----------------------------- MODULE Scheduler -----------------------------
(***************************************************************************)
(* The continuous-batching scheduler: scheduler/scheduler.py with the      *)
(* managers it drives (prefill.py, decode.py, table.py, cache.py with the  *)
(* naive prefix cache).  One thread runs the loop                          *)
(*                                                                         *)
(*    receive messages -> rebuild if idle -> schedule and launch a batch   *)
(*       -> drain the results of a batch -> flush abort acknowledgements   *)
(*                                                                         *)
(* which is the phase variable.  With Overlap the batch drained is the one *)
(* launched by the PREVIOUS iteration (overlap_loop), so a request can be  *)
(* in a forward the host has not seen the end of while messages arrive and *)
(* the next batch is built; without it the loop drains what it launched    *)
(* (normal_loop).                                                          *)
(*                                                                         *)
(* Abstractions.  A token is not modelled, only whether it ends the        *)
(* request.  A Req object is its uid: the successive ChunkedReq objects of *)
(* one prompt share their table slot and pages and only the newest one can *)
(* be aborted or freed.  A page-table row is the set of its pages, since   *)
(* PagesMatchProgress shows a finish frees exactly the row.                *)
(***************************************************************************)
EXTENDS Integers, Sequences, FiniteSets, FiniteSetsExt

CONSTANTS
    Uids,           \* request ids
    InputLen,       \* [Uids -> Nat]: prompt length in tokens
    MaxTokens,      \* [Uids -> Nat]: the max_tokens the client asked for
    Slots,          \* table slots (max_running_req)
    Pages,          \* every KV page a pool may ever have
    InitialPages,   \* the pages of the pool the server starts with
    PageSize,       \* tokens per page
    PrefillBudget,  \* prefill_budget: prompt tokens per prefill batch
    ConfigMaxSeqLen,\* config.max_seq_len
    Overlap,        \* TRUE: overlap_loop, FALSE: normal_loop
    MaxAborts,      \* bound: abort messages sent per uid
    TombstoneCap,   \* bound of _abort_tombstones (65_536 in the code)
    RebuildIds,     \* cache-rebuild requests
    RebuildPages,   \* [RebuildIds -> Nat]: requested num_pages, 0 = unchanged
    RebuildSupported, \* supports_runtime_rebuild and tp_info.size = 1
    None            \* no slot, no request, no rebuild

ASSUME SchedulerAssumption ==
    /\ InputLen \in [Uids -> Nat \ {0}]
    /\ MaxTokens \in [Uids -> Nat \ {0}]
    /\ IsFiniteSet(Pages) /\ InitialPages \subseteq Pages
    /\ PageSize \in Nat \ {0}
    /\ PrefillBudget \in Nat \ {0}
    /\ ConfigMaxSeqLen \in Nat
    /\ Overlap \in BOOLEAN
    /\ MaxAborts \in Nat
    /\ TombstoneCap \in Nat
    /\ RebuildPages \in [RebuildIds -> Nat]
    /\ RebuildSupported \in BOOLEAN
    /\ None \notin Uids /\ None \notin Slots /\ None \notin RebuildIds

VARIABLES
    phase,          \* where the loop is
    sent,           \* requests whose UserMsg has been received
    aborts,         \* aborts[u]: abort messages received for u
    tombstones,     \* _abort_tombstones, oldest first
    acks,           \* _pending_abort_acks
    reply,          \* reply[u]: messages sent for u (see ReplyStream)
    pending,        \* prefill_manager.pending_list
    chunked,        \* pending requests with a chunked_req
    running,        \* decode_manager.running_reqs
    finishedReqs,   \* finished_reqs
    last,           \* _last_data: the launched batch not yet drained
    ongoing,        \* the batch launched by this iteration
    aborted,        \* requests with req.aborted
    outputLen,      \* outputLen[u]: max_tokens after the clamp
    cached,         \* cached[u]: req.cached_len; device_len is cached_len + 1
    slot,           \* slot[u]: req.table_idx, None for -1
    row,            \* row[u]: the pages of the request's page-table row
    freeSlots,      \* table_manager._free_slots
    freePages,      \* cache_manager.free_slots
    pool,           \* the pages that exist (num_pages)
    pendingRebuild, \* _pending_rebuild
    rebuilt         \* rebuilt[b]: what became of rebuild request b

msgVars     == <<sent, aborts, tombstones, acks>>
queueVars   == <<pending, chunked, running, finishedReqs>>
batchVars   == <<last, ongoing, aborted>>
reqVars     == <<outputLen, cached>>
memVars     == <<slot, row, freeSlots, freePages>>
rebuildVars == <<pool, pendingRebuild, rebuilt>>
vars == <<phase, msgVars, reply, queueVars, batchVars, reqVars, memVars,
          rebuildVars>>

-----------------------------------------------------------------------------
NoBatch == [reqs |-> {}, chunked |-> {}]

Elems(s) == {s[i] : i \in DOMAIN s}

DivCeil(n) == (n + PageSize - 1) \div PageSize

(* The sum of a family of natural numbers, counted by its units            *)
(* <<x, 1>>, ..., <<x, f[x]>>: facts about sums are facts about finite sets.*)
Units(f) == UNION {{x} \X (1 .. f[x]) : x \in DOMAIN f}
Total(f) == Cardinality(Units(f))

(* engine.max_seq_len: never more than the pool holds.                     *)
MaxSeqLen ==
    IF Cardinality(pool) * PageSize < ConfigMaxSeqLen
    THEN Cardinality(pool) * PageSize
    ELSE ConfigMaxSeqLen

MaxDeviceLen(u) == InputLen[u] + outputLen[u]

(* Req.remain_len and Req.can_decode for a request with cached_len = c.    *)
RemainLen(u, c) == MaxDeviceLen(u) - (c + 1)
CanDecodeEarly(u, c) == RemainLen(u, c) > 1     \* mutant: one too few
CanDecode(u, c) == RemainLen(u, c) > 0

Send(us, kind) ==
    reply' = [u \in Uids |-> IF u \in us THEN Append(reply[u], kind)
                                         ELSE reply[u]]

Runnable == pending # << >> \/ running # {}

Init ==
    /\ phase = "recv"
    /\ sent = {} /\ aborts = [u \in Uids |-> 0]
    /\ tombstones = << >> /\ acks = {}
    /\ reply = [u \in Uids |-> << >>]
    /\ pending = << >> /\ chunked = {} /\ running = {} /\ finishedReqs = {}
    /\ last = NoBatch /\ ongoing = NoBatch /\ aborted = {}
    /\ outputLen = [u \in Uids |-> 0] /\ cached = [u \in Uids |-> 0]
    /\ slot = [u \in Uids |-> None] /\ row = [u \in Uids |-> {}]
    /\ freeSlots = Slots /\ freePages = InitialPages
    /\ pool = InitialPages
    /\ pendingRebuild = None
    /\ rebuilt = [b \in RebuildIds |-> "unsent"]

-----------------------------------------------------------------------------
(* Freeing requests.                                                       *)

(* The requests of us that still own something: table_idx # -1.            *)
Holding(us) == {u \in us : slot[u] # None}

(* Mutants: the request is not marked as freed; its pages are not returned. *)
FreeWithoutMark(us) ==
    LET held == Holding(us)
    IN /\ freePages' = freePages \cup UNION {row[u] : u \in held}
       /\ freeSlots' = freeSlots \cup {slot[u] : u \in held}
       /\ slot' = slot

FreeSlotOnly(us) ==
    LET held == Holding(us)
    IN /\ freePages' = freePages
       /\ freeSlots' = freeSlots \cup {slot[u] : u \in held}
       /\ slot' = [u \in Uids |-> IF u \in held THEN None ELSE slot[u]]

(* _free_req_resources for every request of us: the row's pages, then the  *)
(* table slot, go back to their free lists; the row itself is not cleared. *)
FreeReqResources(us) ==
    LET held == Holding(us)
    IN /\ freePages' = freePages \cup UNION {row[u] : u \in held}
       /\ freeSlots' = freeSlots \cup {slot[u] : u \in held}
       /\ slot' = [u \in Uids |-> IF u \in held THEN None ELSE slot[u]]

-----------------------------------------------------------------------------
(* Messages (_process_one_msg).  Each may arrive at any time the loop      *)
(* receives, in any order: several tokenizer processes feed the scheduler, *)
(* so an abort may overtake the request it names.                          *)

Without(s, u) ==
    IF \E i \in DOMAIN s : s[i] = u
    THEN LET i == CHOOSE i \in DOMAIN s : s[i] = u
         IN SubSeq(s, 1, i - 1) \o SubSeq(s, i + 1, Len(s))
    ELSE s

(* A request whose abort came first is dropped without a reply.            *)
DropAborted(u) ==
    /\ u \in Elems(tombstones)
    /\ tombstones' = Without(tombstones, u)
    /\ UNCHANGED <<acks, reply, pending, outputLen>>

(* A prompt that leaves no room for output (images without an encoder are  *)
(* refused the same way).                                                  *)
Rejected(u) == InputLen[u] >= MaxSeqLen

RejectRequest(u) ==
    /\ u \notin Elems(tombstones)
    /\ Rejected(u)
    /\ Send({u}, "error")
    /\ UNCHANGED <<tombstones, acks, pending, outputLen>>

AddOneReq(u) ==
    /\ u \notin Elems(tombstones)
    /\ ~ Rejected(u)
    /\ outputLen' = [outputLen EXCEPT ![u] =
                        IF MaxTokens[u] > MaxSeqLen - InputLen[u]
                        THEN MaxSeqLen - InputLen[u] ELSE MaxTokens[u]]
    /\ pending' = Append(pending, u)
    /\ UNCHANGED <<tombstones, acks, reply>>

(* After a failed rollback the frontend admits nothing more; what the torn  *)
(* down engine would do with a straggler is not modelled.                  *)
Wedged == \E b \in RebuildIds : rebuilt[b] = "failed"

UserMsg(u) ==
    /\ phase = "recv"
    /\ u \notin sent
    /\ ~ Wedged
    /\ sent' = sent \cup {u}
    /\ DropAborted(u) \/ RejectRequest(u) \/ AddOneReq(u)
    /\ UNCHANGED <<phase, aborts, chunked, running, finishedReqs, batchVars,
                   cached, memVars, rebuildVars>>

(* tombstones[uid] = None keeps the place of a key that is there already;  *)
(* past the cap the oldest one is forgotten.                               *)
SetTombstone(u) ==
    LET set == IF u \in Elems(tombstones) THEN tombstones
               ELSE Append(tombstones, u)
    IN tombstones' = IF Len(set) > TombstoneCap THEN Tail(set) ELSE set

(* req_to_free, if the abort finds one: the chunk in flight or parked of a *)
(* pending prompt, else a running request.                                 *)
RunningOnly(u) ==               \* mutant: a parked chunk is forgotten
    {v \in {u} : v \notin Elems(pending) /\ v \in running}
ReqToFree(u) ==
    {v \in {u} : \/ v \in Elems(pending) /\ v \in chunked
                 \/ v \notin Elems(pending) /\ v \in running}

NeverInFlight(us) == {}         \* mutant: freed under the forward
InFlight(us) == us \cap last.reqs

AbortBackendMsg(u) ==
    LET owner == ReqToFree(u)
        inflight == InFlight(owner)
    IN /\ phase = "recv"
       /\ aborts[u] < MaxAborts
       /\ aborts' = [aborts EXCEPT ![u] = @ + 1]
       /\ SetTombstone(u)
       /\ pending' = Without(pending, u)
       /\ chunked' = chunked \ {u}
       /\ running' = running \ {u}
       /\ aborted' = aborted \cup inflight
       /\ FreeReqResources(owner \ inflight)
       /\ acks' = acks \cup {u}
       /\ UNCHANGED <<phase, sent, reply, finishedReqs, last, ongoing,
                      reqVars, row, rebuildVars>>

(* The frontend's gate lets one rebuild request through at a time.         *)
CacheRebuildMsg(b) ==
    /\ phase = "recv"
    /\ rebuilt[b] = "unsent"
    /\ pendingRebuild = None /\ ~ Wedged
    /\ \/ /\ ~ RebuildSupported
          /\ rebuilt' = [rebuilt EXCEPT ![b] = "unsupported"]
          /\ UNCHANGED pendingRebuild
       \/ /\ RebuildSupported
          /\ Runnable
          /\ rebuilt' = [rebuilt EXCEPT ![b] = "busy"]
          /\ UNCHANGED pendingRebuild
       \/ /\ RebuildSupported
          /\ ~ Runnable
          /\ rebuilt' = [rebuilt EXCEPT ![b] = "queued"]
          /\ pendingRebuild' = b
    /\ UNCHANGED <<phase, msgVars, reply, queueVars, batchVars, reqVars,
                   memVars, pool>>

-----------------------------------------------------------------------------
(* The safe point between receiving and scheduling.                        *)

\* Mutants: the batch in flight is not waited for; finished_reqs is a gate.
RebuildTooEarly == pendingRebuild # None /\ ~ Runnable
RebuildGated ==
    /\ pendingRebuild # None /\ last = NoBatch /\ ~ Runnable
    /\ finishedReqs = {}
RebuildDue == pendingRebuild # None /\ last = NoBatch /\ ~ Runnable

(* The loop goes on when it has work or has just received an abort; an     *)
(* idle loop blocks in receive_msg.                                        *)
BlockAgain ==                   \* mutant: an idle loop never flushes the acks
    /\ phase = "recv"
    /\ ~ RebuildDue
    /\ last # NoBatch \/ Runnable \/ pendingRebuild # None
    /\ phase' = "run"
    /\ UNCHANGED <<msgVars, reply, queueVars, batchVars, reqVars, memVars,
                   rebuildVars>>

EndReceive ==
    /\ phase = "recv"
    /\ ~ RebuildDue
    /\ \/ last # NoBatch \/ Runnable
       \/ pendingRebuild # None \/ acks # {}
    /\ phase' = "run"
    /\ UNCHANGED <<msgVars, reply, queueVars, batchVars, reqVars, memVars,
                   rebuildVars>>

(* CacheManager.rebuild and TableManager.rebuild: everything is free again.*)
ResetPool(pages) ==
    /\ pool' = pages
    /\ freePages' = pages
    /\ freeSlots' = Slots

(* _execute_pending_rebuild.  A resize that fails after teardown is rolled *)
(* back to the prior geometry; only a failed rollback is final.            *)
ExecutePendingRebuild ==
    LET b == pendingRebuild
        Outcome(r) == rebuilt' = [rebuilt EXCEPT ![b] = r]
    IN /\ phase = "recv"
       /\ RebuildDue
       /\ phase' = "run"
       /\ pendingRebuild' = None
       /\ \/ /\ Outcome("ok")
             /\ IF RebuildPages[b] = 0
                THEN UNCHANGED <<pool, freePages, freeSlots>>
                ELSE \E pages \in kSubset(RebuildPages[b], Pages) :
                        ResetPool(pages)
          \/ /\ Outcome("rejected")     \* nothing was torn down
             /\ UNCHANGED <<pool, freePages, freeSlots>>
          \/ /\ Outcome("rejected")     \* rolled back
             /\ RebuildPages[b] # 0
             /\ ResetPool(pool)
          \/ /\ Outcome("failed")
             /\ UNCHANGED <<pool, freePages, freeSlots>>
       /\ UNCHANGED <<msgVars, reply, queueVars, batchVars, reqVars, slot,
                      row>>

-----------------------------------------------------------------------------
(* Scheduling (_schedule_next_batch): a prefill batch if one request at    *)
(* least can be admitted, else a decode batch of every running request.    *)

(* _kv_reservation_size *)
KvReservationSize(total, done) == (DivCeil(total) - DivCeil(done)) * PageSize

(* decode_manager.inflight_tokens *)
InflightTokens ==
    (PageSize - 1) * Cardinality(running)
      + Total([u \in running |-> RemainLen(u, cached[u])])

PromptLeft(u) == InputLen[u] - cached[u]
Cost(u) == KvReservationSize(MaxDeviceLen(u), cached[u])
IsFresh(i) == pending[i] \notin chunked

(* The adder's token_budget, reserved_size and free table slots when it    *)
(* comes to the i-th pending request, all earlier ones having been added.  *)
TokenBudget(i) ==
    PrefillBudget - Total([j \in 1 .. (i - 1) |-> PromptLeft(pending[j])])
ReservedInPass(i) ==            \* mutant: running requests reserve nothing
    Total([j \in 1 .. (i - 1) |-> Cost(pending[j])])
ReservedSize(i) ==
    InflightTokens + Total([j \in 1 .. (i - 1) |-> Cost(pending[j])])
SlotsLeft(i) ==
    Cardinality(freeSlots) - Cardinality({j \in 1 .. (i - 1) : IsFresh(j)})

(* try_add_one: a continuation keeps what it has; a fresh request needs a  *)
(* table slot and room for its whole prompt and output.                    *)
TryAddOne(i) ==
    /\ TokenBudget(i) > 0
    /\ IsFresh(i) =>
         /\ SlotsLeft(i) > 0
         /\ Cost(pending[i]) + ReservedSize(i)
              <= Cardinality(freePages) * PageSize

(* The pass stops at the first request that cannot be added.               *)
NumAdmitted ==
    Cardinality({n \in 1 .. Len(pending) : \A i \in 1 .. n : TryAddOne(i)})

(* A request admitted when the budget cannot hold the rest of its prompt   *)
(* is a ChunkedReq; DeviceLen(i) is then the end of the chunk.             *)
IsChunked(i) == TokenBudget(i) \in 1 .. (PromptLeft(pending[i]) - 1)
DeviceLen(i) ==
    IF IsChunked(i) THEN cached[pending[i]] + TokenBudget(i)
                    ELSE InputLen[pending[i]]

(* What stays pending of a pass that admitted n requests.  A chunk         *)
(* exhausts the token budget, so only the last one can be a chunk.         *)
ChunkForgotten(n) == n + 1      \* mutant: the rest of the prompt is dropped
FirstLeft(n) == IF IsChunked(n) THEN n ELSE n + 1

(* allocate_paged: the pages that take a request from cached_len = c to    *)
(* device_len = d.                                                         *)
PagesOfExtend(d, c) == DivCeil(d - c)   \* mutant: a page per extend, not per span
NeededPages(d, c) == DivCeil(d) - DivCeil(c)
PagesOfBatch(reqs, deviceLen) ==
    Total([u \in reqs |-> NeededPages(deviceLen[u], cached[u])])

(* allocate_paged, then the forward: every request of the batch gets the   *)
(* pages that take it to deviceLen[u] (complete_one makes that its new     *)
(* cached_len) and filter_reqs recomputes the running set.  If the free    *)
(* list is short the assertion of _allocate kills the scheduler and the    *)
(* model stops with the batch half prepared.                               *)
Launch(batch, deviceLen) ==
    LET reqs == batch.reqs
    IN /\ ongoing' = batch
       /\ IF PagesOfBatch(reqs, deviceLen) > Cardinality(freePages)
          THEN /\ phase' = "oom"
               /\ UNCHANGED <<running, cached, row, freePages>>
          ELSE /\ phase' = "drain"
               /\ \E grant \in [freePages -> reqs \cup {None}] :
                    /\ \A u \in reqs :
                         Cardinality({p \in freePages : grant[p] = u})
                           = NeededPages(deviceLen[u], cached[u])
                    /\ row' = [u \in Uids |->
                                 IF u \in reqs
                                 THEN row[u] \cup {p \in freePages : grant[p] = u}
                                 ELSE row[u]]
                    /\ freePages' = {p \in freePages : grant[p] = None}
               /\ cached' = [u \in Uids |-> IF u \in reqs THEN deviceLen[u]
                                                          ELSE cached[u]]
               /\ running' = {u \in running \cup (reqs \ batch.chunked) :
                                 CanDecode(u, cached'[u])}

(* The first n pending requests as a batch, and those of it that take a    *)
(* table slot (_allocate_from_handle).                                     *)
PrefillBatch(n) ==
    [reqs    |-> {pending[i] : i \in 1 .. n},
     chunked |-> IF IsChunked(n) THEN {pending[n]} ELSE {}]
Fresh(n) == PrefillBatch(n).reqs \ chunked

TakeSlots(us) ==
    \E table \in [us -> freeSlots] :
        /\ \A u, v \in us : table[u] = table[v] => u = v
        /\ slot' = [u \in Uids |-> IF u \in us THEN table[u] ELSE slot[u]]
        /\ freeSlots' = freeSlots \ {table[u] : u \in us}

LaunchPrefill(n) ==
    /\ TakeSlots(Fresh(n))
    /\ pending' = SubSeq(pending, FirstLeft(n), Len(pending))
    /\ chunked' = (chunked \ PrefillBatch(n).reqs) \cup PrefillBatch(n).chunked
    /\ Launch(PrefillBatch(n),
              [u \in PrefillBatch(n).reqs |->
                  DeviceLen(CHOOSE i \in 1 .. n : pending[i] = u)])
    /\ Send(IF phase' = "oom" THEN {} ELSE Fresh(n), "admit")

SchedulePrefill ==
    /\ phase = "run"
    /\ \E n \in 1 .. Len(pending) : n = NumAdmitted /\ LaunchPrefill(n)
    /\ UNCHANGED <<msgVars, finishedReqs, last, aborted, outputLen,
                   rebuildVars>>

ScheduleDecode ==
    /\ phase = "run"
    /\ NumAdmitted = 0
    /\ running # {}
    /\ Launch([reqs |-> running, chunked |-> {}],
              [u \in running |-> cached[u] + 1])
    /\ UNCHANGED <<msgVars, reply, pending, chunked, finishedReqs, last,
                   aborted, outputLen, slot, freeSlots, rebuildVars>>

ScheduleNothing ==
    /\ phase = "run"
    /\ NumAdmitted = 0
    /\ running = {}
    /\ phase' = "drain"
    /\ UNCHANGED <<msgVars, reply, queueVars, batchVars, reqVars, memVars,
                   rebuildVars>>

-----------------------------------------------------------------------------
(* Draining results (_process_last_data).                                  *)

Drained == IF Overlap THEN last ELSE ongoing

(* Requests aborted while the batch was in flight, and those whose sampled *)
(* token is used: not a chunk, not aborted, not finished a batch ago.      *)
Cut(batch) == aborted \cap batch.reqs
SampledAgain(batch) ==          \* mutant: finished_reqs is not consulted
    batch.reqs \ (batch.chunked \cup Cut(batch))
Sampled(batch) ==
    batch.reqs \ (batch.chunked \cup Cut(batch) \cup finishedReqs)

(* `ends` are the requests whose token is an EOS or completes a stop       *)
(* string.  The output budget is read off the request as it is NOW, after  *)
(* the next batch has been launched.                                       *)
ProcessLastData ==
    /\ phase = "drain"
    /\ phase' = "flush"
    /\ IF Drained = NoBatch
       THEN UNCHANGED <<reply, running, finishedReqs, memVars>>
       ELSE LET cut     == Cut(Drained)
                sampled == Sampled(Drained)
                spent   == {u \in sampled : ~ CanDecode(u, cached[u])}
            IN \E ends \in SUBSET sampled :
                 LET done == ends \cup spent
                     gone == done \cup (cut \ Drained.chunked)
                 IN /\ reply' = [u \in Uids |->
                          IF u \notin sampled THEN reply[u]
                          ELSE Append(reply[u], IF u \in ends THEN "stop"
                                                ELSE IF u \in spent THEN "length"
                                                ELSE "tok")]
                    /\ running' = running \ gone
                    /\ FreeReqResources(done \cup cut)
                    /\ finishedReqs' = gone
                    /\ UNCHANGED row
    /\ UNCHANGED <<msgVars, pending, chunked, batchVars, reqVars, rebuildVars>>

(* _flush_abort_acks, and the end of the iteration: the batch launched by  *)
(* this iteration becomes the one the next iteration drains.               *)
FlushAbortAcks ==
    /\ phase = "flush"
    /\ phase' = "recv"
    /\ Send(acks, "ack")
    /\ acks' = {}
    /\ last' = IF Overlap THEN ongoing ELSE NoBatch
    /\ ongoing' = NoBatch
    /\ UNCHANGED <<sent, aborts, tombstones, queueVars, aborted, reqVars,
                   memVars, rebuildVars>>

(* An idle loop sits in receive_msg.                                       *)
Blocked ==
    /\ phase = "recv" /\ last = NoBatch /\ ~ Runnable
    /\ pendingRebuild = None /\ acks = {}
    /\ UNCHANGED vars

-----------------------------------------------------------------------------
Receive ==
    \/ \E u \in Uids : UserMsg(u) \/ AbortBackendMsg(u)
    \/ \E b \in RebuildIds : CacheRebuildMsg(b)

Loop ==
    \/ EndReceive \/ ExecutePendingRebuild
    \/ SchedulePrefill \/ ScheduleDecode \/ ScheduleNothing
    \/ ProcessLastData \/ FlushAbortAcks

Next == Receive \/ Loop \/ Blocked

(* The loop thread never stops (run_forever) and every forward completes;  *)
(* nothing obliges a client to send anything.                              *)
Spec == Init /\ [][Next]_vars /\ WF_vars(Loop)

-----------------------------------------------------------------------------
(* Properties.                                                             *)

Kinds == {"admit", "tok", "stop", "length", "error", "ack"}

Batch == [reqs : SUBSET Uids, chunked : SUBSET Uids]

(* The state every variable of the scheduler ranges over.                  *)
TypeOK ==
    /\ phase \in {"recv", "run", "drain", "flush", "oom"}
    /\ sent \subseteq Uids
    /\ aborts \in [Uids -> 0 .. MaxAborts]
    /\ tombstones \in Seq(Uids)
    /\ acks \subseteq Uids
    /\ reply \in [Uids -> Seq(Kinds)]
    /\ pending \in Seq(Uids)
    /\ chunked \subseteq Uids
    /\ running \subseteq Uids
    /\ finishedReqs \subseteq Uids
    /\ last \in Batch /\ ongoing \in Batch
    /\ aborted \subseteq Uids
    /\ outputLen \in [Uids -> Nat]
    /\ cached \in [Uids -> Nat]
    /\ slot \in [Uids -> Slots \cup {None}]
    /\ row \in [Uids -> SUBSET Pages]
    /\ freeSlots \subseteq Slots
    /\ freePages \subseteq Pages
    /\ pool \subseteq Pages
    /\ pendingRebuild \in RebuildIds \cup {None}
    /\ rebuilt \in [RebuildIds -> {"unsent", "unsupported", "busy", "queued",
                                   "ok", "rejected", "failed"}]

(* _free_req_resources: "Idempotent ... handing the same slots to two      *)
(* later requests".  No table slot is owned twice, none is both owned and  *)
(* free, and none is lost.                                                 *)
SlotsPartitioned ==
    /\ \A u, v \in Holding(Uids) : slot[u] = slot[v] => u = v
    /\ \A u \in Holding(Uids) : slot[u] \notin freeSlots
    /\ Slots = freeSlots \cup {slot[u] : u \in Holding(Uids)}

(* The same for KV pages; with every request gone this is what             *)
(* check_integrity asserts when the scheduler is idle.                     *)
PagesPartitioned ==
    /\ \A u, v \in Holding(Uids) : u # v => row[u] \cap row[v] = {}
    /\ \A u \in Holding(Uids) : row[u] \cap freePages = {}
    /\ pool = freePages \cup UNION {row[u] : u \in Holding(Uids)}

(* A row holds one page per PageSize tokens of progress, so the range      *)
(* [0, page_ceil(cached_len)) a finish frees is the whole row and nothing  *)
(* of a previous occupant (_padded_tail, allocate_paged).                  *)
PagesMatchProgress ==
    \A u \in Holding(Uids) : Cardinality(row[u]) = DivCeil(cached[u])

(* "never free resources under an in-flight forward": a launched request   *)
(* keeps its slot and pages until its batch is drained, but for the one    *)
(* extra step of a request whose end was seen after that step's launch.    *)
InFlightKeepsResources ==
    /\ phase \in {"recv", "run", "drain"} =>
          \A u \in last.reqs : slot[u] # None \/ u \in finishedReqs
    /\ phase = "drain" => \A u \in ongoing.reqs : slot[u] # None

(* Whoever owns resources is still in a queue or in a batch to be drained; *)
(* otherwise nothing would ever free it.                                   *)
NoOrphans ==
    \A u \in Holding(Uids) :
        u \in chunked \cup running \cup last.reqs \cup ongoing.reqs

(* The admission control is enough: a batch that was scheduled never finds *)
(* the pool short ("Eviction did not free enough space").                  *)
NeverOutOfPages == phase # "oom"

(* Whatever happens inside, the replies of a request follow ReplyStream.   *)
Stream == INSTANCE ReplyStream
RepliesWellFormed == Stream!Spec

Delivered(u) ==
    Cardinality({i \in DOMAIN reply[u] : reply[u][i] \in {"tok", "stop", "length"}})

(* "output budget exhausted -> length": a request ended for its length has *)
(* been sent all the tokens it asked for.                                  *)
LengthMeansBudgetSpent ==
    \A u \in Uids :
        (\E i \in DOMAIN reply[u] : reply[u][i] = "length")
            => Delivered(u) = outputLen[u]

(* rebuild_cache "requires no pending prefill, no running decode, no       *)
(* in-flight" request: when a rebuild executes nobody owns anything.       *)
RebuildOnlyWhenIdle ==
    [][(pendingRebuild # None /\ pendingRebuild' = None)
          => last = NoBatch /\ Holding(Uids) = {}]_vars

(* CacheManager.check_integrity and an idle table: whenever the loop has    *)
(* nothing to do (it is about to block in receive_msg) all is free.        *)
Idle == phase = "recv" /\ last = NoBatch /\ ~ Runnable
IntegrityHolds == Idle => freePages = pool /\ freeSlots = Slots

(* Every request received is answered to the end ("otherwise its           *)
(* wait_for_ack ... hangs until the request times out").                   *)
Closed(u) ==
    \E i \in DOMAIN reply[u] : reply[u][i] \in {"stop", "length", "error", "ack"}
EveryRequestAnswered == \A u \in Uids : (u \in sent) ~> Closed(u)

(* Every abort is acknowledged, even of a request nobody knows.            *)
EveryAbortAcked ==
    \A u \in Uids : (aborts[u] > 0) ~>
        (\E i \in DOMAIN reply[u] : reply[u][i] = "ack")

(* A queued rebuild is eventually executed.                                *)
EveryRebuildAnswered ==
    \A b \in RebuildIds : (rebuilt[b] = "queued") ~> (rebuilt[b] # "queued")

=============================================================================
