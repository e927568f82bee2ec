----------------------------- MODULE PrefixCache -----------------------------
(***************************************************************************)
(* The CacheManager (scheduler/cache.py) over the radix tree, as the       *)
(* scheduler loop drives it: a request is matched against the tree and     *)
(* locks what it found, forwards take pages and evict for them, and the    *)
(* drain of a batch commits or finishes its requests in lazy_free_region.  *)
(*                                                                         *)
(* Abstractions.  There is a table slot for every request, and the lists a *)
(* batch is made of have any order.  The host copy of the ids is not kept  *)
(* apart from the device one: the drain appends a token before it commits, *)
(* so the copy always holds the tokens a commit inserts.  content is a     *)
(* history variable: the tokens whose KV a page was last written with.     *)
(***************************************************************************)
EXTENDS RadixTree, EncoderCache

CONSTANTS
    Uids,           \* requests
    Tokens,         \* token ids
    Prompt,         \* [Uids -> Seq(Tokens)]
    OutputLen,      \* [Uids -> Nat]: output tokens granted
    Sampled,        \* [Uids -> SUBSET Tokens]: what a forward may sample
    NumPages,       \* num_pages of the pool
    PrefillBudget,  \* prompt tokens per prefill batch
    Items,          \* [Uids -> set of items]: mm_items, the images of a prompt
    KeepWhole,      \* keep_images_whole
    Overlap         \* TRUE: the batch drained is the previous one

ASSUME UidsAssumption == IsFiniteSet(Uids)
ASSUME PromptAssumption == Prompt \in [Uids -> Seq(Tokens)]
ASSUME OutputLenAssumption == OutputLen \in [Uids -> Nat]
ASSUME SizesAssumption == NumPages \in Nat /\ PrefillBudget \in Nat
ASSUME SpansAssumption ==       \* runs of placeholders: no two overlap
    \A u \in Uids :
        LET spans == UNION {item.spans : item \in Items[u]}
        IN /\ \A s \in spans : /\ s \in Nat \X Nat
                               /\ s[2] <= Len(Prompt[u])
           /\ \A s, t \in spans : s = t \/ s[2] <= t[1] \/ t[2] <= s[1]
           /\ \A x, y \in Items[u] : x = y \/ x.spans \cap y.spans = {}

VARIABLES
    phase,          \* "sched", "drain", "oom" or "encoder" once it failed
    tree,           \* the RadixPrefixCache
    free,           \* cache_manager.free_slots, a list
    deferred,       \* lazy_free_list of the open region
    status,         \* status[u]: "new", "active" or "done"
    running,        \* decode_manager.running_reqs
    last,           \* the launched batch not yet drained
    ongoing,        \* the batch this iteration builds and launches
    todo,           \* requests of the drained batch still to process
    finishedReqs,   \* finished_reqs
    newFinished,    \* new_finished_reqs of the drain
    aborted,        \* requests with req.aborted
    cached,         \* req.cached_len
    device,         \* req.device_len
    ids,            \* the prompt and the sampled tokens
    handle,         \* the node of req.cache_handle; cached_len is its length
    row,            \* the page-table row, one page per PageSize positions
    content,        \* content[p]: the tokens page p was last written for
    encoder,        \* engine.encoder_cache
    features        \* <<u, h>>: u still has the feature of its image h

poolVars  == <<tree, free, deferred>>
batchVars == <<running, last, ongoing, todo, finishedReqs, newFinished>>
reqVars   == <<status, aborted, cached, device, ids, handle, row>>
mmVars    == <<encoder, features>>
vars == <<phase, poolVars, batchVars, reqVars, content, mmVars>>

Pages == 0 .. NumPages - 1

Hashes(u) == {item.hash : item \in Items[u]}
ImagesOf(u, h) == {item \in Items[u] : item.hash = h}

NoBatch == [reqs |-> {}, chunked |-> {}, prefill |-> FALSE]

InputLen(u) == Len(Prompt[u])
MaxDeviceLen(u) == InputLen(u) + OutputLen[u]
CanDecode(u) == MaxDeviceLen(u) > device[u]
DivCeil(n) == (n + PageSize - 1) \div PageSize
Take(s, n) == SubSeq(s, 1, n)
Drop(s, n) == SubSeq(s, n + 1, Len(s))

Active == {u \in Uids : status[u] = "active"}

Init ==
    /\ phase = "sched"
    /\ tree = EmptyTree
    /\ free = [i \in 1 .. NumPages |-> i - 1]
    /\ deferred = << >>
    /\ status = [u \in Uids |-> "new"]
    /\ running = {} /\ last = NoBatch /\ ongoing = NoBatch /\ todo = {}
    /\ finishedReqs = {} /\ newFinished = {} /\ aborted = {}
    /\ cached = [u \in Uids |-> 0] /\ device = [u \in Uids |-> 0]
    /\ ids = Prompt
    /\ handle = [u \in Uids |-> << >>] /\ row = [u \in Uids |-> << >>]
    /\ content = [p \in Pages |-> << >>]
    /\ encoder = NoEntries
    /\ features = UNION {{u} \X Hashes(u) : u \in Uids}

-----------------------------------------------------------------------------
(* cache_req, for the requests of a drain and for an abort.                *)

(* The tree after insert_prefix of what u has computed and after unlocking *)
(* the node it held, and the pages of u that turned out to be duplicates.  *)
Inserted(u) == InsertPrefix(tree, Take(ids[u], cached[u]), row[u])
Unlocked(u) == Unlock(Inserted(u).tree, handle[u])
Duplicates(u) ==
    SubSeq(row[u], FullPages(handle[u]) + 1, Inserted(u).prefixLen \div PageSize)

(* _padded_tail: the pages past the new node, the partly filled one too.   *)
PaddedTail(u) == Drop(row[u], FullPages(Inserted(u).node))

(* finished = FALSE: the row's duplicate span is pointed at the tree's     *)
(* pages and the new node is locked instead of the old one.                *)
RowKept(u, t) == row[u]         \* mutant: the row keeps the freed pages
Repointed(u, t) ==
    LET n == Inserted(u).prefixLen \div PageSize
    IN Take(MatchedIndices(t, Inserted(u).node), n) \o Drop(row[u], n)

(* lazy_free clones the slice of the row it defers.                        *)
LazyView(u) ==                  \* mutant: a view, seen after the re-point
    SubSeq(Repointed(u, Unlocked(u)), FullPages(handle[u]) + 1,
           Inserted(u).prefixLen \div PageSize)
LazyFreed(u) == Duplicates(u)

Commit(u) ==
    /\ tree' = Lock(Unlocked(u), Inserted(u).node)
    /\ deferred' = deferred \o LazyFreed(u)
    /\ row' = [row EXCEPT ![u] = Repointed(u, Unlocked(u))]
    /\ handle' = [handle EXCEPT ![u] = Inserted(u).node]

(* finished = TRUE, and what _free_req_resources does after it: the row is *)
(* given up with the table slot.                                           *)
Finish(u) ==
    /\ tree' = Unlocked(u)
    /\ row' = [row EXCEPT ![u] = << >>]
    /\ handle' = [handle EXCEPT ![u] = << >>]
    /\ status' = [status EXCEPT ![u] = "done"]

Freed(u) == Duplicates(u) \o PaddedTail(u)

-----------------------------------------------------------------------------
(* The scheduling pass (PrefillAdder), one request at a time.              *)

KvReservationSize(total, done) == (DivCeil(total) - DivCeil(done)) * PageSize
Cost(u, c) == KvReservationSize(MaxDeviceLen(u), c)

ReservedSize ==
    Tally([u \in running |-> MaxDeviceLen(u) - device[u] + PageSize - 1])
      + Tally([u \in ongoing.reqs |-> Cost(u, cached[u])])
TokenBudget == PrefillBudget - Tally([u \in ongoing.reqs |-> device[u] - cached[u]])

AvailableSize(t) == t.evictable + Len(free) * PageSize

(* Prompts part of which has been computed, the next chunk being due.      *)
Chunked == {u \in Active \ aborted : cached[u] < InputLen(u)}

(* _add_one_req: the chunk that the budget leaves room for.  An image that  *)
(* others left no room for waits for a pass that holds it whole.           *)
EndOfChunk(u, c) ==
    IF InputLen(u) - c <= TokenBudget THEN InputLen(u)
    ELSE IF KeepWhole THEN ChunkEnd(Items[u], c, c + TokenBudget)
    ELSE c + TokenBudget
NeverWaits(u, c) == FALSE       \* mutant: take what room there is
WaitsForImage(u, c) ==
    /\ KeepWhole /\ TokenBudget < PrefillBudget
    /\ \E s \in CutBy(Items[u], EndOfChunk(u, c)) : s[2] - c <= PrefillBudget

AddOneReq(u, c) ==
    LET end == EndOfChunk(u, c)
    IN /\ device' = [device EXCEPT ![u] = end]
       /\ ongoing' = [reqs    |-> ongoing.reqs \cup {u},
                      chunked |-> IF end < InputLen(u)
                                  THEN ongoing.chunked \cup {u}
                                  ELSE ongoing.chunked,
                      prefill |-> TRUE]

Continue(u) ==
    /\ phase = "sched"
    /\ u \in Chunked \ ongoing.reqs
    /\ TokenBudget > 0
    /\ ~ WaitsForImage(u, cached[u])
    /\ AddOneReq(u, cached[u])
    /\ UNCHANGED <<phase, poolVars, running, last, todo, finishedReqs,
                   newFinished, status, aborted, cached, ids, handle, row,
                   content, mmVars>>

(* _try_allocate_one: the last prompt token is never matched, so that the  *)
(* forward has something to compute.  Locking the match takes its pages    *)
(* out of the available size, hence the second test.                       *)
MatchReq(u) == MatchPrefix(tree, Take(Prompt[u], InputLen(u) - 1))

Locked(u) == Lock(MatchReq(u).tree, MatchReq(u).node)
TooBig(u, t) ==
    Cost(u, Len(MatchReq(u).node)) + ReservedSize > AvailableSize(t)
RefusedEarly(u) ==              \* mutant: no second test after the lock
    \/ TooBig(u, MatchReq(u).tree)
    \/ WaitsForImage(u, Len(MatchReq(u).node))
Refused(u) ==
    \/ TooBig(u, MatchReq(u).tree) \/ TooBig(u, Locked(u))
    \/ WaitsForImage(u, Len(MatchReq(u).node))

(* The rows every chunk of the request will gather are claimed.            *)
FromStart(u, c) == 0            \* mutant: the rows matched are claimed too
FirstRow(u, c) == c
Claimed(u) ==
    Register(encoder, u, [h \in Hashes(u) |->
        RowsAfter(ImagesOf(u, h), FirstRow(u, cached'[u]))])

CanTry(u) ==
    /\ phase = "sched"
    /\ status[u] = "new"
    /\ Chunked \subseteq ongoing.reqs
    /\ TokenBudget > 0

Admit(u) ==
    /\ CanTry(u)
    /\ ~ Refused(u)
    /\ tree' = Locked(u)
    /\ handle' = [handle EXCEPT ![u] = MatchReq(u).node]
    /\ row' = [row EXCEPT ![u] = MatchedIndices(tree', handle'[u])]
    /\ cached' = [cached EXCEPT ![u] = Len(handle'[u])]
    /\ status' = [status EXCEPT ![u] = "active"]
    /\ AddOneReq(u, Len(handle'[u]))
    /\ encoder' = Claimed(u)
    /\ UNCHANGED <<phase, free, deferred, running, last, todo, finishedReqs,
                   newFinished, aborted, ids, content, features>>

(* The match has split the tree, its lock has been taken back.             *)
Refuse(u) ==
    /\ CanTry(u)
    /\ Refused(u)
    /\ tree' = MatchReq(u).tree
    /\ tree' # tree
    /\ UNCHANGED <<phase, free, deferred, batchVars, reqVars, content, mmVars>>

-----------------------------------------------------------------------------
(* allocate_paged and the forward.                                         *)

Batch == IF ongoing.prefill THEN ongoing
         ELSE [NoBatch EXCEPT !.reqs = running]

NeededPages(u) == DivCeil(device[u]) - DivCeil(cached[u])
Needed(us) == Tally([u \in us |-> NeededPages(u)])

(* _allocate takes pages from the head of free_slots, evicting first if    *)
(* they are too few; t and f are the tree and the list before taking.      *)
Allocate(us, t, f) ==
    LET order == SetToSeq(us)
        Before(u) == {v \in us : \E i, j \in DOMAIN order :
                        i < j /\ order[i] = v /\ order[j] = u}
        New(u) == SubSeq(f, Needed(Before(u)) + 1,
                         Needed(Before(u)) + NeededPages(u))
    IN /\ tree' = t
       /\ free' = Drop(f, Needed(us))
       /\ row' = [u \in Uids |-> IF u \in us THEN row[u] \o New(u) ELSE row[u]]

Shortage == (Needed(Batch.reqs) - Len(free)) * PageSize

AllocatePaged ==
    IF Shortage <= 0
    THEN Allocate(Batch.reqs, tree, free)
    ELSE \E E \in EvictionSets(tree, Shortage) :
            Allocate(Batch.reqs, Evict(tree, E),
                     free \o EvictedIndices(tree, E))

(* The KV of positions cached_len to device_len is written into the row.   *)
Writes(u, p) == {i \in cached[u] \div PageSize + 1 .. Len(row'[u]) : row'[u][i] = p}
Compute(us) ==
    content' = [p \in Pages |->
        LET writers == {u \in us : Writes(u, p) # {}}
            u == CHOOSE u \in writers : TRUE
        IN IF writers = {} THEN content[p]
           ELSE UpTo(Take(ids[u], device[u]), CHOOSE i \in Writes(u, p) : TRUE)]

(* plan_mm_batch and _run_mm_encoder: encode the images of the chunks that *)
(* have no embedding, then gather the chunks' rows and give up the claims. *)
RowsToGather(w) ==
    RowsIn(ImagesOf(w[1], w[2]), cached[w[1]], device[w[1]])
Gathers(us) ==
    {w \in UNION {{u} \X Hashes(u) : u \in us} : RowsToGather(w) > 0}
Jobs(us) == {w \in Gathers(us) : ~ HasEmbedding(encoder, w[2])}

(* A feature is dropped once encoded, so an image cannot be encoded again, *)
(* and nobody may gather more than it claimed.                             *)
EncoderFails(us) ==
    \/ ~ Jobs(us) \subseteq features
    \/ \E w \in Gathers(us) :
         \/ w[2] \notin DOMAIN encoder
         \/ w[1] \notin DOMAIN encoder[w[2]].remaining
         \/ encoder[w[2]].remaining[w[1]] < RowsToGather(w)

RunEncoder(us) ==
    LET encoded == Put(encoder, {w[2] : w \in Jobs(us)})
    IN /\ features' = features \ Jobs(us)
       /\ encoder' = Consume(encoded, [w \in Gathers(us) |-> RowsToGather(w)])

(* complete_one, the sampled token and filter_reqs.                        *)
CompleteOne(b) ==
    /\ cached' = [u \in Uids |-> IF u \in b.reqs THEN device[u] ELSE cached[u]]
    /\ device' = [u \in Uids |-> IF u \in b.reqs THEN device[u] + 1
                                                 ELSE device[u]]
    /\ \E token \in [b.reqs \ b.chunked -> Tokens] :
         /\ \A u \in b.reqs \ b.chunked : token[u] \in Sampled[u]
         /\ ids' = [u \in Uids |-> IF u \in b.reqs \ b.chunked
                                   THEN Append(ids[u], token[u]) ELSE ids[u]]
    /\ running' = {u \in running \cup (b.reqs \ b.chunked) :
                      MaxDeviceLen(u) > device'[u]}

(* With nothing to schedule the loop still drains the batch in flight.     *)
(* When evict has too little to take its assertion kills the scheduler,    *)
(* and so does a failing encoder.                                          *)
Launch ==
    /\ phase = "sched"
    /\ Batch.reqs # {} \/ last # NoBatch
    /\ \A u \in Chunked \ ongoing.reqs :
         TokenBudget = 0 \/ WaitsForImage(u, cached[u])
    /\ IF Shortage > 0 /\ Shortage > tree.evictable
       THEN /\ phase' = "oom"
            /\ UNCHANGED <<poolVars, batchVars, reqVars, content, mmVars>>
       ELSE IF EncoderFails(Batch.reqs)
       THEN /\ phase' = "encoder"
            /\ UNCHANGED <<poolVars, batchVars, reqVars, content, mmVars>>
       ELSE /\ phase' = "drain"
            /\ RunEncoder(Batch.reqs)
            /\ AllocatePaged
            /\ Compute(Batch.reqs)
            /\ CompleteOne(Batch)
            /\ ongoing' = IF Batch.reqs = {} THEN NoBatch ELSE Batch
            /\ last' = IF Overlap THEN last ELSE ongoing'
            /\ todo' = last'.reqs
            /\ newFinished' = {}
            /\ UNCHANGED <<deferred, finishedReqs, status, aborted, handle>>

-----------------------------------------------------------------------------
(* The drain (_process_last_data), one request at a time.                  *)

Done(u) == todo' = todo \ {u}

(* An intermediate chunk is not committed, nor is a request whose reply is *)
(* out already.                                                            *)
DrainNothing(u) ==
    /\ \/ u \in last.chunked \ aborted
       \/ u \notin last.chunked \cup aborted /\ u \in finishedReqs
    /\ UNCHANGED <<poolVars, status, handle, row, running, newFinished>>

(* An abort in flight, an end of sequence, or the output length reached.   *)
DrainFinish(u) ==
    /\ u \in aborted \/ u \notin last.chunked \cup finishedReqs
    /\ running' = running \ {u}
    /\ newFinished' = IF u \in last.chunked THEN newFinished
                                            ELSE newFinished \cup {u}
    /\ IF status[u] = "active"
       THEN Finish(u) /\ deferred' = deferred \o Freed(u)
       ELSE UNCHANGED <<tree, deferred, status, handle, row>>
    /\ UNCHANGED free

(* The request goes on; a prefill enters the tree.                         *)
DrainGoOn(u) ==
    /\ u \notin last.chunked \cup aborted \cup finishedReqs
    /\ CanDecode(u)
    /\ IF last.prefill THEN Commit(u)
                       ELSE UNCHANGED <<tree, deferred, handle, row>>
    /\ UNCHANGED <<free, status, running, newFinished>>

Drain(u) ==
    /\ phase = "drain"
    /\ u \in todo
    /\ Done(u)
    /\ DrainNothing(u) \/ DrainFinish(u) \/ DrainGoOn(u)
    /\ UNCHANGED <<phase, last, ongoing, finishedReqs, aborted, cached,
                   device, ids, content, mmVars>>

(* The region closes: what was freed in it becomes allocatable.            *)
EndDrain ==
    /\ phase = "drain"
    /\ todo = {}
    /\ phase' = "sched"
    /\ free' = free \o deferred
    /\ deferred' = << >>
    /\ finishedReqs' = newFinished
    /\ last' = IF Overlap THEN ongoing ELSE NoBatch
    /\ ongoing' = NoBatch
    /\ UNCHANGED <<tree, running, todo, newFinished, reqVars, content, mmVars>>

(* An abort message, between two iterations.  A request in flight is only  *)
(* marked; another one is freed at once, outside any region.  Either way   *)
(* its claims on images go.                                                *)
ReleasedIfFreed(u) ==           \* mutant: only with its other resources
    IF u \in last.reqs THEN encoder ELSE Release(encoder, u, Hashes(u))
Released(u) == Release(encoder, u, Hashes(u))

Abort(u) ==
    /\ phase = "sched" /\ ongoing = NoBatch
    /\ u \in Chunked \cup running
    /\ running' = running \ {u}
    /\ IF u \in last.reqs
       THEN /\ aborted' = aborted \cup {u}
            /\ UNCHANGED <<tree, free, status, handle, row>>
       ELSE /\ Finish(u)
            /\ free' = free \o Freed(u)
            /\ UNCHANGED aborted
    /\ encoder' = Released(u)
    /\ UNCHANGED <<phase, deferred, last, ongoing, todo, finishedReqs,
                   newFinished, cached, device, ids, content, features>>

Finished == /\ phase = "sched" /\ last = NoBatch
            /\ \A u \in Uids : status[u] = "done"
Idle == Finished /\ UNCHANGED vars

Next ==
    \/ \E u \in Uids :
         Continue(u) \/ Admit(u) \/ Refuse(u) \/ Drain(u) \/ Abort(u)
    \/ Launch
    \/ EndDrain
    \/ Idle

Spec == Init /\ [][Next]_vars

-----------------------------------------------------------------------------
(* Properties.                                                             *)

(* Every page is in exactly one place: once in free_slots, or in the       *)
(* deferred frees of the open region, or in one tree node, or in the part  *)
(* of one row past its handle.  check_integrity counts this at idle only.  *)
OwnPages(u) == Drop(row[u], FullPages(handle[u]))
Times(s, p) == Cardinality({i \in DOMAIN s : s[i] = p})
Places(p) ==
    Times(free, p) + Times(deferred, p)
      + Tally([n \in Names(tree) |-> Times(tree.nodes[n].pages, p)])
      + Tally([u \in Uids |-> Times(OwnPages(u), p)])
EachPageInOnePlace == \A p \in Pages : Places(p) = 1

(* What attention reads: every page of the row of a running request holds  *)
(* the KV of that request's own tokens, whether it computed it, matched it *)
(* at admission or was re-pointed to it by a commit.                       *)
RowsHoldOwnTokens ==
    \A u \in Active : \A i \in DOMAIN row[u] :
        content[row[u][i]] = UpTo(Take(ids[u], cached[u]), i)

(* The counters admission and eviction trust are those of the tree, and a  *)
(* node is referenced by exactly the running requests below it, through    *)
(* every split.                                                            *)
TreeAccountsExact ==
    /\ CountersExact(tree)
    /\ RefsExact(tree, Active, handle)

(* Admission reserves enough: the assertions of evict and _allocate never  *)
(* fail, although locks, commits and duplicates move pages meanwhile.      *)
EvictionSuffices == phase # "oom"

(* An image's entry is there exactly while a running request has rows of   *)
(* it to gather, and says how many: through matched prefixes, images split *)
(* over chunks or shared, ends and aborts in or outside a forward.  No     *)
(* gather exceeds a claim and no image is needed again once encoded.       *)
Owed(u, h) ==
    IF u \in Active \ aborted THEN RowsAfter(ImagesOf(u, h), cached[u]) ELSE 0
ClaimsExact ==
    /\ phase # "encoder"
    /\ LET Owing(h) == {u \in Uids : Owed(u, h) > 0}
       IN /\ DOMAIN encoder = {h \in UNION {Hashes(u) : u \in Uids} :
                                  Owing(h) # {}}
          /\ \A h \in DOMAIN encoder :
               encoder[h].remaining = [u \in Owing(h) |-> Owed(u, h)]

(* A chunk ends inside an image only if what is left of the image is more  *)
(* than a whole pass can take (cut_image_spans).                           *)
ImagesWhole ==
    KeepWhole /\ phase = "sched" => \A u \in ongoing.chunked :
        \A s \in CutBy(Items[u], device[u]) : s[2] - cached[u] > PrefillBudget

(* The tree implements the map of PrefixStore: a split changes nothing, a  *)
(* locked prefix is never dropped, a page freed in a drain is not handed   *)
(* out before its end.                                                     *)
Entries == EntriesOf(tree)

Store == INSTANCE PrefixStore WITH
    active   <- Active,
    text     <- [u \in Uids |-> IF u \in Active THEN Take(ids[u], cached[u])
                                                ELSE << >>],
    held     <- [u \in Uids |-> FullPages(handle[u])],
    entry    <- Entries,
    free     <- ToSet(free),
    deferred <- ToSet(deferred)

ImplementsStore == Store!Spec
===============================================================================
