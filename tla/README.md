# LocalYokel (freetoken): TLA+ models, model checking and proofs

LocalYokel serves large language models from one machine. Its core is a
continuous-batching scheduler (`src/python/freetoken/scheduler`) that decides,
token by token, which requests run on the GPU and who owns every page of the
key/value cache. Around it are processes that talk by ZeroMQ messages: an HTTP
frontend, tokenizer and detokenizer workers, and a daemon that starts and stops
whole servers. This directory holds TLA+ models of those parts, TLC
configurations that check them on small instances, and proofs checked by TLAPS.

## The system

| Part | Source | State | Operations | Hard behaviour |
|---|---|---|---|---|
| Scheduler loop | `scheduler/scheduler.py`, `core.py` | `_last_data`, `finished_reqs`, `_abort_tombstones`, `_pending_abort_acks`, `_pending_rebuild` | receive, abort, rebuild, schedule, launch, drain, flush | batch N+1 is launched before batch N is drained |
| Prefill / decode managers | `scheduler/prefill.py`, `decode.py` | `pending_list` with parked chunks, `running_reqs` | admit, chunk, continue, abort, `filter_reqs` | reservations must cover what running requests will still need |
| Table manager | `scheduler/table.py` | `_free_slots` | allocate, free, rebuild | double free |
| Cache manager | `scheduler/cache.py` | `free_slots`, page table | `allocate_paged`, `cache_req`, lazy frees, rebuild | page sharing, re-pointed rows |
| Prefix caches | `kvcache/{naive,radix,hybrid_radix,swa_radix}_cache.py` | a tree of page runs with locks, timestamps, second currencies | match, lock, insert, evict | counters of evictable pages, eviction under use |
| Frontend | `server/api_server.py`, `accounting.py`, `stats.py` | the gate `maintenance_state`, `ack_map`, `rebuild_futures`, totals | admit, stream, abort, rebuild, prepare-stop | event loop against supervisor thread, timeouts against late replies |
| Supervisor | `server/supervisor.py`, `launch.py` | worker processes, ready acks | wait for ready, watch for deaths | death during load, rebuild or stop |
| Serve manager | `daemon/serve_manager.py`, `pidfile.py`, `accounting.py` | current child, stop latch, state file, receipts | start, stop, switch, reap, restart, adopt | client threads, monitor threads, daemon crashes |
| Tokenizers | `tokenizer/*.py` | text decoded so far per request | tokenize, detokenize, forget | abort overtaking a request; late tokens |
| Encoder cache | `mm/encoder_cache.py` | embeddings with claims | register, claim, release | release on every way out |
| MoE expert cache | `moe/offload_cache.py`, `moe/offload_kernels.py`, `layers/moe.py` | the slot map, a double buffer over its first slots, two device streams and their events | prefetch, materialize, load on demand, rebuild | streams ordered by events only; a prefill queued behind a running decode |
| Engine, kernels, models, parsers, CLI | `engine`, `moe`, `kernel`, `models`, `server/*_parser.py`, ... | tensors, text | | out of reach of a state model |

A request travels frontend -> tokenizer -> scheduler -> detokenizer -> frontend.
Aborts travel the same way but may take another tokenizer worker and so overtake
the request. Cache rebuilds travel frontend -> tokenizer -> scheduler and are
answered the same way back; while one is under way the frontend's gate refuses
new requests and rebuilds.

What makes each part correct:

* scheduler and managers: slots and pages are conserved; nothing is freed while
  a forward uses it; whatever owns memory will be met again by the loop; the
  messages of a request follow the protocol below; an admitted batch never
  runs out of pages; every request, abort and rebuild is answered;
* prefix cache: a page is free, in the tree or owned by one request; what a
  request reads is locked; the evictable counter is exact;
* frontend: the gate ends in a definite state whatever races it; totals are
  sealed once and complete;
* expert cache: every GEMM reads the weights of its own experts; the slot map
  says what the slots hold;
* serve manager: at most one serve; a stop is never undone by a restart; the
  state file names the running serve; one receipt per generation.

## Modules

| Module | What it is |
|---|---|
| `ReplyStream` | What the scheduler promises downstream about the messages of one request. Abstract specification. |
| `Scheduler` | The scheduler loop with its managers and the naive prefix cache. |
| `SchedulerInvariant` | The inductive invariant `IInv` in named parts, and its extensions `PageInv`, `ReplyInv`, `AdmissionInv` and `LengthInv`. |
| `SchedulerProofs` | Lemmas on sequences and sums; the proofs of `TypeOK` and `IInv` and of what follows from them, that `Scheduler` implements `ReplyStream`, that admission never promises more pages than there are, and that the plain loop spends the whole output budget. |
| `MCScheduler` | Constants of the TLC instances. |
| `ServeManager` | The daemon's owner of one serve: calls, monitors, auto-restarts, receipts, the state file, daemon exit and re-adoption. |
| `ServeManagerInvariant` | Its inductive invariant `IInv` in named parts, and `ReceiptInv` on the receipts. |
| `ServeManagerProofs` | The proof of `IInv`, then of `ReceiptInv`, and of what follows from them. |
| `MCServeManager` | The symmetry of the TLC instances. |
| `Paging` | Token sequences cut into pages, as functions of the page size. |
| `RadixTree` | `RadixPrefixCache` as functions of a tree: walk and split, lock, insert, evict. |
| `PrefixStore` | What the prefix cache and its page pool promise. Abstract specification, with its inductive invariant `IInv`. |
| `EncoderCache` | The encoder cache's claims and the planning of image chunks, as functions. |
| `PrefixCache` | The cache manager and the overlapped loop over `RadixTree` and `EncoderCache`; implements `PrefixStore`. |
| `PrefixCacheInvariant` | The inductive invariant `IInv` of `PrefixCache` in named parts, `BudgetInv` on what admission reserves and `ClaimsInv` on the claims on images. |
| `PrefixStoreProofs` | The proof of `IInv` of `PrefixStore` and of what follows from it. |
| `RadixTreeProofs` | Lemmas on prefixes, sums and trees: what split, lock, insert and evict do to nodes, counters, references and entries. |
| `PrefixCacheProofs` | The proofs of `IInv`, `BudgetInv` and `ClaimsInv`, of the properties of `PrefixCache`, and that it implements `PrefixStore`. |
| `MCPrefixCache` | Constants of its TLC instance. |
| `SwaTree` | `SWARadixCache`: `RadixTree` with a second currency, tombstones and window locks. |
| `SwaCache` | The cache manager and the loop of a sliding-window model over `SwaTree`. |
| `SwaCacheInvariant` | What the locks and marks of its tree mean, and the inductive invariant `IInv` in named parts. |
| `SwaCacheProofs` | The proof of `IInv` and of `SwaAccountsExact`: what each tree operation does to both currencies, then one lemma per action. |
| `MCSwaCache` | Constants of its TLC instances. |
| `Frontend` | The API server's gate, accounting and acks, the supervisor thread, and the tokenizer worker; its scheduler is `ReplyStream`. |
| `FrontendInvariant` | Its types, and the inductive invariants of the gate, the decode state, the sealed totals and the answers in named parts. |
| `FrontendProofs` | Lemmas on selections from queues and on one pass of the tokenizer worker; the proofs about the gate, the decode state, the active requests, the sealed totals and the answers. |
| `MCFrontend` | Constants of its TLC instance. |
| `ExpertCache` | The MoE expert cache: what the host enqueues on the compute and copy streams, and what the streams do to the slots. |
| `ExpertCacheInvariant` | What the two streams still hold for each other: the inductive invariant behind `ResidencyIsTrue`. |
| `MCExpertCache` | Constants of its TLC instance. |
| `ExpertOrderInvariant` | What the events keep in order (`OrderInv`), and where the bytes of each GEMM come from (`BytesInv`). |
| `ExpertCacheProofs` | The proofs of the three invariants, action by action: that the slot map is true, that the streams never race and that every GEMM reads its experts. |

### Scheduler against the code

The loop is one thread, so one iteration of `overlap_loop` (or `normal_loop`)
is a sequence of actions, and `phase` says which comes next:

| phase | actions | code |
|---|---|---|
| `recv` | `UserMsg`, `AbortBackendMsg`, `CacheRebuildMsg` any number of times, then `EndReceive` or `ExecutePendingRebuild` | `_process_one_msg`, the safe point after it |
| `run` | `SchedulePrefill`, else `ScheduleDecode`, else `ScheduleNothing` | `_schedule_next_batch`, `_prepare_batch`, `_forward` |
| `drain` | `ProcessLastData` | `_process_last_data` |
| `flush` | `FlushAbortAcks` | `_flush_abort_acks`, return of `ongoing_data` |
| `oom` | none | the allocation failed in `_prepare_batch`; the process dies |

`last` is `_last_data` and `ongoing` the batch of the current iteration. With
`Overlap` the drain takes `last`, and the flush moves `ongoing` to `last`;
without it the drain takes `ongoing` and `last` stays empty.

A launch does the bookkeeping of `allocate_paged`, of the forward's
`complete_one` and of `filter_reqs` in one action, because all of it happens on
the scheduler thread before the loop looks at anything else. The GPU's own time
is the interval between a launch and the drain of the same batch; that is why
`InFlightKeepsResources` speaks of `last` and `ongoing`.

Abstractions, and why they lose nothing the properties look at:

* a token is reduced to whether it ends the request; `ends` ranges over every
  subset of the sampled requests;
* `device_len` is `cached + 1` after the first forward, so only `cached` is kept;
* a request object is its uid. A prompt in chunks has a new `ChunkedReq` per
  chunk; they share slot and pages, and only the newest one is reachable by an
  abort;
* a page-table row is the set of the request's pages; `PagesMatchProgress`
  justifies it;
* the free lists are sets and any free slot or page may be taken (the code takes
  the last slot and the first pages);
* `sent`, `aborts` and `rebuilt` are history: what clients did so far.

External to the model: the frontend sends each uid once and lets one rebuild
through at a time, and admits nothing after a rebuild that failed for good.

### ReplyStream

`admit`, then any number of `tok`, then one of `stop`, `length`; or `error`
instead; an `ack` may come at any time and nothing but more `ack`s may follow
it. `RepliesWellFormed` says that `Scheduler` implements this specification
under the identity mapping of `reply`.

### ServeManager against the code

Three kinds of thread meet in `serve_manager.py`: callers of start, stop, switch
and shutdown; one monitor per spawned or adopted child; the auto-restart thread a
monitor may leave behind. They share the manager's fields under `_cond`, while
`_lifecycle` serialises whole calls and `_accounting_guard` the receipts. An
action is one section under `_cond`, or one effect outside it, so the windows
between sections are in the model.

`pc[t]` is where a call is:

| pc | action | code |
|---|---|---|
| `idle` | `Call` | an HTTP request reaches the manager |
| `enter`, `swap` | `StartGate` | `_start` up to `_starting = True`; `swap` is the second half of `switch`, still under `_lifecycle` |
| `spawn`, `publish`, `persist`, `watch` | `Spawn`, `Publish`, `Persist`, `BeginWatch` | the rest of `_start`, each step with its failure |
| `enter` | `StopGate` | `_stop` (and the latch of `shutdown`) up to `stopping = True` |
| `prepare`, `receipt` | `PrepareStop`, `PersistReceipt` | `_prepare_and_persist_accounting`: the engine's sealed receipt or a fallback, then the outbox |
| `signal`, `grace`, `kill` | `Terminate`, `Kill`, `AwaitKill` | SIGTERM, the grace period, SIGKILL, the last wait; each wait ends by `reaped` or by its timeout |
| `undo` | `Undo` | the way out of a stop that failed |

`mon[g]` is where the monitor of child `g` is: `wait`, then `ObserveExit`,
`CrashReceipt`, `Forget`, `ClearRecord`, `SetReaped`, `Decide`, `RestartAsync`
for the steps of `_reap` in their order. `FetchStats` and `ObserveAccounting`
are the two halves of `/engine/stats` around its await.

Abstractions:

* a process is a generation, so pid reuse and the identity checks of
  `pidfile.py` come down to `store \in alive`; a receipt is the generation it
  names, how it was made and whose totals it carries;
* a spec `(model, port, args)` is its model, which is all `_start` compares;
* `_starting` is derived from where the callers are;
* the auto-restart thread bears the name of the child it replaces: a child has
  at most one;
* a timeout is a choice, so no wait is longer or shorter than it may be;
* `DaemonExit` is a crash at any point and also a finished `detach`: both
  leave the process, the file and the receipts and lose everything else;
* the engine's `prepare-stop` answer, its fallbacks and its refusals are the set
  `Preparable`; only a live engine answers.

Left out: receipt acknowledgement, OOM scores, the log tailer, status and
progress text, and `child.wait()` raising.

### PrefixCache against the code

`RadixTree` names a node by its token sequence from the root. A split leaves
the old node object at the old end, so the name is as stable as the object a
handle points at; a parent is the longest proper prefix in the tree. Which
unlocked leaf is evicted first is a choice, since timestamps only order victims.

`PrefixCache` drives the tree by the overlapped loop: an iteration schedules
(`Continue`, `Admit`, `Refuse`, one request at a time, as the pass does),
launches (`Launch`: `allocate_paged`, the forward, `complete_one`,
`filter_reqs`) and drains the previous batch (`Drain` per request, `EndDrain`
closing the lazy free region). `Refuse` is an action because a match splits the
tree even when admission then fails. `content[p]` is ghost state: the tokens
whose KV was last written to page `p`.

`PrefixStore` forgets the tree. The cache is a map from page-aligned prefixes to
pages; a request holds a locked prefix of its text in it and owns the rest of
its row. Its `Forward` may drop any unlocked entries that leave the map closed
under prefixes and hands out any free pages; its `Commit` and `Retire` insert a
text and give back what was cached by someone else meanwhile. `Entries` maps the
tree to the map, and `ImplementsStore` says that every step of `PrefixCache` is
a step of `PrefixStore` or changes nothing there: a split is invisible, a locked
prefix is never dropped, and a page freed in a drain is not handed out before
the drain ends.

`EncoderCache` maps an image hash to whether its embedding is stored and to the
rows each request has still to gather. `Admit` claims the rows past the matched
prefix, `Launch` plans and runs the encoder (`Jobs`, `Gathers`, `RunEncoder`)
before it allocates, `Abort` releases. `features` says which images a request could
still have encoded: the engine drops the feature once the embedding exists. With
`KeepWhole` a chunk ends before an image it would cut, or waits for a pass of its
own (`ChunkEnd`, `WaitsForImage`). What the code does to one image after another,
claiming, encoding or gathering, is done to all of them at once, with the same outcome. An image
is a hash with spans of positions, one embedding row each; what
its rows hold and where they are scattered is left out, and so are chunk ends that
are aligned to more than one token (sliding-window and hybrid models).

Left out: several ranks, tombstoned aborts and rebuilds (they are in
`Scheduler`, with the naive cache).

### SwaCache against the code

A model with sliding-window layers has two pools. `full_to_swa` maps a slot of the full
pool to one of the window pool, and only its domain matters: `mapped`. A node
may lose its window KV and keep the rest (a tombstone), and a handle locks the
window KV of its trailing window only, down to the node whose `uuid` it
remembers. `SwaTree` has `match_prefix`, the reconciling `insert` with its
branches, `inc_lock`, `dec_lock`, both evictions with their cascade, and
`trim_head_swa`; `SwaCache` has admission with the window seat and the chunk
cap, the frees behind the window in prefill and decode, `ensure_swa_slots`, and
`_cache_req_swa` for commits and ends.

Abstractions: pages of one token (then aligning is the identity and a window
lock ends on a token); the loop without overlap; one request per prefill batch;
fixed output tokens; no tool-call anchors; a slot for every request in the
table. The model stops where the code raises for want of window slots.

### Frontend against the code

Two threads write the gate: the event loop, one handler at a time, and the
supervisor. A handler that reads shared state and writes it later is two
actions, and `loop` is the write still to do:

| code | actions |
|---|---|
| `cache_rebuild`, `dispatch_rebuild` | `CacheRebuild` (the test), `CloseGate`, `SendRebuild` (the send, or its rollback), `TimeoutRebuild` |
| `_resolve_rebuild` | `ResolveRebuild` up to the test of `fatal_error`, `Reopen` |
| `_on_ready` | `SupTestGate`, `SupOpenGate` |
| `_on_failure`, `fail_pending_rebuilds` | `SupDeath`, `SupLatch`, `SupWake`, then `ResolveAll` on the loop |
| `generate`, `new_user`, `send_one` | `Submit`; `Consume` is `wait_for_ack` |
| `stream_with_cancellation`, `abort_user` | `Disconnect`, `AbortUser` after its 0.1 s |
| `listen`, `StatsTracker.observe` | `ListenReplies` |
| `prepare_stop_accounting` | `StopBegin`, `StopSeal`, `StopAbort`, `StopAborted`, `StopTimeout` |
| one pass of `tokenize_worker` | `TokenizerStep` |

The scheduler is what `ReplyStream` says of it (`MaySend`), the specification
`Scheduler` is shown to implement, so the two models meet at that interface.
The tokenizer worker reads one queue with two writers: any prefix of each, up to
`LocalBs` messages, is one pass. `launch.py` sets `local_bs` to 1, but a scheduler batch
is one message that unwraps to many, so a pass may see several replies; the
model allows mixtures the launcher's setting does not.

Thread races the model has, which no property forbids because the code
does not prevent them: `_on_ready` reads `loading` and a prepare-stop closes the
gate before it writes `serving`, so a stop during startup can be undone
(`StopUndoneOnlyAtStartup` says it is the only way); a latched `failed` can be
written over by a handler that had passed its test (the process is about to
exit then); `fail_pending_rebuilds` wakes nobody when the listener has not
started; a send that raises leaves its request counted as active.

### ExpertCache against the code

A step of the host is what the code enqueues for one layer of one batch, and a step of
the device is one operation of one stream:

| code | actions |
|---|---|
| `_prefill_routed` with overlap: `begin_prefill`, `prefetch_prefill_layer` for this layer and the next, `wait_prefill_layer`, GEMM, `release_prefill_layer` | `BeginPrefill` before the first layer, then `StreamLayer` |
| `_prefill_routed` without overlap: `materialize_layer`, `copy_missing`, GEMM | `MaterializeLayer` |
| `_decode_routed`, `_decode_hybrid`, the short prefill of DeepSeek-V4: `ensure_experts`, `copy_missing`, GEMM | `DemandLayer` |
| `rebuild` | `Rebuild` |
| a stream runs its work | `TakeSnapshot`, `FillHalf`, `GatherHits`, `Load`, `Materialize`; `Pass` for waits, event records and GEMMs |

`bytes[k][s]` is the expert whose weights bank `k` has in slot `s`. A GEMM changes
nothing; the properties look at the operation a stream would run next. With the
hit/miss split a layer is completed by two operations on two streams, a gather of what
the live slot map finds above the buffers and a copy of what the snapshot does not.

Abstractions:

* a slow device behind a fast host is every other timing too, so the host's calls for a
  layer are one step; the host's own wait inside `_invalidate_prefill_buffer` (a
  boolean index needs its length) is left out, which only allows more;
* a re-recorded event is a new event with the batch and layer in its name; a stream
  waits for the last record made before the wait, as CUDA does;
* `ensure_experts` is a kernel of a library in the GPU path: `Load` is the capped
  kernel of this repository with the cap at its largest. Which of the missing experts are
  fetched and in what order they take the victims is a choice, so the recency and
  bandwidth policies are covered;
* a load and its `copy_missing` are one operation, being neighbours on one stream.

Left out: layers that decode on the CPU or whose host banks are not pinned, resets for
profiling, statistics, and the choice of cache sizes.

## Runs

| Run | Shows | Distinct states |
|---|---|---|
| `overlap` | conservation, nothing freed in flight, no orphans, no page shortage and the reply protocol, in the overlapped loop; rebuilds that succeed, are rejected, are rolled back or fail happen only when nobody owns anything; every request, abort and queued rebuild is answered in the end | 611,000 |
| `normal` | the loop without overlap on pages of four tokens: rows match progress, `length` means the budget was used up | 218,000 |
| `length_overlap` | violated: see Findings | |
| `serve` | at most one serve, stops and shutdowns are final, nothing is spawned against a stop, receipts precede signals, sealed totals are the last word | 2,490,000 |
| `serve_live` | every dead child is accounted for and forgotten, every call and auto-restart returns, across a daemon exit | 268,000 |
| `record_race` | violated: see Findings | |
| `stale_stats` | violated: see Findings | |
| `prefix` | radix cache under the overlapped loop: pages in one place, rows hold the KV of their own tokens, exact counters and locks, eviction never falls short; `PrefixCache` implements `PrefixStore`; image claims are exact, images are cut only when no pass could hold them | 52,000 |
| `frontend` | sealed totals are complete, the gate is closed while a rebuild is outstanding and never stuck, answers are whole, decode state and active requests are released | 2,210,000 |
| `swa` | both currencies exact, slots conserved, what a forward reads is live | 50,000 |
| `swa_commit` | violated: see Findings | |
| `experts` | every GEMM reads the weights of its experts, the two streams never race, the slot map is true | 84,000 |

Bounds. `overlap`: two requests, two table slots and three pages of two tokens.
Together the requests need four pages, so one waits for the other's; one prompt is longer
than `PrefillBudget`, so it is chunked and can be aborted between chunks, in a
chunk, or in its final chunk; both decode, one of them twice, so a request is launched
again after its end was sampled. One abort per request, at any point, before or
after the request itself. One rebuild resizes the pool to two pages, the other leaves the
KV pool as it is. A third request adds waiters of the same kind and nothing else that
the properties look at: a pass admits from the head of the queue and stops.
`normal`: three short requests whose tokens would fit two pages together but need
three pages apart, which is what reserving in whole pages is for, and a tombstone
table of one entry, so that it overflows. Pages and slots are symmetric in `normal` (the sets
are only compared by equality); no symmetry is used with the liveness properties.
`MaxAborts` and the once-per-id messages are the only bounds in guards;
`TombstoneCap` is 65,536 in the code.

`serve`: three calls and three processes, so a child can crash, be restarted and
be stopped while a second call waits for the lock; two models, so that a start
can conflict. One caller suffices for the concurrency of calls: the
daemon runs lifecycle calls on a pool of one thread, and the actors that
race them are monitors and auto-restarts. The disk may refuse any write.
`serve_live`: two calls, two processes and one daemon exit, on an
engine without `prepare-stop`, with statistics polled. Processes and models are
symmetric in the safety runs; the liveness run uses no symmetry. `MaxCalls`,
`MaxExits` and the size of `Gens` are the bounds. Deadlock is not checked for
the serve manager: with nobody calling and nothing running it is idle.

`prefix`: three requests on seven pages of two tokens: one prompt extends another by
half a page, a third shares their first page and then differs, so nodes are
split in and between handles, duplicates arise when two compute the same text,
and admission has to wait and evict. A commit and an eviction need full and
partly filled pages, which the lengths give. Two requests share an image that
occurs twice, and the third has one that needs most of a pass of four tokens, so
claims overlap, survive chunks and are released by aborts between them, and a
chunk has to end early or wait. `PrefixStore` is refined on the
same instance.

`frontend`: one request, one rebuild, one prepare-stop and one fault (a send that
raises or a worker that dies), with up to three messages per pass of the
tokenizer. One of each suffices for the races the properties are about, which
are between a request, a rebuild, a stop and the supervisor; between two requests
the gate and the totals do not distinguish. A two-request instance of the same
module is beyond the time of a run.

`swa`: four requests, a window of two tokens, seven window slots for prompts of
six to nine: a prompt is computed in chunks, its window KV is given back behind
it, nodes are tombstoned under pressure and revived by a later commit, an
eviction cascades. No prompt ends less than a window after it leaves another's
path; that case is `swa_commit`, with the prompts the other way about. In both,
deadlock is not checked: the model stops where a request can never be seated.

`experts`: three layers of two experts, so that the third layer takes over the half
of the first; six slots, two of them above the double buffer, so that the hit
region exists and evicts; a rebuild to three slots, which ends the overlap, and back; a bank
that is copied whole and one that is split; three batches of any kind, two of them queued at
once, which is as far as the scheduler runs ahead. An on-demand load is routed to
both experts or to one, and a decode may fetch one. `MaxBatches` is the only bound
in a guard. Deadlock is checked (`Finished` is the end of the batches), so no stream
waits for an event that never comes.

Fairness of `PrefixCache`, `SwaCache`, `Frontend` and `ExpertCache`: none, their properties are
about safety. Every action may also not happen, which is how a lost worker or
a client that never returns appears in `Frontend`.

Fairness of the serve manager. Threads run, so each call and each monitor is
weakly fair; a wait with a timeout ends. SIGKILL is not refused, so the exit of a
process that got it is fair; any other exit is not. A daemon that is down comes
back (`Restart=always` in its service unit). Nobody has to call. The lifecycle
lock is not assumed to be fair: there are finitely many calls, so whoever waits
for it gets it in the end. `DeadIsForgotten` and `ForgottenHasReceipt` are about a disk
that accepts writes: a start whose record is refused leaves a child that has
no monitor, and a refused crash receipt parks the daemon on purpose.

Fairness of the scheduler. Only the loop is fair (`WF_vars(Loop)`): `run_forever` is an
endless loop on its own thread, and every forward is assumed to finish. Clients
owe nothing. The loop may receive any number of messages before it goes on, but
there are finitely many, as a real `receive_msg` takes those that have arrived.
`Blocked` is the idle loop waiting in `receive_msg`, so deadlock is
checked: the only state without a step would be `oom`.

## Proofs

`SchedulerProofs` holds for every set of requests, slots and
pages (finite), all lengths and budgets, with and without overlap. It
assumes `SchedulerAssumption` only.

That slots and pages are conserved is not inductive. Freeing a request twice is
prevented by `table_idx = -1`, but handing a slot to a request that already has
one, or rebuilding under an owner, is only excluded by what the queues know.
`IInv` adds, each under its own name in `SchedulerInvariant`:

* a fresh pending request owns nothing, a parked chunk and a running request
  own a slot, the queue has no duplicates, and nothing unsent is anywhere;
* a request whose whole prompt is in a batch has left the queue; an aborted one
  is in no queue and is not launched again; a finished one holds nothing;
* every request in a batch still to be drained owns its slot, except the extra
  overlapped step of a request that ended (`InFlightHeld`);
* draining a batch leaves nobody behind (`NothingLeftBehind`): its requests go
  on as a chunk, as a running request, or in the batch launched after it.

The last one is what makes `NoOrphans` inductive across `FlushAbortAcks`, and
`NoOrphans` is what makes a rebuild safe: with no batch and empty queues nobody
owns anything (`IdleOwnsNothing`). The proof has one lemma per action; frees,
slot allocation and page grants have lemmas of their own (`HeldAfterFree`,
`HeldAfterTake`, `PagesAfterLaunch`), and `SuffixElems` and `WithoutElems` say
what the queue operations do to the set of queued requests.

Theorems: `TypeCorrect`, `InvariantHolds`, `SlotsConserved`, `PagesConserved`,
`InFlightSafe`, `NothingOrphaned`, `IdleIntegrity`, `RebuildWhenIdle`.

`SchedulerProofs` also shows that a request with no launch has no tokens done
(`UnscheduledAtZero`), which makes `PagesMatchProgress` inductive (`PageInv`):
`RowsMatchProgress`. The same module proves `ImplementsReplyStream`,
`Spec => RepliesWellFormed`: the identity refinement of `ReplyStream`. Which
message may follow depends on who may still be answered, and `ReplyInv` says who
that is: a request waiting for its first batch has heard nothing
(`FreshIsSilent`, `UnsentIsSilent`), one that a drain will sample is streaming
(`LiveIsStreaming`, `BatchIsStreaming`), one whose acknowledgement is due will
not be sampled after it (`AckedIsGone`). The theorem assumes `TombstonesSuffice`, that the
tombstone table holds every request: an abort forgotten by an overflow lets its
request in after the acknowledgement, which is what the code does.

The same module proves `NeverOutOfPagesHolds` from `SchedulerAssumption`. The
check of `_try_allocate_one` adds tokens (`inflight_tokens`, what this pass has
reserved, the request's own cost); the allocator hands out whole pages, to chunks and
decode steps that come much later, and nothing is checked again. `AdmissionInv` is
what the check buys: the pages that everyone who runs or is in the middle of its
prompt will still take, to its last token, are free now (`RoomForAll`). A launch
takes from both sides what it allocates (`LaunchRoom`); an end, an abort or a
finish only gives back; an admission keeps it because a request's token cost with
its page of slack is no less than its pages (`PageBounds`, `CheckedRoom`). It needs that only the
first pending request can be a chunk (`ChunkFirst`): a second one would be counted
by no check. The sums are cardinalities of sets of units (`Total`), so that adding,
splitting and comparing sums are facts about finite sets (`TotalSplit`, `TotalAdd`,
`TotalMono`) and need no induction.

`LengthMeansSpent` is the one theorem with a hypothesis on the loop, `~Overlap`: with the overlapped
loop `length_overlap` shows the property violated. `_process_last_data` appends a token and
then compares lengths, so what has been sent must be known from the lengths. `LengthInv`
says how: in the plain loop a running request has been sent one token more than
it has cached beyond its prompt (`RunningInStep`), one whose forward is still to be drained exactly as
many (`BatchInStep`), and one that waits none (`WaitingUnheard`). A request leaves a prefill
batch as running only with its last chunk (`ChunkIsLast`); `AdmissionInv` is
needed because a failed allocation would leave the batch halfway.

`ServeManagerProofs` holds for every set of callers, processes and models, any
number of calls and daemon exits, with and without auto-restart, with a
disk that may fail or not. It assumes `ServeManagerAssumption` only. None of
the properties is inductive: that a start finds the place empty depends on where
every other call is, that a stop may return when it sees `reaped` depends on how far
the monitor is. `IInv` says

* who is past the first section of a call holds `_lifecycle` (`LockHeld`), and one
  who is about to spawn or publish finds no child, no stop latch and no shutdown
  (`PlaceFree`);
* a stop deals with the current child or it is gone (`StopOwnsChild`), and
  `stopping` and `_shutdown_requested` over a child are the doing of a stop under way
  (`StoppingByStop`, `ShutdownEmpties`);
* what a monitor has forgotten is dead and does not come back (`MonitorOrder`), since
  a new child has never been watched (`NewUnwatched`, `UnspawnedUnknown`);
* a signal comes after a receipt (`PreparedFirst`, `ReceiptFirst`);
* in the first life of the daemon every process is the child or about to be
  (`AliveOwned`).

`AliveOwned`, and what rests on it, is stated for `exits = 0`: a daemon that
dies between spawn and record leaves a serve that nobody owns, which is what the code
does. Theorems: `ServeTypeCorrect`, `ServeInvariantHolds`, `OneServeHolds`,
`StopIsCompleteHolds`, `SpawnHonoursStopHolds`, `ShutdownIsFinalHolds`,
`ReceiptBeforeSignal`. The proof has one lemma per action and under it one step for
each group of conjuncts the action disturbs in the same way.

The same module proves on top of it, from the same assumption,
`ReceiptInvariantHolds`, `NoneForgottenUnaccounted` (`ForgottenHasReceipt`) and
`SealedIsTheLastWord` (`SealedOrCrashed`, in the first life of the daemon). The invariant
`ReceiptInv` says that what is remembered as durable is on disk and the other way
round (`DurableIsFiled`, `FiledIsDurable`), that a monitor reports the child it watches
(`WatchedIsChild`), that a crash is filed for a process that is gone
(`CrashedIsGone`), and that a stop about to write a sealed receipt finds none of that
process (`SealPending`, `SealedOnce`).

`PrefixStoreProofs` holds for every pool, page size (`PageSizeAssumption`) and
set of requests. That pages are partitioned is not inductive: a commit gives
back the pages someone else has cached meanwhile, and only because a lock is in
the map (`HeldInMap`), the map is closed under prefixes (`MapClosed`) and lengths
agree (`Shape`) is what it gives back its own. `IInv` adds those, and for the
contents that a cached page holds its key and an owned page its place in the
text (`MapHoldsKeys`, `OwnHoldsText`). Theorems: `Invariance`, `TypeCorrect`,
`PoolPartitioned`, `RowsCorrect`. They are about the abstract store; that the
tree implements it (below) carries them over.
The lemmas on prefixes cut at pages (`UpToUpTo`, `UpToStable`) need products of
variables, which the solver only does when handed the instance of
`MulMonotonic`.

`RadixTreeProofs` and `PrefixCacheProofs` hold for every finite set of requests,
any prompts, output lengths, pool, page size, budget and sampled tokens, with and
without overlap. The assumptions are `UidsAssumption`, `PromptAssumption`,
`OutputLenAssumption`, `SizesAssumption` and `PageSizeAssumption`, which type the
constants, and `SpansAssumption`: the runs of placeholders of a prompt's images
lie within the prompt and do not overlap, as `MMProcessor.apply` writes them one after the
other (used for the two results on images only).

* The tree. `IsTree` says that names are whole pages of tokens (`WellFormed`), that a
  node has a parent and holds as many pages as it is longer than it (`Segmented`), and
  that of the nodes that extend a cached prefix one is a prefix of all others
  (`Branching`): nodes with a page of tokens in common part at a node, so a
  walk meets at most one child to split.
  For split, lock, unlock, insert and evict there is a lemma on each of: the
  shape, the map from prefixes to pages (`EntriesOf`), the counters, and the references.
  `MatchedIndices` names the page of each position directly instead of
  concatenating the values of a path, which makes these lemmas first-order.
* Sums (of node lengths, of reservations) are cardinalities of sets of units
  (`Tally`), so that monotonicity, disjoint unions and scaling by the page size are
  facts about finite sets and need no induction.
* `IInv` is `TypeOK`, `TreeOK` (the tree and its accounts), `LengthsOK`, `RowsOK` (a
  handle is a prefix of what the request computed, the row covers it), `BatchesOK` (whoever
  is drained is active, finished or aborted) and `ListsOK`. It is inductive only
  together with the invariant of the store: that a commit does not free a page in use,
  or that two requests are not handed the same page, is the partition proved
  there. So each lemma on an action shows both that `IInv` is kept and that the step
  is a step of `PrefixStore` or changes nothing it sees (`NextImplements`);
  `Implements` is `Spec => ImplementsStore`.
* From it: `TreeAccounted`, `RowsCorrect`, and `PagesInOnePlace`, which counts
  occurrences: no list, node or row names a page twice, so being in one of
  the sets of the partition is being there once.
* `EvictionEnough`, that `evict` and `_allocate` always find what they assert. The test of
  `_try_allocate_one` adds tokens and is made once; pages are taken chunk by chunk and
  step by step later, from a pool whose composition commits, locks, ends and evictions
  change. `BudgetInv` says that the pages that everyone running, half
  prefilled or in the batch being built will still take to its last token (`Reserve`) are
  there, free, deferred or evictable (`Enough`). An admission keeps it because of the
  second test, after its own lock (`AdmitBudget`); a launch takes from both
  sides (`ForwardReserve`, `PoolFact`); an end only adds (`FinishRoom`). A commit locks a
  longer prefix, and what it thereby takes from the evictable size is no more than the
  pages it inserted and the duplicates it gives back (`CommitRoom`).
* `ImagesKeptWhole`: when a chunk is pulled back to the start of an image no other
  image is cut there, for which the spans must not overlap.
* `ClaimsHold`. An `OwedMap` says what each request has still to gather of each image;
  `Exact` says the cache agrees with such a ledger, and one lemma per operation of
  `EncoderCache` says what it makes of it. A chunk gathers part of what is claimed and
  the rest stays claimed (`RowsFact`, `GatherFact`), so the encoder does not fail (`EncoderRuns`). What
  `ClaimsInv` adds: a request that ends without an abort has its prompt done, also when it is
  drained one launch late (`LaunchedOK`), for nothing releases its claims then; and
  an image whose feature is dropped stays encoded as long as the request claims it (`FeaturesKept`).

`SwaCacheProofs` holds for every finite set of requests, any texts, prompt lengths, window,
retain gap, pools and budget: `SwaInvariance` and `SwaAccountsHold` (`SwaAccountsExact`). The
assumptions are `SwaCacheAssumption`, which types the constants, and `SwaAssumption`, pages
of one token and a window of at least one. A radix tree with two currencies is a radix tree if the
window fields are left out (`Core`), so for the full currency the lemmas of
`RadixTreeProofs` are reused and the work is in the other one.

* That the window counters are exact is not inductive: `dec_lock` unlocks the
  live nodes on the path of a handle down to the one with the handle's `uuid`, in the
  tree as it is then, and between the lock and the unlock nodes were split, others
  were turned to tombstones or revived, and marks were shared.
  `SwaRefsExact` says that the window lock of a node counts the handles in whose window it
  is (`WindowOf`), computed from the present tree. It survives a split only because the
  mark goes to the half nearer the root, an eviction because a locked node is no
  victim, a revival because only nodes that nobody holds are revived (`FreeWindow`).
* `HandleMarked` says that the node of a handle is live and its mark is on its
  path, `MarksDiffer` that a mark names one node. `LeavesLive`, that a leaf
  without lock is never a tombstone, is what makes `evict_full` give back window KV for
  each victim; the cascade (`Unlinked`) restores it after an eviction, and
  an insertion ends in a live leaf (`WithSuffix`).
* `TreeOK` is those parts with the accounts of `Core`, relative to a set of users and
  their handles. There is one lemma per operation, with the users and handles as parameters: `MatchFact`,
  `SwaInsertFact`, `IncLockFact`, `DecLockFact`, `EvictLeafFact`, `EvictWindowFact`, `TrimHeadFact`.
* `Progress` is the rest: a row is as long as what is computed, within the text, so that
  `insert` finds a slot for each token; and it takes the slices that
  `allocate_paged` hands out in batch order to show it (`SumMore`, `TakenFact`).

`ExpertCacheProofs` holds for every number of layers, experts, banks, slots
and batches, with and without the hit split (`ExpertCacheAssumption`): the
slot map of the expert cache is true, `ResidencyHolds`, with `InvariantHolds`
and `TypeCorrect` under it. `ResidencyIsTrue` is not inductive. A gather writes
rows of a half without telling the map, and what it may not meet there is an
expert an on-demand load put in the same slots. `GathersCovered` says such a
half is disowned, or the copy that disowns it is still queued. A load on the
compute stream could break that, so `GathersAfterLoads` says that a gather
queued behind a load still has its copy queued, and that in turn
needs the fence of `begin_prefill`: `FillsFenced` and `BatchFenced` say that a copy
does not overtake the record behind the loads of earlier batches, and
`StreamsLoadNothing` that a batch that streams its layers has no loads of its own.
Lemmas say what taking the head of either stream and appending behind them
keep (`PopComputeKeeps`, `PopCopyKeeps`, `AppendKeeps`), and then there is one
lemma per action.

The same module goes on from there to the two properties
the events exist for, from the same assumption: `StreamsNeverRaceHolds` and
`GemmReadsItsExpertsHolds`. Neither property is about more than the heads of
the streams, so both need to know what the queues behind the heads will do.

* `OrderInv` (`OrderHolds`) is about order alone. `ComputeFirst` and `CopyFirst` name the pairs of
  operations of which one must run before the other: anything of an earlier batch
  against a copy, and users of the same half of different layers. `StreamsOrdered`
  says that for each such pair a record behind the first and a wait in front of the
  second are both still queued (`Sync`). That this survives the next layer takes what the host knows
  while it enqueues: which layers it has issued (`HostIssued`), that its `freed`
  event is behind every use of the half (`HalvesKnown`), that the fence
  stands while earlier work is queued (`FenceStands`), that each copy is awaited
  (`FillsAwaited`). `StreamLayerFacts` puts the queues after one streamed layer in
  a form that does not mention sequences, and the lemmas on steps start from there.
* `SplitInv` says that the hit split adds up: from when the snapshot is taken to the
  end of the prefill what is above the buffers does not change (`SnapshotAgrees`), so
  what crosses the bus is what the gather leaves out (`RowsSplit`). With
  `OrderInv` that is enough for `StreamsNeverRace` (`SplitSeparates`).
* `LayersComing` is about every GEMM over a half that is queued, and about the next layer
  if it has been prefetched: each row is there and nothing older is left to write
  the half (`InRow`), or a copy queued brings it (`FillBrings`), or a gather
  in front of the GEMM does (`GatherBrings`). When the GEMM is at the head and may
  run, only the first is left.
* `HeadLoaded` and `ResidencyForLoads` are the same for the GEMMs over slots. What a load
  finds in the slot map it may rely on, unless a copy that is still to
  disown a half is older than the load (`Disturbed`), and the fence excludes that.

`BytesHolds` states all of it. The assumption includes that `None`, which stands for no
event, is none of the `Events`.

`FrontendProofs` holds for any requests, rebuilds, stops and faults and any `local_bs`. Its
assumption `IdsAssumption` is that requests are numbers, as `uid_counter` gives them,
and no rebuild is one. A pass of the tokenizer worker selects the messages of each kind
from what it drained; `Selects` says which positions a selection names, and `Pass` is the pass
without the sequences it builds, from which every lemma on the worker starts.

* The gate (`GateHolds`). That a rebuild closes the gate is not inductive: a reply that comes
  in reopens it, and only as there is one rebuild, with one message, is nothing outstanding
  then. `Places` names where a rebuild's message may be, the two queues of the worker, the
  scheduler and the batches of replies, and `OneRebuild` says there is at most one such place.
  `ClosedOnTheWay` says that while there is one the gate is closed and no handler is about to
  write it; `StartupIsQuiet` that the supervisor thread, before it opens the gate, can meet no
  rebuild; `SendFindsItsGate` and `ReopenFindsNoStop` that the write a handler still has to do
  after a test does not find a stop, since `prepare_stop_accounting` refuses
  while the gate says "rebuilding". Theorems: `RebuildClosesGateHolds`, `NeverWedgedHolds`,
  `StopUndoneHolds`.
* The decode state (`DecodeStateReleasedHolds`). An abort that overtakes a token discards state
  that the token creates again. It is released in the end because the last message of a request
  on its way down is the last one sent (`LastOnTheWay`), and that one is terminal for an ended request.
* The active requests (`ActiveIsAnswerableHolds`): each step that takes away one reason
  to expect an answer puts the next one in place.
* The sealed totals (`SealIsCompleteHolds`). They are sealed when no request is active, and
  what is counted by then must be all that is ever sent. The inductive invariant `SealInv` is
  per request (`OfRequest`): what the scheduler sent is counted, on its way back or on
  its way to the worker (`AllCounted`, over `Cardinality`); a request is asked for and
  admitted once; a terminal reply under way or observed means that the scheduler is `Silent`
  but for acknowledgements (`EndIsSilent`); and no message that counts comes behind a
  terminal one (`NothingBehindTheEnd`), for which the order of the batches in
  `_send_generation_replies` is needed: tokens before errors. The lemmas count messages
  through a pass: what is selected, what is left and what is put into batches (`KindCount`,
  `LeftCount`, `AddedAll`, `PassBills`).
* The answers (`WholeAnswerHolds`). What a consumer has yielded when it ends is a fact about
  history; what makes it true is where the messages are before. While a consumer is registered
  and no abort was sent for it, what it was told, the batches of replies and the worker's
  queue hold, in this order, all that was sent for its request, each message once and in
  place (`Follows`): the n-th message about a request, counted over the batches and then over
  the queue, is the n-th one sent (`InRank`, `AllInRank`), which is stated by counting as no
  concatenation of selected sequences can be reasoned about here. A pass of the worker
  regroups messages by kind, and keeps the places only because the scheduler sends
  an admission first and errors last (`Orderly`); that is `PassRank`. A request the tokenizer
  refuses has nothing sent and one error in its place (`Refused`). A terminal message is in a
  consumer's buffer only once the request is no longer active (`EndIsObserved`), so that by
  `SealInv` the scheduler sends nothing for it later but acknowledgements.

Only model-checked: the liveness properties (out of the prover's reach), and of the
sliding-window cache `SlotsConserved` and
`RowsLive`, which hold in its first run but not in general (`swa_commit` shows how they fail), so
there is no theorem to state.

## Findings

`length_overlap`: the comment at `scheduler.py:350` says an exhausted output budget
ends a request with `length`. In the overlapped loop `hit_length` is read after the
next batch has advanced the request, so a request with `max_tokens` of two or more
ends with `length` one token early, and its last token, already computed, is
dropped. Without overlap (`normal`) the property holds.

`record_race`: `detach` says "State stays persisted for re-adoption"
(`serve_manager.py:709`). `_reap` forgets a dead child under `_cond` and clears the
state file afterwards, outside every lock (`serve_manager.py:800`). A start that
comes between the two spawns a new serve and records it, and the late clear erases
that record: the serve runs and is watched, but the next daemon would not find it.

`stale_stats`: `observe_accounting` is to "Remember the latest validated totals for
the current child" (`serve_manager.py:423`). `/engine/stats` awaits the
totals and files them under the child of the later moment; if the serve was replaced
meanwhile they are the totals of the old one, and a crash receipt would repeat them.

`swa_commit`: `_cache_req_swa` re-points the row to what a match finds and says "The
reconcile revived the in-window tombstones, so the re-matched slots are live"
(`cache.py:483`). A tombstone that another request has locked is not revived
(`swa_radix_cache.py:177`): the tree's slots stay and those of the committing
request are freed. If less than a window of live tokens follows, the match stops
before the tombstone, and the rest of the row keeps the slots just freed. The
run shows a prompt that goes one token past a head that lost its window KV while
a longer request was reading it.

## Plan

What is left, in the order of its worth:

1. `SwaCache` under the overlapped loop and with pages of more than one token;
   the hybrid (GDN) tree and its state pool as a third tree over `RadixTree`.
2. `Frontend` with two requests and several tokenizer workers, and liveness: an
   admitted request is answered or its consumer ends.
3. `ServeManager`: receipt acknowledgement; the abstract specification of a slot
   that holds at most one serve, which it implements in one life of the daemon.
4. `ExpertCache`: layers decoded by the CPU executor next to streamed ones.
5. Proofs: that the sliding-window cache loses no slot, once the commit that
   `swa_commit` shows is repaired; until then it is not true.

## Not modelled, and why

Tensor computation (engine, kernels, attention, models, codecs), file formats
(checkpoints), text grammars (tool-call and reasoning parsers, API adapters) and
the command line: their correctness is numeric or textual, not about the order
of steps. That is most of the source, by lines. The hybrid (GDN) cache is about the
order of steps and is not modelled yet. Tensor-parallel ranks replay the same messages in the same order
and are taken as one scheduler. Inside the scheduler: the GDN
state pool, tool-call anchors and `ExitMsg`.
