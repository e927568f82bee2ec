------------------------------ MODULE Frontend ------------------------------
(***************************************************************************)
(* The API server process in front of the scheduler: FrontendManager, its  *)
(* maintenance gate and its request accounting (server/api_server.py,      *)
(* accounting.py, stats.py), the supervisor thread that watches the        *)
(* backend (supervisor.py), and the tokenizer worker both directions pass  *)
(* through (tokenizer/server.py, num_tokenizer = 0).                       *)
(*                                                                         *)
(* The event loop runs one handler at a time; a handler is split where the *)
(* supervisor thread can come between a read of the shared state and the   *)
(* write that follows, and loop names the write still to do.  The scheduler*)
(* is its contract: what it sends for a request obeys ReplyStream, which   *)
(* module Scheduler implements.  The tokenizer worker reads one ZMQ queue  *)
(* fed by two peers, so up and down are merged in any order.               *)
(*                                                                         *)
(* A prompt's admission and a sampled token each weigh one unit in the     *)
(* accounting totals, which are kept per request.  StatsTracker's rates,   *)
(* gauges and completed count (with _aborting, which only feeds it) are    *)
(* left out, and so is the process exit that follows a backend death.      *)
(***************************************************************************)
EXTENDS Integers, FiniteSets, SequencesExt

CONSTANTS
    Uids,       \* requests, in the order of uid_counter they are given
    Rebuilds,   \* calls of POST /v1/cache/rebuild
    MaxTokens,  \* bound: tokens a request asks for (max_tokens)
    LocalBs,    \* local_bs: messages a tokenizer worker drains at once
    MaxStops,   \* bound: calls of POST /v1/admin/prepare-stop that get the lock
    MaxFaults   \* bound: sends that raise, workers that die

ASSUME IdsAssumption == Uids \subseteq Nat /\ Uids \cap Rebuilds = {}

ASSUME BoundsAssumption == /\ MaxTokens \in Nat \ {0}
                           /\ LocalBs \in Nat \ {0}
                           /\ MaxStops \in Nat /\ MaxFaults \in Nat

VARIABLES
    gate,       \* state.maintenance_state
    fatal,      \* state.fatal_error is not None
    loop,       \* << >>, or what the running handler has still to do
    listening,  \* state.initialized: listen() runs, _loop is known
    sup,        \* the supervisor thread
    wake,       \* a call_soon_threadsafe(_resolve_all) is pending
    alive,      \* backend workers that are alive
    ready,      \* every ready ack is in the ack queue
    client,     \* client[u]: the HTTP handler that consumes wait_for_ack(u)
    seen,       \* seen[u]: what it has yielded
    ack_map,    \* replies not yet consumed, for the uids still registered
    inflight,   \* stats._inflight
    counted,    \* counted[u]: units observed for u
    sleeping,   \* abort_user tasks in their 0.1 s sleep: <<uid, who>>
    call,       \* call[r]: the handler of rebuild r; "pending": r has a future
    stop,       \* prepare_stop_accounting
    sealed,     \* _sealed_accounting: the totals, by request admitted so far
    up,         \* API server to tokenizer worker
    out,        \* tokenizer worker to API server, batches of replies
    decode_map, \* uids with a DecodeStatus
    down,       \* scheduler to tokenizer worker
    toScheduler,\* requests and rebuilds handed to the scheduler, not answered
    ackDue,     \* ackDue[u]: aborts handed to the scheduler, not acknowledged
    sent,       \* sent[u]: all the scheduler sent for u (history)
    stops, faults

gateVars   == <<gate, fatal, loop>>
supVars    == <<sup, wake>>
workerVars == <<alive, ready>>
userVars   == <<client, seen, ack_map, inflight, counted, sleeping>>
stopVars   == <<stop, sealed, stops>>
tokVars    == <<decode_map>>
schedVars  == <<toScheduler, ackDue, sent>>
vars == <<gateVars, listening, supVars, workerVars, userVars, call, stopVars,
          up, out, tokVars, down, schedVars, faults>>

Workers == {"scheduler", "tokenizer"}
Contract == INSTANCE ReplyStream WITH reply <- sent

Final    == {"stop"}                  \* any finish_reason
Sampled  == {"tok"} \cup Final
Errors   == {"error", "ack"}
Finished == Final \cup Errors         \* UserReply.finished
Kinds    == {"admit"} \cup Sampled \cup Errors
Billable == {"admit"} \cup Sampled    \* has a prompt or completion delta
Outcomes == {"ok", "failed"}          \* "ok": any status that is not failed

(* The elements of s at the positions P, in order: the i-th of them is the *)
(* one whose position is the i-th of P.                                    *)
Subsequence(s, P) ==
    LET Rank(i) == Cardinality({j \in P : j <= i})
    IN  [n \in 1 .. Cardinality(P) |-> s[CHOOSE i \in P : Rank(i) = n]]

OfKind(s, K) == Subsequence(s, {i \in DOMAIN s : s[i].k \in K})
OfUid(s, u)  == Subsequence(s, {i \in DOMAIN s : s[i].id = u})
Ids(s)       == {m.id : m \in ToSet(s)}
KindsOf(s)   == [i \in DOMAIN s |-> s[i].k]
Units(s)     == Cardinality({i \in DOMAIN s : s[i] \in Billable})

Init ==
    /\ gate = "loading" /\ fatal = FALSE /\ loop = << >> /\ listening = FALSE
    /\ sup = "draining" /\ wake = FALSE
    /\ alive = Workers /\ ready = FALSE
    /\ client = [u \in Uids |-> "new"] /\ seen = [u \in Uids |-> << >>]
    /\ ack_map = << >> /\ inflight = {} /\ sleeping = {}
    /\ counted = [u \in Uids |-> 0]
    /\ call = [r \in Rebuilds |-> "new"]
    /\ stop = "idle" /\ sealed = << >> /\ stops = 0
    /\ up = << >> /\ out = << >> /\ down = << >> /\ decode_map = {}
    /\ toScheduler = {} /\ ackDue = [u \in Uids |-> 0]
    /\ sent = [u \in Uids |-> << >>]
    /\ faults = 0

-----------------------------------------------------------------------------
(* Requests: generate, submit_generation and the consumers of their acks.  *)

OnLoop == loop = << >>

CanFail == faults < MaxFaults /\ faults' = faults + 1

(* send_one: the first send of all starts the listener.                    *)
Send(k, id) ==
    /\ up' = Append(up, [k |-> k, id |-> id])
    /\ listening' = TRUE
    /\ UNCHANGED faults

(* socket.send raises: nothing is queued.                                  *)
SendRaises == CanFail /\ listening' = TRUE /\ UNCHANGED up

Unregistered(u) == [v \in DOMAIN ack_map \ {u} |-> ack_map[v]]

(* new_user, then the TokenizeMsg.  Nothing undoes new_user when the send  *)
(* raises: the handler ends with a 500.                                    *)
Submit(u) ==
    /\ OnLoop /\ gate = "serving" /\ client[u] = "new"
    /\ ack_map' = [v \in DOMAIN ack_map \cup {u} |->
                      IF v = u THEN << >> ELSE ack_map[v]]
    /\ inflight' = inflight \cup {u}
    /\ \/ Send("tokenize", u) /\ client' = [client EXCEPT ![u] = "waiting"]
       \/ SendRaises /\ client' = [client EXCEPT ![u] = "broken"]
    /\ UNCHANGED <<gateVars, supVars, workerVars, seen, counted, sleeping, call,
                   stopVars, out, tokVars, down, schedVars>>

(* wait_for_ack wakes, yields what is pending and ends with a finished ack.*)
Consume(u) ==
    /\ OnLoop /\ client[u] = "waiting"
    /\ u \in DOMAIN ack_map /\ ack_map[u] # << >>
    /\ seen' = [seen EXCEPT ![u] = @ \o ack_map[u]]
    /\ IF Last(ack_map[u]) \in Finished
       THEN /\ client' = [client EXCEPT ![u] = "done"]
            /\ ack_map' = Unregistered(u)
       ELSE /\ ack_map' = [ack_map EXCEPT ![u] = << >>]
            /\ UNCHANGED client
    /\ UNCHANGED <<gateVars, listening, supVars, workerVars, inflight, counted,
                   sleeping, call, stopVars, up, out, tokVars, down, schedVars, faults>>

(* stream_with_cancellation sees the client go.  The generator's finally   *)
(* runs now, or else abort_user unregisters the uid: nobody reads the entry*)
(* in between.                                                             *)
Disconnect(u) ==
    /\ OnLoop /\ client[u] = "waiting"
    /\ client' = [client EXCEPT ![u] = "gone"]
    /\ ack_map' = Unregistered(u)
    /\ sleeping' = sleeping \cup {<<u, "client">>}
    /\ UNCHANGED <<gateVars, listening, supVars, workerVars, seen, inflight,
                   counted, call, stopVars, up, out, tokVars, down, schedVars, faults>>

(* abort_user after its sleep.  A consumer whose event is already set then *)
(* raises KeyError; one still waiting is left with an event nobody sets.   *)
AbortUser(u, who) ==
    /\ OnLoop /\ <<u, who>> \in sleeping
    /\ sleeping' = sleeping \ {<<u, who>>}
    /\ client' = [client EXCEPT ![u] =
                     IF @ = "waiting" /\ u \in DOMAIN ack_map /\ ack_map[u] # << >>
                     THEN "broken" ELSE @]
    /\ ack_map' = Unregistered(u)
    /\ \/ Send("abort", u) /\ UNCHANGED stop
       \/ SendRaises /\ stop' = IF who = "stop" THEN "error" ELSE stop
    /\ UNCHANGED <<gateVars, supVars, workerVars, seen, inflight, counted, call,
                   sealed, stops, out, tokVars, down, schedVars>>

(* StatsTracker.observe sees every reply, also one of a client that is gone*)
ObservedIfLive(b) == SelectSeq(b, LAMBDA m : m.id \in DOMAIN ack_map)
Observed(b) == b

(* listen, for a batch of user replies: observe each one, then deliver it  *)
(* to the uids still registered.                                           *)
ListenReplies ==
    /\ OnLoop /\ listening /\ out # << >> /\ Head(out)[1].id \in Uids
    /\ LET b == Head(out)
           For(u, s) == KindsOf(OfUid(s, u))
       IN  /\ counted' = [u \in Uids |-> counted[u] + Units(For(u, Observed(b)))]
           /\ inflight' = inflight \ Ids(OfKind(Observed(b), Finished))
           /\ ack_map' = [u \in DOMAIN ack_map |-> ack_map[u] \o For(u, b)]
    /\ out' = Tail(out)
    /\ UNCHANGED <<gateVars, listening, supVars, workerVars, client, seen,
                   sleeping, call, stopVars, up, tokVars, down, schedVars, faults>>

-----------------------------------------------------------------------------
(* The maintenance gate: cache_rebuild, dispatch_rebuild, _resolve_rebuild.*)

(* cache_rebuild finds the gate open and calls dispatch_rebuild, which     *)
(* registers its future; the gate is written next.                         *)
CacheRebuild(r) ==
    /\ OnLoop /\ gate = "serving" /\ call[r] = "new"
    /\ call' = [call EXCEPT ![r] = "pending"]
    /\ loop' = <<"close", r>>
    /\ UNCHANGED <<gate, fatal, listening, supVars, workerVars, userVars,
                   stopVars, up, out, tokVars, down, schedVars, faults>>

CloseGate(r) ==
    /\ loop = <<"close", r>>
    /\ gate' = "rebuilding"
    /\ loop' = <<"send", r>>
    /\ UNCHANGED <<fatal, listening, supVars, workerVars, userVars, call,
                   stopVars, up, out, tokVars, down, schedVars, faults>>

(* The send, then the wait; or its exception path, which rolls back.       *)
SendRebuild(r) ==
    /\ loop = <<"send", r>>
    /\ loop' = << >>
    /\ \/ Send("rebuild", r) /\ UNCHANGED <<gate, call>>
       \/ /\ SendRaises
          /\ call' = [call EXCEPT ![r] = "failed"]
          /\ gate' = "serving"
    /\ UNCHANGED <<fatal, supVars, workerVars, userVars, stopVars, out, tokVars,
                   down, schedVars>>

(* Mutation: the handler that gives up reopens the gate.                   *)
TimeoutReopens(r) ==
    /\ OnLoop /\ call[r] = "pending"
    /\ call' = [call EXCEPT ![r] = "timeout"]
    /\ gate' = "serving"
    /\ UNCHANGED <<fatal, loop, listening, supVars, workerVars, userVars, stopVars,
                   up, out, tokVars, down, schedVars, faults>>

(* wait_for gives up: only the future goes.                                *)
TimeoutRebuild(r) ==
    /\ OnLoop /\ call[r] = "pending"
    /\ call' = [call EXCEPT ![r] = "timeout"]
    /\ UNCHANGED <<gateVars, listening, supVars, workerVars, userVars, stopVars,
                   up, out, tokVars, down, schedVars, faults>>

(* The gate _resolve_rebuild goes on to write; the mutations forget the    *)
(* dead backend, or a reply whose handler is gone.                         *)
NewGateOfReply(m) == IF m.k = "failed" THEN "failed" ELSE "serving"
NewGate(m) == IF fatal \/ m.k = "failed" THEN "failed" ELSE "serving"
AfterReplyIfWaiting(m) == IF call[m.id] = "pending" THEN <<"reopen", NewGate(m)>>
                          ELSE << >>
AfterReply(m) == <<"reopen", NewGate(m)>>

(* _resolve_rebuild up to its test of fatal_error; Reopen is its last line.*)
ResolveRebuild ==
    /\ OnLoop /\ listening /\ out # << >> /\ Head(out)[1].id \in Rebuilds
    /\ LET m == Head(out)[1]
       IN  /\ call' = [call EXCEPT ![m.id] =
                          IF @ = "pending" THEN m.k ELSE @]
           /\ loop' = AfterReply(m)
    /\ out' = Tail(out)
    /\ UNCHANGED <<gate, fatal, listening, supVars, workerVars, userVars,
                   stopVars, up, tokVars, down, schedVars, faults>>

Reopen ==
    /\ loop \in {<<"reopen", g>> : g \in {"serving", "failed"}}
    /\ gate' = loop[2]
    /\ loop' = << >>
    /\ UNCHANGED <<fatal, listening, supVars, workerVars, userVars, call,
                   stopVars, up, out, tokVars, down, schedVars, faults>>

(* _resolve_all, scheduled by fail_pending_rebuilds.                       *)
ResolveAll ==
    /\ OnLoop /\ wake
    /\ wake' = FALSE
    /\ call' = [r \in Rebuilds |-> IF call[r] = "pending" THEN "failed" ELSE call[r]]
    /\ UNCHANGED <<gateVars, listening, sup, workerVars, userVars, stopVars, up,
                   out, tokVars, down, schedVars, faults>>

-----------------------------------------------------------------------------
(* prepare_stop_accounting: under its lock one call at a time; a call that *)
(* failed may be repeated, one after the seal returns the same totals.     *)

StopBegin ==
    /\ OnLoop /\ stop \in {"idle", "error"} /\ stops < MaxStops
    /\ gate # "rebuilding"
    /\ gate' = "stopping"
    /\ stop' = "draining"
    /\ stops' = stops + 1
    /\ UNCHANGED <<fatal, loop, listening, supVars, workerVars, userVars, call,
                   sealed, up, out, tokVars, down, schedVars, faults>>

(* _wait_for_idle sees no active request; the totals are sealed.           *)
StopSeal ==
    /\ OnLoop /\ stop \in {"draining", "waiting"} /\ inflight = {}
    /\ stop' = "sealed"
    /\ sealed' = [u \in {v \in Uids : client[v] # "new"} |-> counted[u]]
    /\ UNCHANGED <<gateVars, listening, supVars, workerVars, userVars, call,
                   stops, up, out, tokVars, down, schedVars, faults>>

(* The drain times out: abort_user for every request still active.         *)
StopAbort ==
    /\ OnLoop /\ stop = "draining" /\ inflight # {}
    /\ stop' = "aborting"
    /\ sleeping' = sleeping \cup (inflight \X {"stop"})
    /\ UNCHANGED <<gateVars, listening, supVars, workerVars, client, seen,
                   ack_map, inflight, counted, call, sealed, stops, up, out,
                   tokVars, down, schedVars, faults>>

StopAborted ==
    /\ OnLoop /\ stop = "aborting" /\ sleeping \cap (Uids \X {"stop"}) = {}
    /\ stop' = "waiting"
    /\ UNCHANGED <<gateVars, listening, supVars, workerVars, userVars, call,
                   sealed, stops, up, out, tokVars, down, schedVars, faults>>

(* The abort barrier times out: the engine is preserved, the gate closed.  *)
StopTimeout ==
    /\ OnLoop /\ stop = "waiting" /\ inflight # {}
    /\ stop' = "error"
    /\ UNCHANGED <<gateVars, listening, supVars, workerVars, userVars, call,
                   sealed, stops, up, out, tokVars, down, schedVars, faults>>

-----------------------------------------------------------------------------
(* The supervisor thread: run_backend_supervisor with _on_ready/_on_failure*)

Supervisor(from, to) == sup = from /\ sup' = to

(* drain_ready has all acks, and _on_ready tests the gate ...              *)
SupTestGate ==
    /\ ready
    /\ Supervisor("draining", IF gate = "loading" THEN "opening" ELSE "watching")
    /\ UNCHANGED <<gateVars, wake>>

(* ... and then opens it.                                                  *)
SupOpenGate ==
    /\ Supervisor("opening", "watching")
    /\ gate' = "serving"
    /\ UNCHANGED <<fatal, loop, wake>>

(* A worker is found dead, before readiness or after.                      *)
SupDeath ==
    /\ alive # Workers /\ sup \in {"draining", "watching"}
    /\ sup' = "latching"
    /\ fatal' = TRUE
    /\ UNCHANGED <<gate, loop, wake>>

SupLatch ==
    /\ Supervisor("latching", "waking")
    /\ gate' = "failed"
    /\ UNCHANGED <<fatal, loop, wake>>

SupWake ==
    /\ Supervisor("waking", "done")
    /\ wake' = listening
    /\ UNCHANGED gateVars

SupervisorStep ==
    /\ SupTestGate \/ SupOpenGate \/ SupDeath \/ SupLatch \/ SupWake
    /\ UNCHANGED <<listening, workerVars, userVars, call, stopVars, up, out,
                   tokVars, down, schedVars, faults>>

-----------------------------------------------------------------------------
(* tokenize_worker: one pass of its loop over what it drained.             *)

Batch(s) == IF s = << >> THEN << >> ELSE <<s>>
Reply(k, ids) == SetToSeq({[k |-> k, id |-> u] : u \in ids})

(* Mutations: a sampled token behind the error or before the admission.    *)
ErrorsFirst(o, admitted, sampled, errors) ==
    o \o Batch(errors) \o Batch(admitted) \o Batch(sampled)
SampledFirst(o, admitted, sampled, errors) ==
    o \o Batch(sampled) \o Batch(admitted) \o Batch(errors)

(* _send_generation_replies: the order of the puts into the socket o.      *)
GenerationReplies(o, admitted, sampled, errors) ==
    o \o Batch(admitted) \o Batch(sampled) \o Batch(errors)

(* DetokenizeManager: detokenize, then discard for errors and aborts.      *)
Detokenized(s) == (decode_map \cup Ids(OfKind(s, Sampled))) \ Ids(OfKind(s, Final))
DiscardedAborts(d, b) == Ids(OfKind(b, {"abort"}))
Discarded(d, b) == Ids(OfKind(d, Errors)) \cup Ids(OfKind(b, {"abort"}))

(* _tokenize_requests: those that cannot be encoded get an error reply.    *)
RefusedReplies(bad) == Batch(Reply("error", bad))

TokenizerStep ==
    /\ ready /\ "tokenizer" \in alive
    /\ \E i \in 0 .. Len(up), j \in 0 .. Len(down) :
         LET b == SubSeq(up, 1, i)
             d == SubSeq(down, 1, j)
             asked == Ids(OfKind(b, {"tokenize"}))
             results == OfKind(d, Outcomes)
         IN  /\ i + j \in 1 .. LocalBs
             /\ up' = SubSeq(up, i + 1, Len(up))
             /\ down' = SubSeq(down, j + 1, Len(down))
             /\ decode_map' = Detokenized(d) \ Discarded(d, b)
             /\ \E bad \in SUBSET asked :
                  /\ out' = GenerationReplies(
                                out \o [n \in DOMAIN results |-> <<results[n]>>],
                                OfKind(d, {"admit"}), OfKind(d, Sampled),
                                OfKind(d, Errors)) \o RefusedReplies(bad)
                  /\ toScheduler' = toScheduler \cup Ids(OfKind(b, {"rebuild"}))
                                                \cup (asked \ bad)
             /\ ackDue' = [u \in Uids |-> ackDue[u] + Cardinality(
                              {n \in DOMAIN b : b[n] = [k |-> "abort", id |-> u]})]
    /\ UNCHANGED <<gateVars, listening, supVars, workerVars, userVars, call,
                   stopVars, sent, faults>>

-----------------------------------------------------------------------------
(* The scheduler, by its contract, and the life of the worker processes.   *)

SchedulerUp == ready /\ "scheduler" \in alive

Tokens(s) == Cardinality({i \in DOMAIN s : s[i] = "tok"})

(* The next message for u: one it has cause to send and ReplyStream allows.*)
MaySend(u, k) ==
    /\ Contract!MayFollow(sent[u], k)
    /\ k \in {"admit", "error"} => u \in toScheduler
    /\ k = "ack" => ackDue[u] > 0
    /\ k = "tok" => Tokens(sent[u]) < MaxTokens - 1

SchedulerReply(u, k) ==
    /\ SchedulerUp /\ MaySend(u, k)
    /\ sent' = [sent EXCEPT ![u] = Append(@, k)]
    /\ down' = Append(down, [k |-> k, id |-> u])
    /\ toScheduler' = IF k \in Sampled THEN toScheduler ELSE toScheduler \ {u}
    /\ ackDue' = IF k = "ack" THEN [ackDue EXCEPT ![u] = @ - 1] ELSE ackDue
    /\ UNCHANGED <<gateVars, listening, supVars, workerVars, userVars, call,
                   stopVars, up, out, tokVars, faults>>

SchedulerRebuilt(r, k) ==
    /\ SchedulerUp /\ r \in toScheduler /\ k \in Outcomes
    /\ toScheduler' = toScheduler \ {r}
    /\ down' = Append(down, [k |-> k, id |-> r])
    /\ UNCHANGED <<gateVars, listening, supVars, workerVars, userVars, call,
                   stopVars, up, out, tokVars, ackDue, sent, faults>>

WorkersReady ==
    /\ ~ready /\ alive = Workers
    /\ ready' = TRUE
    /\ UNCHANGED <<gateVars, listening, supVars, alive, userVars, call, stopVars,
                   up, out, tokVars, down, schedVars, faults>>

WorkerDies(w) ==
    /\ alive = Workers /\ CanFail
    /\ alive' = alive \ {w}
    /\ UNCHANGED <<gateVars, listening, supVars, ready, userVars, call, stopVars,
                   up, out, tokVars, down, schedVars>>

-----------------------------------------------------------------------------
Requests ==
    \E u \in Uids :
        /\ \A v \in Uids : v < u => client[v] # "new"
        /\ Submit(u)

Aborts == \E u \in Uids, who \in {"client", "stop"} : AbortUser(u, who)

Replies == \/ \E u \in Uids, k \in Kinds : SchedulerReply(u, k)
           \/ \E r \in Rebuilds, k \in Outcomes : SchedulerRebuilt(r, k)

Dispatch == \E r \in Rebuilds : CloseGate(r) \/ SendRebuild(r)

Next ==
    \/ Requests
    \/ \E u \in Uids : Consume(u) \/ Disconnect(u)
    \/ Aborts
    \/ ListenReplies \/ ResolveRebuild \/ Reopen \/ ResolveAll
    \/ \E r \in Rebuilds : CacheRebuild(r) \/ TimeoutRebuild(r)
    \/ Dispatch
    \/ StopBegin \/ StopSeal \/ StopAbort \/ StopAborted \/ StopTimeout
    \/ SupervisorStep
    \/ TokenizerStep
    \/ Replies
    \/ WorkersReady \/ \E w \in Workers : WorkerDies(w)

Spec == Init /\ [][Next]_vars

-----------------------------------------------------------------------------
(* accounting.py: the totals are sealed only after all admitted work is    *)
(* accounted for.  Once prepare-stop has sealed the totals, they hold every*)
(* admission and every token the scheduler ever sent for the requests      *)
(* admitted by then, whatever aborts and late replies were on their way.   *)
SealIsComplete ==
    stop = "sealed" => \A u \in DOMAIN sealed : sealed[u] = Units(sent[u])

(* dispatch_rebuild: the gate stays closed until the reply, also after its *)
(* HTTP call timed out.  No request is let in while a rebuild is on its way*)
(* to the scheduler, being executed, or on its way back.                   *)
Outstanding(r) ==
    \/ r \in Ids(up) \/ r \in toScheduler \/ r \in Ids(down)
    \/ \E b \in ToSet(out) : r \in Ids(b)

RebuildClosesGate == \A r \in Rebuilds : Outstanding(r) => gate # "serving"

(* _resolve_rebuild: a rebuild can never wedge the server in "rebuilding". *)
(* Unless its backend is dead, the server is in that state only while a    *)
(* reply that ends it is still to come.                                    *)
NeverWedged ==
    gate = "rebuilding" => fatal \/ loop # << >> \/ \E r \in Rebuilds : Outstanding(r)

(* DetokenizeManager.discard: when the tokenizer has processed all that the*)
(* scheduler sent for an ended request, it keeps no decode state for it,   *)
(* also when a token overtaken by the abort re-created the state.          *)
Ended(u) == sent[u] # << >> /\ Last(sent[u]) \in Finished

DecodeStateReleased ==
    \A u \in decode_map : Ended(u) => u \in Ids(down)

(* stats.py: a request stays active only while a terminal reply for it can *)
(* still come; one leaked here would hold every prepare-stop back until it *)
(* aborts.  Only a request whose submission raised is counted but not sent.*)
Answerable(u) ==
    \/ \E i \in DOMAIN up : up[i] = [k |-> "tokenize", id |-> u]
    \/ u \in toScheduler \/ Contract!Streaming(sent[u])
    \/ \E m \in ToSet(down) : m.id = u /\ m.k \in Finished
    \/ \E b \in ToSet(out) : \E m \in ToSet(b) : m.id = u /\ m.k \in Finished

ActiveIsAnswerable ==
    \A u \in inflight : client[u] = "broken" \/ Answerable(u)

(* What a consumer that ended normally has yielded is all the scheduler    *)
(* sent for the request up to its end, admission first and in order; or    *)
(* the one error of a request the tokenizer refused.                       *)
WholeAnswer ==
    \A u \in Uids : client[u] = "done" =>
        \/ IsPrefix(seen[u], sent[u]) /\ Last(seen[u]) \in Finished
        \/ seen[u] = <<"error">> /\ Units(sent[u]) = 0

(* _on_ready, _resolve_rebuild: a stop is final.  The gate goes from       *)
(* stopping back to serving only by the supervisor thread that read it     *)
(* before the stop, while it was still loading; no late rebuild reply and  *)
(* no rolled back dispatch reopens it.                                     *)
StopUndoneOnlyAtStartup ==
    [][gate = "stopping" /\ gate' = "serving" => sup = "opening"]_vars

=============================================================================
