---------------------------- MODULE ServeManager ----------------------------
(***************************************************************************)
(* The daemon's owner of one `ft serve` child: daemon/serve_manager.py     *)
(* with its state file (pidfile.py) and its receipts (accounting.py).      *)
(*                                                                         *)
(* Threads.  A caller runs start, stop, switch or shutdown.  Each spawned  *)
(* or adopted child has a monitor, which waits for its exit, writes the    *)
(* crash receipt, forgets the child and may hand over to an auto-restart   *)
(* thread.  A lifecycle call holds _lifecycle from its first section to    *)
(* its return; monitors do not take it.  An action is one section under    *)
(* _cond, or one effect outside it (spawn, file, receipt, signal), so      *)
(* every interleaving the locks allow is a behaviour.                      *)
(*                                                                         *)
(* A serve process is a generation.  Its model stands for the whole        *)
(* (model, port, args); a state record and a receipt are reduced to the    *)
(* generations they name.  The restart thread of a dead child bears the    *)
(* child's name.                                                           *)
(***************************************************************************)
EXTENDS Naturals, FiniteSets

CONSTANTS
    Callers,      \* threads that make lifecycle calls (lifecycle pool, main)
    Gens,         \* bound: the processes that can be spawned
    Models,
    AutoRestart,  \* auto_restart
    Legacy,       \* the engine has no prepare-stop endpoint
    DiskMayFail,  \* the state file or the outbox may refuse a write
    MaxCalls,     \* bound: lifecycle calls made
    MaxExits,     \* bound: daemon crashes and detaches
    WatchStats,   \* clients poll /engine/stats
    None

ASSUME ServeManagerAssumption ==
    /\ AutoRestart \in BOOLEAN /\ Legacy \in BOOLEAN
    /\ DiskMayFail \in BOOLEAN /\ WatchStats \in BOOLEAN
    /\ MaxCalls \in Nat /\ MaxExits \in Nat
    /\ Callers \cap Gens = {}
    /\ None \notin Callers \cup Gens \cup Models

Threads == Callers \cup Gens

VARIABLES
    alive,              \* serve processes the system runs
    cmdline,            \* the model each process was spawned with
    signal,             \* the last signal sent to each
    up,                 \* the daemon is running
    store,              \* serve.json: the generation it records
    receipts,           \* every receipt the outbox made durable
    child, model,       \* _child, _model
    stopping,           \* _stopping
    stopRequested,      \* _stop_requested
    shutdownRequested,  \* _shutdown_requested
    lifecycle,          \* the owner of _lifecycle
    guard,              \* the owner of _accounting_guard
    durable,            \* _durable_accounting
    observed,           \* _last_accounting: whose totals are remembered
    fetched,            \* whose totals an unfinished /engine/stats carries
    pc, op, mine,       \* each thread: its step, its call, its child
    prepared,           \* each thread: the receipt prepare-stop produced
    result,             \* each thread: how its last call returned
    mon,                \* each child: the step of its monitor
    seen,               \* each child: was_stopping and is_current in _reap
    calls, exits        \* how much of the two bounds is used

disk == <<store, receipts>>
latches == <<stopRequested, shutdownRequested>>
books == <<durable, observed>>
process == <<alive, cmdline, signal>>
thread == <<pc, op, mine, prepared, result, lifecycle>>
monitor == <<mon, seen>>
bounds == <<up, calls, exits>>
vars == <<process, disk, child, model, stopping, latches, guard, books,
          fetched, thread, monitor, bounds>>

NoCall == [kind |-> "none", model |-> None, force |-> FALSE]

\* The requests of the daemon's HTTP API.
Requests ==
    [kind: {"start"}, model: Models, force: {FALSE}]
        \cup [kind: {"stop", "shutdown"}, model: {None}, force: BOOLEAN]
        \cup [kind: {"switch"}, model: Models, force: BOOLEAN]

Receipt(g, kind, totals) == [gen |-> g, kind |-> kind, totals |-> totals]

\* _starting: between the section that admits a spawn and the one that
\* publishes its child.
Starting == \E t \in Threads : pc[t] \in {"spawn", "publish"}

\* child.reaped is set.  Mutant: as soon as the process is gone.
ReapedEarly(g) == mon[g] \notin {"none", "wait"}
Reaped(g) == mon[g] \in {"decide", "relaunch", "done"}

NoTotals == [g \in Gens |-> None]
Unwatched == [g \in Gens |-> "none"]
Unseen == [g \in Gens |-> [stopping |-> FALSE, current |-> FALSE]]
Each(value) == [t \in Threads |-> value]

Init ==
    /\ alive = {} /\ cmdline = [g \in Gens |-> None]
    /\ signal = [g \in Gens |-> "none"]
    /\ store = None /\ receipts = {}
    /\ up = TRUE /\ calls = 0 /\ exits = 0
    /\ child = None /\ model = None /\ stopping = FALSE
    /\ stopRequested = FALSE /\ shutdownRequested = FALSE
    /\ lifecycle = None /\ guard = None
    /\ durable = {} /\ observed = NoTotals /\ fetched = None
    /\ pc = Each("idle") /\ op = Each(NoCall) /\ mine = Each(None)
    /\ prepared = Each("none") /\ result = Each("none")
    /\ mon = Unwatched /\ seen = Unseen

-----------------------------------------------------------------------------
(* How a call leaves the manager. *)

Return(t, r) ==
    /\ result' = [result EXCEPT ![t] = r]
    /\ pc' = [pc EXCEPT ![t] = "idle"]
    /\ op' = [op EXCEPT ![t] = NoCall]
    /\ mine' = [mine EXCEPT ![t] = None]
    /\ prepared' = [prepared EXCEPT ![t] = "none"]
    /\ lifecycle' = None

Goto(t, step) ==
    /\ pc' = [pc EXCEPT ![t] = step]
    /\ lifecycle' = t
    /\ UNCHANGED op

\* _stop has returned: the call is over, or switch goes on to its start.
Stopped(t) ==
    IF op[t].kind = "switch"
    THEN /\ Goto(t, "swap")
         /\ result' = [result EXCEPT ![t] = "stopped"]
         /\ mine' = [mine EXCEPT ![t] = None]
         /\ prepared' = [prepared EXCEPT ![t] = "none"]
    ELSE Return(t, "stopped")

Call(t) ==
    /\ up /\ pc[t] = "idle" /\ calls < MaxCalls
    /\ calls' = calls + 1
    /\ \E request \in Requests : op' = [op EXCEPT ![t] = request]
    /\ pc' = [pc EXCEPT ![t] = "enter"]
    /\ result' = [result EXCEPT ![t] = "none"]
    /\ UNCHANGED <<process, disk, child, model, stopping, latches, guard,
                   books, fetched, mine, prepared, lifecycle, monitor, up,
                   exits>>

-----------------------------------------------------------------------------
(* start, and the second half of switch. *)

\* An auto-restart gives way to a stop; an explicit start overrides it.
NoLatch(t) == FALSE               \* mutant: a parked auto-restart goes on
StopLatched(t) == op[t].kind = "auto" /\ stopRequested

\* The daemon is shutting down.
Closed(t) == shutdownRequested

\* Another serve is in the way.  Mutant: only one of the same model.
OccupiedBySame(t) == child # None /\ ~stopping /\ model = op[t].model
Occupied(t) == child # None /\ ~stopping

StartGate(t) ==
    /\ \/ pc[t] = "enter" /\ op[t].kind \in {"start", "auto"}
          /\ lifecycle = None
       \/ pc[t] = "swap"
    /\ ~Starting
    /\ \/ /\ Closed(t)
          /\ Return(t, IF op[t].kind = "auto" THEN "aborted" ELSE "conflict")
          /\ UNCHANGED stopRequested
       \/ /\ ~Closed(t) /\ StopLatched(t)
          /\ Return(t, "aborted")
          /\ UNCHANGED stopRequested
       \/ /\ ~Closed(t) /\ ~StopLatched(t)
          /\ stopRequested' = (stopRequested /\ op[t].kind = "auto")
          /\ IF Occupied(t)
             THEN Return(t, IF model = op[t].model THEN "idempotent"
                                                   ELSE "conflict")
             ELSE /\ Goto(t, "spawn")
                  /\ UNCHANGED <<mine, prepared, result>>
    /\ UNCHANGED <<process, disk, child, model, stopping, shutdownRequested,
                   guard, books, fetched, monitor, bounds>>

Spawn(t) ==
    /\ pc[t] = "spawn"
    /\ \/ \E g \in {h \in Gens : cmdline[h] = None} :
            /\ alive' = alive \cup {g}
            /\ cmdline' = [cmdline EXCEPT ![g] = op[t].model]
            /\ mine' = [mine EXCEPT ![t] = g]
            /\ Goto(t, "publish")
            /\ UNCHANGED <<prepared, result>>
       \/ /\ Return(t, "failed")
          /\ UNCHANGED <<alive, cmdline>>
    /\ UNCHANGED <<signal, disk, child, model, stopping, latches, guard,
                   books, fetched, monitor, bounds>>

Publish(t) ==
    /\ pc[t] = "publish"
    /\ child' = mine[t] /\ model' = op[t].model /\ stopping' = FALSE
    /\ Goto(t, "persist")
    /\ UNCHANGED <<process, disk, latches, guard, books, fetched, mine,
                   prepared, result, monitor, bounds>>

Persist(t) ==
    /\ pc[t] = "persist"
    /\ \/ /\ store' = mine[t]
          /\ Goto(t, "watch")
          /\ UNCHANGED <<mine, prepared, result>>
       \/ /\ DiskMayFail
          /\ Return(t, "failed")
          /\ UNCHANGED store
    /\ UNCHANGED <<process, receipts, child, model, stopping, latches, guard,
                   books, fetched, monitor, bounds>>

BeginWatch(t) ==
    /\ pc[t] = "watch"
    /\ mon' = [mon EXCEPT ![mine[t]] = "wait"]
    /\ Return(t, "started")
    /\ UNCHANGED <<process, disk, child, model, stopping, latches, guard,
                   books, fetched, seen, bounds>>

-----------------------------------------------------------------------------
(* stop, shutdown, and the first half of switch. *)

StopGate(t) ==
    /\ pc[t] = "enter" /\ op[t].kind \in {"stop", "switch", "shutdown"}
    /\ lifecycle = None /\ ~Starting
    /\ stopRequested' = TRUE
    /\ shutdownRequested' = (shutdownRequested \/ op[t].kind = "shutdown")
    /\ IF child = None
       THEN Stopped(t) /\ UNCHANGED stopping
       ELSE /\ stopping' = TRUE
            /\ mine' = [mine EXCEPT ![t] = child]
            /\ Goto(t, "prepare")
            /\ UNCHANGED <<prepared, result>>
    /\ UNCHANGED <<process, disk, child, model, guard, books, fetched,
                   monitor, bounds>>

\* What the engine and the fallbacks can come up with.  Only a live engine
\* answers; without force a failure is an error.
Preparable(g, force) ==
    {IF force THEN "degraded" ELSE "error"}
        \cup (IF g \in alive /\ ~Legacy THEN {"sealed"} ELSE {})
        \cup (IF g \in alive /\ (Legacy \/ force) THEN {"snapshot"} ELSE {})

PrepareStop(t) ==
    /\ pc[t] = "prepare" /\ guard = None
    /\ guard' = t
    /\ \E kind \in Preparable(mine[t], op[t].force) :
         prepared' = [prepared EXCEPT ![t] = kind]
    /\ Goto(t, "receipt")
    /\ UNCHANGED <<process, disk, child, model, stopping, latches, books,
                   fetched, mine, result, monitor, bounds>>

\* Mutants: the file is not written; the child is not marked as accounted.
MarkOnly(receipt) ==
    /\ durable' = durable \cup {receipt.gen}
    /\ observed' = [observed EXCEPT ![receipt.gen] = None]
    /\ UNCHANGED receipts
WriteOnly(receipt) ==
    /\ receipts' = receipts \cup {receipt}
    /\ UNCHANGED books

\* _prepare_and_persist_accounting and _persist_crash_accounting end alike.
MakeDurable(receipt) ==
    /\ receipts' = receipts \cup {receipt}
    /\ durable' = durable \cup {receipt.gen}
    /\ observed' = [observed EXCEPT ![receipt.gen] = None]

Unchecked(t) == TRUE              \* mutant: an error is filed as a receipt
HasPrepared(t) == prepared[t] # "error"

PersistReceipt(t) ==
    /\ pc[t] = "receipt"
    /\ guard' = None
    /\ \/ /\ HasPrepared(t)
          /\ MakeDurable(Receipt(mine[t], prepared[t],
                                 IF prepared[t] = "degraded" THEN None
                                                             ELSE mine[t]))
          /\ Goto(t, "signal")
       \/ /\ ~HasPrepared(t) \/ DiskMayFail
          /\ Goto(t, "undo")
          /\ UNCHANGED <<receipts, books>>
    /\ UNCHANGED <<process, store, child, model, stopping, latches, fetched,
                   mine, prepared, result, monitor, bounds>>

SendSignal(t, sig) == signal' = [signal EXCEPT ![mine[t]] = sig]

\* SIGTERM, a grace period, SIGKILL, a last wait: each wait ends when the
\* monitor sets reaped, or by its timeout.
SignalStep(t, step, unreaped) ==
    /\ pc[t] = step
    /\ \/ Reaped(mine[t]) /\ Stopped(t) /\ UNCHANGED signal
       \/ ~Reaped(mine[t]) /\ unreaped
             /\ UNCHANGED <<mine, prepared, result>>
    /\ UNCHANGED <<alive, cmdline, disk, child, model, stopping, latches,
                   guard, books, fetched, monitor, bounds>>

Terminate(t) ==
    SignalStep(t, "signal", SendSignal(t, "TERM") /\ Goto(t, "grace"))
WaitForExit(t) == SignalStep(t, "grace", FALSE)   \* mutant: no timeout
Kill(t) ==
    SignalStep(t, "grace", SendSignal(t, "KILL") /\ Goto(t, "kill"))
AwaitKill(t) ==
    SignalStep(t, "kill", Goto(t, "undo") /\ UNCHANGED signal)

\* A stop that fails leaves the child visible and the stop latch set; a
\* shutdown that fails reopens the daemon.
Undo(t) ==
    /\ pc[t] = "undo"
    /\ stopping' = (stopping /\ child # mine[t])
    /\ shutdownRequested' = (shutdownRequested /\ op[t].kind # "shutdown")
    /\ Return(t, "failed")
    /\ UNCHANGED <<process, disk, child, model, stopRequested, guard, books,
                   fetched, monitor, bounds>>

-----------------------------------------------------------------------------
(* The monitor of child g. *)

MonitorStep(g, from, to) ==
    mon[g] = from /\ mon' = [mon EXCEPT ![g] = to]

ObserveExit(g) ==
    /\ g \notin alive
    /\ seen' = [seen EXCEPT ![g] = [stopping |-> stopping \/ stopRequested,
                                    current |-> child = g]]
    /\ MonitorStep(g, "wait", IF child = g THEN "account" ELSE "forget")
    /\ UNCHANGED <<process, disk, child, model, stopping, latches, guard,
                   books, fetched, thread, bounds>>

\* The stop, or an earlier crash report, has accounted for the child.
LeftToStop(g) == g \in durable \/ seen[g].stopping     \* mutant
Accounted(g) == g \in durable

CrashReceipt(g) ==
    /\ MonitorStep(g, "account", "forget") /\ guard = None
    /\ \/ Accounted(g) /\ UNCHANGED <<receipts, books, stopRequested>>
       \/ /\ ~Accounted(g)
          /\ MakeDurable(Receipt(g, "crash", observed[g]))
          /\ UNCHANGED stopRequested
       \/ /\ ~Accounted(g) /\ DiskMayFail
          /\ stopRequested' = TRUE
          /\ UNCHANGED <<receipts, books>>
    /\ UNCHANGED <<process, store, child, model, stopping, shutdownRequested,
                   guard, fetched, thread, seen, bounds>>

Forget(g) ==
    /\ MonitorStep(g, "forget", IF child = g THEN "clear" ELSE "reap")
    /\ seen' = [seen EXCEPT ![g].current = (child = g)]
    /\ IF child = g
       THEN child' = None /\ stopping' = FALSE
       ELSE UNCHANGED <<child, stopping>>
    /\ UNCHANGED <<process, disk, model, latches, guard, books, fetched,
                   thread, bounds>>

\* The record is cleared outside every lock.
ClearRecord(g) ==
    /\ MonitorStep(g, "clear", "reap")
    /\ store' = None
    /\ UNCHANGED <<process, receipts, child, model, stopping, latches, guard,
                   books, fetched, thread, seen, bounds>>

SetReaped(g) ==
    /\ MonitorStep(g, "reap", IF seen[g].current THEN "decide" ELSE "done")
    /\ UNCHANGED <<process, disk, child, model, stopping, latches, guard,
                   books, fetched, thread, seen, bounds>>

\* do_restart
Restarts(g) == AutoRestart /\ ~seen[g].stopping /\ ~stopRequested

Decide(g) ==
    /\ MonitorStep(g, "decide", IF Restarts(g) THEN "relaunch" ELSE "done")
    /\ UNCHANGED <<process, disk, child, model, stopping, latches, guard,
                   books, fetched, thread, seen, bounds>>

\* _restart_async reads _model without a lock and starts a thread.
RestartAsync(g) ==
    /\ MonitorStep(g, "relaunch", "done")
    /\ IF model = None THEN UNCHANGED <<pc, op>>
       ELSE /\ pc' = [pc EXCEPT ![g] = "enter"]
            /\ op' = [op EXCEPT ![g] = [kind |-> "auto", model |-> model,
                                       force |-> FALSE]]
    /\ UNCHANGED <<process, disk, child, model, stopping, latches, guard,
                   books, fetched, mine, prepared, result, lifecycle, seen,
                   bounds>>

-----------------------------------------------------------------------------
(* Statistics, the processes, the daemon. *)

\* /engine/stats reads the totals of the running serve (or a cached answer)
\* and awaits them; observe_accounting then files them under the child of
\* that later moment.
FetchStats ==
    /\ WatchStats /\ up /\ fetched = None
    /\ child \in alive /\ ~stopping
    /\ fetched' = child
    /\ UNCHANGED <<process, disk, child, model, stopping, latches, guard,
                   books, thread, monitor, bounds>>

ObserveAccounting ==
    /\ fetched # None
    /\ child # None => guard = None
    /\ fetched' = None
    /\ observed' = IF child = None THEN observed
                   ELSE [observed EXCEPT ![child] = fetched]
    /\ UNCHANGED <<process, disk, child, model, stopping, latches, guard,
                   durable, thread, monitor, bounds>>

\* A serve ends: it crashes, or it obeys a signal.
Exit(g) ==
    /\ g \in alive
    /\ alive' = alive \ {g}
    /\ UNCHANGED <<cmdline, signal, disk, child, model, stopping, latches,
                   guard, books, fetched, thread, monitor, bounds>>

\* The daemon crashes, or detaches and exits: its memory and its threads
\* are gone, the serve, the state file and the receipts stay.
DaemonExit ==
    /\ up /\ exits < MaxExits
    /\ up' = FALSE /\ exits' = exits + 1
    /\ child' = None /\ model' = None /\ stopping' = FALSE
    /\ stopRequested' = FALSE /\ shutdownRequested' = FALSE
    /\ lifecycle' = None /\ guard' = None
    /\ durable' = {} /\ observed' = NoTotals /\ fetched' = None
    /\ pc' = Each("idle") /\ op' = Each(NoCall) /\ mine' = Each(None)
    /\ prepared' = Each("none") /\ result' = Each("none")
    /\ mon' = Unwatched /\ seen' = Unseen
    /\ UNCHANGED <<process, disk, calls>>

Attach(g) == child' = g /\ model' = cmdline[g]
AdoptOnly(g) == Attach(g) /\ UNCHANGED mon    \* mutant: no monitor is started
Adopt(g) == Attach(g) /\ mon' = [mon EXCEPT ![g] = "wait"]

Readopt ==
    /\ ~up /\ up' = TRUE
    /\ IF store \in alive
       THEN Adopt(store) /\ UNCHANGED store
       ELSE /\ store' = None
            /\ UNCHANGED <<child, model, mon>>
    /\ UNCHANGED <<process, receipts, stopping, latches, guard, books,
                   fetched, thread, seen, calls, exits>>

-----------------------------------------------------------------------------
ThreadStep(t) ==
    \/ StartGate(t) \/ Spawn(t) \/ Publish(t) \/ Persist(t) \/ BeginWatch(t)
    \/ StopGate(t) \/ PrepareStop(t) \/ PersistReceipt(t)
    \/ Terminate(t) \/ Kill(t) \/ AwaitKill(t) \/ Undo(t)

Reap(g) ==
    \/ ObserveExit(g) \/ CrashReceipt(g) \/ Forget(g) \/ ClearRecord(g)
    \/ SetReaped(g) \/ Decide(g) \/ RestartAsync(g)

Next ==
    \/ \E t \in Callers : Call(t)
    \/ \E t \in Threads : ThreadStep(t)
    \/ \E g \in Gens : Reap(g) \/ Exit(g)
    \/ FetchStats \/ ObserveAccounting
    \/ DaemonExit \/ Readopt

\* Threads run and waits time out; SIGKILL is not refused.  Nobody has to
\* call, and a serve need not end by itself.
Fairness ==
    /\ \A t \in Threads : WF_vars(ThreadStep(t))
    /\ \A g \in Gens : WF_vars(Reap(g)) /\ WF_vars(signal[g] = "KILL" /\ Exit(g))
    /\ WF_vars(ObserveAccounting) /\ WF_vars(Readopt)

Spec == Init /\ [][Next]_vars /\ Fairness
-----------------------------------------------------------------------------
(* Properties *)

Kinds == {"none", "start", "stop", "switch", "shutdown", "auto"}
ReceiptKinds == {"sealed", "snapshot", "degraded", "crash"}

ProcessType ==
    /\ alive \subseteq Gens /\ cmdline \in [Gens -> Models \cup {None}]
    /\ signal \in [Gens -> {"none", "TERM", "KILL"}]
FileType ==
    /\ store \in Gens \cup {None}
    /\ receipts \subseteq [gen: Gens, kind: ReceiptKinds,
                           totals: Gens \cup {None}]
BookType ==
    /\ durable \subseteq Gens /\ observed \in [Gens -> Gens \cup {None}]
    /\ fetched \in Gens \cup {None}
ControlType ==
    /\ child \in Gens \cup {None} /\ model \in Models \cup {None}
    /\ stopping \in BOOLEAN /\ stopRequested \in BOOLEAN
    /\ shutdownRequested \in BOOLEAN /\ up \in BOOLEAN
    /\ lifecycle \in Threads \cup {None} /\ guard \in Threads \cup {None}
    /\ calls \in 0..MaxCalls /\ exits \in 0..MaxExits
StepType ==
    pc \in [Threads -> {"idle", "enter", "swap", "spawn", "publish", "persist",
                        "watch", "prepare", "receipt", "signal", "grace",
                        "kill", "undo"}]
CallType ==
    /\ op \in [Threads -> [kind: Kinds, model: Models \cup {None},
                           force: BOOLEAN]]
    /\ mine \in [Threads -> Gens \cup {None}]
    /\ prepared \in [Threads -> ReceiptKinds \cup {"none", "error"}]
    /\ result \in [Threads -> {"none", "started", "stopped", "idempotent",
                               "conflict", "aborted", "failed"}]
MonitorType ==
    /\ mon \in [Gens -> {"none", "wait", "account", "forget", "clear",
                         "reap", "decide", "relaunch", "done"}]
    /\ seen \in [Gens -> [stopping: BOOLEAN, current: BOOLEAN]]

\* Every variable of the manager, its threads and its files has its type.
TypeOK ==
    /\ ProcessType /\ FileType /\ BookType /\ ControlType
    /\ StepType /\ CallType /\ MonitorType

HasReceipt(g) == \E r \in receipts : r.gen = g

\* Whatever interleaving of calls, monitors and auto-restarts, at most one
\* serve runs, and it is the child or the one being started: start is a
\* single gate and a child is forgotten only when it is dead
\* (serve_manager.py, _start and _reap).
OneServe ==
    \A g \in alive :
       /\ alive = {g}
       /\ \/ child = g
          \/ \E t \in Threads : pc[t] = "publish" /\ mine[t] = g

\* A stop that returns success leaves no child and no process, even when a
\* crash, its auto-restart or another call raced it (_stop).
StopIsComplete ==
    [][\A t \in Threads :
         result'[t] = "stopped" /\ result[t] # "stopped"
            => child' = None /\ alive' = {}]_vars

\* No process is spawned while a stop or a shutdown is the last word: an
\* auto-restart parked behind it gives way (_start, the stop latch).
SpawnHonoursStop ==
    [][\A g \in Gens : cmdline[g] = None /\ cmdline'[g] # None
         => ~stopRequested /\ ~shutdownRequested]_vars

\* Once a shutdown has returned, nothing runs and nothing can be started for
\* the exiting daemon to leave behind (shutdown).
ShutdownIsFinal ==
    shutdownRequested /\ lifecycle = None => child = None /\ alive = {}

\* The serve is signalled only after a receipt of it is durable, so no crash
\* of the daemon loses its totals (_stop, accounting.py).
SignalAfterReceipt ==
    \A g \in Gens : signal[g] # "none" => HasReceipt(g)

\* No dead child is forgotten without a receipt, unless the disk refused it
\* (_reap, _persist_crash_accounting).
ForgottenHasReceipt ==
    \A g \in Gens : ~DiskMayFail /\ mon[g] \notin {"none", "wait", "account"}
                       => HasReceipt(g)

\* A stop and the monitor racing over one dead child do not both account
\* for it: sealed totals are the last word (the accounting guard).
SealedOrCrashed ==
    \A r, s \in receipts :
       r.gen = s.gen /\ r.kind = "sealed" => s.kind # "crash"

\* A running serve no call is busy with is on record, so that the next
\* daemon finds it (detach, pidfile.py).
RunningIsRecorded ==
    ~DiskMayFail /\ lifecycle = None /\ child \in alive => store = child

\* The totals remembered for the current child are its own
\* (observe_accounting).
ObservedOwnTotals ==
    child # None => observed[child] \in {None, child}

\* A child that died is forgotten in the end, adopted or spawned, however
\* many calls are waiting for it (the single reaper).
DeadIsForgotten ==
    \A g \in Gens : child = g /\ g \notin alive ~> child # g

\* Every lifecycle call and every auto-restart comes to an end: no wait for
\* the lifecycle lock, the guard or the reaped event is for ever.
CallsReturn == \A t \in Threads : pc[t] = "enter" ~> pc[t] = "idle"
=============================================================================
