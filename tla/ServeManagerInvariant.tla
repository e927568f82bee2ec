------------------------ MODULE ServeManagerInvariant ------------------------
(***************************************************************************)
(* Why the serve manager is right, as an inductive invariant.  The lock    *)
(* _lifecycle is held through every call; the rest relates where a call    *)
(* is, where the monitor of a child is, and what the manager remembers.    *)
(***************************************************************************)
EXTENDS ServeManager

StartSteps == {"spawn", "publish"}
StopSteps == {"prepare", "receipt", "signal", "grace", "kill", "undo"}
NewSteps == {"publish", "persist", "watch"}
SignalSteps == {"signal", "grace", "kill"}
AfterExit == {"account", "forget", "clear", "reap", "decide", "relaunch", "done"}
AfterForget == {"clear", "reap", "decide", "relaunch", "done"}

\* A call that has begun holds the lock.
LockHeld ==
    \A t \in Threads : pc[t] \notin {"idle", "enter"} => lifecycle = t

\* A call that may spawn names the model to run.
StartKinds == {"start", "switch", "auto"}
SpawnsModel ==
    \A t \in Threads :
        /\ op[t].kind \in StartKinds => op[t].model \in Models
        /\ pc[t] \in {"swap", "spawn"} => op[t].kind \in StartKinds

\* An auto-restart begins when the monitor of the dead child is done.
RestartAfterMonitor ==
    \A g \in Gens : mon[g] # "done" => pc[g] = "idle"

\* Nothing of a process that was never spawned is known.
UnspawnedUnknown ==
    \A g \in Gens : cmdline[g] = None => mon[g] = "none" /\ g \notin alive

\* A call about to spawn, or to publish what it spawned, finds the place
\* empty and is not overtaken by a stop.
PlaceFree ==
    \A t \in Threads : pc[t] \in StartSteps =>
        /\ child = None
        /\ ~shutdownRequested
        /\ pc[t] = "spawn" => ~stopRequested

\* A call that has a new process is the only one to know it.
NewUnwatched ==
    \A t \in Threads : pc[t] \in NewSteps =>
        mine[t] \in Gens /\ mon[mine[t]] = "none" /\ cmdline[mine[t]] # None

\* A stop deals with the current child, or it is gone already.
StopOwnsChild ==
    \A t \in Threads : pc[t] \in StopSteps =>
        mine[t] \in Gens /\ child \in {None, mine[t]}

\* stopping is raised for the time of a stop.
StoppingByStop ==
    stopping /\ child # None => \E t \in Threads : pc[t] \in StopSteps

\* The monitor of a dead process: it reports the current child, and what it
\* has forgotten does not come back.
MonitorOrder ==
    \A g \in Gens :
        /\ mon[g] \in AfterExit => g \notin alive
        /\ mon[g] = "account" => child = g
        /\ mon[g] \in AfterForget => child # g

\* A shutdown in force has emptied the place, or is about to.
ShutdownEmpties ==
    shutdownRequested /\ child # None =>
        \E t \in Threads : pc[t] \in StopSteps /\ op[t].kind = "shutdown"

\* What a stop is about to file, prepare-stop or a fallback has produced.
PreparedFirst ==
    \A t \in Threads : pc[t] = "receipt" => prepared[t] # "none"

\* A signal is sent by a call that has made a receipt.
ReceiptFirst ==
    \A t \in Threads : pc[t] \in SignalSteps => HasReceipt(mine[t])

\* In one life of the daemon every process is the child or about to be.
AliveOwned ==
    exits = 0 => \A g \in alive :
        \/ child = g
        \/ \E t \in Threads : pc[t] = "publish" /\ mine[t] = g

\* A daemon that is down has neither threads nor memory.
DownIsBlank ==
    ~up => /\ exits # 0 /\ child = None /\ lifecycle = None
           /\ ~shutdownRequested /\ ~stopping
           /\ \A t \in Threads : pc[t] = "idle"
           /\ \A g \in Gens : mon[g] = "none"

IInv ==
    /\ TypeOK
    /\ LockHeld /\ SpawnsModel /\ RestartAfterMonitor
    /\ UnspawnedUnknown /\ PlaceFree /\ NewUnwatched
    /\ StopOwnsChild /\ StoppingByStop /\ MonitorOrder /\ ShutdownEmpties
    /\ PreparedFirst /\ ReceiptFirst /\ SignalAfterReceipt
    /\ AliveOwned /\ DownIsBlank

-----------------------------------------------------------------------------
(* The receipts.  The accounting guard is held while a receipt is prepared *)
(* and filed; the monitor's crash receipt waits for it and yields to what  *)
(* has been made durable.                                                  *)

\* What the manager takes for accounted for has a receipt on disk.
DurableIsFiled == \A g \in durable : HasReceipt(g)

\* In one life of the daemon every receipt on disk is remembered.
FiledIsDurable == exits = 0 => \A r \in receipts : r.gen \in durable

\* A monitor waits for the current child only, and a call that has
\* published its process is about to watch the current child.
WatchedIsChild ==
    /\ \A g \in Gens : mon[g] = "wait" => child = g
    /\ \A t \in Threads : pc[t] \in {"persist", "watch"} => child = mine[t]

\* A crash is reported of a process that is gone and stays gone.
CrashedIsGone ==
    \A r \in receipts :
        r.kind = "crash" => r.gen \notin alive /\ cmdline[r.gen] # None

\* A stop files no crash, and totals it is about to file as sealed are of a
\* process not reported as crashed: the guard keeps it so.
SealPending ==
    \A t \in Threads : pc[t] = "receipt" =>
        /\ guard = t /\ prepared[t] # "crash"
        /\ prepared[t] = "sealed" =>
             \A r \in receipts : r.gen = mine[t] => r.kind # "crash"

\* SealedOrCrashed, for the life of the daemon that remembers its receipts.
SealedOnce == exits = 0 => SealedOrCrashed

ReceiptInv ==
    /\ DurableIsFiled /\ FiledIsDurable /\ WatchedIsChild /\ CrashedIsGone
    /\ SealPending /\ ForgottenHasReceipt /\ SealedOnce
=============================================================================
