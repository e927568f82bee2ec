-------------------------- MODULE ServeManagerProofs --------------------------
(***************************************************************************)
(* The invariant of the serve manager and what follows from it, for every  *)
(* set of callers, processes and models.  Each action has a lemma that it  *)
(* keeps IInv; under it, one step for the conjuncts it disturbs alike.     *)
(***************************************************************************)
EXTENDS ServeManagerInvariant, TLAPS

CallRecords == [kind: Kinds, model: Models \cup {None}, force: BOOLEAN]
Results == {"none", "started", "stopped", "idempotent", "conflict", "aborted",
            "failed"}

-----------------------------------------------------------------------------
(* What a thread records of its call keeps its type. *)

LEMMA Update ==
  ASSUME NEW S, NEW T, NEW f \in [S -> T], NEW x, NEW y \in T
  PROVE  [f EXCEPT ![x] = y] \in [S -> T]
  OBVIOUS

LEMMA CallFields ==
  ASSUME CallType, NEW t \in Threads
  PROVE  /\ op[t].kind \in Kinds /\ op[t].model \in Models \cup {None}
         /\ op[t].force \in BOOLEAN
         /\ mine[t] \in Gens \cup {None}
         /\ prepared[t] \in ReceiptKinds \cup {"none", "error"}
<1>1. op[t] \in [kind: Kinds, model: Models \cup {None}, force: BOOLEAN]
  BY DEF CallType
<1> QED BY <1>1 DEF CallType

LEMMA NoCallType == NoCall \in CallRecords
  BY DEF NoCall, CallRecords, Kinds

LEMMA ReturnType ==
  ASSUME CallType, NEW t \in Threads, NEW r \in Results, Return(t, r)
  PROVE  CallType'
<1>1. op' \in [Threads -> CallRecords]
  BY NoCallType, Update DEF CallType, Return, CallRecords
<1>2. mine' \in [Threads -> Gens \cup {None}]
  BY DEF CallType, Return
<1>3. prepared' \in [Threads -> ReceiptKinds \cup {"none", "error"}]
  BY DEF CallType, Return
<1>4. result' \in [Threads -> Results]
  BY DEF CallType, Return, Results
<1> QED BY <1>1, <1>2, <1>3, <1>4 DEF CallType, CallRecords, Results

LEMMA GotoType ==
  ASSUME CallType, NEW t \in Threads, NEW step, Goto(t, step),
         \/ mine' = mine
         \/ \E g \in Gens \cup {None} : mine' = [mine EXCEPT ![t] = g],
         UNCHANGED <<prepared, result>>
  PROVE  CallType'
  BY Update DEF CallType, Goto

LEMMA StoppedType ==
  ASSUME CallType, NEW t \in Threads, Stopped(t)
  PROVE  CallType'
<1>1. CASE op[t].kind = "switch"
  <2>1. result' \in [Threads -> Results]
    BY <1>1 DEF Stopped, CallType, Results
  <2>2. mine' \in [Threads -> Gens \cup {None}]
    BY <1>1 DEF Stopped, CallType
  <2>3. prepared' \in [Threads -> ReceiptKinds \cup {"none", "error"}]
    BY <1>1 DEF Stopped, CallType
  <2> QED BY <1>1, <2>1, <2>2, <2>3 DEF Stopped, Goto, CallType, Results
<1>2. CASE op[t].kind # "switch"
  BY <1>2, ReturnType DEF Stopped, Results
<1> QED BY <1>1, <1>2

-----------------------------------------------------------------------------
(* The lock, and what it lets a call conclude about the others. *)

LEMMA Alone ==
  ASSUME IInv, NEW t \in Threads, pc[t] \notin {"idle", "enter"}
  PROVE  /\ lifecycle = t
         /\ \A s \in Threads : s # t => pc[s] \in {"idle", "enter"}
  BY DEF IInv, LockHeld

LEMMA LockKept ==
  ASSUME IInv, NEW t \in Threads, NEW step, NEW r,
         pc[t] \notin {"idle", "enter"} \/ lifecycle = None,
         Goto(t, step) \/ Return(t, r)
  PROVE  LockHeld'
<1>1. \A s \in Threads : s # t => pc[s] \in {"idle", "enter"}
  BY ServeManagerAssumption DEF IInv, LockHeld, Threads
<1>2. \A s \in Threads : s # t => pc'[s] = pc[s]
  BY DEF Goto, Return, IInv, TypeOK, StepType
<1>3. lifecycle' = t \/ pc'[t] = "idle"
  BY DEF Goto, Return, IInv, TypeOK, StepType
<1> QED BY <1>1, <1>2, <1>3 DEF LockHeld

LEMMA ReapedGone ==
  ASSUME IInv, NEW t \in Threads, pc[t] \in StopSteps, Reaped(mine[t])
  PROVE  child = None
  BY DEF IInv, StopOwnsChild, MonitorOrder, AfterForget, Reaped

LEMMA StillStopping ==
  ASSUME IInv, NEW t \in Threads, pc[t] \in StopSteps, pc'[t] \in StopSteps,
         UNCHANGED <<child, stopping, shutdownRequested, op>>
  PROVE  StoppingByStop' /\ ShutdownEmpties'
<1>1. \A s \in Threads : pc[s] \in StopSteps => s = t
  BY Alone DEF StopSteps
<1> QED BY <1>1 DEF IInv, StoppingByStop, ShutdownEmpties

LEMMA SignalStop ==
  ASSUME IInv, NEW t \in Threads, Terminate(t) \/ Kill(t) \/ AwaitKill(t)
  PROVE  StoppingByStop' /\ ShutdownEmpties'
<1>1. /\ pc[t] \in StopSteps
      /\ UNCHANGED <<child, stopping, shutdownRequested>>
  BY DEF Terminate, Kill, AwaitKill, SignalStep, StopSteps, latches
<1>2. CASE Reaped(mine[t])
  BY <1>1, <1>2, ReapedGone DEF StoppingByStop, ShutdownEmpties
<1>3. CASE ~Reaped(mine[t])
  <2>1. pc'[t] \in StopSteps /\ op' = op
    BY <1>3 DEF Terminate, Kill, AwaitKill, SignalStep, Goto, IInv, TypeOK,
                StepType, StopSteps
  <2> QED BY <1>1, <2>1, StillStopping
<1> QED BY <1>2, <1>3

LEMMA Vacant ==
  ASSUME IInv, NEW t \in Threads, StartGate(t)
  PROVE  /\ \A s \in Threads : s # t => pc[s] \in {"idle", "enter"}
         /\ ~stopping \/ child = None
         /\ shutdownRequested => child = None
<1>1. \A s \in Threads : s # t => pc[s] \in {"idle", "enter"}
  BY Alone, ServeManagerAssumption DEF StartGate, IInv, LockHeld, Threads
<1>2. pc[t] \in {"enter", "swap"}
  BY DEF StartGate
<1>3. \A s \in Threads : pc[s] \notin StopSteps
  BY <1>1, <1>2 DEF StopSteps
<1> QED BY <1>1, <1>3 DEF IInv, StoppingByStop, ShutdownEmpties

LEMMA GateOutcome ==
  ASSUME IInv, NEW t \in Threads, StartGate(t)
  PROVE  /\ \A s \in Threads : s # t => pc'[s] = pc[s] /\ op'[s] = op[s]
         /\ \/ pc'[t] = "idle" /\ op'[t] = NoCall
            \/ /\ pc'[t] = "spawn" /\ op'[t] = op[t]
               /\ child = None /\ ~shutdownRequested /\ ~stopRequested'
         /\ UNCHANGED <<child, stopping, shutdownRequested>>
<1>1. UNCHANGED <<child, stopping, shutdownRequested>>
  BY DEF StartGate
<1>2. ASSUME NEW r, Return(t, r)
      PROVE  /\ \A s \in Threads : s # t => pc'[s] = pc[s] /\ op'[s] = op[s]
             /\ pc'[t] = "idle" /\ op'[t] = NoCall
  BY <1>2 DEF Return, IInv, TypeOK, StepType, CallType
<1>3. ASSUME Goto(t, "spawn")
      PROVE  /\ \A s \in Threads : s # t => pc'[s] = pc[s] /\ op'[s] = op[s]
             /\ pc'[t] = "spawn" /\ op'[t] = op[t]
  BY <1>3 DEF Goto, IInv, TypeOK, StepType, CallType
<1>4. ASSUME ~Closed(t), ~StopLatched(t), ~Occupied(t),
             stopRequested' = (stopRequested /\ op[t].kind = "auto")
      PROVE  child = None /\ ~shutdownRequested /\ ~stopRequested'
  BY <1>4, Vacant DEF Closed, StopLatched, Occupied
<1>5. \/ \E r : Return(t, r)
      \/ /\ ~Closed(t) /\ ~StopLatched(t) /\ ~Occupied(t) /\ Goto(t, "spawn")
         /\ stopRequested' = (stopRequested /\ op[t].kind = "auto")
  BY DEF StartGate
<1> QED BY <1>1, <1>2, <1>3, <1>4, <1>5

LEMMA BootState ==
  ASSUME IInv, Readopt
  PROVE  /\ \A t \in Threads : pc'[t] = "idle"
         /\ child' = None \/ child' \in alive
         /\ \A g \in Gens : mon'[g] = IF g = child' THEN "wait" ELSE "none"
         /\ ~stopping' /\ ~shutdownRequested' /\ exits' # 0 /\ up'
  BY ServeManagerAssumption
     DEF Readopt, Adopt, Attach, IInv, DownIsBlank, TypeOK, ProcessType,
         MonitorType, thread, latches

-----------------------------------------------------------------------------
(* The initial states. *)

LEMMA InitTypes == Init => TypeOK
<1> SUFFICES ASSUME Init PROVE TypeOK
  OBVIOUS
<1>1. NoCall \in [kind: Kinds, model: Models \cup {None}, force: BOOLEAN]
  BY DEF NoCall, Kinds
<1>2. StepType /\ CallType /\ MonitorType
  BY <1>1 DEF Init, Each, Unwatched, Unseen, StepType, CallType, MonitorType
<1>3. ProcessType /\ FileType /\ BookType
  BY DEF Init, NoTotals, ProcessType, FileType, BookType
<1>4. ControlType
  <2>1. 0 \in 0..MaxCalls /\ 0 \in 0..MaxExits
    BY ServeManagerAssumption
  <2> QED BY <2>1 DEF Init, ControlType
<1> QED BY <1>2, <1>3, <1>4 DEF TypeOK

LEMMA InitInv == Init => IInv
<1> SUFFICES ASSUME Init PROVE IInv
  OBVIOUS
<1>1. /\ \A t \in Threads : pc[t] = "idle" /\ op[t].kind = "none"
      /\ \A g \in Gens : mon[g] = "none" /\ pc[g] = "idle" /\ signal[g] = "none"
  BY DEF Init, Each, Unwatched, NoCall, Threads
<1>2. child = None /\ alive = {} /\ up
  BY DEF Init
<1>3. LockHeld /\ SpawnsModel /\ RestartAfterMonitor /\ UnspawnedUnknown
  BY <1>1, <1>2 DEF LockHeld, SpawnsModel, StartKinds, RestartAfterMonitor,
                    UnspawnedUnknown
<1>4. /\ PlaceFree /\ NewUnwatched /\ StopOwnsChild
      /\ PreparedFirst /\ ReceiptFirst
  BY <1>1 DEF PlaceFree, StartSteps, NewUnwatched, NewSteps, StopOwnsChild,
              StopSteps, PreparedFirst, ReceiptFirst, SignalSteps
<1>5. /\ StoppingByStop /\ MonitorOrder /\ ShutdownEmpties /\ SignalAfterReceipt
      /\ AliveOwned /\ DownIsBlank
  BY <1>1, <1>2 DEF StoppingByStop, MonitorOrder, AfterExit, AfterForget,
                    ShutdownEmpties, SignalAfterReceipt, AliveOwned, DownIsBlank
<1> QED BY InitTypes, <1>3, <1>4, <1>5 DEF IInv

-----------------------------------------------------------------------------
(* Each action keeps the invariant. *)

LEMMA CallInv ==
  ASSUME IInv, NEW t \in Callers, Call(t)
  PROVE  IInv'
<1>1. /\ ProcessType' /\ FileType' /\ BookType' /\ ControlType' /\ StepType'
      /\ MonitorType'
  BY ServeManagerAssumption
     DEF Threads, Call, process, disk, latches, books, monitor, IInv, TypeOK,
         ProcessType, FileType, BookType, ControlType, StepType, MonitorType
<1>2. CallType'
  <2>1. Requests \subseteq CallRecords
    BY DEF Requests, CallRecords, Kinds
  <2>2. op' \in [Threads -> CallRecords]
    BY <2>1 DEF Call, IInv, TypeOK, CallType, CallRecords
  <2>3. result' \in [Threads -> Results]
    BY DEF Call, IInv, TypeOK, CallType, Results
  <2> QED BY <2>2, <2>3 DEF Call, IInv, TypeOK, CallType, CallRecords, Results
<1>3. /\ LockHeld' /\ RestartAfterMonitor' /\ UnspawnedUnknown' /\ PlaceFree'
      /\ NewUnwatched' /\ StopOwnsChild' /\ StoppingByStop' /\ MonitorOrder'
      /\ ShutdownEmpties' /\ PreparedFirst' /\ ReceiptFirst'
      /\ SignalAfterReceipt' /\ AliveOwned' /\ DownIsBlank'
  BY ServeManagerAssumption
     DEF Call, process, disk, latches, monitor, IInv, LockHeld,
         RestartAfterMonitor, UnspawnedUnknown, PlaceFree, StartSteps,
         NewUnwatched, NewSteps, StopOwnsChild, StopSteps, StoppingByStop,
         MonitorOrder, ShutdownEmpties, PreparedFirst, ReceiptFirst,
         SignalSteps, HasReceipt, SignalAfterReceipt, AliveOwned, DownIsBlank
<1>4. SpawnsModel'
  <2>1. PICK request \in Requests : op' = [op EXCEPT ![t] = request]
    BY DEF Call
  <2>2. request.kind \in StartKinds => request.model \in Models
    BY ServeManagerAssumption DEF Requests, StartKinds
  <2>3. \A s \in Threads :
          pc'[s] \in {"swap", "spawn"} => s # t /\ pc'[s] = pc[s]
    BY DEF Call, IInv, TypeOK, StepType, Threads
  <2>4. \A s \in Threads : op'[s] = IF s = t THEN request ELSE op[s]
    BY <2>1 DEF IInv, TypeOK, CallType, Threads
  <2> QED BY <2>2, <2>3, <2>4 DEF IInv, SpawnsModel
<1> QED BY <1>1, <1>2, <1>3, <1>4 DEF IInv, TypeOK

LEMMA StartGateInv ==
  ASSUME IInv, NEW t \in Threads, StartGate(t)
  PROVE  IInv'
<1>1. ProcessType' /\ FileType' /\ BookType' /\ StepType' /\ MonitorType'
  BY DEF StartGate, process, disk, books, IInv, TypeOK, ProcessType, FileType,
         BookType, Kinds, Return, Goto, monitor, StepType, MonitorType
<1>2. ControlType'
  BY DEF StartGate, Return, Goto, Closed, bounds, IInv, TypeOK, ControlType
<1>3. CallType'
  BY ReturnType, GotoType DEF StartGate, IInv, TypeOK, Results
<1>4. LockHeld'
  BY LockKept DEF StartGate
<1>5. SpawnsModel'
  <2>1. op[t].kind \in StartKinds
    BY DEF StartGate, IInv, SpawnsModel, StartKinds
  <2> QED BY <2>1, GateOutcome DEF IInv, SpawnsModel, NoCall, StartKinds
<1>6. /\ RestartAfterMonitor' /\ UnspawnedUnknown' /\ NewUnwatched'
      /\ MonitorOrder' /\ PreparedFirst' /\ ReceiptFirst'
      /\ SignalAfterReceipt' /\ DownIsBlank' /\ StopOwnsChild' /\ AliveOwned'
  BY DEF Threads, StartGate, Return, Goto, process, disk, monitor, bounds,
         IInv, TypeOK, StepType, CallType, RestartAfterMonitor,
         UnspawnedUnknown, NewUnwatched, NewSteps, MonitorOrder, PreparedFirst,
         ReceiptFirst, SignalSteps, HasReceipt, SignalAfterReceipt,
         DownIsBlank, StopOwnsChild, StopSteps, AliveOwned
<1>7. PlaceFree'
  BY Vacant, GateOutcome DEF PlaceFree, StartSteps
<1>8. StoppingByStop'
  BY Vacant, GateOutcome DEF StoppingByStop
<1>9. ShutdownEmpties'
  BY Vacant, GateOutcome DEF ShutdownEmpties
<1> QED BY <1>1, <1>2, <1>3, <1>4, <1>5, <1>6, <1>7, <1>8, <1>9 DEF IInv,
           TypeOK

LEMMA SpawnInv ==
  ASSUME IInv, NEW t \in Threads, Spawn(t)
  PROVE  IInv'
<1>1. ProcessType'
  BY DEF Spawn, IInv, TypeOK, ProcessType, ReceiptKinds, FileType, CallType
<1>2. BookType' /\ ControlType' /\ MonitorType' /\ FileType'
  BY DEF Spawn, Return, Goto, latches, books, monitor, bounds, IInv, TypeOK,
         BookType, ControlType, MonitorType, disk, FileType
<1>3. StepType'
  <2>1. pc' = [pc EXCEPT ![t] = "publish"] \/ pc' = [pc EXCEPT ![t] = "idle"]
    BY DEF Spawn, Goto, Return
  <2> QED BY <2>1 DEF IInv, TypeOK, StepType
<1>4. CallType'
  BY ReturnType, GotoType DEF Spawn, IInv, TypeOK, Results
<1>5. LockHeld'
  <2>1. \A s \in Threads : s # t => pc'[s] \in {"idle", "enter"}
    BY Alone DEF Spawn, Goto, Return, IInv, TypeOK, StepType
  <2>2. lifecycle' = t \/ pc'[t] = "idle"
    BY DEF Spawn, Goto, Return, IInv, TypeOK, StepType
  <2> QED BY <2>1, <2>2 DEF LockHeld
<1>6. /\ RestartAfterMonitor' /\ PlaceFree' /\ StopOwnsChild'
      /\ StoppingByStop' /\ PreparedFirst' /\ ReceiptFirst'
      /\ SignalAfterReceipt' /\ DownIsBlank' /\ ShutdownEmpties'
      /\ SpawnsModel'
  BY DEF Threads, Spawn, Return, Goto, disk, latches, monitor, bounds, IInv,
         TypeOK, StepType, CallType, RestartAfterMonitor, PlaceFree,
         StartSteps, StopOwnsChild, StopSteps, StoppingByStop, PreparedFirst,
         ReceiptFirst, SignalSteps, HasReceipt, SignalAfterReceipt,
         DownIsBlank, ShutdownEmpties, SpawnsModel, StartKinds, NoCall
<1>7. UnspawnedUnknown' /\ NewUnwatched'
  BY ServeManagerAssumption
     DEF Spawn, monitor, IInv, TypeOK, ProcessType, UnspawnedUnknown,
         NewUnwatched, NewSteps, SpawnsModel, Return, Goto, StepType, CallType
<1>8. MonitorOrder'
  <2>1. \A g \in alive' \ alive : mon[g] = "none"
    BY DEF Spawn, IInv, UnspawnedUnknown
  <2>2. mon' = mon /\ child' = child
    BY DEF Spawn, monitor
  <2> QED BY <2>1, <2>2 DEF IInv, MonitorOrder, AfterExit
<1>9. AliveOwned'
  <2>1. exits = 0 => alive = {}
    <3>1. child = None /\ \A s \in Threads : pc[s] # "publish"
      BY Alone DEF Spawn, IInv, PlaceFree, StartSteps
    <3> QED BY <3>1, ServeManagerAssumption
            DEF IInv, AliveOwned, TypeOK, ProcessType
  <2>2. exits' = exits
    BY DEF Spawn, bounds
  <2>3. CASE alive' = alive
    BY <2>1, <2>2, <2>3 DEF AliveOwned
  <2>4. ASSUME NEW g \in Gens, alive' = alive \cup {g},
               mine' = [mine EXCEPT ![t] = g], Goto(t, "publish")
        PROVE  AliveOwned'
    <3>1. pc'[t] = "publish" /\ mine'[t] = g
      BY <2>4 DEF Goto, IInv, TypeOK, StepType, CallType
    <3> QED BY <2>1, <2>2, <2>4, <3>1 DEF AliveOwned
  <2> QED BY <2>3, <2>4 DEF Spawn
<1> QED BY <1>1, <1>2, <1>3, <1>4, <1>5, <1>6, <1>7, <1>8, <1>9 DEF IInv,
           TypeOK

LEMMA PublishInv ==
  ASSUME IInv, NEW t \in Threads, Publish(t)
  PROVE  IInv'
<1>1. /\ ProcessType' /\ FileType' /\ BookType' /\ StepType' /\ CallType'
      /\ MonitorType'
  BY DEF Publish, Goto, process, disk, books, monitor, IInv, TypeOK,
         ProcessType, FileType, BookType, StepType, CallType, MonitorType
<1>2. ControlType'
  <2>1. op[t].model \in Models \cup {None} /\ mine[t] \in Gens \cup {None}
    BY CallFields DEF IInv, TypeOK
  <2> QED BY <2>1 DEF Publish, IInv, TypeOK, ControlType, Goto, latches, bounds
<1>3. LockHeld'
  BY LockKept DEF Publish
<1>4. /\ SpawnsModel' /\ RestartAfterMonitor' /\ UnspawnedUnknown'
      /\ NewUnwatched' /\ StoppingByStop' /\ PreparedFirst' /\ ReceiptFirst'
      /\ SignalAfterReceipt' /\ DownIsBlank' /\ PlaceFree' /\ StopOwnsChild'
  BY DEF Publish, Goto, process, disk, monitor, bounds, IInv, TypeOK, StepType,
         SpawnsModel, RestartAfterMonitor, UnspawnedUnknown, NewUnwatched,
         NewSteps, StoppingByStop, StopSteps, PreparedFirst, ReceiptFirst,
         SignalSteps, HasReceipt, SignalAfterReceipt, DownIsBlank, PlaceFree,
         StartSteps, LockHeld, StopOwnsChild
<1>5. MonitorOrder'
  <2>1. child = None /\ mon[mine[t]] = "none"
    BY DEF Publish, IInv, PlaceFree, StartSteps, NewUnwatched, NewSteps
  <2>2. child' = mine[t] /\ mon' = mon /\ alive' = alive
    BY DEF Publish, monitor, process
  <2> QED BY <2>1, <2>2, ServeManagerAssumption
          DEF IInv, MonitorOrder, AfterForget
<1>6. ShutdownEmpties'
  BY DEF Publish, latches, IInv, PlaceFree, StartSteps, ShutdownEmpties
<1>7. AliveOwned'
  BY ServeManagerAssumption
     DEF Publish, Goto, process, bounds, IInv, TypeOK, AliveOwned, PlaceFree,
         StartSteps, ProcessType
<1> QED BY <1>1, <1>2, <1>3, <1>4, <1>5, <1>6, <1>7 DEF IInv, TypeOK

LEMMA PersistInv ==
  ASSUME IInv, NEW t \in Threads, Persist(t)
  PROVE  IInv'
<1>1. ControlType' /\ StepType' /\ MonitorType' /\ ProcessType'
  BY DEF Persist, Return, Goto, latches, monitor, bounds, IInv, TypeOK,
         ControlType, StepType, MonitorType, process, ProcessType
<1>2. BookType' /\ FileType'
  BY DEF Persist, books, IInv, TypeOK, BookType, FileType, CallType
<1>3. CallType'
  BY ReturnType, GotoType DEF Persist, IInv, TypeOK, Results
<1>4. LockHeld'
  BY LockKept DEF Persist
<1>5. SpawnsModel'
  <2>1. \A s \in Threads :
          /\ op'[s] \in {op[s], NoCall}
          /\ pc'[s] \in {"swap", "spawn"} => pc'[s] = pc[s] /\ op'[s] = op[s]
    BY DEF Persist, Goto, Return, IInv, TypeOK, StepType, CallType
  <2> QED BY <2>1 DEF IInv, SpawnsModel, NoCall, StartKinds
<1>6. /\ RestartAfterMonitor' /\ UnspawnedUnknown' /\ PlaceFree'
      /\ StoppingByStop' /\ MonitorOrder' /\ PreparedFirst' /\ ReceiptFirst'
      /\ SignalAfterReceipt' /\ DownIsBlank' /\ NewUnwatched' /\ StopOwnsChild'
      /\ ShutdownEmpties' /\ AliveOwned'
  BY DEF Threads, Persist, Return, Goto, process, latches, monitor, bounds,
         IInv, TypeOK, StepType, RestartAfterMonitor, UnspawnedUnknown,
         PlaceFree, StartSteps, StoppingByStop, StopSteps, MonitorOrder,
         PreparedFirst, ReceiptFirst, SignalSteps, HasReceipt,
         SignalAfterReceipt, DownIsBlank, NewUnwatched, NewSteps, LockHeld,
         StopOwnsChild, ShutdownEmpties, AliveOwned
<1> QED BY <1>1, <1>2, <1>3, <1>4, <1>5, <1>6 DEF IInv, TypeOK

LEMMA BeginWatchInv ==
  ASSUME IInv, NEW t \in Threads, BeginWatch(t)
  PROVE  IInv'
<1>1. /\ ProcessType' /\ FileType' /\ BookType' /\ ControlType' /\ StepType'
      /\ MonitorType'
  BY DEF BeginWatch, process, disk, books, IInv, TypeOK, ProcessType, FileType,
         BookType, Return, latches, bounds, ControlType, StepType, MonitorType,
         NewUnwatched, NewSteps
<1>2. CallType'
  BY ReturnType DEF BeginWatch, IInv, TypeOK, Results
<1>3. LockHeld'
  BY LockKept DEF BeginWatch
<1>4. /\ PlaceFree' /\ StopOwnsChild' /\ StoppingByStop' /\ MonitorOrder'
      /\ ShutdownEmpties' /\ PreparedFirst' /\ ReceiptFirst'
      /\ SignalAfterReceipt' /\ AliveOwned' /\ DownIsBlank' /\ NewUnwatched'
      /\ SpawnsModel' /\ RestartAfterMonitor' /\ UnspawnedUnknown'
  BY DEF Threads, BeginWatch, Return, process, disk, latches, bounds, IInv,
         TypeOK, StepType, PlaceFree, StopOwnsChild, StopSteps, StoppingByStop,
         MonitorOrder, AfterExit, AfterForget, ShutdownEmpties, PreparedFirst,
         ReceiptFirst, SignalSteps, HasReceipt, SignalAfterReceipt, AliveOwned,
         DownIsBlank, NewUnwatched, NewSteps, LockHeld, SpawnsModel,
         StartKinds, NoCall, RestartAfterMonitor, UnspawnedUnknown
<1> QED BY <1>1, <1>2, <1>3, <1>4 DEF IInv, TypeOK

LEMMA StopGateInv ==
  ASSUME IInv, NEW t \in Threads, StopGate(t)
  PROVE  IInv'
<1>1. ProcessType' /\ FileType' /\ BookType' /\ StepType' /\ MonitorType'
  BY DEF StopGate, Stopped, Return, Goto, process, disk, books, monitor, IInv,
         TypeOK, ProcessType, FileType, BookType, StepType, MonitorType
<1>2. ControlType'
  <2>1. stopping' \in BOOLEAN /\ shutdownRequested' \in BOOLEAN
    BY DEF StopGate, IInv, TypeOK, ControlType
  <2>2. lifecycle' \in Threads \cup {None}
    BY DEF StopGate, IInv, TypeOK, ControlType, Stopped, Return, Goto
  <2> QED BY <2>1, <2>2 DEF StopGate, IInv, TypeOK, ControlType, bounds
<1>3. CallType'
  BY StoppedType, GotoType DEF StopGate, IInv, TypeOK, ControlType
<1>4. LockHeld'
  BY LockKept DEF StopGate, Stopped
<1>5. /\ PlaceFree' /\ AliveOwned' /\ SpawnsModel' /\ RestartAfterMonitor'
      /\ UnspawnedUnknown' /\ ReceiptFirst' /\ SignalAfterReceipt'
      /\ DownIsBlank' /\ NewUnwatched' /\ MonitorOrder' /\ StoppingByStop'
      /\ PreparedFirst'
  BY ServeManagerAssumption
     DEF Threads, StopGate, Stopped, Return, Goto, IInv, TypeOK, StepType,
         PlaceFree, StartSteps, LockHeld, process, bounds, CallType,
         AliveOwned, SpawnsModel, StartKinds, Kinds, NoCall, monitor,
         RestartAfterMonitor, UnspawnedUnknown, disk, ReceiptFirst,
         SignalSteps, HasReceipt, SignalAfterReceipt, DownIsBlank,
         NewUnwatched, NewSteps, MonitorOrder, StoppingByStop, StopSteps,
         PreparedFirst
<1>6. StopOwnsChild'
  BY DEF StopGate, Stopped, Return, Goto, IInv, TypeOK, StepType, CallType,
         StopOwnsChild, StopSteps, ControlType
<1>7. ShutdownEmpties'
  BY DEF StopGate, Goto, IInv, TypeOK, StepType, ShutdownEmpties, StopSteps,
         ControlType
<1> QED BY <1>1, <1>2, <1>3, <1>4, <1>5, <1>6, <1>7 DEF IInv, TypeOK

LEMMA PrepareStopInv ==
  ASSUME IInv, NEW t \in Threads, PrepareStop(t)
  PROVE  IInv'
<1>1. /\ ProcessType' /\ FileType' /\ BookType' /\ ControlType' /\ StepType'
      /\ MonitorType' /\ CallType'
  BY DEF PrepareStop, process, disk, books, IInv, TypeOK, ProcessType,
         FileType, BookType, ReceiptKinds, Goto, latches, bounds, ControlType,
         StepType, monitor, MonitorType, Preparable, CallType
<1>2. LockHeld'
  BY LockKept DEF PrepareStop
<1>3. /\ SpawnsModel' /\ RestartAfterMonitor' /\ UnspawnedUnknown'
      /\ PlaceFree' /\ NewUnwatched' /\ StopOwnsChild' /\ StoppingByStop'
      /\ ReceiptFirst' /\ SignalAfterReceipt' /\ AliveOwned' /\ DownIsBlank'
      /\ MonitorOrder' /\ ShutdownEmpties' /\ PreparedFirst'
  BY DEF PrepareStop, Goto, process, latches, monitor, IInv, TypeOK,
         SpawnsModel, RestartAfterMonitor, UnspawnedUnknown, PlaceFree,
         StartSteps, NewUnwatched, NewSteps, StopOwnsChild, StopSteps,
         StoppingByStop, disk, bounds, ReceiptFirst, SignalSteps, HasReceipt,
         SignalAfterReceipt, AliveOwned, DownIsBlank, MonitorOrder,
         ShutdownEmpties, Preparable, CallType, PreparedFirst, BookType,
         ControlType
<1> QED BY <1>1, <1>2, <1>3 DEF IInv, TypeOK

LEMMA PersistReceiptInv ==
  ASSUME IInv, NEW t \in Threads, PersistReceipt(t)
  PROVE  IInv'
<1>1. ProcessType' /\ ControlType'
  BY DEF PersistReceipt, Goto, process, latches, bounds, IInv, TypeOK,
         ProcessType, ControlType
<1>2. FileType' /\ BookType'
  <2>1. CASE UNCHANGED <<receipts, books>>
    BY <2>1 DEF PersistReceipt, IInv, TypeOK, FileType, BookType, books
  <2>2. CASE /\ HasPrepared(t)
             /\ MakeDurable(Receipt(mine[t], prepared[t],
                                    IF prepared[t] = "degraded" THEN None
                                                                ELSE mine[t]))
    <3>1. mine[t] \in Gens
      BY DEF PersistReceipt, IInv, StopOwnsChild, StopSteps
    <3>2. prepared[t] \in ReceiptKinds
      <4>1. prepared[t] \in ReceiptKinds \cup {"none", "error"}
        BY CallFields DEF IInv, TypeOK
      <4> QED BY <2>2, <4>1 DEF PersistReceipt, HasPrepared, IInv, PreparedFirst
    <3> QED BY <2>2, <3>1, <3>2 DEF PersistReceipt, MakeDurable, Receipt, IInv,
                                    TypeOK, FileType, BookType
  <2> QED BY <2>1, <2>2 DEF PersistReceipt
<1>3. StepType' /\ CallType' /\ MonitorType'
  BY DEF PersistReceipt, Goto, monitor, IInv, TypeOK, StepType, CallType,
         MonitorType, ReceiptKinds
<1>4. LockHeld'
  BY LockKept DEF PersistReceipt
<1>5. /\ SpawnsModel' /\ RestartAfterMonitor' /\ UnspawnedUnknown'
      /\ PlaceFree' /\ NewUnwatched' /\ StopOwnsChild' /\ StoppingByStop'
      /\ MonitorOrder' /\ ShutdownEmpties' /\ PreparedFirst'
      /\ SignalAfterReceipt' /\ AliveOwned' /\ DownIsBlank'
  BY DEF Threads, PersistReceipt, Goto, MakeDurable, process, latches, monitor,
         bounds, IInv, TypeOK, StepType, SpawnsModel, RestartAfterMonitor,
         UnspawnedUnknown, PlaceFree, StartSteps, NewUnwatched, NewSteps,
         StopOwnsChild, StopSteps, StoppingByStop, MonitorOrder,
         ShutdownEmpties, PreparedFirst, SignalAfterReceipt, HasReceipt,
         AliveOwned, DownIsBlank
<1>6. ReceiptFirst'
  <2>1. \A s \in Threads : s # t => pc'[s] \notin SignalSteps
    BY Alone DEF PersistReceipt, Goto, IInv, TypeOK, StepType, SignalSteps
  <2>2. pc'[t] = "signal" => \E r \in receipts' : r.gen = mine'[t]
    BY DEF PersistReceipt, Goto, MakeDurable, Receipt, IInv, TypeOK, StepType
  <2>3. pc'[t] \in {"signal", "undo"}
    BY DEF PersistReceipt, Goto, IInv, TypeOK, StepType
  <2> QED BY <2>1, <2>2, <2>3 DEF ReceiptFirst, HasReceipt, SignalSteps
<1> QED BY <1>1, <1>2, <1>3, <1>4, <1>5, <1>6 DEF IInv, TypeOK

LEMMA TerminateInv ==
  ASSUME IInv, NEW t \in Threads, Terminate(t)
  PROVE  IInv'
<1>1. /\ ProcessType' /\ FileType' /\ BookType' /\ ControlType' /\ StepType'
      /\ MonitorType'
  BY DEF Terminate, SignalStep, SendSignal, Stopped, Return, Goto, disk,
         latches, books, monitor, bounds, IInv, TypeOK, ProcessType, FileType,
         BookType, ControlType, StepType, MonitorType
<1>2. CallType'
  BY StoppedType, GotoType DEF Terminate, SignalStep, IInv, TypeOK
<1>3. LockHeld'
  BY LockKept DEF Terminate, SignalStep, Stopped
<1>4. SpawnsModel' /\ SignalAfterReceipt'
  BY DEF Threads, Terminate, SignalStep, Stopped, Return, Goto, IInv, TypeOK,
         StepType, CallType, SpawnsModel, StartKinds, LockHeld, NoCall,
         SendSignal, disk, ProcessType, SignalAfterReceipt, HasReceipt,
         ReceiptFirst, SignalSteps
<1>5. /\ RestartAfterMonitor' /\ UnspawnedUnknown' /\ PlaceFree'
      /\ NewUnwatched' /\ StopOwnsChild' /\ MonitorOrder' /\ PreparedFirst'
      /\ ReceiptFirst' /\ DownIsBlank' /\ AliveOwned'
  BY DEF Threads, Terminate, SignalStep, Stopped, Return, Goto, disk, monitor,
         bounds, IInv, TypeOK, StepType, RestartAfterMonitor, UnspawnedUnknown,
         PlaceFree, StartSteps, NewUnwatched, NewSteps, StopOwnsChild,
         StopSteps, MonitorOrder, PreparedFirst, ReceiptFirst, SignalSteps,
         HasReceipt, DownIsBlank, AliveOwned, LockHeld
<1>6. StoppingByStop' /\ ShutdownEmpties'
  BY SignalStop
<1> QED BY <1>1, <1>2, <1>3, <1>4, <1>5, <1>6 DEF IInv, TypeOK

LEMMA KillInv ==
  ASSUME IInv, NEW t \in Threads, Kill(t)
  PROVE  IInv'
<1>1. /\ ProcessType' /\ FileType' /\ BookType' /\ ControlType' /\ StepType'
      /\ MonitorType'
  BY DEF Kill, SignalStep, SendSignal, Stopped, Return, Goto, disk, latches,
         books, monitor, bounds, IInv, TypeOK, ProcessType, FileType, BookType,
         ControlType, StepType, MonitorType
<1>2. CallType'
  BY StoppedType, GotoType DEF Kill, SignalStep, IInv, TypeOK
<1>3. LockHeld'
  BY LockKept DEF Kill, SignalStep, Stopped
<1>4. SpawnsModel' /\ SignalAfterReceipt'
  BY DEF Kill, SignalStep, Stopped, Return, Goto, IInv, TypeOK, StepType,
         CallType, SpawnsModel, StartKinds, ControlType, Kinds, NoCall,
         SendSignal, disk, ProcessType, SignalAfterReceipt, HasReceipt,
         ReceiptFirst, SignalSteps
<1>5. /\ RestartAfterMonitor' /\ UnspawnedUnknown' /\ PlaceFree'
      /\ NewUnwatched' /\ StopOwnsChild' /\ MonitorOrder' /\ PreparedFirst'
      /\ ReceiptFirst' /\ DownIsBlank' /\ AliveOwned'
  BY DEF Threads, Kill, SignalStep, Stopped, Return, Goto, disk, monitor,
         bounds, IInv, TypeOK, StepType, RestartAfterMonitor, UnspawnedUnknown,
         PlaceFree, StartSteps, NewUnwatched, NewSteps, StopOwnsChild,
         StopSteps, MonitorOrder, PreparedFirst, ReceiptFirst, SignalSteps,
         HasReceipt, DownIsBlank, AliveOwned, LockHeld
<1>6. StoppingByStop' /\ ShutdownEmpties'
  BY SignalStop
<1> QED BY <1>1, <1>2, <1>3, <1>4, <1>5, <1>6 DEF IInv, TypeOK

LEMMA AwaitKillInv ==
  ASSUME IInv, NEW t \in Threads, AwaitKill(t)
  PROVE  IInv'
<1>1. /\ ProcessType' /\ FileType' /\ BookType' /\ ControlType' /\ StepType'
      /\ MonitorType'
  BY DEF AwaitKill, SignalStep, Stopped, Return, Goto, disk, latches, books,
         monitor, bounds, IInv, TypeOK, ProcessType, FileType, BookType,
         ControlType, StepType, MonitorType
<1>2. CallType'
  BY StoppedType, GotoType DEF AwaitKill, SignalStep, IInv, TypeOK
<1>3. LockHeld'
  BY LockKept DEF AwaitKill, SignalStep, Stopped
<1>4. /\ RestartAfterMonitor' /\ UnspawnedUnknown' /\ PlaceFree'
      /\ NewUnwatched' /\ StopOwnsChild' /\ MonitorOrder' /\ PreparedFirst'
      /\ SignalAfterReceipt' /\ DownIsBlank' /\ ReceiptFirst' /\ AliveOwned'
      /\ SpawnsModel'
  BY DEF Threads, AwaitKill, SignalStep, Stopped, Return, Goto, disk, monitor,
         bounds, IInv, TypeOK, StepType, CallType, RestartAfterMonitor,
         UnspawnedUnknown, PlaceFree, StartSteps, NewUnwatched, NewSteps,
         StopOwnsChild, StopSteps, MonitorOrder, AfterExit, PreparedFirst,
         SignalAfterReceipt, HasReceipt, DownIsBlank, ReceiptFirst,
         SignalSteps, LockHeld, AliveOwned, SpawnsModel, StartKinds, NoCall
<1>5. StoppingByStop' /\ ShutdownEmpties'
  BY SignalStop
<1> QED BY <1>1, <1>2, <1>3, <1>4, <1>5 DEF IInv, TypeOK

LEMMA UndoInv ==
  ASSUME IInv, NEW t \in Threads, Undo(t)
  PROVE  IInv'
<1>1. /\ ProcessType' /\ FileType' /\ BookType' /\ ControlType' /\ StepType'
      /\ MonitorType'
  BY DEF Undo, Return, process, disk, books, monitor, bounds, IInv, TypeOK,
         ProcessType, FileType, BookType, ControlType, StepType, MonitorType
<1>2. CallType'
  BY ReturnType DEF Undo, IInv, TypeOK, Results
<1>3. LockHeld'
  BY LockKept DEF Undo
<1>4. /\ MonitorOrder' /\ PreparedFirst' /\ ReceiptFirst'
      /\ SignalAfterReceipt' /\ AliveOwned' /\ DownIsBlank' /\ SpawnsModel'
      /\ RestartAfterMonitor' /\ UnspawnedUnknown' /\ NewUnwatched'
      /\ StopOwnsChild' /\ PlaceFree'
  BY DEF Undo, Return, process, disk, monitor, bounds, IInv, TypeOK, StepType,
         MonitorOrder, PreparedFirst, ReceiptFirst, SignalSteps, HasReceipt,
         SignalAfterReceipt, AliveOwned, DownIsBlank, SpawnsModel, StartKinds,
         ControlType, NoCall, RestartAfterMonitor, UnspawnedUnknown,
         NewUnwatched, NewSteps, StopOwnsChild, StopSteps, PlaceFree,
         StartSteps
<1>5. StoppingByStop' /\ ShutdownEmpties'
  <2>1. pc[t] \in StopSteps /\ child \in {None, mine[t]}
    BY DEF Undo, IInv, StopOwnsChild, StopSteps
  <2>2. \A s \in Threads : pc[s] \in StopSteps => s = t
    BY <2>1, Alone DEF StopSteps
  <2>3. ~stopping' \/ child' = None
    BY <2>1 DEF Undo
  <2>4. ~shutdownRequested' \/ child' = None
    BY <2>1, <2>2 DEF Undo, IInv, ShutdownEmpties
  <2> QED BY <2>3, <2>4 DEF StoppingByStop, ShutdownEmpties
<1> QED BY <1>1, <1>2, <1>3, <1>4, <1>5 DEF IInv, TypeOK

LEMMA ObserveExitInv ==
  ASSUME IInv, NEW g \in Gens, ObserveExit(g)
  PROVE  IInv'
<1>1. /\ ProcessType' /\ FileType' /\ BookType' /\ ControlType' /\ StepType'
      /\ CallType' /\ MonitorType'
  BY DEF ObserveExit, MonitorStep, process, disk, latches, books, thread,
         bounds, IInv, TypeOK, ProcessType, FileType, BookType, ControlType,
         StepType, CallType, MonitorType
<1>2. /\ LockHeld' /\ SpawnsModel' /\ RestartAfterMonitor' /\ UnspawnedUnknown'
      /\ PlaceFree' /\ NewUnwatched' /\ StopOwnsChild' /\ StoppingByStop'
      /\ MonitorOrder' /\ ShutdownEmpties' /\ PreparedFirst' /\ ReceiptFirst'
      /\ SignalAfterReceipt' /\ AliveOwned' /\ DownIsBlank'
  BY DEF ObserveExit, MonitorStep, process, disk, latches, thread, bounds,
         IInv, LockHeld, SpawnsModel, RestartAfterMonitor, UnspawnedUnknown,
         PlaceFree, NewUnwatched, StopOwnsChild, StoppingByStop, MonitorOrder,
         AfterForget, ShutdownEmpties, PreparedFirst, ReceiptFirst, HasReceipt,
         SignalAfterReceipt, AliveOwned, DownIsBlank
<1> QED BY <1>1, <1>2 DEF IInv, TypeOK

LEMMA CrashReceiptInv ==
  ASSUME IInv, NEW g \in Gens, CrashReceipt(g)
  PROVE  IInv'
<1>1. ProcessType' /\ FileType' /\ BookType'
  BY DEF CrashReceipt, MakeDurable, Receipt, process, books, IInv, TypeOK,
         ProcessType, FileType, BookType, ReceiptKinds
<1>2. ControlType'
  <2>1. stopRequested' \in BOOLEAN
    BY DEF CrashReceipt, IInv, TypeOK, ControlType
  <2> QED BY <2>1 DEF CrashReceipt, IInv, TypeOK, ControlType, thread, bounds
<1>3. StepType' /\ CallType' /\ MonitorType'
  BY DEF CrashReceipt, MonitorStep, thread, IInv, TypeOK, StepType, CallType,
         MonitorType
<1>4. /\ LockHeld' /\ SpawnsModel' /\ RestartAfterMonitor' /\ UnspawnedUnknown'
      /\ NewUnwatched' /\ StopOwnsChild' /\ StoppingByStop' /\ MonitorOrder'
      /\ ShutdownEmpties' /\ PreparedFirst' /\ ReceiptFirst'
      /\ SignalAfterReceipt' /\ AliveOwned' /\ DownIsBlank' /\ PlaceFree'
  BY ServeManagerAssumption
     DEF CrashReceipt, MonitorStep, MakeDurable, process, thread, bounds, IInv,
         LockHeld, SpawnsModel, RestartAfterMonitor, UnspawnedUnknown,
         NewUnwatched, StopOwnsChild, StoppingByStop, MonitorOrder, AfterExit,
         AfterForget, ShutdownEmpties, PreparedFirst, ReceiptFirst, HasReceipt,
         SignalAfterReceipt, AliveOwned, DownIsBlank, PlaceFree
<1> QED BY <1>1, <1>2, <1>3, <1>4 DEF IInv, TypeOK

LEMMA ForgetInv ==
  ASSUME IInv, NEW g \in Gens, Forget(g)
  PROVE  IInv'
<1>1. ProcessType' /\ FileType' /\ BookType' /\ StepType' /\ CallType'
  BY DEF Forget, process, disk, books, thread, IInv, TypeOK, ProcessType,
         FileType, BookType, StepType, CallType
<1>2. ControlType'
  <2>1. child' \in Gens \cup {None} /\ stopping' \in BOOLEAN
    BY DEF Forget, IInv, TypeOK, ControlType
  <2> QED BY <2>1 DEF Forget, IInv, TypeOK, ControlType, thread, bounds, latches
<1>3. MonitorType'
  <2>1. seen' \in [Gens -> [stopping: BOOLEAN, current: BOOLEAN]]
    BY DEF Forget, IInv, TypeOK, MonitorType
  <2> QED BY <2>1 DEF Forget, IInv, TypeOK, MonitorType, MonitorStep
<1>4. /\ LockHeld' /\ SpawnsModel' /\ RestartAfterMonitor' /\ UnspawnedUnknown'
      /\ PlaceFree' /\ NewUnwatched' /\ StopOwnsChild' /\ MonitorOrder'
      /\ ShutdownEmpties' /\ PreparedFirst' /\ ReceiptFirst'
      /\ SignalAfterReceipt' /\ DownIsBlank'
  BY ServeManagerAssumption
     DEF Forget, MonitorStep, process, disk, latches, thread, bounds, IInv,
         LockHeld, SpawnsModel, RestartAfterMonitor, UnspawnedUnknown,
         PlaceFree, NewUnwatched, StopOwnsChild, MonitorOrder, AfterExit,
         ShutdownEmpties, PreparedFirst, ReceiptFirst, HasReceipt,
         SignalAfterReceipt, DownIsBlank
<1>5. StoppingByStop'
  <2>1. CASE child = g
    BY <2>1 DEF Forget, StoppingByStop
  <2>2. CASE child # g
    <3>1. child' = child /\ stopping' = stopping /\ pc' = pc
      BY <2>2 DEF Forget, thread
    <3> QED BY <3>1 DEF IInv, StoppingByStop
  <2> QED BY <2>1, <2>2
<1>6. AliveOwned'
  <2>1. pc' = pc /\ mine' = mine /\ alive' = alive /\ exits' = exits
    BY DEF Forget, thread, process, bounds
  <2>2. g \notin alive
    BY DEF Forget, MonitorStep, IInv, MonitorOrder, AfterExit
  <2>3. \A h \in alive : child = h => child' = h
    BY <2>2 DEF Forget
  <2> QED BY <2>1, <2>3 DEF IInv, AliveOwned
<1> QED BY <1>1, <1>2, <1>3, <1>4, <1>5, <1>6 DEF IInv, TypeOK

LEMMA ClearRecordInv ==
  ASSUME IInv, NEW g \in Gens, ClearRecord(g)
  PROVE  IInv'
<1>1. /\ ProcessType' /\ FileType' /\ BookType' /\ ControlType' /\ StepType'
      /\ CallType' /\ MonitorType'
  BY DEF ClearRecord, MonitorStep, process, latches, books, thread, bounds,
         IInv, TypeOK, ProcessType, FileType, BookType, ControlType, StepType,
         CallType, MonitorType
<1>2. /\ LockHeld' /\ SpawnsModel' /\ RestartAfterMonitor' /\ UnspawnedUnknown'
      /\ PlaceFree' /\ NewUnwatched' /\ StopOwnsChild' /\ StoppingByStop'
      /\ MonitorOrder' /\ ShutdownEmpties' /\ PreparedFirst' /\ ReceiptFirst'
      /\ SignalAfterReceipt' /\ AliveOwned' /\ DownIsBlank'
  BY DEF ClearRecord, MonitorStep, process, latches, thread, bounds, IInv,
         LockHeld, SpawnsModel, RestartAfterMonitor, UnspawnedUnknown,
         PlaceFree, NewUnwatched, StopOwnsChild, StoppingByStop, MonitorOrder,
         AfterExit, AfterForget, ShutdownEmpties, PreparedFirst, ReceiptFirst,
         HasReceipt, SignalAfterReceipt, AliveOwned, DownIsBlank
<1> QED BY <1>1, <1>2 DEF IInv, TypeOK

LEMMA SetReapedInv ==
  ASSUME IInv, NEW g \in Gens, SetReaped(g)
  PROVE  IInv'
<1>1. /\ ProcessType' /\ FileType' /\ BookType' /\ ControlType' /\ StepType'
      /\ CallType' /\ MonitorType'
  BY DEF SetReaped, MonitorStep, process, disk, latches, books, thread, bounds,
         IInv, TypeOK, ProcessType, FileType, BookType, ControlType, StepType,
         CallType, MonitorType
<1>2. /\ LockHeld' /\ SpawnsModel' /\ RestartAfterMonitor' /\ UnspawnedUnknown'
      /\ PlaceFree' /\ NewUnwatched' /\ StopOwnsChild' /\ StoppingByStop'
      /\ MonitorOrder' /\ ShutdownEmpties' /\ PreparedFirst' /\ ReceiptFirst'
      /\ SignalAfterReceipt' /\ AliveOwned' /\ DownIsBlank'
  BY DEF SetReaped, MonitorStep, process, disk, latches, thread, bounds, IInv,
         LockHeld, SpawnsModel, RestartAfterMonitor, UnspawnedUnknown,
         PlaceFree, NewUnwatched, StopOwnsChild, StoppingByStop, MonitorOrder,
         AfterExit, AfterForget, ShutdownEmpties, PreparedFirst, ReceiptFirst,
         HasReceipt, SignalAfterReceipt, AliveOwned, DownIsBlank
<1> QED BY <1>1, <1>2 DEF IInv, TypeOK

LEMMA DecideInv ==
  ASSUME IInv, NEW g \in Gens, Decide(g)
  PROVE  IInv'
<1>1. /\ ProcessType' /\ FileType' /\ BookType' /\ ControlType' /\ StepType'
      /\ CallType' /\ MonitorType'
  BY DEF Decide, MonitorStep, process, disk, latches, books, thread, bounds,
         IInv, TypeOK, ProcessType, FileType, BookType, ControlType, StepType,
         CallType, MonitorType
<1>2. /\ LockHeld' /\ SpawnsModel' /\ RestartAfterMonitor' /\ UnspawnedUnknown'
      /\ PlaceFree' /\ NewUnwatched' /\ StopOwnsChild' /\ StoppingByStop'
      /\ MonitorOrder' /\ ShutdownEmpties' /\ PreparedFirst' /\ ReceiptFirst'
      /\ SignalAfterReceipt' /\ AliveOwned' /\ DownIsBlank'
  BY DEF Decide, MonitorStep, process, disk, latches, thread, bounds, IInv,
         LockHeld, SpawnsModel, RestartAfterMonitor, UnspawnedUnknown,
         PlaceFree, NewUnwatched, StopOwnsChild, StoppingByStop, MonitorOrder,
         AfterExit, AfterForget, ShutdownEmpties, PreparedFirst, ReceiptFirst,
         HasReceipt, SignalAfterReceipt, AliveOwned, DownIsBlank
<1> QED BY <1>1, <1>2 DEF IInv, TypeOK

LEMMA RestartAsyncInv ==
  ASSUME IInv, NEW g \in Gens, RestartAsync(g)
  PROVE  IInv'
<1>1. ProcessType' /\ FileType' /\ BookType' /\ ControlType' /\ MonitorType'
  BY DEF RestartAsync, MonitorStep, process, disk, latches, books, bounds,
         IInv, TypeOK, ProcessType, FileType, BookType, ControlType,
         MonitorType
<1>2. StepType'
  <2>1. pc' = pc \/ pc' = [pc EXCEPT ![g] = "enter"]
    BY DEF RestartAsync
  <2> QED BY <2>1 DEF IInv, TypeOK, StepType
<1>3. CallType'
  <2>1. [kind |-> "auto", model |-> model, force |-> FALSE] \in CallRecords
    BY DEF IInv, TypeOK, ControlType, CallRecords, Kinds
  <2>2. op' \in [Threads -> CallRecords]
    BY <2>1, Update DEF RestartAsync, IInv, TypeOK, CallType, CallRecords
  <2> QED BY <2>2 DEF RestartAsync, IInv, TypeOK, CallType, CallRecords
<1>4. /\ LockHeld' /\ RestartAfterMonitor' /\ UnspawnedUnknown' /\ PlaceFree'
      /\ NewUnwatched' /\ StopOwnsChild' /\ MonitorOrder' /\ PreparedFirst'
      /\ ReceiptFirst' /\ SignalAfterReceipt' /\ DownIsBlank'
  BY DEF Threads, RestartAsync, MonitorStep, process, disk, latches, bounds,
         IInv, TypeOK, StepType, MonitorType, LockHeld, RestartAfterMonitor,
         UnspawnedUnknown, PlaceFree, StartSteps, NewUnwatched, NewSteps,
         StopOwnsChild, StopSteps, MonitorOrder, AfterExit, AfterForget,
         PreparedFirst, ReceiptFirst, SignalSteps, HasReceipt,
         SignalAfterReceipt, DownIsBlank
<1>5. SpawnsModel'
  <2>1. CASE model = None
    BY <2>1 DEF RestartAsync, IInv, SpawnsModel
  <2>2. CASE model # None
    <3>1. model \in Models
      BY <2>2 DEF IInv, TypeOK, ControlType
    <3>2. \A s \in Threads :
            /\ op'[s] = IF s = g
                        THEN [kind |-> "auto", model |-> model, force |-> FALSE]
                        ELSE op[s]
            /\ pc'[s] = IF s = g THEN "enter" ELSE pc[s]
      BY <2>2 DEF RestartAsync, IInv, TypeOK, StepType, CallType
    <3> QED BY <3>1, <3>2 DEF IInv, SpawnsModel, StartKinds
  <2> QED BY <2>1, <2>2
<1>6. StoppingByStop' /\ ShutdownEmpties'
  <2>1. UNCHANGED <<child, shutdownRequested, stopping>>
    BY DEF RestartAsync, latches
  <2>2. pc[g] = "idle"
    BY DEF RestartAsync, MonitorStep, IInv, RestartAfterMonitor
  <2>3. \A s \in Threads :
          pc[s] \in StopSteps => pc'[s] = pc[s] /\ op'[s] = op[s]
    BY <2>2 DEF RestartAsync, IInv, TypeOK, StepType, CallType, StopSteps
  <2> QED BY <2>1, <2>3 DEF IInv, ShutdownEmpties, StoppingByStop
<1>7. AliveOwned'
  BY DEF RestartAsync, MonitorStep, process, bounds, IInv, AliveOwned, TypeOK,
         StepType, RestartAfterMonitor
<1> QED BY <1>1, <1>2, <1>3, <1>4, <1>5, <1>6, <1>7 DEF IInv, TypeOK

LEMMA FetchStatsInv ==
  ASSUME IInv, FetchStats
  PROVE  IInv'
<1>1. /\ ProcessType' /\ FileType' /\ BookType' /\ ControlType' /\ StepType'
      /\ CallType' /\ MonitorType'
  BY DEF FetchStats, process, disk, latches, books, thread, monitor, bounds,
         IInv, TypeOK, ProcessType, FileType, BookType, ControlType, StepType,
         CallType, MonitorType
<1>2. /\ LockHeld' /\ SpawnsModel' /\ RestartAfterMonitor' /\ UnspawnedUnknown'
      /\ PlaceFree' /\ NewUnwatched' /\ StopOwnsChild' /\ StoppingByStop'
      /\ MonitorOrder' /\ ShutdownEmpties' /\ PreparedFirst' /\ ReceiptFirst'
      /\ SignalAfterReceipt' /\ AliveOwned' /\ DownIsBlank'
  BY DEF FetchStats, process, disk, latches, thread, monitor, bounds, IInv,
         LockHeld, SpawnsModel, RestartAfterMonitor, UnspawnedUnknown,
         PlaceFree, NewUnwatched, StopOwnsChild, StoppingByStop, MonitorOrder,
         ShutdownEmpties, PreparedFirst, ReceiptFirst, HasReceipt,
         SignalAfterReceipt, AliveOwned, DownIsBlank
<1> QED BY <1>1, <1>2 DEF IInv, TypeOK

LEMMA ObserveAccountingInv ==
  ASSUME IInv, ObserveAccounting
  PROVE  IInv'
<1>1. /\ ProcessType' /\ FileType' /\ BookType' /\ ControlType' /\ StepType'
      /\ CallType' /\ MonitorType'
  BY DEF ObserveAccounting, process, disk, latches, thread, monitor, bounds,
         IInv, TypeOK, ProcessType, FileType, BookType, ControlType, StepType,
         CallType, MonitorType
<1>2. /\ LockHeld' /\ SpawnsModel' /\ RestartAfterMonitor' /\ UnspawnedUnknown'
      /\ PlaceFree' /\ NewUnwatched' /\ StopOwnsChild' /\ StoppingByStop'
      /\ MonitorOrder' /\ ShutdownEmpties' /\ PreparedFirst' /\ ReceiptFirst'
      /\ SignalAfterReceipt' /\ AliveOwned' /\ DownIsBlank'
  BY DEF ObserveAccounting, process, disk, latches, thread, monitor, bounds,
         IInv, LockHeld, SpawnsModel, RestartAfterMonitor, UnspawnedUnknown,
         PlaceFree, NewUnwatched, StopOwnsChild, StoppingByStop, MonitorOrder,
         ShutdownEmpties, PreparedFirst, ReceiptFirst, HasReceipt,
         SignalAfterReceipt, AliveOwned, DownIsBlank
<1> QED BY <1>1, <1>2 DEF IInv, TypeOK

LEMMA ExitInv ==
  ASSUME IInv, NEW g \in Gens, Exit(g)
  PROVE  IInv'
<1>1. /\ ProcessType' /\ FileType' /\ BookType' /\ ControlType' /\ StepType'
      /\ CallType' /\ MonitorType'
  BY DEF Exit, disk, latches, books, thread, monitor, bounds, IInv, TypeOK,
         ProcessType, FileType, BookType, ControlType, StepType, CallType,
         MonitorType
<1>2. /\ LockHeld' /\ SpawnsModel' /\ RestartAfterMonitor' /\ UnspawnedUnknown'
      /\ PlaceFree' /\ NewUnwatched' /\ StopOwnsChild' /\ StoppingByStop'
      /\ MonitorOrder' /\ ShutdownEmpties' /\ PreparedFirst' /\ ReceiptFirst'
      /\ SignalAfterReceipt' /\ AliveOwned' /\ DownIsBlank'
  BY DEF Exit, disk, latches, thread, monitor, bounds, IInv, LockHeld,
         SpawnsModel, RestartAfterMonitor, UnspawnedUnknown, PlaceFree,
         NewUnwatched, StopOwnsChild, StoppingByStop, MonitorOrder,
         ShutdownEmpties, PreparedFirst, ReceiptFirst, HasReceipt,
         SignalAfterReceipt, AliveOwned, DownIsBlank
<1> QED BY <1>1, <1>2 DEF IInv, TypeOK

LEMMA DaemonExitInv ==
  ASSUME IInv, DaemonExit
  PROVE  IInv'
<1>1. /\ ProcessType' /\ FileType' /\ BookType' /\ StepType' /\ CallType'
      /\ MonitorType'
  BY DEF DaemonExit, Each, NoCall, NoTotals, Unwatched, Unseen, process, disk,
         IInv, TypeOK, ProcessType, FileType, BookType, StepType, CallType,
         MonitorType, Kinds
<1>2. ControlType'
  <2>1. exits' \in 0..MaxExits
    BY ServeManagerAssumption DEF DaemonExit, IInv, TypeOK, ControlType
  <2> QED BY <2>1 DEF DaemonExit, IInv, TypeOK, ControlType, thread, bounds
<1>3. /\ LockHeld' /\ SpawnsModel' /\ RestartAfterMonitor' /\ UnspawnedUnknown'
      /\ PlaceFree' /\ NewUnwatched' /\ StopOwnsChild' /\ StoppingByStop'
      /\ MonitorOrder' /\ ShutdownEmpties' /\ PreparedFirst' /\ ReceiptFirst'
      /\ SignalAfterReceipt' /\ AliveOwned' /\ DownIsBlank'
  BY DEF Threads, DaemonExit, Each, NoCall, Unwatched, process, IInv, TypeOK,
         LockHeld, SpawnsModel, StartKinds, RestartAfterMonitor,
         UnspawnedUnknown, PlaceFree, NewUnwatched, NewSteps, StopOwnsChild,
         StopSteps, StoppingByStop, MonitorOrder, AfterExit, AfterForget,
         ShutdownEmpties, PreparedFirst, disk, ReceiptFirst, SignalSteps,
         HasReceipt, SignalAfterReceipt, AliveOwned, ControlType, DownIsBlank
<1> QED BY <1>1, <1>2, <1>3 DEF IInv, TypeOK

LEMMA ReadoptInv ==
  ASSUME IInv, Readopt
  PROVE  IInv'
<1>1. /\ ProcessType' /\ FileType' /\ BookType' /\ CallType' /\ MonitorType'
      /\ StepType' /\ ControlType'
  BY DEF Readopt, process, books, IInv, TypeOK, ProcessType, FileType,
         BookType, Kinds, ReceiptKinds, Adopt, thread, CallType, MonitorType,
         StepType, Attach, latches, ControlType
<1>2. /\ LockHeld' /\ SpawnsModel' /\ UnspawnedUnknown' /\ PreparedFirst'
      /\ SignalAfterReceipt'
  BY DEF Readopt, Adopt, process, thread, IInv, TypeOK, MonitorType, LockHeld,
         SpawnsModel, UnspawnedUnknown, PreparedFirst, SignalAfterReceipt,
         HasReceipt
<1>3. /\ RestartAfterMonitor' /\ PlaceFree' /\ NewUnwatched' /\ StopOwnsChild'
      /\ StoppingByStop' /\ MonitorOrder' /\ ShutdownEmpties' /\ AliveOwned'
      /\ DownIsBlank' /\ ReceiptFirst'
  <2>1. Gens \subseteq Threads
    BY DEF Threads
  <2>2. \A g \in Gens : pc'[g] = "idle"
    BY <2>1, BootState
  <2> QED BY <2>2, BootState
          DEF RestartAfterMonitor, PlaceFree, NewUnwatched, StopOwnsChild,
              StoppingByStop, MonitorOrder, ShutdownEmpties, AliveOwned,
              DownIsBlank, ReceiptFirst, StartSteps, NewSteps, StopSteps,
              SignalSteps, AfterExit, AfterForget
<1> QED BY <1>1, <1>2, <1>3 DEF IInv, TypeOK

LEMMA StutterInv == IInv /\ UNCHANGED vars => IInv'
  BY DEF vars, process, disk, latches, books, thread, monitor, bounds, IInv,
         TypeOK, ProcessType, FileType, BookType, ControlType, StepType,
         CallType, MonitorType, LockHeld, SpawnsModel, RestartAfterMonitor,
         UnspawnedUnknown, PlaceFree, NewUnwatched, StopOwnsChild,
         StoppingByStop, MonitorOrder, ShutdownEmpties, PreparedFirst,
         ReceiptFirst, SignalAfterReceipt, HasReceipt, AliveOwned, DownIsBlank

LEMMA NextInv == IInv /\ [Next]_vars => IInv'
<1> SUFFICES ASSUME IInv, [Next]_vars PROVE IInv'
  OBVIOUS
<1>1. ASSUME NEW t \in Threads, ThreadStep(t) PROVE IInv'
  BY <1>1, StartGateInv, SpawnInv, PublishInv, PersistInv, BeginWatchInv,
     StopGateInv, PrepareStopInv, PersistReceiptInv, TerminateInv, KillInv,
     AwaitKillInv, UndoInv
     DEF ThreadStep
<1>2. ASSUME NEW g \in Gens, Reap(g) PROVE IInv'
  BY <1>2, ObserveExitInv, CrashReceiptInv, ForgetInv, ClearRecordInv,
     SetReapedInv, DecideInv, RestartAsyncInv
     DEF Reap
<1> QED BY <1>1, <1>2, CallInv, FetchStatsInv, ObserveAccountingInv, ExitInv,
           DaemonExitInv, ReadoptInv, StutterInv
        DEF Next

(* Where every call is, where every monitor is and what the manager        *)
(* remembers agree, under every interleaving of calls, monitors, crashes,  *)
(* auto-restarts and daemon exits.                                         *)
THEOREM ServeInvariantHolds == Spec => []IInv
<1> QED BY InitInv, NextInv, PTL DEF Spec

-----------------------------------------------------------------------------
(* What follows from it. *)

(* Every variable of the manager, its threads and its files has its type:  *)
(* no error is filed as a receipt, no call publishes what it did not spawn. *)
THEOREM ServeTypeCorrect == Spec => []TypeOK
<1>1. IInv => TypeOK
  BY DEF IInv
<1> QED BY <1>1, ServeInvariantHolds, PTL

(* _stop signals only after _prepare_and_persist_accounting has made a     *)
(* receipt durable, across daemon exits and adopted children.              *)
THEOREM ReceiptBeforeSignal == Spec => []SignalAfterReceipt
<1>1. IInv => SignalAfterReceipt
  BY DEF IInv
<1> QED BY <1>1, ServeInvariantHolds, PTL

LEMMA OneOwner ==
  ASSUME IInv, exits = 0
  PROVE  OneServe
<1>1. ASSUME NEW g \in alive, NEW h \in alive
      PROVE  g = h
  <2>1. g \in Gens /\ h \in Gens
    BY DEF IInv, TypeOK, ProcessType
  <2>2. ASSUME NEW s \in Threads, NEW t \in Threads,
               pc[s] = "publish", pc[t] = "publish"
        PROVE  s = t
    BY <2>2, Alone
  <2>3. \A t \in Threads : pc[t] = "publish" => child = None
    BY DEF IInv, PlaceFree, StartSteps
  <2> QED BY <2>1, <2>2, <2>3, ServeManagerAssumption DEF IInv, AliveOwned
<1> QED BY <1>1 DEF IInv, AliveOwned, OneServe

(* In one life of the daemon at most one serve runs, and it is the child   *)
(* or the one _start is about to publish.                                  *)
THEOREM OneServeHolds == Spec => [](exits = 0 => OneServe)
<1>1. IInv /\ exits = 0 => OneServe
  BY OneOwner
<1> QED BY <1>1, ServeInvariantHolds, PTL

LEMMA NothingAlive ==
  ASSUME IInv, exits = 0, child = None, \A t \in Threads : pc[t] # "publish"
  PROVE  alive = {}
  BY ServeManagerAssumption DEF IInv, AliveOwned, TypeOK, ProcessType

(* Once shutdown has returned there is no serve for the exiting daemon to  *)
(* leave behind, and none can be started.                                  *)
THEOREM ShutdownIsFinalHolds == Spec => [](exits = 0 => ShutdownIsFinal)
<1>1. IInv /\ exits = 0 => ShutdownIsFinal
  <2> SUFFICES ASSUME IInv, exits = 0, shutdownRequested, lifecycle = None
               PROVE  child = None /\ alive = {}
    BY DEF ShutdownIsFinal
  <2>1. \A t \in Threads : pc[t] \in {"idle", "enter"}
    BY ServeManagerAssumption DEF IInv, LockHeld, Threads
  <2>2. child = None
    BY <2>1 DEF IInv, ShutdownEmpties, StopSteps
  <2> QED BY <2>1, <2>2, NothingAlive
<1> QED BY <1>1, ServeInvariantHolds, PTL

LEMMA OnlySpawn ==
  ASSUME IInv, [Next]_vars,
         NEW g \in Gens, cmdline[g] = None, cmdline'[g] # None
  PROVE  \E t \in Threads : Spawn(t)
<1>1. cmdline' # cmdline
  OBVIOUS
<1> QED BY <1>1
        DEF Next, Call, ThreadStep, StartGate, Publish, Persist, BeginWatch,
            StopGate, PrepareStop, PersistReceipt, Terminate, Kill, AwaitKill,
            SignalStep, Undo, Reap, ObserveExit, CrashReceipt, Forget,
            ClearRecord, SetReaped, Decide, RestartAsync, FetchStats,
            ObserveAccounting, Exit, DaemonExit, Readopt, vars, process

(* An auto-restart parked behind a stop or a shutdown gives way: nothing   *)
(* is spawned while one of them is the last word.                          *)
THEOREM SpawnHonoursStopHolds == Spec => SpawnHonoursStop
<1>1. IInv /\ [Next]_vars
        => [\A g \in Gens : cmdline[g] = None /\ cmdline'[g] # None
              => ~stopRequested /\ ~shutdownRequested]_vars
  <2> SUFFICES ASSUME IInv, [Next]_vars,
                      NEW g \in Gens, cmdline[g] = None, cmdline'[g] # None
               PROVE  ~stopRequested /\ ~shutdownRequested
    OBVIOUS
  <2>1. PICK t \in Threads : Spawn(t)
    BY OnlySpawn
  <2> QED BY <2>1 DEF Spawn, IInv, PlaceFree, StartSteps
<1> QED BY <1>1, ServeInvariantHolds, PTL DEF Spec, SpawnHonoursStop

LEMMA StoppedEmpty ==
  ASSUME IInv, exits = 0, NEW t \in Threads, ThreadStep(t),
         NEW s \in Threads, result'[s] = "stopped", result[s] # "stopped"
  PROVE  child' = None /\ alive' = {}
<1>1. ASSUME NEW r, Return(t, r), r # "stopped"
      PROVE  FALSE
  BY <1>1 DEF Return, IInv, TypeOK, CallType
<1>2. result' # result
  OBVIOUS
<1>3. \/ StopGate(t) /\ child = None
      \/ (Terminate(t) \/ Kill(t) \/ AwaitKill(t)) /\ Reaped(mine[t])
  BY <1>1, <1>2 DEF ThreadStep, StartGate, Spawn, Publish, Persist, BeginWatch,
     StopGate, PrepareStop, PersistReceipt, Terminate, Kill, AwaitKill,
     SignalStep, Undo
<1>4. child = None
  BY <1>3, ReapedGone DEF Terminate, Kill, AwaitKill, SignalStep, StopSteps
<1>5. UNCHANGED <<child, alive>>
  BY <1>3 DEF StopGate, process, Terminate, Kill, AwaitKill, SignalStep
<1>6. \A u \in Threads : pc[u] # "publish"
  BY <1>3, Alone DEF StopGate, Starting, Terminate, Kill, AwaitKill, SignalStep
<1> QED BY <1>4, <1>5, <1>6, NothingAlive

LEMMA OnlyThreadsStop ==
  ASSUME IInv, [Next]_vars,
         NEW s \in Threads, result'[s] = "stopped", result[s] # "stopped"
  PROVE  \E t \in Threads : ThreadStep(t)
<1>1. result' # result
  OBVIOUS
<1>2. ~DaemonExit
  BY DEF DaemonExit, Each
<1>3. ASSUME NEW t \in Callers, Call(t)
      PROVE  FALSE
  BY <1>3 DEF Call, IInv, TypeOK, CallType, Threads
<1> QED BY <1>1, <1>2, <1>3
        DEF Next, Reap, ObserveExit, CrashReceipt, Forget, ClearRecord,
            SetReaped, Decide, RestartAsync, FetchStats, ObserveAccounting,
            Exit, Readopt, vars, thread

(* In one life of the daemon a stop that returns success leaves no child   *)
(* and no process, whatever crash, restart or call it raced with.          *)
THEOREM StopIsCompleteHolds == ASSUME MaxExits = 0 PROVE Spec => StopIsComplete
<1>1. IInv /\ [Next]_vars
        => [\A t \in Threads :
              result'[t] = "stopped" /\ result[t] # "stopped"
                => child' = None /\ alive' = {}]_vars
  <2> SUFFICES ASSUME IInv, [Next]_vars, NEW s \in Threads,
                      result'[s] = "stopped", result[s] # "stopped"
               PROVE  child' = None /\ alive' = {}
    OBVIOUS
  <2>1. exits = 0
    BY ServeManagerAssumption DEF IInv, TypeOK, ControlType
  <2>2. PICK t \in Threads : ThreadStep(t)
    BY OnlyThreadsStop
  <2> QED BY <2>1, <2>2, StoppedEmpty
<1> QED BY <1>1, ServeInvariantHolds, PTL DEF Spec, StopIsComplete

-----------------------------------------------------------------------------
(* The receipts: why no dead child goes unaccounted for and none is        *)
(* accounted for twice.  ReceiptInv is inductive relative to IInv.  Most   *)
(* actions leave receipts, guard and monitors alone; what they share is in *)
(* QuietStep, and the others have a lemma each.                            *)


\* A call that is not at one of these steps has no receipt in hand and has
\* not just published its process.
OpenSteps == {"receipt", "persist", "watch"}

\* The step begins none of these, and leaves what the others hold.
NothingOpened ==
    \A t \in Threads : pc'[t] \in OpenSteps =>
        pc[t] = pc'[t] /\ mine'[t] = mine[t] /\ prepared'[t] = prepared[t]

LEMMA InitReceipts == Init => ReceiptInv
  BY DEF Init, Each, Unwatched, ReceiptInv, DurableIsFiled, FiledIsDurable,
         WatchedIsChild, CrashedIsGone, SealPending, ForgottenHasReceipt,
         SealedOnce, SealedOrCrashed

\* A receipt is not taken back, and no process dies into being unspawned.
LEMMA QuietBooks ==
  ASSUME IInv, ReceiptInv, UNCHANGED <<receipts, durable, exits>>,
         alive' \subseteq alive, cmdline' = cmdline
  PROVE  DurableIsFiled' /\ FiledIsDurable' /\ CrashedIsGone' /\ SealedOnce'
  BY DEF ReceiptInv, DurableIsFiled, FiledIsDurable, CrashedIsGone, HasReceipt,
         SealedOnce, SealedOrCrashed

LEMMA QuietStep ==
  ASSUME IInv, ReceiptInv, UNCHANGED <<receipts, durable, exits, mon, child>>,
         alive' \subseteq alive, cmdline' = cmdline,
         guard' = guard, NothingOpened
  PROVE  ReceiptInv'
<1>1. WatchedIsChild'
  BY DEF ReceiptInv, WatchedIsChild, NothingOpened, OpenSteps
<1>2. SealPending'
  BY DEF ReceiptInv, SealPending, NothingOpened, OpenSteps
<1>3. ForgottenHasReceipt'
  BY DEF ReceiptInv, ForgottenHasReceipt, HasReceipt
<1> QED BY <1>1, <1>2, <1>3, QuietBooks DEF ReceiptInv

-----------------------------------------------------------------------------
(* Calls. *)

LEMMA OutsideGuard ==
  ASSUME IInv, NEW t \in Threads,
         \/ StartGate(t) \/ StopGate(t) \/ Terminate(t) \/ Kill(t)
         \/ AwaitKill(t) \/ Undo(t)
  PROVE  /\ UNCHANGED <<receipts, durable, exits, mon, child, alive, cmdline,
                        guard>>
         /\ NothingOpened
<1>1. UNCHANGED <<receipts, durable, exits, mon, child, alive, cmdline, guard>>
  BY DEF StartGate, StopGate, Terminate, Kill, AwaitKill, SignalStep, Undo,
         process, disk, books, monitor, bounds
<1>2. /\ pc'[t] \notin OpenSteps
      /\ \A s \in Threads : s # t => /\ pc'[s] = pc[s] /\ mine'[s] = mine[s]
                                     /\ prepared'[s] = prepared[s]
  BY DEF StartGate, StopGate, Terminate, Kill, AwaitKill, SignalStep, Undo,
         Stopped, Return, Goto, OpenSteps, IInv, TypeOK, StepType, CallType
<1> QED BY <1>1, <1>2 DEF NothingOpened

LEMMA SpawnReceipts ==
  ASSUME IInv, ReceiptInv, NEW t \in Threads, Spawn(t)
  PROVE  ReceiptInv'
<1>1. /\ UNCHANGED <<receipts, durable, exits, mon, child, guard>>
      /\ \A g \in Gens : cmdline[g] # None =>
            /\ cmdline'[g] # None
            /\ g \in alive' => g \in alive
  BY DEF Spawn, disk, books, monitor, bounds, IInv, TypeOK, ProcessType
<1>2. /\ pc'[t] \notin OpenSteps
      /\ \A s \in Threads : s # t => /\ pc'[s] = pc[s] /\ mine'[s] = mine[s]
                                     /\ prepared'[s] = prepared[s]
  BY DEF Spawn, Return, Goto, OpenSteps, IInv, TypeOK, StepType, CallType
<1>3. CrashedIsGone'
  BY <1>1 DEF ReceiptInv, CrashedIsGone, IInv, TypeOK, FileType
<1>4. WatchedIsChild' /\ SealPending'
  BY <1>1, <1>2 DEF ReceiptInv, WatchedIsChild, SealPending, OpenSteps
<1>5. DurableIsFiled' /\ FiledIsDurable' /\ ForgottenHasReceipt' /\ SealedOnce'
  BY <1>1 DEF ReceiptInv, DurableIsFiled, FiledIsDurable, ForgottenHasReceipt,
              HasReceipt, SealedOnce, SealedOrCrashed
<1> QED BY <1>3, <1>4, <1>5 DEF ReceiptInv

\* What _start does with the process it has spawned.
LEMMA PublishReceipts ==
  ASSUME IInv, ReceiptInv, NEW t \in Threads,
         Publish(t) \/ Persist(t) \/ BeginWatch(t)
  PROVE  ReceiptInv'
<1>1. /\ UNCHANGED <<receipts, durable, exits, alive, cmdline, guard>>
      /\ pc[t] \in NewSteps
  BY DEF Publish, Persist, BeginWatch, process, disk, books, bounds, NewSteps
<1>2. /\ mine[t] \in Gens /\ mon[mine[t]] = "none"
      /\ \A s \in Threads : s # t => pc[s] \in {"idle", "enter"}
  BY <1>1, Alone DEF IInv, NewUnwatched, NewSteps
<1>3. \A s \in Threads : s # t => pc'[s] = pc[s]
  BY DEF Publish, Persist, BeginWatch, Return, Goto, IInv, TypeOK, StepType
<1>4. SealPending'
  <2>1. pc'[t] # "receipt"
    BY DEF Publish, Persist, BeginWatch, Return, Goto, IInv, TypeOK, StepType
  <2> QED BY <2>1, <1>2, <1>3 DEF SealPending
<1>5. CASE Publish(t)
  <2>1. mon' = mon /\ child' = mine[t] /\ mine' = mine /\ child = None
    BY <1>5 DEF Publish, monitor, IInv, PlaceFree, StartSteps
  <2>2. WatchedIsChild'
    BY <2>1, <1>2, <1>3, ServeManagerAssumption
       DEF ReceiptInv, WatchedIsChild
  <2>3. ForgottenHasReceipt'
    BY <1>1, <2>1 DEF ReceiptInv, ForgottenHasReceipt, HasReceipt
  <2> QED BY <1>1, <1>4, <2>2, <2>3, QuietBooks DEF ReceiptInv
<1>6. CASE Persist(t)
  <2>1. /\ mon' = mon /\ child' = child /\ child = mine[t]
        /\ pc'[t] \in {"persist", "watch"} => mine'[t] = mine[t]
    BY <1>6 DEF Persist, Return, Goto, monitor, ReceiptInv, WatchedIsChild,
                IInv, TypeOK, StepType
  <2>2. WatchedIsChild'
    BY <2>1, <1>2, <1>3 DEF ReceiptInv, WatchedIsChild
  <2>3. ForgottenHasReceipt'
    BY <1>1, <2>1 DEF ReceiptInv, ForgottenHasReceipt, HasReceipt
  <2> QED BY <1>1, <1>4, <2>2, <2>3, QuietBooks DEF ReceiptInv
<1>7. CASE BeginWatch(t)
  <2>1. /\ child' = child /\ child = mine[t] /\ pc'[t] = "idle"
        /\ \A g \in Gens : mon'[g] = IF g = mine[t] THEN "wait" ELSE mon[g]
    BY <1>7 DEF BeginWatch, Return, ReceiptInv, WatchedIsChild, IInv, TypeOK,
                StepType, MonitorType
  <2>2. WatchedIsChild'
    BY <2>1, <1>2, <1>3 DEF ReceiptInv, WatchedIsChild
  <2>3. ForgottenHasReceipt'
    BY <1>1, <2>1 DEF ReceiptInv, ForgottenHasReceipt, HasReceipt
  <2> QED BY <1>1, <1>4, <2>2, <2>3, QuietBooks DEF ReceiptInv
<1> QED BY <1>5, <1>6, <1>7

\* Only a live engine seals its totals, and a reported crash is of a dead one.
LEMMA PrepareReceipts ==
  ASSUME IInv, ReceiptInv, NEW t \in Threads, PrepareStop(t)
  PROVE  ReceiptInv'
<1>1. /\ UNCHANGED <<receipts, durable, exits, alive, cmdline, mon, child, mine>>
      /\ guard' = t
  BY DEF PrepareStop, process, disk, books, monitor, bounds
<1>2. /\ pc'[t] = "receipt"
      /\ \A s \in Threads : s # t => pc'[s] \in {"idle", "enter"}
  BY Alone DEF PrepareStop, Goto, IInv, TypeOK, StepType
<1>3. /\ prepared'[t] # "crash"
      /\ prepared'[t] = "sealed" => mine[t] \in alive
  BY DEF PrepareStop, Preparable, IInv, TypeOK, CallType
<1>4. SealPending'
  BY <1>1, <1>2, <1>3 DEF SealPending, ReceiptInv, CrashedIsGone
<1>5. WatchedIsChild' /\ ForgottenHasReceipt'
  BY <1>1, <1>2 DEF ReceiptInv, WatchedIsChild, ForgottenHasReceipt, HasReceipt
<1> QED BY <1>1, <1>4, <1>5, QuietBooks DEF ReceiptInv

LEMMA PersistReceiptReceipts ==
  ASSUME IInv, ReceiptInv, NEW t \in Threads, PersistReceipt(t)
  PROVE  ReceiptInv'
<1>1. UNCHANGED <<exits, alive, cmdline, mon, child, mine, prepared>>
  BY DEF PersistReceipt, process, monitor, bounds
<1>2. \A s \in Threads : pc'[s] \in {"idle", "enter", "signal", "undo"}
  BY Alone DEF PersistReceipt, Goto, IInv, TypeOK, StepType
<1>3. SealPending'
  BY <1>2 DEF SealPending
<1>4. WatchedIsChild'
  BY <1>1, <1>2 DEF ReceiptInv, WatchedIsChild
<1>5. CASE UNCHANGED <<receipts, books>>
  <2>1. ForgottenHasReceipt'
    BY <1>1, <1>5 DEF ReceiptInv, ForgottenHasReceipt, HasReceipt
  <2> QED BY <1>1, <1>3, <1>4, <1>5, <2>1, QuietBooks DEF ReceiptInv, books
<1>6. ASSUME NEW totals, HasPrepared(t),
             MakeDurable(Receipt(mine[t], prepared[t], totals))
      PROVE  ReceiptInv'
  <2> DEFINE new == Receipt(mine[t], prepared[t], totals)
  <2>1. /\ receipts' = receipts \cup {new} /\ durable' = durable \cup {mine[t]}
        /\ new.gen = mine[t] /\ new.kind = prepared[t]
    BY <1>6 DEF MakeDurable, Receipt
  <2>2. /\ new.kind # "crash"
        /\ new.kind = "sealed" =>
             \A r \in receipts : r.gen = new.gen => r.kind # "crash"
    BY <2>1 DEF PersistReceipt, ReceiptInv, SealPending
  <2>3. DurableIsFiled' /\ FiledIsDurable'
    BY <1>1, <2>1 DEF ReceiptInv, DurableIsFiled, FiledIsDurable, HasReceipt
  <2>4. CrashedIsGone' /\ SealedOnce'
    BY <1>1, <2>1, <2>2
       DEF ReceiptInv, CrashedIsGone, SealedOnce, SealedOrCrashed
  <2>5. ForgottenHasReceipt'
    BY <1>1, <2>1 DEF ReceiptInv, ForgottenHasReceipt, HasReceipt
  <2> QED BY <1>3, <1>4, <2>3, <2>4, <2>5 DEF ReceiptInv
<1> QED BY <1>5, <1>6 DEF PersistReceipt

-----------------------------------------------------------------------------
(* Monitors. *)

LEMMA MonitorMoves ==
  ASSUME IInv, NEW g \in Gens, NEW from, NEW to, MonitorStep(g, from, to)
  PROVE  /\ mon[g] = from /\ mon'[g] = to
         /\ \A h \in Gens : h # g => mon'[h] = mon[h]
  BY DEF MonitorStep, IInv, TypeOK, MonitorType

\* The monitor finds its child where it left it, so it reports it.
LEMMA ObserveExitReceipts ==
  ASSUME IInv, ReceiptInv, NEW g \in Gens, ObserveExit(g)
  PROVE  ReceiptInv'
<1>1. UNCHANGED <<receipts, durable, exits, alive, cmdline, child, guard, pc,
                  mine, prepared>>
  BY DEF ObserveExit, process, disk, books, thread, bounds
<1>2. child = g /\ mon'[g] = "account" /\ \A h \in Gens : h # g => mon'[h] = mon[h]
  BY MonitorMoves DEF ObserveExit, ReceiptInv, WatchedIsChild
<1>3. WatchedIsChild' /\ SealPending' /\ ForgottenHasReceipt'
  BY <1>1, <1>2 DEF ReceiptInv, WatchedIsChild, SealPending,
                    ForgottenHasReceipt, HasReceipt
<1> QED BY <1>1, <1>3, QuietBooks DEF ReceiptInv

\* The guard is free, so no stop is about to file totals of the child; the
\* child is not durable, so none has.
LEMMA CrashReceiptReceipts ==
  ASSUME IInv, ReceiptInv, NEW g \in Gens, CrashReceipt(g)
  PROVE  ReceiptInv'
<1>1. /\ UNCHANGED <<exits, alive, cmdline, child, guard, pc, mine, prepared>>
      /\ guard = None
  BY DEF CrashReceipt, process, thread, bounds
<1>2. /\ mon[g] = "account" /\ mon'[g] = "forget"
      /\ \A h \in Gens : h # g => mon'[h] = mon[h]
  BY MonitorMoves DEF CrashReceipt
<1>3. g \notin alive /\ cmdline[g] # None
  BY <1>2 DEF IInv, MonitorOrder, AfterExit, UnspawnedUnknown
<1>4. SealPending'
  BY <1>1, ServeManagerAssumption DEF ReceiptInv, SealPending, Threads
<1>5. WatchedIsChild'
  BY <1>1, <1>2 DEF ReceiptInv, WatchedIsChild
<1>6. CASE UNCHANGED <<receipts, books>>
  <2>1. DiskMayFail \/ HasReceipt(g)
    <3>1. CASE Accounted(g)
      BY <3>1 DEF Accounted, ReceiptInv, DurableIsFiled
    <3>2. ~Accounted(g) => ~MakeDurable(Receipt(g, "crash", observed[g]))
      BY <1>6 DEF MakeDurable, Receipt, Accounted, books
    <3> QED BY <3>1, <3>2 DEF CrashReceipt
  <2>2. ForgottenHasReceipt'
    BY <1>2, <1>6, <2>1 DEF ReceiptInv, ForgottenHasReceipt, HasReceipt
  <2> QED BY <1>1, <1>4, <1>5, <1>6, <2>2, QuietBooks DEF ReceiptInv, books
<1>7. CASE ~Accounted(g) /\ MakeDurable(Receipt(g, "crash", observed[g]))
  <2> DEFINE new == Receipt(g, "crash", observed[g])
  <2>1. /\ receipts' = receipts \cup {new} /\ durable' = durable \cup {g}
        /\ new.gen = g /\ new.kind = "crash"
    BY <1>7 DEF MakeDurable, Receipt
  <2>2. exits = 0 => \A r \in receipts : r.gen # g
    BY <1>7 DEF Accounted, ReceiptInv, FiledIsDurable
  <2>3. DurableIsFiled' /\ FiledIsDurable'
    BY <1>1, <2>1 DEF ReceiptInv, DurableIsFiled, FiledIsDurable, HasReceipt
  <2>4. CrashedIsGone' /\ SealedOnce'
    BY <1>1, <1>3, <2>1, <2>2
       DEF ReceiptInv, CrashedIsGone, SealedOnce, SealedOrCrashed
  <2>5. ForgottenHasReceipt'
    BY <1>2, <2>1 DEF ReceiptInv, ForgottenHasReceipt, HasReceipt
  <2> QED BY <1>4, <1>5, <2>3, <2>4, <2>5 DEF ReceiptInv
<1> QED BY <1>6, <1>7 DEF CrashReceipt

\* From there on the monitor only moves on, and takes its child away.
LEMMA LateMonitorReceipts ==
  ASSUME IInv, ReceiptInv, NEW g \in Gens,
         \/ Forget(g) \/ ClearRecord(g) \/ SetReaped(g) \/ Decide(g)
         \/ RestartAsync(g)
  PROVE  ReceiptInv'
<1>1. UNCHANGED <<receipts, durable, exits, alive, cmdline, guard, mine,
                  prepared>>
  BY DEF Forget, ClearRecord, SetReaped, Decide, RestartAsync, process, disk,
         books, thread, bounds
<1>2. /\ mon[g] \in AfterExit \ {"account"}
      /\ mon'[g] \in AfterExit \ {"account"}
      /\ \A h \in Gens : h # g => mon'[h] = mon[h]
  BY MonitorMoves DEF Forget, ClearRecord, SetReaped, Decide, RestartAsync,
                      AfterExit
<1>3. \A t \in Threads : pc'[t] = pc[t] \/ pc'[t] = "enter"
  BY DEF Forget, ClearRecord, SetReaped, Decide, RestartAsync, thread, IInv,
         TypeOK, StepType, Threads
<1>4. child' = child \/ (child = g /\ child' = None)
  BY DEF Forget, ClearRecord, SetReaped, Decide, RestartAsync
<1>5. \A t \in Threads : pc[t] \in NewSteps => mine[t] # g
  BY <1>2 DEF IInv, NewUnwatched, AfterExit
<1>6. WatchedIsChild'
  BY <1>1, <1>2, <1>3, <1>4, <1>5
     DEF ReceiptInv, WatchedIsChild, AfterExit, NewSteps
<1>7. SealPending'
  BY <1>1, <1>3 DEF ReceiptInv, SealPending
<1>8. ForgottenHasReceipt'
  BY <1>1, <1>2 DEF ReceiptInv, ForgottenHasReceipt, HasReceipt, AfterExit
<1> QED BY <1>1, <1>6, <1>7, <1>8, QuietBooks DEF ReceiptInv

-----------------------------------------------------------------------------
(* The daemon and its surroundings. *)

LEMMA OutsideCalls ==
  ASSUME IInv,
         \/ \E t \in Callers : Call(t)
         \/ \E g \in Gens : Exit(g)
         \/ FetchStats \/ ObserveAccounting \/ UNCHANGED vars
  PROVE  /\ UNCHANGED <<receipts, durable, exits, mon, child, cmdline, guard>>
         /\ alive' \subseteq alive /\ NothingOpened
<1>1. /\ UNCHANGED <<receipts, durable, exits, mon, child, cmdline, guard,
                     mine, prepared>>
      /\ alive' \subseteq alive
  BY DEF Call, Exit, FetchStats, ObserveAccounting, vars, process, disk, books,
         thread, monitor, bounds
<1>2. \A t \in Threads : pc'[t] = pc[t] \/ pc'[t] = "enter"
  BY DEF Call, Exit, FetchStats, ObserveAccounting, vars, thread, IInv, TypeOK,
         StepType
<1> QED BY <1>1, <1>2 DEF NothingOpened, OpenSteps

\* A new daemon remembers nothing and finds every receipt on disk.
LEMMA DaemonExitReceipts ==
  ASSUME IInv, ReceiptInv, DaemonExit
  PROVE  ReceiptInv'
<1>1. /\ UNCHANGED <<receipts, alive, cmdline>> /\ durable' = {}
      /\ exits' # 0
  BY ServeManagerAssumption
     DEF DaemonExit, process, disk, IInv, TypeOK, ControlType
<1>2. /\ \A t \in Threads : pc'[t] = "idle"
      /\ \A g \in Gens : mon'[g] = "none"
  BY DEF DaemonExit, Each, Unwatched
<1>3. /\ DurableIsFiled' /\ FiledIsDurable' /\ CrashedIsGone' /\ SealedOnce'
      /\ WatchedIsChild' /\ SealPending' /\ ForgottenHasReceipt'
  BY <1>1, <1>2 DEF ReceiptInv, DurableIsFiled, FiledIsDurable, CrashedIsGone,
     SealedOnce, WatchedIsChild, SealPending, ForgottenHasReceipt
<1> QED BY <1>3 DEF ReceiptInv

LEMMA ReadoptReceipts ==
  ASSUME IInv, ReceiptInv, Readopt
  PROVE  ReceiptInv'
<1>1. UNCHANGED <<receipts, durable, exits, alive, cmdline>>
  BY DEF Readopt, process, books
<1>2. /\ \A t \in Threads : pc'[t] = "idle"
      /\ \A g \in Gens : mon'[g] = IF g = child' THEN "wait" ELSE "none"
  BY BootState
<1>3. WatchedIsChild' /\ SealPending' /\ ForgottenHasReceipt'
  BY <1>2 DEF WatchedIsChild, SealPending, ForgottenHasReceipt
<1> QED BY <1>1, <1>3, QuietBooks DEF ReceiptInv

LEMMA NextReceipts == IInv /\ ReceiptInv /\ [Next]_vars => ReceiptInv'
<1> SUFFICES ASSUME IInv, ReceiptInv, [Next]_vars PROVE ReceiptInv'
  OBVIOUS
<1>1. ASSUME NEW t \in Threads, ThreadStep(t) PROVE ReceiptInv'
  <2>1. CASE \/ StartGate(t) \/ StopGate(t) \/ Terminate(t) \/ Kill(t)
             \/ AwaitKill(t) \/ Undo(t)
    <3>1. /\ UNCHANGED <<receipts, durable, exits, mon, child, alive, cmdline,
                         guard>>
          /\ NothingOpened
      BY <2>1, OutsideGuard
    <3> QED BY <3>1, QuietStep
  <2> QED BY <1>1, <2>1, SpawnReceipts, PublishReceipts, PrepareReceipts,
             PersistReceiptReceipts DEF ThreadStep
<1>2. ASSUME NEW g \in Gens, Reap(g) PROVE ReceiptInv'
  BY <1>2, ObserveExitReceipts, CrashReceiptReceipts, LateMonitorReceipts
     DEF Reap
<1>3. CASE \/ \E t \in Callers : Call(t)
           \/ \E g \in Gens : Exit(g)
           \/ FetchStats \/ ObserveAccounting \/ UNCHANGED vars
  BY <1>3, OutsideCalls, QuietStep
<1> QED BY <1>1, <1>2, <1>3, DaemonExitReceipts, ReadoptReceipts DEF Next

(* What is remembered as durable is on disk, a monitor reports the child   *)
(* it watches, and the guard keeps a stop and a monitor from filing the    *)
(* same process (_accounting_guard, _durable_accounting).                  *)
THEOREM ReceiptInvariantHolds == Spec => []ReceiptInv
<1> QED BY InitReceipts, NextReceipts, ServeInvariantHolds, PTL DEF Spec

(* Unless the disk refused the write, no dead child is forgotten before a  *)
(* receipt of it is durable: not when a stop raced the crash, not for an   *)
(* adopted child, not across daemon exits (_reap,                          *)
(* _persist_crash_accounting).                                             *)
THEOREM NoneForgottenUnaccounted == Spec => []ForgottenHasReceipt
<1>1. ReceiptInv => ForgottenHasReceipt
  BY DEF ReceiptInv
<1> QED BY <1>1, ReceiptInvariantHolds, PTL

(* In one life of the daemon no process has both sealed totals and a crash *)
(* receipt, whichever of stop and monitor is first (the accounting guard). *)
THEOREM SealedIsTheLastWord == Spec => [](exits = 0 => SealedOrCrashed)
<1>1. ReceiptInv => (exits = 0 => SealedOrCrashed)
  BY DEF ReceiptInv, SealedOnce
<1> QED BY <1>1, ReceiptInvariantHolds, PTL

=============================================================================
