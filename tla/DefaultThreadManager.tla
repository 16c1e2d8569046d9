------------------------ MODULE DefaultThreadManager ------------------------
(***************************************************************************)
(* vigine::threading::DefaultThreadManager: the scheduler.  Callers submit *)
(* runnables to the pool, to a dedicated thread, to a named thread or to   *)
(* the main-thread queue; workers execute them and settle their handles;   *)
(* owners register and unregister named threads; one thread shuts the      *)
(* manager down.  Every entry point may run on any thread at any time, so  *)
(* each step below is one critical section, atomic access or blocking wait *)
(* of the code and all of them interleave.                                 *)
(*                                                                         *)
(* A task is one call of schedule, scheduleOnNamed or postToMainThread: it *)
(* names the caller's thread during the call, then the queue entry (its    *)
(* runnable and its handle).  A queue the call creates, and the thread     *)
(* that serves that queue, bear the name of the task too.                  *)
(***************************************************************************)
EXTENDS AbstractThreadManager, Sequences, Functions

CONSTANTS
    Tasks,        \* the calls that submit a runnable
    PoolWorkers,  \* the threads of the worker pool
    Owners,       \* the threads that register and unregister named threads
    Affinities,   \* the kinds of submission explored
    MayUnregister, MayShutDown, MayCancel  \* the optional parts explored

Pool  == "pool"    \* Impl::pool
Main  == "main"    \* Impl::mainQueue
Batch == "batch"   \* the local deque runMainThreadPump swaps mainQueue into
Pump  == "pump"    \* the thread inside runMainThreadPump
None  == "none"

AllAffinities == {"pool", "main", "post", "dedicated", "named", "invalid"}

ASSUME SchedulerAssumption ==
    /\ PoolWorkers # {}
    /\ IsFiniteSet(Tasks)
    /\ {Pool, Main, Batch, Pump, None} \cap (Tasks \cup PoolWorkers) = {}
    /\ Tasks \cap PoolWorkers = {}
    /\ Affinities \subseteq AllAffinities
    /\ {MayUnregister, MayShutDown, MayCancel} \subseteq BOOLEAN

Queues  == {Pool, Main, Batch} \cup Tasks
Workers == PoolWorkers \cup {Pump} \cup Tasks
QueueOf(w) == IF w \in PoolWorkers THEN Pool ELSE IF w = Pump THEN Batch ELSE w

VARIABLES
    \* the calls
    pc, kind, named, target,
    \* the tasks: TaskHandle::_result and _cancelRequested
    handle, cancelled,
    \* the queues: WorkQueue::_items, _stopped, and which were destroyed
    items, stopped, freed,
    \* the threads: where each is and the entry it holds
    worker, job,
    \* Impl::dedicatedSlots and Impl::namedSlots
    dedicatedSlots, namedSlots,
    \* the owners of named threads: their call, its id, the slot they took
    opc, oid, oslot,
    \* shutdown(): its progress, the slots it swapped out, those left to join
    spc, held, todo,
    \* history: how often each runnable was entered, and the calls of the
    \* same lane that had already returned when a call was made
    runs, ahead

callVars   == <<pc, kind, named, target, ahead>>
taskVars   == <<handle, cancelled, runs>>
queueVars  == <<items, stopped, freed>>
workerVars == <<worker, job>>
slotVars   == <<dedicatedSlots, namedSlots>>
ownerVars  == <<opc, oid, oslot>>
closeVars  == <<spc, held, todo>>
vars == <<baseVars, callVars, taskVars, queueVars, workerVars, slotVars, ownerVars, closeVars>>

Outcomes == {"pending", "ran", "cancelled", "refused", "closed"}
NoId     == [index |-> 0, generation |-> 0]

Init ==
    /\ BaseInit
    /\ pc = [t \in Tasks |-> "idle"]
    /\ kind = [t \in Tasks |-> None]
    /\ named = [t \in Tasks |-> NoId]
    /\ target = [t \in Tasks |-> None]
    /\ handle = [t \in Tasks |-> "pending"]
    /\ cancelled = {}
    /\ items = [q \in Queues |-> <<>>]
    /\ stopped = {} /\ freed = {}
    /\ worker = [w \in Workers |-> IF w \in Tasks THEN "none" ELSE "waiting"]
    /\ job = [w \in Workers |-> None]
    /\ dedicatedSlots = {}
    /\ namedSlots = [i \in Index |-> None]
    /\ opc = [o \in Owners |-> "idle"]
    /\ oid = [o \in Owners |-> NoId]
    /\ oslot = [o \in Owners |-> None]
    /\ spc = "open" /\ held = {} /\ todo = {}
    /\ runs = [t \in Tasks |-> 0]
    /\ ahead = [t \in Tasks |-> {}]

-----------------------------------------------------------------------------
(* Submission.                                                             *)

(* TaskHandle::settle: the first result stays.  A posted runnable carries  *)
(* no handle.                                                              *)
Settled(h, S, result) ==
    [t \in Tasks |-> IF t \in S /\ h[t] = "pending" /\ kind[t] # "post"
                     THEN result ELSE h[t]]

(* The end of a call that returns a failed handle.                         *)
Refuse(t, result) ==
    /\ pc' = [pc EXCEPT ![t] = "refused"]
    /\ handle' = Settled(handle, {t}, result)
    /\ UNCHANGED <<cancelled, runs, queueVars, workerVars>>

(* Mutant: the entry jumps the queue.                                      *)
PushFront(t, q) ==
    /\ pc' = [pc EXCEPT ![t] = "accepted"]
    /\ items' = [items EXCEPT ![q] = <<t>> \o @]
    /\ UNCHANGED <<taskVars, stopped, freed, workerVars>>

(* WorkQueue::push, or push_back on the main queue, and the call returns.  *)
Enqueue(t, q) ==
    /\ pc' = [pc EXCEPT ![t] = "accepted"]
    /\ items' = [items EXCEPT ![q] = Append(@, t)]
    /\ UNCHANGED <<taskVars, stopped, freed, workerVars>>

Lane(t)     == <<kind[t], named[t]>>
Returned(t) == pc[t] \in {"accepted", "refused", "lost"}

(* The entry of schedule, scheduleOnNamed and postToMainThread: a null     *)
(* runnable or an affinity that cannot be served ("invalid") and a manager *)
(* already shut down are refused at once.                                  *)
Submit(t, k, id) ==
    /\ pc[t] = "idle"
    /\ kind' = [kind EXCEPT ![t] = k]
    /\ named' = [named EXCEPT ![t] = id]
    /\ ahead' = [ahead EXCEPT ![t] =
                    {u \in Tasks : pc[u] = "accepted" /\ Lane(u) = <<k, id>>}]
    /\ IF k = "invalid" \/ shutDown
       THEN /\ pc' = [pc EXCEPT ![t] = "refused"]
            /\ handle' = [handle EXCEPT ![t] = IF k = "post" THEN @ ELSE "refused"]
       ELSE /\ pc' = [pc EXCEPT ![t] = k]
            /\ UNCHANGED handle
    /\ UNCHANGED <<baseVars, target, cancelled, runs, queueVars, workerVars,
                   slotVars, ownerVars, closeVars>>

(* Mutant: the stop flag is not consulted.                                 *)
PushStopped(t) ==
    /\ pc[t] = "pool"
    /\ Enqueue(t, Pool)
    /\ UNCHANGED <<baseVars, kind, named, target, ahead, slotVars, ownerVars, closeVars>>

(* schedule(Any) and schedule(Pool).                                       *)
PushPool(t) ==
    /\ pc[t] = "pool"
    /\ IF Pool \in stopped THEN Refuse(t, "closed") ELSE Enqueue(t, Pool)
    /\ UNCHANGED <<baseVars, kind, named, target, ahead, slotVars, ownerVars, closeVars>>

(* schedule(Main) and postToMainThread: the main queue has no stop flag.   *)
PushMain(t) ==
    /\ pc[t] \in {"main", "post"}
    /\ Enqueue(t, Main)
    /\ UNCHANGED <<baseVars, kind, named, target, ahead, slotVars, ownerVars, closeVars>>

(* schedule(Dedicated): reserve a slot of the cap, ...                     *)
ReserveDedicated(t) ==
    /\ pc[t] = "dedicated"
    /\ \/ /\ AcquireDedicatedSlot
          /\ pc' = [pc EXCEPT ![t] = "register"]
          /\ UNCHANGED <<taskVars, queueVars, workerVars>>
       \/ /\ dedicatedCount >= MaxDedicated
          /\ Refuse(t, "refused")
          /\ UNCHANGED baseVars
    /\ UNCHANGED <<kind, named, target, ahead, slotVars, ownerVars, closeVars>>

(* ... register the slot and start its thread under dedicatedMutex; the    *)
(* entry is pushed after the mutex is released (PushSlot).                 *)
RegisterDedicated(t) ==
    /\ pc[t] = "register"
    /\ dedicatedSlots' = dedicatedSlots \cup {t}
    /\ worker' = [worker EXCEPT ![t] = "waiting"]
    /\ target' = [target EXCEPT ![t] = t]
    /\ pc' = [pc EXCEPT ![t] = "push"]
    /\ UNCHANGED <<baseVars, kind, named, ahead, taskVars, queueVars, job,
                   namedSlots, ownerVars, closeVars>>

(* scheduleOnNamed: resolve the id under the registry's mutex, ...         *)
ResolveNamed(t) ==
    /\ pc[t] = "named"
    /\ IF Resolves(named[t])
       THEN /\ pc' = [pc EXCEPT ![t] = "slot"]
            /\ UNCHANGED <<taskVars, queueVars, workerVars>>
       ELSE Refuse(t, "refused")
    /\ UNCHANGED <<baseVars, kind, named, target, ahead, slotVars, ownerVars, closeVars>>

(* Mutant: the new slot's thread is not started.                           *)
FindSlotNoThread(t) ==
    LET i == named[t].index IN
    /\ pc[t] = "slot"
    /\ IF namedSlots[i] = None
       THEN /\ namedSlots' = [namedSlots EXCEPT ![i] = t]
            /\ target' = [target EXCEPT ![t] = t]
       ELSE /\ target' = [target EXCEPT ![t] = namedSlots[i]]
            /\ UNCHANGED namedSlots
    /\ pc' = [pc EXCEPT ![t] = "push"]
    /\ UNCHANGED <<baseVars, kind, named, ahead, taskVars, queueVars, workerVars,
                   dedicatedSlots, ownerVars, closeVars>>

(* ... find or create the slot of that index under namedMutex, and keep a  *)
(* bare pointer to its queue after the mutex is released.                  *)
FindNamedSlot(t) ==
    LET i == named[t].index IN
    /\ pc[t] = "slot"
    /\ IF namedSlots[i] = None
       THEN /\ namedSlots' = [namedSlots EXCEPT ![i] = t]
            /\ worker' = [worker EXCEPT ![t] = "waiting"]
            /\ target' = [target EXCEPT ![t] = t]
       ELSE /\ target' = [target EXCEPT ![t] = namedSlots[i]]
            /\ UNCHANGED <<namedSlots, worker>>
    /\ pc' = [pc EXCEPT ![t] = "push"]
    /\ UNCHANGED <<baseVars, kind, named, ahead, taskVars, queueVars, job,
                   dedicatedSlots, ownerVars, closeVars>>

(* The push through that pointer.  A queue that was destroyed meanwhile is *)
(* read after its life: the stale stop flag may refuse the entry, or the   *)
(* entry may vanish with the memory.                                       *)
PushSlot(t) ==
    LET q == target[t] IN
    /\ pc[t] = "push"
    /\ \/ /\ q \notin stopped \cup freed
          /\ Enqueue(t, q)
       \/ /\ q \in stopped
          /\ Refuse(t, "closed")
       \/ /\ q \in freed
          /\ pc' = [pc EXCEPT ![t] = "lost"]
          /\ UNCHANGED <<taskVars, queueVars, workerVars>>
    /\ UNCHANGED <<baseVars, kind, named, target, ahead, slotVars, ownerVars, closeVars>>

(* ITaskHandle::cancel, on the handle the call returned, only sets a flag. *)
Cancel(t) ==
    /\ MayCancel
    /\ Returned(t) /\ kind[t] # "post" /\ t \notin cancelled
    /\ cancelled' = cancelled \cup {t}
    /\ UNCHANGED <<baseVars, callVars, handle, runs, queueVars, workerVars,
                   slotVars, ownerVars, closeVars>>

-----------------------------------------------------------------------------
(* Execution: workerLoop, and the loop of runMainThreadPump.               *)

(* WorkQueue::pop with an entry in the queue; a stopped queue is no        *)
(* different as long as it is not empty.                                   *)
Pop(w) ==
    LET q == QueueOf(w) IN
    /\ worker[w] = "waiting"
    /\ items[q] # <<>>
    /\ items' = [items EXCEPT ![q] = Tail(@)]
    /\ job' = [job EXCEPT ![w] = Head(items[q])]
    /\ worker' = [worker EXCEPT ![w] = "holding"]
    /\ UNCHANGED <<baseVars, callVars, taskVars, stopped, freed, slotVars, ownerVars, closeVars>>

(* WorkQueue::pop returning nullopt ends the worker's thread.              *)
Exit(w) ==
    /\ worker[w] = "waiting"
    /\ QueueOf(w) \in stopped
    /\ items[QueueOf(w)] = <<>>
    /\ worker' = [worker EXCEPT ![w] = "exited"]
    /\ UNCHANGED <<baseVars, callVars, taskVars, queueVars, job, slotVars, ownerVars, closeVars>>

(* Mutants: a cancelled entry is settled and run all the same; or dropped  *)
(* with its handle unsettled.                                              *)
BeginSettledRuns(w) ==
    LET t == job[w] IN
    /\ worker[w] = "holding"
    /\ handle' = IF t \in cancelled THEN Settled(handle, {t}, "cancelled") ELSE handle
    /\ runs' = [runs EXCEPT ![t] = @ + 1]
    /\ worker' = [worker EXCEPT ![w] = "running"]
    /\ UNCHANGED <<baseVars, callVars, cancelled, queueVars, job, slotVars, ownerVars, closeVars>>

BeginDropsCancelled(w) ==
    LET t == job[w] IN
    /\ worker[w] = "holding"
    /\ IF t \in cancelled
       THEN /\ worker' = [worker EXCEPT ![w] = "waiting"]
            /\ job' = [job EXCEPT ![w] = None]
            /\ UNCHANGED runs
       ELSE /\ runs' = [runs EXCEPT ![t] = @ + 1]
            /\ worker' = [worker EXCEPT ![w] = "running"]
            /\ UNCHANGED job
    /\ UNCHANGED <<baseVars, callVars, handle, cancelled, queueVars, slotVars, ownerVars, closeVars>>

(* runEntry up to the call of IRunnable::run: a cancelled entry is settled *)
(* without running.                                                        *)
Begin(w) ==
    LET t == job[w] IN
    /\ worker[w] = "holding"
    /\ IF t \in cancelled
       THEN /\ handle' = Settled(handle, {t}, "cancelled")
            /\ worker' = [worker EXCEPT ![w] = "waiting"]
            /\ job' = [job EXCEPT ![w] = None]
            /\ UNCHANGED runs
       ELSE /\ runs' = [runs EXCEPT ![t] = @ + 1]
            /\ worker' = [worker EXCEPT ![w] = "running"]
            /\ UNCHANGED <<handle, job>>
    /\ UNCHANGED <<baseVars, callVars, cancelled, queueVars, slotVars, ownerVars, closeVars>>

(* The runnable returned or threw: either way its handle is settled.       *)
Finish(w) ==
    /\ worker[w] = "running"
    /\ handle' = Settled(handle, {job[w]}, "ran")
    /\ worker' = [worker EXCEPT ![w] = "waiting"]
    /\ job' = [job EXCEPT ![w] = None]
    /\ UNCHANGED <<baseVars, callVars, cancelled, runs, queueVars, slotVars, ownerVars, closeVars>>

(* runMainThreadPump swaps the main queue for an empty one, then runs what *)
(* it took.                                                                *)
SwapMain ==
    /\ worker[Pump] = "waiting" /\ items[Batch] = <<>>
    /\ items[Main] # <<>>
    /\ items' = [items EXCEPT ![Batch] = items[Main], ![Main] = <<>>]
    /\ UNCHANGED <<baseVars, callVars, taskVars, stopped, freed, workerVars,
                   slotVars, ownerVars, closeVars>>

-----------------------------------------------------------------------------
(* Owners of named threads.                                                *)

(* registerNamedThread reads the shut-down flag before it takes the lock.  *)
CheckRegister(o) ==
    /\ opc[o] = "idle" /\ ~shutDown
    /\ opc' = [opc EXCEPT ![o] = "registering"]
    /\ UNCHANGED <<baseVars, callVars, taskVars, queueVars, workerVars, slotVars,
                   oid, oslot, closeVars>>

Register(o) ==
    /\ opc[o] = "registering"
    /\ \/ \E i \in Index : RegisterNamedThread(i)
       \/ /\ liveCount >= MaxNamed
          /\ UNCHANGED baseVars
    /\ opc' = [opc EXCEPT ![o] = "idle"]
    /\ UNCHANGED <<callVars, taskVars, queueVars, workerVars, slotVars, oid, oslot, closeVars>>

(* DefaultThreadManager::unregisterNamedThread: look the slot up, ...      *)
ResolveOwned(o, id) ==
    /\ MayUnregister
    /\ opc[o] = "idle" /\ Resolves(id)
    /\ oid' = [oid EXCEPT ![o] = id]
    /\ opc' = [opc EXCEPT ![o] = "release"]
    /\ UNCHANGED <<baseVars, callVars, taskVars, queueVars, workerVars, slotVars, oslot, closeVars>>

(* ... give it back to the registry in a critical section of its own, ...  *)
ReleaseOwned(o) ==
    /\ opc[o] = "release"
    /\ ReleaseNamedThread(oid[o])
    /\ opc' = [opc EXCEPT ![o] = "take"]
    /\ UNCHANGED <<callVars, taskVars, queueVars, workerVars, slotVars, oid, oslot, closeVars>>

(* Mutant: the slot is taken but not erased from the map.                  *)
TakeSlotKeepsEntry(o) ==
    LET q == namedSlots[oid[o].index] IN
    /\ opc[o] = "take"
    /\ IF q = None
       THEN /\ opc' = [opc EXCEPT ![o] = "idle"]
            /\ oid' = [oid EXCEPT ![o] = NoId]
            /\ UNCHANGED oslot
       ELSE /\ oslot' = [oslot EXCEPT ![o] = q]
            /\ opc' = [opc EXCEPT ![o] = "stop"]
            /\ UNCHANGED oid
    /\ UNCHANGED <<baseVars, callVars, taskVars, queueVars, workerVars, slotVars, closeVars>>

(* ... take whatever slot the index holds by now, if any, ...              *)
TakeSlot(o) ==
    LET q == namedSlots[oid[o].index] IN
    /\ opc[o] = "take"
    /\ IF q = None
       THEN /\ opc' = [opc EXCEPT ![o] = "idle"]
            /\ oid' = [oid EXCEPT ![o] = NoId]
            /\ UNCHANGED <<namedSlots, oslot>>
       ELSE /\ namedSlots' = [namedSlots EXCEPT ![oid[o].index] = None]
            /\ oslot' = [oslot EXCEPT ![o] = q]
            /\ opc' = [opc EXCEPT ![o] = "stop"]
            /\ UNCHANGED oid
    /\ UNCHANGED <<baseVars, callVars, taskVars, queueVars, workerVars, dedicatedSlots, closeVars>>

StopOwned(o) ==
    /\ opc[o] = "stop"
    /\ stopped' = stopped \cup {oslot[o]}
    /\ opc' = [opc EXCEPT ![o] = "join"]
    /\ UNCHANGED <<baseVars, callVars, taskVars, items, freed, workerVars, slotVars,
                   oid, oslot, closeVars>>

(* drainStoppedQueue: fail whatever the workers left behind.               *)
Drain(q) ==
    /\ handle' = Settled(handle, Range(items[q]), "closed")
    /\ items' = [items EXCEPT ![q] = <<>>]

(* ... join its thread, drain its queue and destroy both.                  *)
JoinOwned(o) ==
    LET q == oslot[o] IN
    /\ opc[o] = "join"
    /\ worker[q] = "exited"
    /\ Drain(q)
    /\ freed' = freed \cup {q}
    /\ opc' = [opc EXCEPT ![o] = "idle"]
    /\ oid' = [oid EXCEPT ![o] = NoId]
    /\ oslot' = [oslot EXCEPT ![o] = None]
    /\ UNCHANGED <<baseVars, callVars, cancelled, runs, stopped, workerVars, slotVars, closeVars>>

-----------------------------------------------------------------------------
(* shutdown().  Only the caller whose compare-and-swap of                  *)
(* shutdownCompleted succeeds tears the manager down; every other call     *)
(* returns at once and changes nothing.                                    *)

Close(from, to) == spc = from /\ spc' = to

BeginShutdown ==
    /\ MayShutDown
    /\ Close("open", "mark")
    /\ UNCHANGED <<baseVars, callVars, taskVars, queueVars, workerVars, slotVars,
                   ownerVars, held, todo>>

Mark ==
    /\ Close("mark", "stopPool")
    /\ MarkShutDown
    /\ UNCHANGED <<callVars, taskVars, queueVars, workerVars, slotVars, ownerVars, held, todo>>

(* Mutant: nobody wakes the pool.                                          *)
StopPoolForgotten ==
    /\ Close("stopPool", "joinPool")
    /\ UNCHANGED <<baseVars, callVars, taskVars, queueVars, workerVars, slotVars,
                   ownerVars, held, todo>>

StopPool ==
    /\ Close("stopPool", "joinPool")
    /\ stopped' = stopped \cup {Pool}
    /\ UNCHANGED <<baseVars, callVars, taskVars, items, freed, workerVars, slotVars,
                   ownerVars, held, todo>>

JoinPool ==
    /\ Close("joinPool", "takeDedicated")
    /\ \A w \in PoolWorkers : worker[w] = "exited"
    /\ Drain(Pool)
    /\ UNCHANGED <<baseVars, callVars, cancelled, runs, stopped, freed, workerVars,
                   slotVars, ownerVars, held, todo>>

TakeDedicated ==
    /\ Close("takeDedicated", "stopDedicated")
    /\ dedicatedSlots' = {} /\ todo' = dedicatedSlots /\ held' = dedicatedSlots
    /\ UNCHANGED <<baseVars, callVars, taskVars, queueVars, workerVars, namedSlots, ownerVars>>

(* Mutant: a dedicated slot is uncounted before its thread was joined.     *)
StopSlotUncounts(q) ==
    /\ \/ Close("stopDedicated", "joinDedicated") /\ ReleaseDedicatedSlot
       \/ Close("stopNamed", "joinNamed") /\ UNCHANGED baseVars
    /\ q \in todo
    /\ stopped' = stopped \cup {q}
    /\ UNCHANGED <<callVars, taskVars, items, freed, workerVars, slotVars,
                   ownerVars, held, todo>>

(* Stop one of the slots that were swapped out ...                         *)
StopSlot(q) ==
    /\ \/ Close("stopDedicated", "joinDedicated")
       \/ Close("stopNamed", "joinNamed")
    /\ q \in todo
    /\ stopped' = stopped \cup {q}
    /\ UNCHANGED <<baseVars, callVars, taskVars, items, freed, workerVars, slotVars,
                   ownerVars, held, todo>>

(* ... then join it, drain it and, if it is dedicated, uncount it.         *)
JoinSlot(q) ==
    /\ q \in todo \cap stopped
    /\ worker[q] = "exited"
    /\ \/ Close("joinDedicated", "stopDedicated") /\ ReleaseDedicatedSlot
       \/ Close("joinNamed", "stopNamed") /\ UNCHANGED baseVars
    /\ Drain(q)
    /\ todo' = todo \ {q}
    /\ UNCHANGED <<callVars, cancelled, runs, stopped, freed, workerVars, slotVars, ownerVars, held>>

TakeNamed ==
    /\ Close("stopDedicated", "stopNamed")
    /\ todo = {}
    /\ LET taken == Range(namedSlots) \ {None} IN
          todo' = taken /\ held' = held \cup taken
    /\ namedSlots' = [i \in Index |-> None]
    /\ UNCHANGED <<baseVars, callVars, taskVars, queueVars, workerVars, dedicatedSlots, ownerVars>>

(* Fail what the main queue holds; on return the slots are destroyed.      *)
DrainMain ==
    /\ Close("stopNamed", "done")
    /\ todo = {}
    /\ Drain(Main)
    /\ freed' = freed \cup held
    /\ held' = {}
    /\ UNCHANGED <<baseVars, callVars, cancelled, runs, stopped, workerVars, slotVars,
                   ownerVars, todo>>

-----------------------------------------------------------------------------
CallStep(t)   == \/ PushPool(t) \/ PushMain(t) \/ ReserveDedicated(t) \/ RegisterDedicated(t)
                 \/ ResolveNamed(t) \/ FindNamedSlot(t) \/ PushSlot(t)
WorkerStep(w) == Pop(w) \/ Exit(w) \/ Begin(w) \/ Finish(w)
OwnerStep(o)  == Register(o) \/ ReleaseOwned(o) \/ TakeSlot(o) \/ StopOwned(o) \/ JoinOwned(o)
CloseStep     == \/ Mark \/ StopPool \/ JoinPool \/ TakeDedicated \/ TakeNamed \/ DrainMain
                 \/ \E q \in Tasks : StopSlot(q) \/ JoinSlot(q)

Next ==
    \/ \E t \in Tasks :
          \/ \E k \in Affinities \ {"named"} : Submit(t, k, NoId)
          \/ \E id \in issued : "named" \in Affinities /\ Submit(t, "named", id)
          \/ CallStep(t)
          \/ Cancel(t)
    \/ \E w \in Workers : WorkerStep(w)
    \/ SwapMain
    \/ \E o \in Owners :
          \/ CheckRegister(o)
          \/ \E id \in issued : ResolveOwned(o, id)
          \/ OwnerStep(o)
    \/ BeginShutdown
    \/ CloseStep

Spec == Init /\ [][Next]_vars

(* The scheduling the code relies on: the operating system runs every      *)
(* started thread, runnables return, and the main loop keeps pumping until *)
(* the manager is shut down (the engine pumps no more after that).         *)
FairSpec ==
    /\ Spec
    /\ \A t \in Tasks : WF_vars(CallStep(t))
    /\ \A w \in Workers : WF_vars(WorkerStep(w))
    /\ WF_vars(SwapMain /\ spc = "open")
    /\ \A o \in Owners : WF_vars(OwnerStep(o))
    /\ WF_vars(CloseStep)

-----------------------------------------------------------------------------
(* Every variable has its type.                                            *)
TypeOK ==
    /\ BaseTypeOK
    /\ pc \in [Tasks -> {"idle", "pool", "main", "post", "dedicated", "named",
                        "register", "slot", "push", "accepted", "refused", "lost"}]
    /\ kind \in [Tasks -> AllAffinities \cup {None}]
    /\ named \in [Tasks -> NamedId \cup {NoId}]
    /\ target \in [Tasks -> Tasks \cup {None}]
    /\ handle \in [Tasks -> Outcomes]
    /\ cancelled \subseteq Tasks
    /\ items \in [Queues -> Seq(Tasks)]
    /\ stopped \subseteq Queues /\ freed \subseteq Tasks
    /\ worker \in [Workers -> {"none", "waiting", "holding", "running", "exited"}]
    /\ job \in [Workers -> Tasks \cup {None}]
    /\ dedicatedSlots \subseteq Tasks
    /\ namedSlots \in [Index -> Tasks \cup {None}]
    /\ opc \in [Owners -> {"idle", "registering", "release", "take", "stop", "join"}]
    /\ oid \in [Owners -> NamedId \cup {NoId}]
    /\ oslot \in [Owners -> Tasks \cup {None}]
    /\ spc \in {"open", "mark", "stopPool", "joinPool", "takeDedicated", "stopDedicated",
               "joinDedicated", "stopNamed", "joinNamed", "done"}
    /\ held \subseteq Tasks /\ todo \subseteq held
    /\ runs \in [Tasks -> Nat]
    /\ ahead \in [Tasks -> SUBSET Tasks]

(* A handle tells the truth: a runnable is entered at most once, a handle  *)
(* that reports its result means it ran, and one that reports a refusal, a *)
(* cancellation or a closed queue means it never did and never will.       *)
OutcomeMatchesExecution ==
    \A t \in Tasks :
        /\ runs[t] <= 1
        /\ handle[t] = "ran" => runs[t] = 1
        /\ handle[t] \in {"cancelled", "refused", "closed"} => runs[t] = 0

LiveThreads(k) == {t \in Tasks : kind[t] = k /\ worker[t] \notin {"none", "exited"}}

(* The cap on dedicated threads bounds the threads that exist, not only    *)
(* the counter: the counter is raised before a thread starts and lowered   *)
(* after it was joined.                                                    *)
DedicatedCapBoundsThreads ==
    Cardinality(LiveThreads("dedicated")) <= dedicatedCount

(* When shutdown() returns, the pool's threads are gone and every handle   *)
(* the pool accepted has its result, whatever raced with the shutdown.     *)
ShutdownSettlesPool ==
    spc = "done" =>
        /\ \A w \in PoolWorkers : worker[w] = "exited"
        /\ \A t \in Tasks :
              pc[t] = "accepted" /\ kind[t] = "pool" => handle[t] # "pending"

SlotHolders(q) ==
    {<<"dedicated", 0>> : x \in dedicatedSlots \cap {q}}
        \cup {<<"named", i>> : i \in {j \in Index : namedSlots[j] = q}}
        \cup {<<"owner", o>> : o \in {p \in Owners : oslot[p] = q}}
        \cup {<<"shutdown", 0>> : x \in todo \cap {q}}

(* Each thread of a slot has exactly one holder while it lives: a table    *)
(* that a teardown will visit, or the one teardown that will join it.  No  *)
(* std::thread is joined twice and none is dropped while joinable.         *)
OneHolderPerThread ==
    \A t \in Tasks :
        /\ Cardinality(SlotHolders(t)) <= 1
        /\ worker[t] \in {"waiting", "holding", "running"} => SlotHolders(t) # {}

Queued(t) == \E q \in Queues : t \in Range(items[q])

(* Calls of one lane (the pool, the main queue, one named id) that follow  *)
(* each other are served in that order: a runnable never starts while an   *)
(* earlier one of its lane is still queued.  A dedicated call is a lane of *)
(* its own.  "callers that need predictable per-caller FIFO should reuse a *)
(* single NamedThreadId".                                                  *)
LaneIsFifo ==
    \A t \in Tasks :
        kind[t] # "dedicated" /\ runs[t] > 0 => \A u \in ahead[t] : ~Queued(u)

(* The same of a named thread alone, as long as its id is registered.      *)
LiveNameIsFifo ==
    \A t \in Tasks :
        Resolves(named[t]) /\ runs[t] > 0 => \A u \in ahead[t] : ~Queued(u)

(* No call pushes into the queue of a slot that was destroyed while the    *)
(* call held a bare pointer to it: "every entry point is safe to call from *)
(* any thread at any time before shutdown completes".                      *)
NoPushAfterDestruction == \A t \in Tasks : pc[t] # "lost"

(* "joins every thread before the object returns": once shutdown() has     *)
(* returned, no thread that the manager started is left.                   *)
NoThreadOutlivesShutdown ==
    spc = "done" => \A w \in Workers \ {Pump} : worker[w] \in {"none", "exited"}

(* The phase of a task, and its result, as its caller may understand them. *)
Held(t)   == \E w \in Workers : job[w] = t
Dropped(t) ==
    \/ handle[t] # "pending"
    \/ pc[t] = "refused"
    \/ pc[t] = "accepted" /\ ~Queued(t) /\ ~Held(t)
Phase(t)  == CASE runs[t] > 0 /\ Held(t)             -> "running"
               [] runs[t] > 0 /\ ~Held(t)            -> "over"
               [] runs[t] = 0 /\ pc[t] = "idle"      -> "new"
               [] runs[t] = 0 /\ Dropped(t)          -> "over"
               [] OTHER                              -> "waiting"
Result(t) == IF handle[t] \in {"pending", "ran"} THEN handle[t] ELSE "failed"

Lifecycle == INSTANCE TaskLifecycle
                 WITH phase  <- [t \in Tasks |-> Phase(t)],
                      result <- [t \in Tasks |-> Result(t)]

(* The scheduler keeps the promise of TaskLifecycle.                       *)
KeepsLifecycle == Lifecycle!LifeSpec

(* "any outstanding handles resolve with a failing Result": every handle a *)
(* caller holds gets its result, through a shutdown too.                   *)
HandlesSettle ==
    \A t \in Tasks :
        pc[t] # "idle" /\ kind[t] # "post" ~> handle[t] # "pending"

(* What the scheduler does keep: pool handles get their result through a   *)
(* shutdown that races with their calls, and all others while the manager  *)
(* is open.                                                                *)
ServedHandlesSettle ==
    \A t \in Tasks :
        pc[t] # "idle" /\ kind[t] # "post" ~>
            \/ handle[t] # "pending"
            \/ kind[t] # "pool" /\ shutDown

(* A shutdown that begins returns: no thread it joins waits forever.       *)
ShutdownReturns == spc = "mark" ~> spc = "done"
=============================================================================
