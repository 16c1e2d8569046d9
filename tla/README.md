# Vigine: models and proofs

TLA+ modules that model Vigine (`src/`), TLC runs that check them on small
instances, and theorems about its concurrent core that the TLA+ proof system
checks for every value of the constants. Paths below are relative to the
repository; `threading/` and the like stand for `src/threading/`, `.h` files are
under `include/vigine/`.

## 1. The system

Vigine is an engine in C++: a thread manager, message buses, messaging patterns
built from the two (requests, topics, channels, actors, streams, scheduled
events, pipelines), a declarative layer (graph, entities, state machine, task
flow, services) held together by a context and pumped by an engine loop, and on
top of it a window system, a Vulkan renderer, PostgreSQL bindings and two
example programs that wire everything up.

| Component | State it keeps | Operations | What must be right |
|---|---|---|---|
| Named-thread registry (`threading/abstractthreadmanager.cpp`) | slots with generations, live counter, dedicated counter, shut-down flag | register, unregister, resolve, acquire / release a dedicated slot | an id dies with its registration and never returns; the counters are exact |
| Scheduler (`threading/defaultthreadmanager.cpp`) | the pool's, the main and each slot's queue, the threads, the handles, the slots of dedicated and named threads | `schedule`, `scheduleOnNamed`, `postToMainThread`, the pump, `cancel`, unregister, `shutdown` | handles tell the truth and settle; lanes are FIFO; threads are joined once and none survives |
| Barrier, semaphore, message channel (`threading/default*.cpp`) | counters or a ring, guarded by a mutex and condition variables | arrive / wait / drop; acquire / release; send / receive / close | phases stay together; no lost wake-up; a closed channel lets everybody go |
| Message bus and control block (`messaging/`) | queue, shut-down flag, subscriptions with their locks, alive flag, table of targets | `post`, `subscribe`, `cancel`, `registerTarget`, `shutdown` | cancellation is final; each message is served once and to all it concerns; calls return; a connection finds its own target |
| Timer and signal sources (`eventscheduler/`) | armed timers and the thread that waits for the earliest; subscriptions, the handler's pipe and its reader | arm, disarm, the loops, stop | each armed timer fires, once or periodically, and not after disarm returned; the reader ends |
| Event scheduler (`eventscheduler/defaulteventscheduler.cpp`) | entries, maps from timers and signals to entries | schedule, cancel, the fire callbacks, shutdown | a cancelled event fires no more; nothing stays armed after shutdown |
| Request bus (`requestbus/defaultrequestbus.cpp`) | pending requests by correlation id, futures, time-to-live runnables, responders | request, respond, wait, expiry, shutdown | a response meets its request; every future ends: answered, expired or shut down |
| Topic bus (`topicbus/`) | names to ids by probing, subscriptions on the bus | create, publish, subscribe, shutdown | ids and names correspond one to one |
| Channel factory (`channelfactory/`) and pipeline builder | raw list of channels; each with buffer, closed flag; a list of stages | create, send, receive, close, shutdown; build, feed | shutdown closes every channel; deadlines do not overflow; a message passes the stages in order, once |
| Actor host (`actorhost/defaultactorhost.cpp`) | entries by actor id, mail queues, a named thread each | spawn, tell, stop, mailbox destruction, shutdown | mail is served in order by one thread; an entry is freed once and after its last use |
| Reactive stream (`reactivestream/`) | subscriptions with atomic demand and flags | subscribe, request, publish, complete, fail, cancel | no more items than demanded, none after the end |
| Graph core (`graph/`) | nodes and edges in slots with generations, adjacency lists | add / remove node and edge, queries, traversals | adjacency and edges agree; stale ids stay stale; traversals agree with their definition |
| Entity world (`ecs/entityworld.cpp`) | a graph of entities and components, a table of live entities | create / remove entity, attach / detach component, queries | a component lives exactly as long as its entity holds it |
| State machine (`statemachine/`) and orchestrator (`taskflow/`) | graphs: child-of edges, transitions by result code; the current node | add state / child / transition, enter | the hierarchy is a forest; one route mode for a result code |
| Legacy state machine, task flow, signal emitter (`statemachine.cpp`, `taskflow.cpp`, `signalemitter/`) | current task, signal subscriptions with an alive flag | run, emit, signal callbacks, destruction | no callback reaches a destroyed flow; a signal reaches each task it is for, once |
| Context (`context/abstractcontext.cpp`), engine (`engine/abstractengine.cpp`) | services in slots, a frozen flag; entered, running and shut-down flags, the pump's condition variable | register, freeze; run, shutdown, destruction | nothing is registered after the freeze; a shutdown ends run; posted work is pumped |
| Payload registry (`payload/`) | sorted ranges of type ids | register, owner lookup | ranges of two owners never overlap |
| Window system (`ecs/platform/`) | windows and handlers of an entity; per window the mouse, the overlay; half a character | bind, show, the message procedure | what the user does arrives once, at the right window; show ends when the user closes it |
| Renderer (`ecs/render/`) | swapchain, per-frame and per-image objects, pipelines, textures, layouts | draw, recreate, update, upload, lay out | what the GPU uses is not written to; what a frame draws is current |
| Window example (`example/window/`) | text, cursor, scroll, focus, drag, keys | edit, click, scroll, drag, the frame callback | the layout is the text's; clicks find characters; keys do not get stuck |
| PostgreSQL bindings and example | connection, transaction, schema | connect, check, create, insert, read | one session; what succeeded is in the database |

The rest is listed in section 6, and every component with its status in
`PROJECT.json`.

**How they interact.** Every pattern object holds references to one message bus
and one thread manager. The bus runs subscribers on the threads that post. Long
running work (actors, time-to-live runnables, scheduled signal deliveries) is a
runnable on the thread manager, whose handle the pattern may wait for. The event
scheduler is called back by the timer thread and by the reader of the signal
source. The engine's loop is the only pump of the main queue. Tokens
(subscriptions, connections) may outlive the bus, hence the control block they
share with it. The example programs run on one thread: the legacy state machine
runs flows of tasks, a task of the window example runs the message loop, whose
timer calls the frame callback; the GPU is the other party.

**What is hard.** Locks are short and calls leave them between looking and
acting: flags are read before the mutex that protects what the flag guards;
pointers found under a lock are used after it; teardown swaps a table out and
works on it unlocked while late callers add to the table. Notifications are sent
after the unlock. Ids carry generations against reuse. Frames in flight, images
and the surface are paired anew in every frame, and what was laid out or looked
up for one state of the text is used in the next. `PROJECT.json` lists the
hazards at their lines, with the properties that cover each.

## 2. The modules

### Thread manager (`submit`, `named_slots`, `settle`)

`AbstractThreadManager` is the registry of named threads, the cap and the
shut-down flag: one operator per critical section of `_registryMutex`
(`RegisterNamedThread`, `ReleaseNamedThread`, `MarkShutDown`) or atomic
operation (`AcquireDedicatedSlot`). It has a specification of its own
(`BaseSpec`). Generations are computed modulo `GenModulus` (2^32 in the code).

`DefaultThreadManager` EXTENDS it. A call is named by its task: `pc` says where
the call stands between its locked sections (`Submit` reads the shut-down flag,
`PushPool`, `PushMain`, `ReserveDedicated` / `RegisterDedicated`, `ResolveNamed`
/ `FindNamedSlot` / `PushSlot` do the rest). `items` and `stopped` are the
`WorkQueue`s, `worker` and `job` the threads in `workerLoop`, `handle` the
`TaskHandle`s, `dedicatedSlots` and `namedSlots` the tables. A thread that
unregisters is an owner (`ResolveOwned`, `ReleaseOwned`, `TakeSlot`,
`StopOwned`, `JoinOwned`); the shutdown is `spc` with the slots it swapped out
in `held` and `todo`. `TaskLifecycle` is the abstract specification of
`ITaskHandle` and `IThreadManager`: entered at most once, one result, a failed
task never runs. `DefaultThreadManager!KeepsLifecycle` states that the
scheduler implements it under a refinement mapping of phases and results.

### Message bus (`bus`)

`AbstractMessageBus` with the subscription half of its control block. A message
is named by the thread that posts it. `stage` is where each thread is: in the
checks of `post()`, blocked for room, serving the queue (`TakeDue` /
`FindNoneDue`, the loop of `drainQueue`), walking its snapshot (`Enter`, `Run`,
`Return`) or in `shutdown()`. A slot stands for its serial, `SlotState` and token;
`Inside(s)` are the holders of its `lifecycleMutex` in shared mode, `Running(s)`
the one that also holds `deliverMutex`. `Drain(s)` is the exclusive acquisition
in `unregisterSubscription`. The registry is a hash map, so the order of a walk
is open; how far a bubbling message climbs is `AtRoot`. Content, kind and route
of messages are data of the constants `Message` and `Filter`. `Standing` names
subscriptions that last from the start to the end.

### Things that wait (`waits`, module `MCEventScheduler`)

One component moves in each behaviour (`moving`, from `Movers`).

`DefaultBarrier`, `DefaultSemaphore` and `DefaultMessageChannel`: a step is a
pass through the mutex up to the next wait or unlock; a notification sent after
the unlock is a step of its own; waits with a timeout may give up at any moment
and any wait may end without cause.

`EventSources` are the two sources of events. Its first half is the timer thread:
it collects what is due, waits for the next deadline and only then calls back;
time is relative (`left`, `wake` count ticks), so behaviours may be infinite. Its
second half is the vector of signal subscriptions, the pipe of the handler
(`PipeRoom`) and the reader; the destructor ends the reader with a sentinel in
the pipe (`StopReader`, `ReadSentinel`). `EventScheduler` sits on both: `schedule()` reads the flag, arms
and files in three steps, cancellation lowers a flag and disarms, a callback
looks its event up under the lock and calls the raw target without it.
`Askable` are the sets of events that a behaviour may ask for. `Reentrant` names
targets that call the scheduler back.

`Engine` is `run()` with its pump, `shutdown()` from any thread or from inside a
runnable, the destructor with its final drain, the freeze of the context, the
table of services, whose generations wrap (`StampWidth`), and the buses a context
makes, with ids that are asked for or given; the mover "buses" has these without
the work and the services of "engine".

### Facades (`facades`, module `MCFacades`, variable `focus`)

`RequestBus`: futures with their state and payload, the request filed before it
is posted, the expiry runnable that keeps one of `Workers` busy for its time to
live, answers that walk over every request bus of one message bus (`Carrier`).
A request itself walks over the responders that stand (`standing`) until one of
its topic takes it; the focus "request" starts with two of them, "respond" is
their coming and going. `ActorHost`: the entry behind the registry's pointer,
the mail queue, the runnable on its named thread; `stop(id)`, the handle and
`shutdown()` each look the entry up, leave the lock and use it. `misused`
collects uses of freed entries, where the behaviour ends. `ReactiveStream`: the
demand and two flags as atomics, each read or changed in a step of its own.
`ChannelFactory`: the deadline of a wait is computed in integers of `Width` bits
with `NsPerMs`; `PipelineBuilder` runs its stages and sends into such a channel.
`BusTargets`: the slots of targets with generations that wrap
(`GenerationWidth`), connection tokens that outlive the bus, and `registerTarget`
with its two roll-backs. `TopicBus`: names hash to ids of `IdWidth` bits and are
salted until they meet a free one.

### Graph and what stands on it (`worlds`, module `MCWorlds`, variable `world`)

`Lists` is what the code does with a `std::vector` beyond appending.
`GraphCore` is the graph as one value with functions on it, each a critical
section of the graph's mutex. `GraphWalk` has the structural queries, with
reference definitions beside them (`hasCycle` against a closed walk, paths
against reachability, components against the equivalence), and `traverse()`: no
lock is held while the visitor runs, so the graph changes under the walk. The
queries are recursive functions and not RECURSIVE operators, so that theorems
can be stated about them. `EntityWorld` interleaves calls between the sections; callers in
`EcsReaders` only read. `StateTopology` and `TaskOrchestrator` are graphs with
rules; the check and the insertion of the latter are two sections.

`TaskFlow` is a flow of tasks with its signal edges and, as the two are one
protocol, `DefaultSignalEmitter`: `Emit` begins a walk over the subscriptions,
`DispatchDirect` calls a task on the emitting thread, `DispatchScheduled` hands a
copy of the header to a worker, where `CheckAlive` and `Deliver` are two steps of
one runnable. A delivery keeps what the check saw of the adapter (a history
field): a destroyed task may be reached only in the window of `run()`, by a
delivery that found the flag up and was overtaken by its fall. The world "flow" has routes and tasks that call
the flow back, "signals" has emission. `PayloadRegistry` are the ranges.
`LegacyContext` is the frame of the two example programs (services made on
demand, aliases, four states with flows); `PostgreSQLSystem` is the database
example in it, against a server that refuses, breaks off or leaves the outcome
of a commit in doubt.

### Windows and pictures (`shell`, module `MCShell`, variable `part`)

`VulkanSwapchain` pairs frames in flight with images; the GPU works through its
queue at its own pace and the surface changes its size under both. `FrameLoop`
extends it with the frame callback, the per-image buffers and the pipelines by
generation. `TextEditor` holds the layout as a pure function of bytes, complete or
from an edit on, and uses it between key events, clicks, scrolling and frames. `RunWindowInput` is who has the focus and what the camera hears.
`WindowLoop` is the window system: the registry of windows, the message loop
that ends with the thread's quit message (part "windows"), and what the message
procedure makes of the mouse (part "messages") and of UTF-16 units (part
"characters").
`RenderScene` is the window example as a whole: the init flow, whose causes of
failure are the device, the font, the images and the descriptor pool, the
uploads and frames on one GPU queue (an upload may run at any time, a frame waits
for earlier uploads), and the order of destruction at the end. An image is a
number; what a texture holds is an image's number or a generation of the atlas;
render components are keyed by their entity.

### Proof modules

`DefaultThreadManagerProofs` for the registry and the scheduler;
`AbstractMessageBusProofs` for the bus; `SyncProofs` for what stands in
`MCEventScheduler` (barrier, semaphore, channel, engine, event scheduler);
`FacadeProofs` for what stands in `MCFacades`; `GraphProofs` for the graph, its
topological order and its walks, with the lemmas about lists, recursion and
cascades; `WorldsProofs`, which extends it, for what stands on the graph in
`MCWorlds`; `ShellProofs` for what stands in `MCShell`: `VulkanSwapchain`,
`FrameLoop`, `RunWindowInput`, `WindowLoop`, and of `RenderScene` the GPU's memory.
Those that extend a module of a run prove their theorems of each component first
and of the composition last (`WaitersStep`, `FacadeStep`, `HandlersStep`,
`WorldsStep`: a step of the composition is a step of a component or leaves it
alone).

## 3. The runs

| Run | Instance | What it shows |
|---|---|---|
| `submit` | 3 calls of every affinity but named, 1 pool worker, cap 1, cancellation and shutdown; symmetric calls | types; truth of handles; the cap bounds threads that exist; a shutdown settles the pool; FIFO per lane; refinement of `TaskLifecycle` |
| `named_slots` | 2 owners, 2 registrations, 2 named slots, 2 calls, shutdown | live slots are owned, the counter is exact, one holder per thread, stale ids stay stale |
| `settle` | 2 calls of every kind, cancellation, shutdown, under fairness | handles settle as far as the code lets them; shutdown returns |
| `bus` | 2 posters (one message scheduled for later), 1 standing and 1 coming and going subscription, shutdown, 5 configurations | bound of the queue and types; cancellation is final; served once and nobody missed; nothing due is left behind; calls return |
| `waits` | an unlimited periodic timer, one of two fires, a one-shot, two watchers of one signal, a pipe of 1; 2 posts and 3 services, 3 buses; 4 parties and 3 phases; 4 users; 2 senders and 2 receivers, 1 place | a cancelled event goes quiet and nothing stays armed; posted work runs in order and is not lost, services and buses are found by their own ids; phases stay together; no wake-up is lost; a timer in company fires, the reader ends, the engine stops; a closed channel takes nothing and lets everybody go |
| `facades` | 2 requests, 2 responders, 2 answers, 1 worker; 1 actor, 2 letters, 3 ways to stop; 1 subscriber, 2 publishers, 2 closers; 2 channels, 5 kinds of calls; 3 registrations, 8 generations; 3 names, 8 ids | an answer meets its request and each request ends; after a stop returned the mail is served or refused; demand bounds items; nothing is lost or doubled in a channel; ids find what they were issued for |
| `worlds` | graphs of 3 nodes and 3 edges, 2 callers of each structure, 3 signals of 2 types on 2 edges, one of the types heard by nobody, 3 owners of ranges, the whole database example | queries and walks are right (`GraphIsRight`); the table of entities is exact; adjacency, hierarchy, modes and ranges hold, flows are torn down in order, no delivery that found the flag fallen reaches a task that is gone, and signals arrive once, at edges of their type (`WorldsAreSound`); the database example shares one session |
| `shell` | 2 images and 2 frames in flight, 2 sizes and minimised, 3 edits of a text of up to 3 bytes in lines of 2; 2 things and the editor; 2 windows, 2 handlers; 3 images, a pool of 2 | nothing is recorded that the GPU still uses; frames draw what there is; the text is drawn as it is; clicks find whole characters; no key is stuck by a click, messages are heard; edits and closed windows get through |
| `dangling_queue`, `lone_timer`, `freed_actor`, `stale_lines` | smallest instances | disagreements with what the code's documents say, section 5 |

`MCEventScheduler`, `MCFacades`, `MCWorlds` and `MCShell` each put components
that share nothing into one run; one of them moves in each behaviour, so the
state space is the sum of theirs and not the product. A property of such a run
is the conjunction of the components' own, which the modules define and explain.

**Why these bounds.** The races are between two calls and a teardown, or between
two calls for one slot, one place or one permit; a third participant is there
where the order of the other two can be seen by it (FIFO, who is woken, the
third way to stop an actor). A cap or capacity of one makes its limit a common
case: one worker of the pool is enough for the teardown races and for the
starvation of expiries. Two registrations make an index change hands once, which
is what stale ids are about; where generations wrap (bus targets, services) the
width is 3 bits. Five configurations of the bus are all its threading and
backpressure branches (Dedicated and Shared take the same path in the code: no
worker is attached). The hash of the topics is chosen so that two names collide
and a third falls on the salted id. Three nodes make a path, a fork, a triangle
and a self-loop; `MaxVersion` lets a slot be used again. `MaxDepth` 1 stands for
`kMaxHierarchyDepth`, so that the bound is met. The text has a wrapped line, a
line break and a character of two bytes; two edits and one move meet between
frames. Two images with two frames in flight pair in both ways; one failure of
the driver and two changes of the surface meet every stage of a set-up. Every
bound is a constant of the module or a guard that names it (`MaxRegistrations`,
`MaxPhases`, `MaxFired`, `MaxInputs`, `MaxFailures` and so on).

**Deadlock** is not checked: each of these objects may rest when nobody calls it.
What would be a deadlock inside the code is caught by the liveness properties
(`ShutdownReturns`, `ServedHandlesSettle`, `BusCallsReturn`, `RequestsEnd`,
`WaitsEnd`, `CloseIsFinal`, `EditsAndWindowsGetThrough`) and by the absence of
lost wake-ups.

**Fairness.** Weak fairness of each thread that is in the middle of a call or a
loop: the operating system schedules it, runnables and `onMessage` return, time
passes. Calls themselves (submit, cancel, shutdown, subscribe) are never fair. A
mutex is a step that is either possible or not; waiting for one is not modelled
apart. In detail:

- the main queue is pumped while the manager is open: the engine pumps no more
  after that;
- `SchedulerFairness`: the timer thread, the signal reader and the clock go on;
- `EngineFairness`: the main thread goes on inside `run()` and the destructor,
  nobody has to call either;
- `ChannelFairness`: threads inside a call and `close()` go on;
- `RequestFairness`: callers, expiry workers and the walks of answers go on, no
  responder has to answer;
- `FrameFairness`: the message loop ticks and the GPU works, each weakly; strong
  fairness is assumed once: a surface that offers an image again and again is
  seen to do so by `acquireImage()` some time, since a failed acquisition is
  only tried again in the next tick;
- `ShowFairness`: the main thread goes on, and the user closes each window that
  is shown.

## 4. What is proved

For every value of the constants that satisfies the named assumptions.

**Thread manager**

| Theorem | Statement | Argument |
|---|---|---|
| `LiveCountIsExact`, `LiveSlotsStayOwned` | the registry's counter and ids are exact | `RegistryInv`: generations are issued in order and no live slot has one that was not issued. Assumes `NoWrap` |
| `StaleIdsNeverReturn` | an id that no longer resolves never does again | from the same invariant: a slot is stamped with a generation above all issued ones. Assumes `NoWrap` |
| `TypesHold` | types of the scheduler | `TypeInv`: types, plus what a call in a given place has in hand |
| `ImplementsRegistry` | the scheduler's behaviours are behaviours of the registry | every action is a registry operation or leaves it alone |
| `SchedulerKeepsIdsStale` | stale ids stay stale in the scheduler | the refinement carries the registry's theorem over |
| `HandlesTellTheTruth` | entered at most once; the handle agrees | `PlaceInv`: an accepted task is in one queue, at one position, or with one worker, or over; the truth of handles alone is not inductive because it says nothing of a task that sits in two places |
| `OneHolderHolds` | a thread of a slot has one holder while it lives | `HolderInv`: the tables, the owners and the shutdown hold disjoint sets of slots, each handed over in one step; a call between its registration and its thread is in none |
| `DedicatedCapHolds` | the counter bounds the dedicated threads that exist | `CountInv`: the counter is the number of calls that were charged and not joined, and each thread that exists is among them; needs `HolderInv`, since joining lowers the counter by what it held |
| `ShutdownSettlesThePool` | a finished shutdown has settled the pool | `PoolServes`: what the pool accepted is in its queue or in a worker's hands until it is settled; `PoolClosed`: a pool that was joined is stopped, its queue empty and its workers gone |
| `LanesAreFifo` | calls of one lane start in order | `LaneInv`: of two calls in one queue the earlier stands first, what a worker holds was before all that is left. Assumes `FixedNames` |
| `SchedulerKeepsLifecycle` | the scheduler implements `TaskLifecycle` | `Phase` and `Result` are the refinement mapping; each action is a step of one task's life or a stutter, given that a task is in one place |

**Message bus, and what threads wait in**

| Theorem | Statement | Argument |
|---|---|---|
| `BusTypesHold` | types of the bus, the bound of its queue | one lemma per group of actions |
| `CancelIsFinal` | nobody is in a slot whose cancellation returned | a drained slot carries the mark that `deliver()` looks at under the lock that `Drain` excluded |
| `ReadyHasAServer` | a due message in the queue has a thread that will look at it | messages without delay are always due; an inline bus has no queue; a thread leaves the loop only when nothing is due |
| `MessagesReachAllOnce` | each subscription gets a message at most once, everybody it is for gets it | `OnePlace`: a message is in the queue once, or in one walk, or served; `WalkInv`: what a walk has visited and has left are disjoint and together hold whoever was there at its start; `GuestInv`: who was there when it was posted is there at its start, or has left |
| `BarrierPhases`, `BarrierCountIsExact` | phases stay together, the pending count is exact | `BarrierInv`, with the counters as cardinalities of sets of parties |
| `SemaphoreLosesNoWakeup`, `ChannelLosesNoWakeup` | no lost wake-up | `SemaphoreInv`, `ChannelInv`: permits (messages, places) are covered by threads that are awake or about to notify |
| `EngineStaysSound` | posted work is not lost or reordered; services and buses are found | `NothingDropped`: what ran, the batch and the queue are together what was posted; `DrainInv`: the last drain has in hand all that was posted before the shutdown; `ServiceInv`: an index is handed out once and keeps its entry |
| `CancelledStayQuiet`, `QuietStaysQuiet` | a cancelled event is delivered at most once more, nothing stays armed | `HandleInv`: a handle that lets go has lowered its flag first, and one that has let go has no active timer, as its call armed it before the handle was there; `LateInv`: an event that was delivered late is in no walk and past the gate of no callback |

**Facades**

| Theorem | Statement | Argument |
|---|---|---|
| `AnswersMeetTheirRequests` | a future gets the answer to its own request, once; nobody's request was hidden | `NumberInv`: a number belongs to one request of its bus, from before it is filed; `ReplyInv`: a reply has the number of the request it is meant for, and its payload until it is handed over. Assumes `LoneBuses` |
| `StopDrainsTheMailbox` | mail in order, all of it before the drain ends | `MailInv`: letters told are those received and those in the queue, in that order |
| `StreamsStayExact`, `ChannelsStaySound`, `StreamsAndChannelsStayExact` | demand bounds items and is paid once; channels lose, repeat and reorder nothing | `StreamInv`: units claimed, delivered and left are what was requested, and one closer marks a subscriber first; `ChannelInv`: what was sent is what was taken and what is queued, and a sweep meets channels that are there |
| `IdsFindTheirTargets`, `TopicsKeepApart`, `IdsStayExact` | ids of targets and of topics find what they were issued for | `AgeInv`: the ids an index has seen are older than the one it holds and than the one it gives out next; `TopicInv`: a filter has the id of the name it follows. Assume `FewTargets`, `SaltLeadsOn` |

**Graph and what stands on it**

| Theorem | Statement | Argument |
|---|---|---|
| `GraphStaysSound` | under any calls each adjacency list holds exactly its node's edges, no edge has an end that is gone, no slot is lost, no id comes back | `IsGraph`: lists without repeats that are equal, as sets, to the edges by their ends; free list and used slots partition the array; a slot's generation is the next one's or 0. The property alone is not inductive: `removeNode` cascades along the lists, and only a list without repeats is walked to its end. The cascade is a fold, so each of its steps keeps `IsGraph` with the node's edges shrinking (`Recursion`, `Induction`) |
| `TopologicalOrderIsRight` | the order names every node once, and each before those its edges lead to; or it is refused because some nodes are each entered from among themselves | `KahnHolds`: an in-degree counts the edges not dealt with yet, what is ready or ordered is what has in-degree 0, the order is closed backwards; it holds after each edge of each node, whatever the order of the hash table. Nodes run out after at most `MaxNodes` rounds |
| `WalksShowNothingTwice` | a traversal in any mode, while visitor and other threads change the graph, shows no node and no edge twice and an edge only after its node | `WalkHolds`: what was shown is visited, edges shown left nodes that were shown, what is still ahead of the node in hand is not shown yet, the edges kept for sorted modes belong to one node each; ids that died do not come back (`Issued`), which carries all of it over a change of the graph |
| `EntityTableStaysExact` | `EntityTableIsExact` for any number of threads, kinds and entities | `EcsHolds`: a live entity is in the table or in the hands of the call that made it, an entity in the table is live or in the hands of the call that removes it; each component hangs by one edge, or its attaching call has it in hand, or it lost the race with a removal; what a removal has still to drop is ahead in its list. Calls with different entities, and ids that never come back, keep them apart |
| `WorldsStaySound` | `WorldsAreSound`, in the composition | `IsGraph` under every component, and each one's own invariant: `TopologyHolds` (one parent per state, and nobody above himself within `MaxDepth` climbs: a new edge puts above a node only what was above its parent, or the parent), `OrchestratorHolds` (edges of one pair agree, what a caller has looked up still agrees unless somebody added to its pair, which `overlapped` notes), `FlowHolds` (routes lead to tasks that live, a dispatch has its signal's type and a live token, who has heard a signal has got it or is ahead in the walk; a delivery past its check found the adapter alive, and no adapter is alive any more when the tasks go, so that outside the window nothing but a removed task is gone), `PayloadHolds`, `WalkHolds` |

**Window program**

| Theorem | Statement | Argument |
|---|---|---|
| `RecordingKeepsApart` | nothing is recorded into what the GPU uses | `GpuInv`: what is under way has a pending fence, is alone with its frame, and its image names that frame; `FenceInv`: only the frame that is drawn has a fence that nothing is going to signal |
| `FramesUseTheSwapchain` | the frame loop implements the swapchain | each step is a step of the swapchain or leaves its variables alone |
| `FramesStaySound` | `FramesAreSound`: what is drawn is current, only stale pipelines die under way | `CacheInv` (pipelines by generation), `GroupInv` (buffers match the group they were made of), `GlyphInv`, `RecordInv` (a recording is of this generation); over the theorem above |
| `GpuMemoryStays` | `WhatGpuReadsIsThere`: the staging memory of each queued upload, and the images a queued frame draws, are there until they are through | `SceneInv`: what is queued, done or not, is supplied (a staging buffer goes only when no upload of the queue has it, a texture with a descriptor set only with the whole store, when the queue is empty); handles are given out in order, so the atlas, which is dropped earlier, is none of them |
| `InputStaysTrue` | `InputArrives`: handlers follow mouse and characters, what they keep follows focus and keys | `KeysInv`: while something has the focus, a key that moves the camera was pressed then or let go elsewhere; `TrackInv`: the windows that are tracked are those Windows will report on or has, so the enter events not undone yet are the handler's places in them; `HalfInv`: a kept half was the last unit |

The assumptions:

- `NoWrap`, and its like for bus targets `FewTargets`: fewer registrations are
  made than there are generations. At 2^32 the code hands out generation 0, an id
  that `valid()` rejects, for a slot that then stays taken for ever; a bus target
  would meet an id of its index's earlier owner. The proofs show exactly where it
  is needed.
- `FixedNames`: with named calls, no name is unregistered and nothing is torn
  down. Without it `LiveNameIsFifo` is false (section 5): a late
  `unregisterNamedThread` passes the slot on with calls under way. The pool's and
  the main queue's order needs no assumption.
- `LoneBuses`: one request bus per message bus. Two of them number their requests
  alike and take each other's answers (`defaultrequestbus.h:22`), so the property
  is false without it.
- `PayloadAssumption`: the engine's own ranges lie in the engine's half and do not
  overlap; the constructor throws otherwise (`payload/abstractpayloadregistry.cpp:80`).
- `GraphAssumption`, `KindsAssumption`, `NoSignalAssumption`: the bounds are
  numbers and there is room for a node; no component kind is the mark of an
  entity; the mark of "no signal" is no signal.
- `SaltLeadsOn`: salting takes a name's hash to at least as many ids as there are
  names, which is when the loop of `TopicRegistry` is sure to end.
- The named assumptions of the modules say what kind of thing a constant is:
  finite sets where the code counts (`Publishers`, `Responders`), and that a
  value that stands for "nobody" is not one of the others (`None`, `Nothing`,
  `"none"`).

The attempts to prove changed the models in a few places: `LaneIsFifo` spoke of
dedicated calls too, each of which has a thread, and hence a lane, of its own;
nothing said that the sentinels are apart from what they stand beside, that the
keys that move the camera (W, A, S, D, Q, E) are not those with another meaning,
or that the engine's payload ranges are apart from the start; and what folds over
a list with an operator as its argument became a recursive function.

**Only model-checked**:

- all liveness: the prover does not do fairness or ENABLED; and the channel's
  refusal after close, which is stated together with the release of its waiters;
- `GraphIsRight`: that shortest path, cycle test and components agree with
  reachability, and that depth-first order is the preorder. What they compute is a
  statement about paths of every length, by induction over data, and the reference
  definitions are recursive themselves. The topological order, which has a
  definition without paths, is proved;
- `DatabaseIsSound`: the module is one program with its five tasks, without a
  parameter that a proof could leave open; TLC visits all of its states;
- of `RenderScene`, that images are on their planes and shapes in the system that
  has the device: it is again one program with its tasks, and aliases are
  strings with numbers in them, of which the provers know nothing. The memory of
  the GPU, where the number of images and uploads is open, is proved;
- the text (`TextIsDrawn`, `ClicksFindCharacters`): what a fold over bytes computes.

## 5. Where the code and its documents disagree

Four have a run, with the quoted lines in `PROJECT.json`.

- `dangling_queue`: `scheduleOnNamed` pushes through a pointer to a slot that an
  unregistration destroyed.
- `lone_timer`: a one-shot timer that is the only one armed never fires: its
  callback is collected, then thrown away by the `continue` of the empty wait.
- `freed_actor`: `stop()` uses an actor's entry that another stop or a shutdown
  has deleted.
- `stale_lines`: after Enter at the end of a line that another line follows, the
  new empty line keeps the vertices of the old one and the line that moved down
  has none, until the next complete layout.

Others are stated as properties that TLC refutes when they are put into the
configuration of their module's run as an INVARIANT (`DueIsServed` as a PROPERTY;
for `SubscriberIsSerial` both slots need one subscriber in `SubscriberOf`):

| Property | What the counterexample shows |
|---|---|
| `DefaultThreadManager!NoThreadOutlivesShutdown` | a dedicated slot registered after shutdown took the slots has a thread that nobody joins |
| `DefaultThreadManager!LiveNameIsFifo` | a late `unregisterNamedThread` takes the slot of the index's next owner, whose later calls overtake earlier ones |
| `AbstractMessageBus!NoDeliveryAfterCancel` | a token cancelled after shutdown does not wait for a delivery under way or about to begin |
| `AbstractMessageBus!SubscriberIsSerial` | one object with two subscriptions gets `onMessage` on two threads at a time |
| `AbstractMessageBus!DueIsServed` | a scheduled message becomes due and nobody serves it until the next post |
| `ChannelFactory!EndlessCallWaits` | the timeout -1 overflows when it is added to the clock and the call gives up at once (`channelfactory/ichannel.h:83`) |
| `Engine!FreshIdIsDistinct` | a bus that asks for no id is given one that an earlier bus had asked for, and is refused (`messaging/createmessagebus.cpp:15`) |
| `EntityWorld!NoOrphans`, `NoDanglingRead` | `removeEntity` races an attach: the component stays without an entity; a pointer read before is used after |
| `StateTopology!HierarchyIsATree` | beyond `kMaxHierarchyDepth` the search answers "not an ancestor" and a cycle is accepted |
| `TaskOrchestrator!OneModePerPair` | two first transitions of one task and result store two modes |
| `PostgreSQLSystem!PassedMeansPresent` | a schema check passes although the table is absent (`postgresqlsystem.cpp:132`) |
| `WindowLoop!OverlayIsAsToggled` | the overlay that F3 hid is shown again by the next frame's `SetWindowPos` (`winapicomponent.cpp:486`) |
| `RenderScene!FrameReadsItsAtlas` | the atlas is uploaded again while a frame in flight reads it (`vulkantexturestore.cpp:403-451`) |
| `RenderScene!AtlasOutlivesFrames` | `~RenderSystem` destroys the atlas before it waits for the device (`rendersystem.cpp:162-174`) |
| `RenderScene!FailureReachesError` | an init flow that failed does not reach the error state: its result is dropped |

Read in the code while modelling, without a property:

*Threads and buses.* A `schedule(Main)` that passed the shut-down check pushes
after the last drain and its handle never settles. After `shutdown()` stopped the
pool, its workers still run what the queue holds, where
`threading/defaultthreadmanager.h` speaks of discarding it. The generation of
named threads may wrap to the invalid value. A thread that shuts the manager down
from one of its workers joins itself. FanOut and Broadcast ignore a `Stop`, and
the walk is in hash order where a test speaks of registration order. A scheduled
message posted to an InlineOnly bus is dispatched at once. A second, concurrent
`cancel()` of one token, or `shutdown()` of one bus or thread manager, returns
while the first is still at work. With Block backpressure, a queue full of
scheduled messages blocks its producers until one becomes due and another thread
posts. An `onMessage` that posts to the same slot or cancels its own token blocks
on its own lock (`abstractmessagebus.cpp:574`).

*Facades.* Two request buses on one message bus number their requests alike and
take each other's answers (`defaultrequestbus.h:22`). A topic bus that shut down
keeps its subscriptions on the bus (`defaulttopicbus.cpp:314`). A second `stop`
of a mailbox handle returns while the actor still drains; a spawn that races the
shutdown files an actor whose runnable was refused (`defaultactorhost.cpp:319`).
A signal with n watchers is delivered n times to each
(`defaulteventscheduler.cpp:394`). Neither disarm nor unsubscribe waits for a
callback, so a scheduler may be destroyed under one. `removeTask` leaves the
task's signal subscriptions (`taskflow.cpp:303`): a signal to a removed task
still calls it, directly or through the adapter, whose flag only the destructor
of the flow lowers. A delivery between the check of the flag and the call is
overtaken by that destructor, as the comment at `taskflow.cpp:158` says.

*Editor and input.* Two edits between two frames are laid out from the later one
only. Scrolling or dragging leaves the click slots behind. A click between an
edit and its frame can put the cursor behind the end, and the next key throws
`std::out_of_range`. A move key pressed through Ctrl or a drag while an entity
has the focus, and released without them, stays on, and so does a camera drag
begun without and released with the focus. The mouse is not captured, so buttons
released outside the window are not heard (`winapicomponent.cpp:254`); F3's press
is swallowed but its repeats and its release are handed on; half a surrogate pair
is kept once for all windows; the window class has no CS_DBLCLKS, so double
clicks never come.

*Windows and renderer.* A window with two handlers is listed twice and its second
`show()` cannot be closed; early returns of `execute()` leave the platform service
bound. A partial set-up leaves a swapchain that `isValid()` with no fences
(`vulkanswapchain.cpp:77`) and forgets the request to recreate it; a frame that
fails after its fence was reset stalls the next until a resize
(`vulkanswapchain.cpp:113`, `vulkanapi.cpp:187`); a failed resize clears
`_resizePending`. Pipelines of an older generation are destroyed while the frame
that recreated the swapchain is in flight (`rendersystem.cpp:315`). The buffer of
instanced draws is keyed by pipeline alone (`vulkanframerenderer.cpp:504`). Only
the first text's atlas is uploaded. The descriptor pool of 32 is never given back,
the 33rd image throws and ends the program; a texture uploaded before there is a
swapchain never gets a descriptor set. A missing font or image means that the
window never opens.

*Data.* `removeEntity` of the legacy manager leaves aliases and components behind
(nothing calls it). The database service has no `entityUnbound`, so its system
stays bound, and makes a new system each time its context changes; a failed
schema check is turned into success by the creation of the schema. The key of the
pipeline cache lacks the vertex layout.

## 6. What is not modelled

**Of the modelled components.** Runnables and subscribers that call back into the
manager or the bus from their own thread, where that blocks by construction;
exceptions of allocation; destructors beyond what section 2 names; the diagnostic
names of threads; the values that messages carry beyond what a property tells
apart; memory orders weaker than sequential consistency (every flag is read and
written with acquire and release, or under a mutex). Refused calls that change
nothing have no step. Of the renderer, the creation of the instance and the device,
what a pipeline is made of, shaders, memory types, the cursor's quad and its blinking, and
meshes other than the procedural ones; of the window example, where shapes are
placed, the arithmetic of picking and of the scroll bar's thumb, the text of the
overlay; of the bindings, the texts of queries; of the graph, its textual export.

**Whole components.** The mutex (a `std::timed_mutex` with results); services as
such (two flags); base types; the native windows of other platforms; the macOS
signal source and the Windows console handler beyond what they share with the
POSIX one; the camera's arithmetic; window events that only pass through (wheel,
focus); scripts, tests and vendored code.

## 7. Plan

1. Done: the thread manager and its synchronisation objects, the message bus with
   its targets, timers, signals and the event scheduler, the engine, the facades,
   the graph and what stands on it, the legacy flow with its signals, the
   payload registry, both example programs, the window system and the renderer.
2. Done: proofs of the thread manager, the bus, the synchronisation objects, the
   event scheduler, the engine, the facades, the graph with its order and its
   walks, the entity world, hierarchy, modes, flows and signals, payload ranges,
   the swapchain, the frame loop, the GPU's memory and the handlers of input and
   messages.
   Next: soundness of the connected components (a labelling that edges respect
   needs no paths), the depth-first walk of an unchanged graph, the alias and
   device part of `RenderScene` with aliases as pairs.
3. Left for the model: subscribers that call the bus back, destruction of the
   event scheduler while a source is in a callback, several request buses in one
   run (the module has them, the run has one), larger texts.
