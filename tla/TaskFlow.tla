------------------------------ MODULE TaskFlow ------------------------------
(***************************************************************************)
(* vigine::TaskFlow, the flow of tasks inside a state: routes between      *)
(* tasks, the loop that runs the current task, signal edges that subscribe *)
(* a task at an emitter - directly or through an adapter that schedules    *)
(* the delivery on the thread manager - and the destruction of the flow in *)
(* the order of its members.  With it DefaultSignalEmitter, whose emit()   *)
(* and emitTo() walk the subscriptions on the thread that calls them: the  *)
(* message is gone when the walk ends.                                     *)
(*                                                                         *)
(* The flow belongs to one thread, and a task may call it back from inside *)
(* execute(); signals are emitted on other threads and the scheduled       *)
(* deliveries run on workers.                                              *)
(***************************************************************************)
EXTENDS Lists

CONSTANTS
    FlowTasks,         \* task objects
    NoTask,            \* nullptr
    ResultCodes,
    MaxRoutes,         \* bound of the model: routes from one task
    SignalEdges,       \* signal() calls that succeed, each made once
    Direct,            \* those with affinity Any
    Signals,           \* calls of emit() and emitTo()
    Targeted,          \* those of emitTo()
    TypeOf             \* [SignalEdges \cup Signals -> payload types]

ASSUME FlowAssumption ==
    /\ NoTask \notin FlowTasks /\ Direct \subseteq SignalEdges /\ MaxRoutes \in Nat
    /\ Targeted \subseteq Signals

NoSignal == "out"
ASSUME NoSignalAssumption == NoSignal \notin Signals

VARIABLES
    tasks,             \* _tasks
    freed,             \* the task objects that are gone
    routes,            \* _transitions
    currTask, executing,   \* _currTask, and the task inside execute()
    edges,             \* signal edge -> its target, token, adapter, and the
                       \*   signal that is inside onMessage()
    emitted,           \* signal -> where its walk is, and the edges left to it
    deliveries,        \* signal edge -> its scheduled runnable and envelope, and
                       \*   (history) how the runnable found the adapter
    flowStage,         \* how far the destructor has come
    given,             \* history: signal -> edges that were handed it
    removed,           \* history: tasks taken out by removeTask()
    late               \* history: what was touched after it was gone

flowVars == <<tasks, freed, routes, currTask, executing, edges, emitted, deliveries,
              flowStage, given, removed, late>>

NoEdgeYet == [target |-> NoTask, token |-> "none", adapter |-> "none", dispatch |-> NoSignal]
NoDelivery == [at |-> "none", signal |-> NoSignal, payload |-> "none", saw |-> "none"]

(* `asked`: the signals somebody may emit in a behaviour.                  *)
FlowInit(asked) ==
    /\ tasks = {} /\ freed = {} /\ removed = {} /\ late = {}
    /\ routes = [t \in FlowTasks |-> <<>>]
    /\ currTask = NoTask /\ executing = NoTask
    /\ edges = [e \in SignalEdges |-> NoEdgeYet]
    /\ emitted = [g \in Signals |-> [at |-> IF g \in asked THEN "new" ELSE "gone",
                                  heard |-> {}, todo |-> {}]]
    /\ deliveries = [e \in SignalEdges |-> NoDelivery]
    /\ given = [g \in Signals |-> {}]
    /\ flowStage = "up"

-----------------------------------------------------------------------------
AddFlowTask(t) ==
    /\ flowStage = "up" /\ t \notin tasks \cup freed
    /\ tasks' = tasks \cup {t}
    /\ UNCHANGED <<freed, routes, currTask, executing, edges, deliveries, flowStage,
                   removed, late, emitted, given>>

(* Mutant: only the routes from the task go, not those to it.              *)
WithoutItsOwn(t) == [routes EXCEPT ![t] = <<>>]

WithoutRoutesOf(t) ==
    [u \in FlowTasks |-> IF u = t THEN <<>> ELSE Only(routes[u], {r \in Elems(routes[u]) : r.to # t})]

(* removeTask(): the routes go with it, its subscriptions do not.  A task  *)
(* inside execute() is not asked to remove itself.                         *)
RemoveTask(t) ==
    /\ flowStage = "up" /\ t \in tasks /\ t # executing
    /\ tasks' = tasks \ {t} /\ freed' = freed \cup {t} /\ removed' = removed \cup {t}
    /\ currTask' = IF currTask = t THEN NoTask ELSE currTask
    /\ routes' = WithoutRoutesOf(t)
    /\ UNCHANGED <<executing, edges, deliveries, flowStage, late, emitted, given>>

Route(from, to, code) ==
    /\ flowStage = "up" /\ {from, to} \subseteq tasks /\ Len(routes[from]) < MaxRoutes
    /\ routes' = [routes EXCEPT ![from] = Append(@, [code |-> code, to |-> to])]
    /\ UNCHANGED <<tasks, freed, currTask, executing, edges, deliveries, flowStage,
                   removed, late, emitted, given>>

(* changeCurrentTaskTo(): any pointer is taken; only those of this flow    *)
(* are passed here.                                                        *)
ChangeCurrentTaskTo(t) ==
    /\ flowStage = "up" /\ t \in tasks
    /\ currTask' = t
    /\ UNCHANGED <<tasks, freed, routes, executing, edges, deliveries, flowStage,
                   removed, late, emitted, given>>

(* runCurrentTask(): execute(), then the first route that fits - of the    *)
(* task that is current by then.                                           *)
Execute ==
    /\ flowStage = "up" /\ executing = NoTask /\ currTask # NoTask
    /\ executing' = currTask
    /\ UNCHANGED <<tasks, freed, routes, currTask, edges, deliveries, flowStage,
                   removed, late, emitted, given>>

NextTask(t, code) ==
    LET fitting == IF t = NoTask THEN <<>>
                   ELSE Only(routes[t], {r \in Elems(routes[t]) : r.code = code})
    IN IF fitting = <<>> THEN NoTask ELSE fitting[1].to

FinishTask(code) ==
    /\ executing # NoTask
    /\ executing' = NoTask
    /\ currTask' = NextTask(currTask, code)
    /\ UNCHANGED <<tasks, freed, routes, edges, deliveries, flowStage, removed, late,
                   emitted, given>>

-----------------------------------------------------------------------------
(* signal(): subscribes the task or an adapter that stands for it.         *)
Signal(e, from, to) ==
    /\ flowStage = "up" /\ {from, to} \subseteq tasks /\ edges[e].token = "none"
    /\ edges' = [edges EXCEPT ![e] =
           [target |-> to, token |-> "live", dispatch |-> NoSignal,
            adapter |-> IF e \in Direct THEN "none" ELSE "alive"]]
    /\ UNCHANGED <<tasks, freed, routes, currTask, executing, deliveries, flowStage,
                   removed, late, emitted, given>>

(* emit() and emitTo(): the edges subscribed to the payload's type when    *)
(* the walk begins.  A type is all a signal edge filters by.               *)
SubscribedTo(g) == {e \in SignalEdges : edges[e].token = "live" /\ TypeOf[e] = TypeOf[g]}

Emit(g) ==
    /\ emitted[g].at = "new"
    /\ emitted' = [emitted EXCEPT ![g] = [at |-> "walking", heard |-> SubscribedTo(g),
                                         todo |-> SubscribedTo(g)]]
    /\ UNCHANGED <<tasks, freed, routes, currTask, executing, edges, deliveries,
                   flowStage, given, removed, late>>

(* The walk enters the dispatch of one edge while its token is live - the  *)
(* token's destructor waits for it - and passes over a cancelled one.      *)
Inside(g) == \E e \in SignalEdges : edges[e].dispatch = g

Walk(g, e) ==
    /\ emitted[g].at = "walking" /\ e \in emitted[g].todo /\ ~Inside(g)
    /\ emitted' = [emitted EXCEPT ![g].todo = @ \ {e}]
    /\ IF edges[e].token = "live"
       THEN edges[e].dispatch = NoSignal /\ edges' = [edges EXCEPT ![e].dispatch = g]
       ELSE UNCHANGED edges
    /\ UNCHANGED <<tasks, freed, routes, currTask, executing, deliveries, flowStage,
                   given, removed, late>>

(* emit() and emitTo() return: the message and its payload are gone.       *)
EndEmit(g) ==
    /\ emitted[g].at = "walking" /\ emitted[g].todo = {} /\ ~Inside(g)
    /\ emitted' = [emitted EXCEPT ![g].at = "gone"]
    /\ UNCHANGED <<tasks, freed, routes, currTask, executing, edges, deliveries,
                   flowStage, given, removed, late>>

Touched(what) == late' = late \cup what
TaskOf(e) == IF edges[e].target \in freed THEN {<<"task", edges[e].target>>} ELSE {}

(* A signal to everybody is walked to its end, one with a target ends with *)
(* the first edge that does not pass it on.                                *)
Answered(g, handled) ==
    emitted' = IF g \in Targeted /\ handled THEN [emitted EXCEPT ![g].todo = {}] ELSE emitted

(* onMessage() of the task itself, on the thread that emits.               *)
DispatchDirect(e, handled) ==
    LET g == edges[e].dispatch IN
    /\ g # NoSignal /\ e \in Direct
    /\ edges' = [edges EXCEPT ![e].dispatch = NoSignal]
    /\ given' = [given EXCEPT ![g] = IF handled THEN @ \cup {e} ELSE @]
    /\ Answered(g, handled)
    /\ Touched(TaskOf(e))
    /\ UNCHANGED <<tasks, freed, routes, currTask, executing, deliveries, flowStage,
                   removed>>

(* Mutant: the envelope keeps a pointer to the payload of the message.     *)
Borrowing(g) == [at |-> "queued", signal |-> g, payload |-> "message", saw |-> "none"]

(* What ScheduledDelivery hands to its runnable: the header of the message *)
(* and a clone of its payload.                                             *)
Envelope(g) == [at |-> "queued", signal |-> g, payload |-> "clone", saw |-> "none"]

(* onMessage() of ScheduledDelivery: an envelope is scheduled with the     *)
(* adapter's flag, and the bus hears that the message is handled.          *)
DispatchScheduled(e) ==
    LET g == edges[e].dispatch IN
    /\ g # NoSignal /\ e \notin Direct
    /\ deliveries[e].at \in {"none", "done"}    \* bound: one at a time
    /\ edges' = [edges EXCEPT ![e].dispatch = NoSignal]
    /\ given' = [given EXCEPT ![g] = @ \cup {e}]
    /\ Answered(g, TRUE)
    /\ Touched(IF edges[e].adapter = "dead" THEN {<<"adapter", e>>} ELSE {})
    /\ deliveries' = [deliveries EXCEPT ![e] = Envelope(g)]
    /\ UNCHANGED <<tasks, freed, routes, currTask, executing, flowStage, removed>>

(* Mutant: the runnable calls its target whatever the flag says.           *)
Unchecked(e) == "checked"

(* The early return of run() once the adapter's flag has fallen.           *)
FlagCheck(e) == IF edges[e].adapter = "alive" THEN "checked" ELSE "done"

(* DeliverRunnable::run(): looks at the flag, then calls the target, which *)
(* reads the payload.                                                      *)
CheckAlive(e) ==
    /\ deliveries[e].at = "queued"
    /\ deliveries' = [deliveries EXCEPT ![e].at = FlagCheck(e), ![e].saw = edges[e].adapter]
    /\ UNCHANGED <<tasks, freed, routes, currTask, executing, edges, emitted,
                   flowStage, given, removed, late>>

(* The window of run(): the flag was up when the runnable looked, and has  *)
(* fallen since.                                                           *)
InWindow(e) == deliveries[e].saw = "alive" /\ edges[e].adapter = "dead"

Deliver(e) ==
    LET d == deliveries[e] IN
    /\ d.at = "checked"
    /\ deliveries' = [deliveries EXCEPT ![e].at = "done"]
    /\ Touched(   {<<IF InWindow(e) THEN "window" ELSE "task", t[2]>> : t \in TaskOf(e)}
               \cup (IF d.payload = "message" /\ emitted[d.signal].at = "gone"
                     THEN {<<"payload", d.signal>>} ELSE {}))
    /\ UNCHANGED <<tasks, freed, routes, currTask, executing, edges, emitted,
                   flowStage, given, removed>>

-----------------------------------------------------------------------------
(* Mutant: the adapters are declared behind the tokens, so die before them.*)
AdaptersFirst == <<"up", "adapters", "tokens", "tasks", "gone">>

(* ~TaskFlow(): the members in the reverse order of their declaration.     *)
Teardown == <<"up", "tokens", "adapters", "tasks", "gone">>

Advance == \E k \in 1 .. Len(Teardown) - 1 :
              flowStage = Teardown[k] /\ flowStage' = Teardown[k + 1]

BeginTeardown ==
    /\ flowStage = "up" /\ executing = NoTask /\ Advance
    /\ UNCHANGED <<tasks, freed, routes, currTask, executing, edges, deliveries,
                   removed, late, emitted, given>>

DropToken(e) ==
    /\ flowStage = "tokens"
    /\ edges[e].token = "live" /\ edges[e].dispatch = NoSignal
    /\ edges' = [edges EXCEPT ![e].token = "cancelled"]
    /\ UNCHANGED <<tasks, freed, routes, currTask, executing, deliveries, flowStage,
                   removed, late, emitted, given>>

EndTokens ==
    /\ flowStage = "tokens" /\ \A e \in SignalEdges : edges[e].token # "live"
    /\ Advance
    /\ UNCHANGED <<tasks, freed, routes, currTask, executing, edges, deliveries,
                   removed, late, emitted, given>>

DropAdapters ==
    /\ flowStage = "adapters" /\ Advance
    /\ edges' = [e \in SignalEdges |->
           [edges[e] EXCEPT !.adapter = IF @ = "alive" THEN "dead" ELSE @]]
    /\ UNCHANGED <<tasks, freed, routes, currTask, executing, deliveries, removed,
                   late, emitted, given>>

DropTasks ==
    /\ flowStage = "tasks" /\ Advance
    /\ tasks' = {} /\ freed' = freed \cup tasks
    /\ UNCHANGED <<routes, currTask, executing, edges, deliveries, removed, late,
                   emitted, given>>

FlowNext ==
    \/ \E t \in FlowTasks : AddFlowTask(t) \/ RemoveTask(t) \/ ChangeCurrentTaskTo(t)
    \/ \E t, u \in FlowTasks, code \in ResultCodes : Route(t, u, code)
    \/ Execute \/ \E code \in ResultCodes : FinishTask(code)
    \/ \E e \in SignalEdges : \/ \E t, u \in FlowTasks : Signal(e, t, u)
                              \/ \E g \in Signals : Walk(g, e)
                              \/ \E handled \in BOOLEAN : DispatchDirect(e, handled)
                              \/ DispatchScheduled(e) \/ CheckAlive(e) \/ Deliver(e)
                              \/ DropToken(e)
    \/ \E g \in Signals : Emit(g) \/ EndEmit(g)
    \/ BeginTeardown \/ EndTokens \/ DropAdapters \/ DropTasks

-----------------------------------------------------------------------------
(* While the flow is up, the current task and both ends of every route are *)
(* tasks of the flow, however tasks come and go inside callbacks.          *)
RoutesAreLive ==
    flowStage = "up" =>
        /\ currTask \in tasks \cup {NoTask}
        /\ \A t \in FlowTasks :
              /\ routes[t] # <<>> => t \in tasks
              /\ \A k \in 1 .. Len(routes[t]) : routes[t][k].to \in tasks

(* The destructor lets no dispatch reach a dead adapter, and nothing - a   *)
(* dispatch or a delivery on a worker - reach a task that it destroyed,    *)
(* except the deliveries that found the flag up and were overtaken by its  *)
(* fall before the call (those to tasks that removeTask() took out arrive  *)
(* all the same).  And no delivery reads a payload whose emit() returned.  *)
TeardownIsOrderly ==
    /\ \A e \in SignalEdges : <<"adapter", e>> \notin late
    /\ \A g \in Signals : <<"payload", g>> \notin late
    /\ \A t \in FlowTasks : <<"task", t>> \in late => t \in removed
    /\ flowStage = "gone" => \A e \in SignalEdges : edges[e].dispatch = NoSignal

(* When emit() returns, every edge that was wired before it and still is   *)
(* has the signal, except the tasks called directly, which may decline;    *)
(* emitTo() leaves at most one edge with it, and none is handed a signal   *)
(* of a type it does not hear.                                             *)
SignalsArrive ==
    \A g \in Signals :
        /\ g \in Targeted => Cardinality(given[g]) <= 1
        /\ emitted[g].at = "gone" /\ g \notin Targeted =>
              \A e \in emitted[g].heard \ Direct : edges[e].token = "live" => e \in given[g]
        /\ \A e \in given[g] : TypeOf[e] = TypeOf[g]

FlowIsSound == RoutesAreLive /\ TeardownIsOrderly /\ SignalsArrive
=============================================================================
