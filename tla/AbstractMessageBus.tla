------------------------- MODULE AbstractMessageBus -------------------------
(***************************************************************************)
(* vigine::messaging::AbstractMessageBus with its control block: posting,  *)
(* the bounded queue, dispatch to a snapshot of the subscriptions,         *)
(* cancellation through the tokens, and shutdown.                          *)
(*                                                                         *)
(* The bus has no thread of its own.  Each call of post() queues its       *)
(* message and then serves the queue on the calling thread until nothing   *)
(* in it is due; shutdown() serves what is left.  A step is one critical   *)
(* section of _queueMutex, of the subscription registry, of a slot's       *)
(* lifecycleMutex (shared for delivery, exclusive for cancellation) or of  *)
(* its deliverMutex, or one access to an atomic flag.                      *)
(*                                                                         *)
(* A message is named by the thread that posts it; a slot stands for its   *)
(* serial, its SlotState and its token.                                    *)
(***************************************************************************)
EXTENDS Integers, Sequences, FiniteSets, SequencesExt

CONSTANTS
    Posters,       \* the threads that post, each one message
    Closer,        \* the thread that calls shutdown()
    Slots,         \* subscriptions
    Standing,      \* those made before anything else and never cancelled
    Configs,       \* the BusConfigs to consider
    Message,       \* [Posters -> records with kind, typeId, route, target, later]
    Filter,        \* [Slots -> records with kind, typeId, route, target]
    SubscriberOf,  \* [Slots -> the objects that subscribed]
    Open            \* an open field of a filter

None == "none"

ASSUME BusAssumption ==
    /\ Closer \notin Posters /\ None \notin Posters
    /\ Standing \subseteq Slots
    /\ \A c \in Configs : c.maxMessages \in Nat

VARIABLES
    config,      \* _config
    down,        \* _shutdown
    alive,       \* _alive of the control block
    queue,       \* _queue
    due,         \* the messages whose scheduledFor() has passed
    stage,       \* where each thread is
    current,     \* the message it dispatches, or None
    todo,        \* the slots of its snapshot it has yet to visit
    slot,        \* the slot it visits
    registered,  \* _subscriptions
    cancelled,   \* the slots whose SlotState is cancelled
    token,       \* the life of each slot's token
    present,     \* history: who was subscribed when a message to everybody was posted
    hits,        \* history: deliveries of each message to each slot
    served       \* history: the messages whose dispatch has ended

busVars == <<config, down, alive, queue, due, stage, current, todo, slot,
             registered, cancelled, token, present, hits, served>>

Threads == Posters \cup {Closer}

dispatchVars == <<current, todo, slot, hits, served>>
slotVars     == <<registered, cancelled, token>>

BusInit ==
    /\ config \in Configs
    /\ down = FALSE /\ alive = TRUE
    /\ queue = <<>>
    /\ due = {m \in Posters : ~Message[m].later}
    /\ stage = [t \in Threads |-> "idle"]
    /\ current = [t \in Threads |-> None]
    /\ todo = [t \in Threads |-> {}]
    /\ slot = [t \in Threads |-> None]
    /\ registered = Standing /\ cancelled = {}
    /\ token = [s \in Slots |-> IF s \in Standing THEN "live" ELSE "none"]
    /\ present = [m \in Posters |-> {}]
    /\ hits = [m \in Posters |-> [s \in Slots |-> 0]]
    /\ served = {}

Goes(t, next) == stage' = [stage EXCEPT ![t] = next]

(* matches() and, but for broadcasts, the filter's target.                 *)
Matches(f, m) ==
    /\ f.kind = m.kind
    /\ f.typeId \in {Open, m.typeId}
    /\ f.route \in {Open, m.route}
AnyTarget(m) == Message[m].route = "Broadcast"
Wanted(s, m) ==
    /\ Matches(Filter[s], Message[m])
    /\ AnyTarget(m) \/ Filter[s].target \in {Open, Message[m].target}
(* A bubble starts at the target and would go up through its parents; no   *)
(* target has one, so it ends like FirstMatch.                             *)
AtRoot(m) == Message[m].route = "Bubble"

(* A message to everybody, and one that the first to answer takes.         *)
ForAll(m) == Message[m].route \in {"FanOut", "Broadcast"}
EndsWithAnswer(m) == Message[m].route \in {"FirstMatch", "Chain"} \/ AtRoot(m)

(* Time passes: a message that was scheduled becomes due.                  *)
Elapse(m) ==
    /\ m \notin due
    /\ due' = due \cup {m}
    /\ UNCHANGED <<config, down, alive, queue, stage, dispatchVars, slotVars, present>>

-----------------------------------------------------------------------------
(* post() *)

(* The checks.  A message with a wrong kind or route is refused likewise   *)
(* and has no step.                                                        *)
Post(p) ==
    /\ stage[p] = "idle"
    /\ present' = IF ForAll(p)
                  THEN [present EXCEPT ![p] = {s \in Slots : token[s] = "live" /\ Wanted(s, p)}]
                  ELSE present
    /\ IF down
       THEN Goes(p, "refused") /\ UNCHANGED <<current, todo>>
       ELSE IF config.threading = "InlineOnly"
            THEN Goes(p, "snapshot") /\ current' = [current EXCEPT ![p] = p] /\ UNCHANGED todo
            ELSE Goes(p, "checked") /\ UNCHANGED <<current, todo>>
    /\ UNCHANGED <<config, down, alive, queue, due, slot, hits, served, slotVars>>

Cap == IF config.maxMessages = 0 THEN 1 ELSE config.maxMessages
Full == config.bounded /\ Len(queue) >= Cap

(* Mutant: the wait for room is not repeated after a wake-up.              *)
EnqueueWoken(p) ==
    /\ stage[p] \in {"checked", "woken"}
    /\ stage[p] = "woken" => ~down
    /\ stage[p] = "checked" => ~Full
    /\ queue' = Append(queue, p)
    /\ Goes(p, "tell")
    /\ UNCHANGED <<config, down, alive, due, dispatchVars, slotVars, present>>

(* The queue takes the message.  The shut-down flag is looked at again     *)
(* only by a thread that had to wait for room.                             *)
Enqueue(p) ==
    /\ stage[p] \in {"checked", "woken"}
    /\ stage[p] = "woken" => ~down
    /\ ~Full
    /\ queue' = Append(queue, p)
    /\ Goes(p, "tell")
    /\ UNCHANGED <<config, down, alive, due, dispatchVars, slotVars, present>>

(* It is full: wait, make room by dropping the oldest, or refuse.          *)
WaitForRoom(p) ==
    /\ stage[p] \in {"checked", "woken"}
    /\ config.backpressure = "Block" /\ Full /\ ~down
    /\ Goes(p, "blocked")
    /\ UNCHANGED <<config, down, alive, queue, due, dispatchVars, slotVars, present>>

DropOldest(p) ==
    /\ stage[p] = "checked"
    /\ config.backpressure = "DropOldest" /\ Full
    /\ queue' = Append(Tail(queue), p)
    /\ Goes(p, "tell")
    /\ UNCHANGED <<config, down, alive, due, dispatchVars, slotVars, present>>

RefuseFull(p) ==
    /\ \/ stage[p] = "checked" /\ config.backpressure = "Error" /\ Full
       \/ stage[p] = "checked" /\ config.backpressure = "Block" /\ Full /\ down
       \/ stage[p] = "woken" /\ down
    /\ Goes(p, "refused")
    /\ UNCHANGED <<config, down, alive, queue, due, dispatchVars, slotVars, present>>

WakeUp(p) ==
    /\ stage[p] = "blocked"
    /\ Goes(p, "woken")
    /\ UNCHANGED <<config, down, alive, queue, due, dispatchVars, slotVars, present>>

(* notify_one on _queueCv, after a push and after a take.                  *)
Tell(t) ==
    /\ stage[t] = "tell"
    /\ LET next    == IF current[t] = None THEN "drain" ELSE "snapshot"
           blocked == {p \in Posters : stage[p] = "blocked"}
       IN  IF blocked = {}
           THEN Goes(t, next)
           ELSE \E p \in blocked : stage' = [stage EXCEPT ![t] = next, ![p] = "woken"]
    /\ UNCHANGED <<config, down, alive, queue, due, dispatchVars, slotVars, present>>

-----------------------------------------------------------------------------
(* drainQueue() and the dispatch *)

Due == {i \in 1..Len(queue) : queue[i] \in due}

(* Mutant: the message is dispatched and stays in the queue.              *)
TakeCopy(t) ==
    /\ stage[t] = "drain"
    /\ \E i \in Due :
          /\ \A j \in Due : i <= j
          /\ current' = [current EXCEPT ![t] = queue[i]]
    /\ Goes(t, "tell")
    /\ UNCHANGED <<config, down, alive, queue, due, todo, slot, hits, served, slotVars, present>>

(* The first message that is due is taken; the others stay in their order. *)
TakeDue(t) ==
    /\ stage[t] = "drain"
    /\ \E i \in Due :
          /\ \A j \in Due : i <= j
          /\ current' = [current EXCEPT ![t] = queue[i]]
          /\ queue' = RemoveAt(queue, i)
    /\ Goes(t, "tell")
    /\ UNCHANGED <<config, down, alive, due, todo, slot, hits, served, slotVars, present>>

(* Mutant: a message that is not due holds up those behind it.             *)
StopAtHead(t) ==
    /\ stage[t] = "drain"
    /\ 1 \notin Due
    /\ Goes(t, IF t = Closer THEN "kill" ELSE "done")
    /\ UNCHANGED <<config, down, alive, queue, due, dispatchVars, slotVars, present>>

(* With none, post() succeeds and shutdown() goes on.  shutdown() does not *)
(* wait for what other threads have taken from the queue.                  *)
FindNoneDue(t) ==
    /\ stage[t] = "drain"
    /\ Due = {}
    /\ Goes(t, IF t = Closer THEN "kill" ELSE "done")
    /\ UNCHANGED <<config, down, alive, queue, due, dispatchVars, slotVars, present>>

(* The registry is a hash map: the walk over it has no order.              *)
Snapshot(t) ==
    /\ stage[t] = "snapshot"
    /\ todo' = [todo EXCEPT ![t] = {s \in registered : Wanted(s, current[t])}]
    /\ Goes(t, "deliver")
    /\ UNCHANGED <<config, down, alive, queue, due, current, slot, hits, served, slotVars, present>>

(* deliver(): the lifecycleMutex is taken shared, and a slot that was      *)
(* cancelled since the snapshot is passed over.                            *)
Enter(t) ==
    /\ stage[t] = "deliver"
    /\ \E s \in todo[t] :
          /\ todo' = [todo EXCEPT ![t] = @ \ {s}]
          /\ IF s \in cancelled
             THEN UNCHANGED <<slot, stage>>
             ELSE slot' = [slot EXCEPT ![t] = s] /\ Goes(t, "entered")
    /\ UNCHANGED <<config, down, alive, queue, due, current, hits, served, slotVars, present>>

Inside(s)  == {t \in Threads : stage[t] \in {"entered", "running"} /\ slot[t] = s}
Running(s) == {t \in Threads : stage[t] = "running" /\ slot[t] = s}

(* The deliverMutex is taken and onMessage runs.                           *)
Run(t) ==
    /\ stage[t] = "entered"
    /\ Running(slot[t]) = {}
    /\ hits' = [hits EXCEPT ![current[t]][slot[t]] = @ + 1]
    /\ Goes(t, "running")
    /\ UNCHANGED <<config, down, alive, queue, due, current, todo, slot, served, slotVars, present>>

(* onMessage returns Pass, or something that ends three of the walks; an   *)
(* exception counts as Handled.                                            *)
Return(t) ==
    /\ stage[t] = "running"
    /\ \/ UNCHANGED todo
       \/ /\ EndsWithAnswer(current[t])
          /\ todo' = [todo EXCEPT ![t] = {}]
    /\ slot' = [slot EXCEPT ![t] = None]
    /\ Goes(t, "deliver")
    /\ UNCHANGED <<config, down, alive, queue, due, current, hits, served, slotVars, present>>

(* After a dispatch the queue is served further, by the same thread.       *)
EndDispatch(t) ==
    /\ stage[t] = "deliver"
    /\ todo[t] = {}
    /\ served' = served \cup {current[t]}
    /\ current' = [current EXCEPT ![t] = None]
    /\ Goes(t, IF config.threading = "InlineOnly" THEN "done" ELSE "drain")
    /\ UNCHANGED <<config, down, alive, queue, due, todo, slot, hits, slotVars, present>>

-----------------------------------------------------------------------------
(* shutdown().  A second call returns at once and has no step.             *)

Shutdown ==
    /\ stage[Closer] = "idle"
    /\ down' = TRUE
    /\ Goes(Closer, "wake")
    /\ UNCHANGED <<config, alive, queue, due, dispatchVars, slotVars, present>>

(* Mutant: shutdown() wakes nobody.                                        *)
WakeNone ==
    /\ stage[Closer] = "wake"
    /\ Goes(Closer, "drain")
    /\ UNCHANGED <<config, down, alive, queue, due, dispatchVars, slotVars, present>>

(* notify_all, after the mutex was taken and released.                     *)
WakeAll ==
    /\ stage[Closer] = "wake"
    /\ stage' = [t \in Threads |-> IF t = Closer THEN "drain"
                                   ELSE IF stage[t] = "blocked" THEN "woken"
                                   ELSE stage[t]]
    /\ UNCHANGED <<config, down, alive, queue, due, dispatchVars, slotVars, present>>

MarkDead ==
    /\ stage[Closer] = "kill"
    /\ alive' = FALSE
    /\ Goes(Closer, "done")
    /\ UNCHANGED <<config, down, queue, due, dispatchVars, slotVars, present>>

-----------------------------------------------------------------------------
(* subscribe(), and cancel() of the token or its destructor *)

SetToken(s, v) == token' = [token EXCEPT ![s] = v]

Subscribe(s) ==
    /\ token[s] = "none"
    /\ SetToken(s, IF down THEN "inert" ELSE "subscribing")
    /\ UNCHANGED <<config, down, alive, queue, due, stage, dispatchVars, present,
                   registered, cancelled>>

(* registerSubscription() looks at alive again under the registry's mutex. *)
Register(s) ==
    /\ token[s] = "subscribing"
    /\ IF alive
       THEN registered' = registered \cup {s} /\ SetToken(s, "live")
       ELSE SetToken(s, "inert") /\ UNCHANGED registered
    /\ UNCHANGED <<config, down, alive, queue, due, stage, dispatchVars, present, cancelled>>

(* cancel() and unregisterSubscription() look whether the bus is alive,    *)
(* without a lock, and do nothing for a dead one.                          *)
Cancel(s) ==
    /\ token[s] = "live" /\ s \notin Standing
    /\ SetToken(s, IF alive THEN "cancelling" ELSE "skipped")
    /\ UNCHANGED <<config, down, alive, queue, due, stage, dispatchVars, present,
                   registered, cancelled>>

(* The slot leaves the registry, ...                                       *)
Erase(s) ==
    /\ token[s] = "cancelling"
    /\ registered' = registered \ {s}
    /\ SetToken(s, "draining")
    /\ UNCHANGED <<config, down, alive, queue, due, stage, dispatchVars, present, cancelled>>

(* Mutant: the call does not wait for the deliveries under way.            *)
LeaveAtOnce(s) ==
    /\ token[s] = "draining"
    /\ cancelled' = cancelled \cup {s}
    /\ SetToken(s, "drained")
    /\ UNCHANGED <<config, down, alive, queue, due, stage, dispatchVars, present, registered>>

(* ... and once no delivery is inside it is marked cancelled.              *)
Drain(s) ==
    /\ token[s] = "draining"
    /\ Inside(s) = {}
    /\ cancelled' = cancelled \cup {s}
    /\ SetToken(s, "drained")
    /\ UNCHANGED <<config, down, alive, queue, due, stage, dispatchVars, present, registered>>

-----------------------------------------------------------------------------
PostStep(p) == Enqueue(p) \/ WaitForRoom(p) \/ DropOldest(p) \/ RefuseFull(p)
ServeStep(t) ==
    \/ Tell(t) \/ TakeDue(t) \/ FindNoneDue(t) \/ Snapshot(t)
    \/ Enter(t) \/ Run(t) \/ Return(t) \/ EndDispatch(t)
CloseStep == WakeAll \/ MarkDead
TokenStep(s) == Register(s) \/ Erase(s) \/ Drain(s)

BusNext ==
    \/ \E p \in Posters : Post(p) \/ PostStep(p) \/ WakeUp(p) \/ Elapse(p)
    \/ \E t \in Threads : ServeStep(t)
    \/ Shutdown \/ CloseStep
    \/ \E s \in Slots : Subscribe(s) \/ Cancel(s) \/ TokenStep(s)

BusSpec == BusInit /\ [][BusNext]_busVars

(* Threads in the middle of a call go on, subscribers return from          *)
(* onMessage and time passes; nobody has to call anything.                 *)
FairBusSpec ==
    /\ BusSpec
    /\ \A p \in Posters : WF_busVars(PostStep(p)) /\ WF_busVars(Elapse(p))
    /\ \A t \in Threads : WF_busVars(ServeStep(t))
    /\ WF_busVars(CloseStep)
    /\ \A s \in Slots : WF_busVars(TokenStep(s))

-----------------------------------------------------------------------------
(* Every variable has its type, a thread that dispatches knows what and    *)
(* where, and the queue keeps to its bound, however many producers waited  *)
(* for room.                                                               *)
BusTypeOK ==
    /\ config \in Configs
    /\ down \in BOOLEAN /\ alive \in BOOLEAN
    /\ queue \in Seq(Posters) /\ (config.bounded => Len(queue) <= Cap)
    /\ due \subseteq Posters
    /\ stage \in [Threads -> {"idle", "checked", "blocked", "woken", "refused", "tell", "drain",
                              "snapshot", "deliver", "entered", "running", "wake", "kill", "done"}]
    /\ current \in [Threads -> Posters \cup {None}]
    /\ todo \in [Threads -> SUBSET Slots]
    /\ slot \in [Threads -> Slots \cup {None}]
    /\ \A t \in Threads :
          /\ stage[t] \in {"snapshot", "deliver", "entered", "running"} => current[t] \in Posters
          /\ stage[t] \in {"entered", "running"} => slot[t] \in Slots
    /\ registered \subseteq Slots /\ cancelled \subseteq Slots
    /\ token \in [Slots -> {"none", "inert", "subscribing", "live", "cancelling", "draining",
                            "drained", "skipped"}]
    /\ present \in [Posters -> SUBSET Slots]
    /\ hits \in [Posters -> [Slots -> Nat]]
    /\ served \subseteq Posters

(* The strong unsubscribe of ISubscriptionToken: once cancel() of a slot   *)
(* of a living bus has returned, no thread is in the subscriber's          *)
(* onMessage on behalf of the slot, and none ever will be, whatever        *)
(* snapshots are still being walked: the subscriber may be destroyed.      *)
CancelledStaysQuiet ==
    \A s \in Slots : token[s] = "drained" => Inside(s) = {}

(* A message reaches a subscription at most once, and only one that        *)
(* matches; whoever was subscribed when it was posted and still is when    *)
(* its dispatch ends got a message that goes to everybody.                 *)
DeliveredOnce ==
    \A m \in Posters, s \in Slots :
        /\ hits[m][s] <= 1
        /\ hits[m][s] > 0 => Wanted(s, m)
NobodyMissed ==
    \A m \in served : \A s \in present[m] : token[s] = "live" => hits[m][s] = 1
ReachesAllOnce == DeliveredOnce /\ NobodyMissed

(* No message that was due when it was posted is left in the queue with    *)
(* nobody to serve it, though the bus has no thread of its own and a       *)
(* posting thread may find its message already taken.                      *)
ReadyIsServed ==
    \A i \in 1..Len(queue) : ~Message[queue[i]].later =>
        \E t \in Threads : stage[t] \in {"tell", "drain", "snapshot", "deliver", "entered", "running"}

(* Once shutdown() has begun, every post() comes back, also those that     *)
(* wait for room, and shutdown() itself; and each cancel() returns.        *)
BusCallsReturn ==
    /\ down ~> \A t \in Threads : stage[t] \in {"idle", "refused", "done"}
    /\ \A s \in Slots : token[s] = "draining" ~> token[s] = "drained"

(* "the destructor blocks until every in-flight dispatch targeting this    *)
(* slot has returned" (ISubscriptionToken): no delivery is under way for a *)
(* token that is gone, whether or not the bus was shut down meanwhile.     *)
NoDeliveryAfterCancel ==
    \A s \in Slots : token[s] \in {"drained", "skipped"} => Inside(s) = {}

(* "onMessage is never invoked concurrently for the SAME subscriber"       *)
(* (IMessageBus::post), also when it has several subscriptions.            *)
SubscriberIsSerial ==
    \A t, u \in Threads :
        stage[t] = "running" /\ stage[u] = "running" /\ t # u =>
            SubscriberOf[slot[t]] # SubscriberOf[slot[u]]

(* "the bus requeues the message until the monotonic clock catches up"     *)
(* (IMessage::scheduledFor): a queued message leaves the queue some time   *)
(* after it has become due, or else the bus is shut down.                  *)
DueIsServed ==
    \A m \in Posters :
        m \in due /\ m \in Range(queue) ~> m \notin Range(queue) \/ down
=============================================================================
