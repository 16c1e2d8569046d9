------------------------------- MODULE Engine -------------------------------
(***************************************************************************)
(* vigine::engine::AbstractEngine over its AbstractContext: the pump that  *)
(* run() keeps going on the main thread, shutdown() from any thread or     *)
(* from inside a runnable, the freeze of the context, the destructor, and  *)
(* the context's registries.  The main queue is the thread manager's.      *)
(***************************************************************************)
EXTENDS Integers, Sequences, FiniteSets

CONSTANTS
    Work,            \* runnables with Main affinity, each posted at most once
    Services,
    Stamped,         \* those that derive from AbstractService, and carry an id
    MaxStamps,       \* bound of the model: registrations
    StampWidth,      \* generations are counted modulo this
    AskedIds,        \* the ids that buses are asked for with; 0 asks for any
    MaxBuses         \* bound of the model: calls of createMessageBus()

ASSUME EngineAssumption ==
    /\ Stamped \subseteq Services
    /\ MaxStamps \in Nat /\ StampWidth \in Nat /\ StampWidth > 1
    /\ AskedIds \subseteq Nat /\ MaxBuses \in Nat

VARIABLES
    mainPc,          \* where the main thread is in run() or ~AbstractEngine()
    pumping,         \* it is inside runMainThreadPump()
    entered, stopRequested, running,    \* _runEntered, _shutdownRequested, _running
    frozen,          \* _frozen of the context
    posts, swapped,  \* the main queue, and the batch the pump swapped it for
    services,        \* _services: index -> service
    stamp,           \* the id the service reports
    serviceIndex, serviceGen,
    userBuses,       \* _userBuses: id -> the call that made the bus
    busIdCounter,    \* of the factory
    posted, ran,     \* history: runnables in the order they were posted, and run
    asked, early,    \* history: shutdown() was called; how many runnables were
                     \* posted before it, or before the destructor
    issued,          \* history: the ids ever stamped, and on what
    busCalls         \* history: the calls of createMessageBus()

serviceVars == <<services, stamp, serviceIndex, serviceGen, issued>>
busVars == <<userBuses, busIdCounter, busCalls>>
registryVars == <<serviceVars, busVars>>
engineVars == <<mainPc, pumping, entered, stopRequested, running, frozen, posts, swapped,
                registryVars, posted, ran, asked, early>>
queueVars == <<pumping, posts, swapped, posted, ran>>

NoStamp == <<0, 0>>
Free == "none"
SystemBus == 1          \* the id of the context's own bus

ContextInit ==
    /\ services = [i \in 1 .. MaxStamps |-> Free]
    /\ stamp = [s \in Services |-> NoStamp]
    /\ serviceIndex = 1 /\ serviceGen = 1
    /\ userBuses = <<>> /\ busIdCounter = SystemBus + 1

EngineInit ==
    /\ mainPc = "out" /\ pumping = FALSE
    /\ entered = FALSE /\ stopRequested = FALSE /\ running = FALSE /\ frozen = FALSE
    /\ posts = <<>> /\ swapped = <<>> /\ posted = <<>> /\ ran = <<>>
    /\ ContextInit
    /\ asked = FALSE /\ early = 0 /\ issued = {} /\ busCalls = <<>>

Go(from, to) == mainPc = from /\ mainPc' = to

-----------------------------------------------------------------------------
(* run()                                                                   *)
EnterRun ==
    /\ ~entered /\ Go("out", "freeze")
    /\ entered' = TRUE
    /\ UNCHANGED <<stopRequested, running, frozen, asked, early, queueVars, registryVars>>

Freeze(from, to) ==
    /\ Go(from, to)
    /\ frozen' = TRUE
    /\ UNCHANGED <<entered, stopRequested, running, asked, early, queueVars, registryVars>>

Publish ==
    /\ Go("publish", "test")
    /\ running' = TRUE
    /\ UNCHANGED <<entered, stopRequested, frozen, asked, early, queueVars, registryVars>>

(* Mutant: run() returns as soon as it sees the flag.                      *)
NoLastDrain == "leave"

LastDrain == "final"

TestShutdown ==
    /\ mainPc = "test"
    /\ mainPc' = IF stopRequested THEN LastDrain ELSE "pump"
    /\ UNCHANGED <<entered, stopRequested, running, frozen, asked, early, queueVars, registryVars>>

Draining == {"pump", "final", "last"}
AfterDrain(pc) == CASE pc = "pump" -> "wait" [] pc = "final" -> "leave" [] pc = "last" -> "gone"

(* runMainThreadPump(): swaps the queue, then runs what it got.            *)
SwapPosts ==
    /\ mainPc \in Draining /\ ~pumping
    /\ pumping' = TRUE
    /\ swapped' = posts /\ posts' = <<>>
    /\ UNCHANGED <<mainPc, entered, stopRequested, running, frozen, asked, early, posted, ran,
                   registryVars>>

RunNext ==
    /\ pumping /\ swapped # <<>>
    /\ swapped' = Tail(swapped)
    /\ ran' = Append(ran, Head(swapped))
    /\ UNCHANGED <<mainPc, pumping, entered, stopRequested, running, frozen, asked, early, posts,
                   posted, registryVars>>

EndPump ==
    /\ pumping /\ swapped = <<>>
    /\ pumping' = FALSE
    /\ mainPc' = AfterDrain(mainPc)
    /\ UNCHANGED <<entered, stopRequested, running, frozen, asked, early, posts, swapped, posted,
                   ran, registryVars>>

(* _pumpCv.wait_for(): ends with the tick, or with the notification of a   *)
(* shutdown, which sets the flag under the same mutex.                     *)
WakeFromWait ==
    /\ Go("wait", "test")
    /\ UNCHANGED <<entered, stopRequested, running, frozen, asked, early, queueVars, registryVars>>

LeaveRun ==
    /\ Go("leave", "returned")
    /\ running' = FALSE
    /\ UNCHANGED <<entered, stopRequested, frozen, asked, early, queueVars, registryVars>>

-----------------------------------------------------------------------------
(* Mutant: shutdown() is for an engine that is running.                    *)
StopIfRunning == stopRequested' = running

RequestStop == stopRequested' = TRUE

(* shutdown(): by any thread, before, in and after run(), or by a runnable;*)
(* a second call changes nothing.                                          *)
Shutdown ==
    /\ mainPc # "gone" /\ ~asked
    /\ asked' = TRUE /\ RequestStop
    /\ early' = IF mainPc \in {"ending", "last"} THEN early ELSE Len(posted)
    /\ UNCHANGED <<mainPc, entered, running, frozen, queueVars, registryVars>>

(* ~AbstractEngine(): never while run() is on, by its contract.            *)
Destroy ==
    /\ Go(IF entered THEN "returned" ELSE "out", "ending")
    /\ early' = Len(posted)
    /\ UNCHANGED <<entered, stopRequested, running, frozen, asked, queueVars, registryVars>>

Post(r) ==
    /\ mainPc # "gone" /\ \A k \in 1 .. Len(posted) : posted[k] # r
    /\ posts' = Append(posts, r) /\ posted' = Append(posted, r)
    /\ UNCHANGED <<mainPc, pumping, entered, stopRequested, running, frozen, asked, early, swapped,
                   ran, registryVars>>

-----------------------------------------------------------------------------
(* registerService(), with allocateServiceId(); one critical section.      *)
(* Mutant: the index is used for the next service too.                     *)
SameIndex == serviceIndex

IndexAfter == serviceIndex + 1

RegisterService(s) ==
    LET id == <<serviceIndex, serviceGen>>
        next == (serviceGen + 1) % StampWidth
    IN /\ mainPc # "gone" /\ ~frozen /\ Cardinality(issued) < MaxStamps
       /\ stamp' = IF s \in Stamped THEN [stamp EXCEPT ![s] = id] ELSE stamp
       /\ services' = [services EXCEPT ![serviceIndex] = IF @ = Free THEN s ELSE @]
       /\ serviceIndex' = IndexAfter
       /\ serviceGen' = IF next = 0 THEN 1 ELSE next
       /\ issued' = issued \cup {<<id, s>>}
       /\ UNCHANGED <<mainPc, entered, stopRequested, running, frozen, asked, early, queueVars,
                      busVars>>

(* service(): by index, and by the whole id where the service reports one. *)
ServiceAt(id) ==
    LET found == services[id[1]]
    IN IF found = Free THEN Free
       ELSE IF stamp[found] \notin {NoStamp, id} THEN Free ELSE found

-----------------------------------------------------------------------------
(* createMessageBus(), of the context and of the factory: a bus without an *)
(* id of its own gets the next of the process, and a bus whose id is taken *)
(* is not registered.                                                      *)
ResolvedId(id) == IF id = 0 THEN busIdCounter ELSE id

CreateMessageBus(asks) ==
    LET id == ResolvedId(asks)
        fresh == id \notin DOMAIN userBuses
        call == Len(busCalls) + 1
    IN /\ mainPc # "gone" /\ ~frozen /\ call <= MaxBuses
       /\ busIdCounter' = IF asks = 0 THEN busIdCounter + 1 ELSE busIdCounter
       /\ userBuses' = [i \in DOMAIN userBuses \cup {id} |->
                            IF i = id /\ fresh THEN call ELSE userBuses[i]]
       /\ busCalls' = Append(busCalls, [id |-> id, asks |-> asks, made |-> fresh])
       /\ UNCHANGED <<mainPc, entered, stopRequested, running, frozen, asked, early, queueVars,
                      serviceVars>>

(* messageBus(): what is found, if anything; the system bus, of no call,   *)
(* answers to its id before any other.                                     *)
MessageBus(id) ==
    IF id = SystemBus THEN {0} ELSE {userBuses[i] : i \in DOMAIN userBuses \cap {id}}

MainNext ==
    \/ Freeze("freeze", "publish") \/ Publish \/ TestShutdown
    \/ SwapPosts \/ RunNext \/ EndPump
    \/ WakeFromWait \/ LeaveRun
    \/ Freeze("ending", "last")
Course == MainNext \/ EnterRun \/ Shutdown \/ Destroy
EngineNext ==
    \/ Course
    \/ \E r \in Work : Post(r)
    \/ \E s \in Services : RegisterService(s)

(* The buses keep apart from the work and the services.                    *)
BusesNext == Course \/ \E asks \in AskedIds : CreateMessageBus(asks)

(* The main thread goes on once it is in run() or in the destructor.       *)
EngineFairness == WF_engineVars(MainNext)

-----------------------------------------------------------------------------
(* The runnables run in the order they were posted, none twice; when run() *)
(* returns, all that were posted before shutdown() have run, and when the  *)
(* engine is gone, all that were posted before its destructor.             *)
WorkIsNotLost ==
    /\ Len(ran) <= Len(posted) /\ ran = SubSeq(posted, 1, Len(ran))
    /\ mainPc \in {"returned", "gone"} => Len(ran) >= early

(* The id a service reports finds that service, and an id it reported      *)
(* before finds no other one; whoever sees the engine running sees the     *)
(* context frozen.                                                         *)
ServicesAreFound ==
    /\ \A s \in Stamped : stamp[s] # NoStamp => ServiceAt(stamp[s]) = s
    /\ \A entry \in issued : ServiceAt(entry[1]) \in {Free, entry[2]}
    /\ running => frozen

(* A bus that was made is found by its id from then on, whatever ids later *)
(* ones ask for or are given, unless it asked for that of the system bus.  *)
BusesAreFound ==
    \A call \in DOMAIN busCalls :
        LET bus == busCalls[call] IN
        bus.made => MessageBus(bus.id) = {call} \/ bus.id = SystemBus

EngineIsSound == WorkIsNotLost /\ ServicesAreFound /\ BusesAreFound

(* "two buses built by the same process always end up with distinct ids"   *)
(* (createmessagebus.cpp): one that asks for none gets one of its own.     *)
FreshIdIsDistinct ==
    \A call \in DOMAIN busCalls : busCalls[call].asks = 0 => busCalls[call].made

(* A shutdown, even one that comes before run(), makes run() return.       *)
EngineStops == asked /\ entered ~> mainPc \in {"returned", "ending", "last", "gone"}
=============================================================================
