----------------------- MODULE AbstractThreadManager -----------------------
(***************************************************************************)
(* The bookkeeping every thread manager shares                             *)
(* (vigine::threading::AbstractThreadManager): the registry of named       *)
(* threads, whose ids carry a generation so that an id dies with its       *)
(* registration; the counter that caps dedicated threads; and the          *)
(* shut-down flag.  Each operation below is one critical section of        *)
(* _registryMutex or one successful compare-and-swap, hence one step.      *)
(* DefaultThreadManager extends this module and interleaves these steps    *)
(* with its own.                                                           *)
(***************************************************************************)
EXTENDS Integers, FiniteSets

CONSTANTS
    MaxNamed,          \* ThreadManagerConfig::maxNamedThreads
    MaxDedicated,      \* ThreadManagerConfig::maxDedicatedThreads, resolved
    GenModulus,        \* generations are unsigned: 2^32 in the code
    MaxRegistrations   \* bound of the model: registrations explored

ASSUME RegistryAssumption ==
    /\ MaxNamed \in Nat
    /\ MaxDedicated \in Nat \ {0}
    /\ GenModulus \in Nat \ {0, 1}
    /\ MaxRegistrations \in Nat

VARIABLES
    slots,           \* _namedSlots: a vector that never shrinks
    liveCount,       \* _namedLiveCount
    nextGeneration,  \* _nextNamedGeneration
    dedicatedCount,  \* _dedicatedCount
    shutDown,        \* _shutDown
    registrations,   \* history: how many registrations succeeded
    issued           \* history: the ids they returned

registryVars == <<slots, liveCount, nextGeneration, registrations, issued>>
baseVars     == <<registryVars, dedicatedCount, shutDown>>

Index       == 0 .. MaxNamed - 1
Generation  == 0 .. GenModulus - 1
NamedId     == [index : Index, generation : Generation]
\* A vector entry that was never appended is a dead slot of generation 0.
NamedSlot   == [generation : Generation, live : BOOLEAN]

BaseInit ==
    /\ slots = [i \in Index |-> [generation |-> 0, live |-> FALSE]]
    /\ liveCount = 0
    /\ nextGeneration = 1
    /\ dedicatedCount = 0
    /\ shutDown = FALSE
    /\ registrations = 0
    /\ issued = {}

-----------------------------------------------------------------------------
(* Mutant: an id is looked up by its index alone.                          *)
ResolvesByIndex(id) ==
    /\ id.generation # 0
    /\ slots[id.index].live

(* resolveNamedSlot: the id is valid and still owns its slot.              *)
Resolves(id) ==
    /\ id.generation # 0
    /\ slots[id.index].live
    /\ slots[id.index].generation = id.generation

(* Mutant: a reused slot keeps the generation of its former owner.         *)
RegisterUnstamped(i) ==
    /\ registrations < MaxRegistrations
    /\ liveCount < MaxNamed
    /\ ~slots[i].live
    /\ \A j \in Index : j < i => slots[j].live
    /\ slots' = [slots EXCEPT ![i].live = TRUE]
    /\ issued' = issued \cup {[index |-> i, generation |-> nextGeneration]}
    /\ liveCount' = liveCount + 1
    /\ nextGeneration' = (nextGeneration + 1) % GenModulus
    /\ registrations' = registrations + 1
    /\ UNCHANGED <<dedicatedCount, shutDown>>

(* The locked part of registerNamedThread: below the cap, take the first   *)
(* dead slot and a fresh generation.                                       *)
RegisterNamedThread(i) ==
    /\ registrations < MaxRegistrations
    /\ liveCount < MaxNamed
    /\ ~slots[i].live
    /\ \A j \in Index : j < i => slots[j].live
    /\ slots' = [slots EXCEPT ![i] = [generation |-> nextGeneration, live |-> TRUE]]
    /\ issued' = issued \cup {[index |-> i, generation |-> nextGeneration]}
    /\ liveCount' = liveCount + 1
    /\ nextGeneration' = (nextGeneration + 1) % GenModulus
    /\ registrations' = registrations + 1
    /\ UNCHANGED <<dedicatedCount, shutDown>>

(* Mutant: a repeated unregistration is counted again.                     *)
ReleaseUnchecked(id) ==
    /\ slots' = [slots EXCEPT ![id.index].live = FALSE]
    /\ liveCount' = IF liveCount > 0 THEN liveCount - 1 ELSE 0
    /\ UNCHANGED <<nextGeneration, registrations, issued, dedicatedCount, shutDown>>

(* AbstractThreadManager::unregisterNamedThread: the owner's id kills the  *)
(* slot; a stale or invalid id changes nothing.                            *)
ReleaseNamedThread(id) ==
    /\ IF Resolves(id)
       THEN /\ slots' = [slots EXCEPT ![id.index].live = FALSE]
            /\ liveCount' = IF liveCount > 0 THEN liveCount - 1 ELSE 0
       ELSE UNCHANGED <<slots, liveCount>>
    /\ UNCHANGED <<nextGeneration, registrations, issued, dedicatedCount, shutDown>>

(* Mutant: the cap is not consulted.                                       *)
AcquireUncapped ==
    /\ dedicatedCount' = dedicatedCount + 1
    /\ UNCHANGED <<registryVars, shutDown>>

(* acquireDedicatedSlot, when it returns true.                             *)
AcquireDedicatedSlot ==
    /\ dedicatedCount < MaxDedicated
    /\ dedicatedCount' = dedicatedCount + 1
    /\ UNCHANGED <<registryVars, shutDown>>

(* releaseDedicatedSlot saturates at zero.                                 *)
ReleaseDedicatedSlot ==
    /\ dedicatedCount' = IF dedicatedCount > 0 THEN dedicatedCount - 1 ELSE 0
    /\ UNCHANGED <<registryVars, shutDown>>

MarkShutDown ==
    /\ shutDown' = TRUE
    /\ UNCHANGED <<registryVars, dedicatedCount>>

BaseNext ==
    \/ \E i \in Index : RegisterNamedThread(i)
    \/ \E id \in issued : ReleaseNamedThread(id)
    \/ AcquireDedicatedSlot
    \/ ReleaseDedicatedSlot
    \/ MarkShutDown

BaseSpec == BaseInit /\ [][BaseNext]_baseVars

-----------------------------------------------------------------------------
(* Every variable of the bookkeeping has its type.                         *)
BaseTypeOK ==
    /\ slots \in [Index -> NamedSlot]
    /\ liveCount \in Nat
    /\ nextGeneration \in Generation
    /\ dedicatedCount \in 0 .. MaxDedicated
    /\ shutDown \in BOOLEAN
    /\ registrations \in 0 .. MaxRegistrations
    /\ issued \subseteq NamedId

(* Every live slot belongs to an id some caller holds, so it can be used   *)
(* and unregistered: registerNamedThread never hands out an id that does   *)
(* not resolve while its slot counts against maxNamedThreads.              *)
LiveSlotsAreOwned ==
    \A i \in Index : slots[i].live => \E id \in issued : id.index = i /\ Resolves(id)

(* namedThreadCount() is the number of live registrations, whatever the    *)
(* order of registrations, unregistrations and repeated unregistrations.   *)
LiveCountExact == liveCount = Cardinality({i \in Index : slots[i].live})

(* An id that no longer resolves never resolves again, although its slot   *)
(* index is reused: "a stale id never resolves to a different thread"      *)
(* (namedthreadid.h).                                                      *)
StaleIdsStayStale ==
    [][\A id \in issued : ~Resolves(id) => ~Resolves(id)']_baseVars

(* Fewer registrations than generations: what the code takes for granted.  *)
NoWrap == MaxRegistrations < GenModulus
=============================================================================
