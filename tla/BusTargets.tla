----------------------------- MODULE BusTargets -----------------------------
(***************************************************************************)
(* The target half of DefaultBusControlBlock: slots with an index that is  *)
(* used again and a generation that tells its uses apart, filled by        *)
(* registerTarget() and emptied by the destructor of a ConnectionToken,    *)
(* which may run long after the bus is dead, or twice for one slot.        *)
(***************************************************************************)
EXTENDS Integers, Sequences, FiniteSets

CONSTANTS
    Registrations,   \* the calls of registerTarget()
    GenerationWidth  \* the bits of a generation: 32

Indices == 1 .. Cardinality(Registrations)
Generations == 1 .. 2 ^ GenerationWidth - 1
NoSlot == [owner |-> 0, generation |-> 0]

ASSUME TargetAssumption ==
    IsFiniteSet(Registrations) /\ GenerationWidth \in Nat \ {0}

VARIABLES
    slots,        \* _registry: what each index holds
    freeIndices,  \* _freeIndices, a stack
    usedIndices,  \* _nextIndex - 1
    nextGen,      \* _nextGeneration
    genOf,        \* _nextGenerationByIndex
    blockAlive,   \* _alive
    busOpen,      \* the bus has not been shut down
    joinedAs,     \* where each registration is
    idOf          \* the ConnectionId of each registration, or NoId

targetVars == <<slots, freeIndices, usedIndices, nextGen, genOf, blockAlive, busOpen,
                joinedAs, idOf>>

NoId == [index |-> 0, generation |-> 0]

TargetInit ==
    /\ slots = [i \in Indices |-> NoSlot]
    /\ freeIndices = <<>> /\ usedIndices = 0 /\ nextGen = 1
    /\ genOf = [i \in Indices |-> 0]
    /\ blockAlive = TRUE /\ busOpen = TRUE
    /\ joinedAs = [r \in Registrations |-> "new"]
    /\ idOf = [r \in Registrations |-> NoId]

After(g) == IF g = 2 ^ GenerationWidth - 1 THEN 1 ELSE g + 1

-----------------------------------------------------------------------------
(* registerTarget()                                                        *)

CheckBus(r) ==
    /\ joinedAs[r] = "new"
    /\ joinedAs' = [joinedAs EXCEPT ![r] = IF busOpen /\ blockAlive THEN "checked" ELSE "refused"]
    /\ UNCHANGED <<slots, freeIndices, usedIndices, nextGen, genOf, blockAlive, busOpen, idOf>>

TakeSlot(r, i, g) ==
    /\ slots' = [slots EXCEPT ![i] = [owner |-> r, generation |-> g]]
    /\ idOf' = [idOf EXCEPT ![r] = [index |-> i, generation |-> g]]
    /\ joinedAs' = [joinedAs EXCEPT ![r] = "allocated"]

(* allocateSlot(), which looks at the flag again under the lock.           *)
Allocate(r) ==
    /\ joinedAs[r] = "checked"
    /\ blockAlive
    /\ IF freeIndices # <<>>
       THEN LET i == freeIndices[Len(freeIndices)] IN
            /\ TakeSlot(r, i, genOf[i])
            /\ freeIndices' = SubSeq(freeIndices, 1, Len(freeIndices) - 1)
            /\ UNCHANGED <<usedIndices, nextGen>>
       ELSE /\ TakeSlot(r, usedIndices + 1, nextGen)
            /\ usedIndices' = usedIndices + 1
            /\ nextGen' = After(nextGen)
            /\ UNCHANGED freeIndices
    /\ UNCHANGED <<genOf, blockAlive, busOpen>>

AllocateDead(r) ==
    /\ joinedAs[r] = "checked"
    /\ ~blockAlive
    /\ joinedAs' = [joinedAs EXCEPT ![r] = "refused"]
    /\ UNCHANGED <<slots, freeIndices, usedIndices, nextGen, genOf, blockAlive, busOpen, idOf>>

(* The target keeps the token, or an exception passes through.             *)
Accept(r) ==
    /\ joinedAs[r] = "allocated"
    /\ joinedAs' = [joinedAs EXCEPT ![r] = "registered"]
    /\ UNCHANGED <<slots, freeIndices, usedIndices, nextGen, genOf, blockAlive, busOpen, idOf>>

(* Mutant: whatever is in the slot goes.                                   *)
UnregisterAny(r) ==
    IF blockAlive /\ slots[idOf[r].index] # NoSlot
    THEN LET i == idOf[r].index IN
         /\ slots' = [slots EXCEPT ![i] = NoSlot]
         /\ genOf' = [genOf EXCEPT ![i] = After(slots[i].generation)]
         /\ freeIndices' = Append(freeIndices, i)
    ELSE UNCHANGED <<slots, genOf, freeIndices>>

(* unregisterTarget()                                                      *)
Unregister(r) ==
    LET i == idOf[r].index IN
    IF blockAlive /\ slots[i].generation = idOf[r].generation
    THEN /\ slots' = [slots EXCEPT ![i] = NoSlot]
         /\ genOf' = [genOf EXCEPT ![i] = After(slots[i].generation)]
         /\ freeIndices' = Append(freeIndices, i)
    ELSE UNCHANGED <<slots, genOf, freeIndices>>

(* acceptConnection() throws: the argument, the token, unregisters the     *)
(* slot, and the handler of the exception does so again.                   *)
Throw(r) ==
    /\ joinedAs[r] = "allocated"
    /\ Unregister(r)
    /\ joinedAs' = [joinedAs EXCEPT ![r] = "thrown"]
    /\ UNCHANGED <<usedIndices, nextGen, blockAlive, busOpen, idOf>>

RollBack(r) ==
    /\ joinedAs[r] = "thrown"
    /\ Unregister(r)
    /\ joinedAs' = [joinedAs EXCEPT ![r] = "refused"]
    /\ UNCHANGED <<usedIndices, nextGen, blockAlive, busOpen, idOf>>

(* The target dies and its tokens with it.  No dispatch holds a token      *)
(* (nobody calls beginDispatch()), so the destructor's wait passes.        *)
DropToken(r) ==
    /\ joinedAs[r] = "registered"
    /\ Unregister(r)
    /\ joinedAs' = [joinedAs EXCEPT ![r] = "gone"]
    /\ UNCHANGED <<usedIndices, nextGen, blockAlive, busOpen, idOf>>

(* The bus: shutdown(), which then marks the block dead.                   *)
CloseBus ==
    /\ busOpen
    /\ busOpen' = FALSE
    /\ UNCHANGED <<slots, freeIndices, usedIndices, nextGen, genOf, blockAlive, joinedAs, idOf>>

KillBlock ==
    /\ ~busOpen /\ blockAlive
    /\ blockAlive' = FALSE
    /\ UNCHANGED <<slots, freeIndices, usedIndices, nextGen, genOf, busOpen, joinedAs, idOf>>

TargetNext ==
    \/ \E r \in Registrations :
          CheckBus(r) \/ Allocate(r) \/ AllocateDead(r) \/ Accept(r) \/ Throw(r)
          \/ RollBack(r) \/ DropToken(r)
    \/ CloseBus \/ KillBlock

-----------------------------------------------------------------------------
(* lookup()                                                                *)
Lookup(id) ==
    IF blockAlive /\ id # NoId /\ slots[id.index].generation = id.generation
    THEN slots[id.index].owner ELSE NoSlot.owner

(* An id finds its own target for as long as the target holds the token,   *)
(* and from then on nothing, least of all a target that came later to the  *)
(* same index: also when a failed registration is rolled back twice and    *)
(* another one takes the index in between.                                 *)
IdFindsItsTarget ==
    blockAlive =>
        \A r \in Registrations :
            Lookup(idOf[r]) = IF joinedAs[r] \in {"allocated", "registered"}
                              THEN r ELSE NoSlot.owner
=============================================================================
