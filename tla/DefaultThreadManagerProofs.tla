---------------------- MODULE DefaultThreadManagerProofs ---------------------
(***************************************************************************)
(* The registry of named threads and the scheduler that is built on it,    *)
(* for any number of calls, workers, owners and names, and any number of   *)
(* registrations below the number of generations.                          *)
(***************************************************************************)
EXTENDS DefaultThreadManager, FiniteSetTheorems, TLAPS

-----------------------------------------------------------------------------
(* The registry.                                                           *)

(* Generations are handed out in order, so every id in circulation carries *)
(* a generation below the next one; this is what makes a stale id final.   *)
GenerationsInOrder ==
    /\ nextGeneration = IF registrations + 1 = GenModulus THEN 0 ELSE registrations + 1
    /\ \A id \in issued : id.generation \in 1 .. registrations

(* A live slot is addressed by an id that was issued for it.               *)
LiveSlotsWereIssued ==
    \A i \in Index : slots[i].live =>
        [index |-> i, generation |-> slots[i].generation] \in issued

RegistryInv ==
    BaseTypeOK /\ GenerationsInOrder /\ LiveSlotsWereIssued /\ LiveCountExact

-----------------------------------------------------------------------------
(* The arithmetic of the unsigned counter: it counts up, and wraps to zero *)
(* exactly at the modulus.                                                 *)
LEMMA CounterStep ==
    ASSUME NEW m \in Nat \ {0, 1}, NEW n \in 0 .. m - 1
    PROVE  (n + 1) % m = IF n + 1 = m THEN 0 ELSE n + 1
<1>1. CASE n + 1 = m
  BY <1>1, SMT
<1>2. CASE n + 1 # m
  BY <1>2, SMT
<1>3. QED BY <1>1, <1>2

(* The set of live slots is finite, so adding or removing one slot changes *)
(* its cardinality by one.                                                 *)
LEMMA LiveSetStep ==
    ASSUME RegistryAssumption, NEW S \in SUBSET Index, NEW i \in Index
    PROVE  /\ IsFiniteSet(S) /\ Cardinality(S) \in Nat
           /\ i \notin S => Cardinality(S \cup {i}) = Cardinality(S) + 1
           /\ i \in S => Cardinality(S \ {i}) = Cardinality(S) - 1 /\ Cardinality(S) > 0
<1>1. IsFiniteSet(Index)
  BY FS_Interval DEF Index, RegistryAssumption
<1>2. IsFiniteSet(S)
  BY <1>1, FS_Subset
<1>3. Cardinality(S) \in Nat
  BY <1>2, FS_CardinalityType
<1>4. i \notin S => Cardinality(S \cup {i}) = Cardinality(S) + 1
  BY <1>2, FS_AddElement
<1>5. i \in S => Cardinality(S \ {i}) = Cardinality(S) - 1
  BY <1>2, FS_RemoveElement
<1>6. i \in S => Cardinality(S) > 0
  BY <1>2, <1>3, FS_EmptySet
<1>7. QED BY <1>2, <1>3, <1>4, <1>5, <1>6

LEMMA RegistryInit == RegistryAssumption /\ BaseInit => RegistryInv
<1> SUFFICES ASSUME RegistryAssumption, BaseInit PROVE RegistryInv
  OBVIOUS
<1> USE DEF BaseInit
<1>1. BaseTypeOK
  <2>1. 0 \in Generation /\ 1 \in Generation
    BY DEF RegistryAssumption, Generation
  <2>2. [generation |-> 0, live |-> FALSE] \in NamedSlot
    BY <2>1 DEF NamedSlot
  <2>3. slots \in [Index -> NamedSlot]
    BY <2>2
  <2>4. shutDown \in BOOLEAN
    BY Zenon
  <2>5. QED
    BY <2>1, <2>3, <2>4 DEF BaseTypeOK, RegistryAssumption
<1>2. GenerationsInOrder /\ LiveSlotsWereIssued
  BY DEF GenerationsInOrder, LiveSlotsWereIssued, RegistryAssumption
<1>3. LiveCountExact
  <2>1. {i \in Index : slots[i].live} = {}
    OBVIOUS
  <2>2. QED BY <2>1, FS_EmptySet DEF LiveCountExact
<1>4. QED BY <1>1, <1>2, <1>3 DEF RegistryInv

-----------------------------------------------------------------------------
(* One lemma for each operation of the registry, so that they can be used  *)
(* from the proofs about the scheduler too.                                *)
LEMMA RegisterKeepsInv ==
    ASSUME RegistryAssumption, NoWrap, RegistryInv,
           NEW i \in Index, RegisterNamedThread(i)
    PROVE  RegistryInv'
<1> DEFINE new == [index |-> i, generation |-> nextGeneration]
<1>1. /\ nextGeneration = registrations + 1
      /\ nextGeneration \in Generation /\ nextGeneration # 0
      /\ nextGeneration' = IF registrations' + 1 = GenModulus THEN 0 ELSE registrations' + 1
      /\ nextGeneration' \in Generation
      /\ registrations' \in 0 .. MaxRegistrations
  <2>1. registrations \in 0 .. MaxRegistrations /\ registrations < MaxRegistrations
    BY DEF RegistryInv, BaseTypeOK, RegisterNamedThread
  <2>2. nextGeneration = registrations + 1 /\ nextGeneration \in 0 .. GenModulus - 1
    BY <2>1 DEF RegistryInv, GenerationsInOrder, NoWrap, RegistryAssumption
  <2>3. nextGeneration' = IF nextGeneration + 1 = GenModulus THEN 0 ELSE nextGeneration + 1
    BY <2>2, CounterStep DEF RegisterNamedThread, RegistryAssumption
  <2>4. QED
    BY <2>1, <2>2, <2>3 DEF RegisterNamedThread, RegistryAssumption, Generation
<1>2. new \in NamedId /\ [generation |-> nextGeneration, live |-> TRUE] \in NamedSlot
  BY <1>1 DEF NamedId, NamedSlot
<1>3. /\ slots \in [Index -> NamedSlot] /\ ~slots[i].live
      /\ slots' = [slots EXCEPT ![i] = [generation |-> nextGeneration, live |-> TRUE]]
      /\ issued' = issued \cup {new}
  BY DEF RegistryInv, BaseTypeOK, RegisterNamedThread
<1>4. BaseTypeOK'
  <2>1. slots' \in [Index -> NamedSlot]
    BY <1>2, <1>3
  <2>2. shutDown' \in BOOLEAN
    BY DEF RegistryInv, BaseTypeOK, RegisterNamedThread
  <2>3. liveCount' \in Nat /\ dedicatedCount' \in 0 .. MaxDedicated
    BY DEF RegistryInv, BaseTypeOK, RegisterNamedThread
  <2>4. issued' \subseteq NamedId
    BY <1>2, <1>3 DEF RegistryInv, BaseTypeOK
  <2>5. QED
    BY <1>1, <2>1, <2>2, <2>3, <2>4 DEF BaseTypeOK
<1>5. GenerationsInOrder'
  <2>1. registrations' = registrations + 1
    BY DEF RegisterNamedThread
  <2>2. \A id \in issued' : id.generation \in 1 .. registrations'
    BY <1>1, <1>3, <2>1 DEF RegistryInv, GenerationsInOrder, BaseTypeOK
  <2>3. QED
    BY <1>1, <2>2 DEF GenerationsInOrder
<1>6. LiveSlotsWereIssued'
  BY <1>3 DEF RegistryInv, LiveSlotsWereIssued
<1>7. LiveCountExact'
  <2> DEFINE Live == {j \in Index : slots[j].live}
  <2>1. {j \in Index : slots'[j].live} = Live \cup {i}
    BY <1>3
  <2>2. i \notin Live
    BY <1>3
  <2>3. Cardinality(Live \cup {i}) = Cardinality(Live) + 1
    BY <2>2, LiveSetStep
  <2>4. liveCount = Cardinality(Live)
    BY DEF RegistryInv, LiveCountExact
  <2>5. liveCount' = liveCount + 1
    BY DEF RegisterNamedThread
  <2>6. QED
    BY <2>1, <2>3, <2>4, <2>5 DEF LiveCountExact
<1>8. QED BY <1>4, <1>5, <1>6, <1>7 DEF RegistryInv

LEMMA ReleaseKeepsInv ==
    ASSUME RegistryAssumption, RegistryInv,
           NEW id \in NamedId, ReleaseNamedThread(id)
    PROVE  RegistryInv'
<1>1. CASE ~Resolves(id)
  <2>1. UNCHANGED baseVars
    BY <1>1 DEF ReleaseNamedThread, baseVars, registryVars
  <2>2. QED
    BY <2>1 DEF RegistryInv, BaseTypeOK, GenerationsInOrder, LiveSlotsWereIssued,
                LiveCountExact, baseVars, registryVars
<1>2. CASE Resolves(id)
  <2> DEFINE i == id.index
             Live == {j \in Index : slots[j].live}
  <2>1. /\ i \in Index /\ slots[i].live /\ slots \in [Index -> NamedSlot]
        /\ slots' = [slots EXCEPT ![i].live = FALSE]
    BY <1>2 DEF ReleaseNamedThread, RegistryInv, BaseTypeOK, NamedId, Resolves
  <2>2. \A j \in Index : /\ slots'[j].generation = slots[j].generation
                         /\ slots'[j].live = IF j = i THEN FALSE ELSE slots[j].live
    BY <2>1 DEF NamedSlot
  <2>3. slots' \in [Index -> NamedSlot]
    BY <2>1 DEF NamedSlot
  <2>4. Cardinality(Live \ {i}) = Cardinality(Live) - 1 /\ Cardinality(Live) > 0
    BY <2>1, LiveSetStep
  <2>5. {j \in Index : slots'[j].live} = Live \ {i}
    BY <2>2
  <2>6. liveCount = Cardinality(Live)
    BY DEF RegistryInv, LiveCountExact
  <2>7. liveCount' = liveCount - 1
    BY <1>2, <2>4, <2>6 DEF ReleaseNamedThread
  <2>8. UNCHANGED <<nextGeneration, registrations, issued, dedicatedCount, shutDown>>
    BY DEF ReleaseNamedThread
  <2>9. BaseTypeOK'
    <3>1. liveCount' \in Nat
      BY <2>4, <2>6, <2>7 DEF RegistryInv, BaseTypeOK
    <3>2. QED
      BY <2>3, <2>8, <3>1 DEF RegistryInv, BaseTypeOK
  <2>10. GenerationsInOrder'
    BY <2>8 DEF RegistryInv, GenerationsInOrder
  <2>11. LiveSlotsWereIssued'
    BY <2>2, <2>8 DEF RegistryInv, LiveSlotsWereIssued
  <2>12. LiveCountExact'
    BY <2>4, <2>5, <2>6, <2>7 DEF LiveCountExact
  <2>13. QED BY <2>9, <2>10, <2>11, <2>12 DEF RegistryInv
<1>3. QED BY <1>1, <1>2

(* The steps that leave the registry alone.                                *)
LEMMA CounterKeepsInv ==
    ASSUME RegistryAssumption, RegistryInv,
           AcquireDedicatedSlot \/ ReleaseDedicatedSlot \/ MarkShutDown \/ UNCHANGED baseVars
    PROVE  RegistryInv'
<1>1. UNCHANGED registryVars
  BY DEF AcquireDedicatedSlot, ReleaseDedicatedSlot, MarkShutDown, baseVars
<1>2. shutDown' \in BOOLEAN
  BY DEF AcquireDedicatedSlot, ReleaseDedicatedSlot, MarkShutDown, baseVars,
         RegistryInv, BaseTypeOK
<1>3. dedicatedCount' \in 0 .. MaxDedicated
  BY DEF AcquireDedicatedSlot, ReleaseDedicatedSlot, MarkShutDown, baseVars,
         RegistryInv, BaseTypeOK, RegistryAssumption
<1>4. QED
  BY <1>1, <1>2, <1>3 DEF RegistryInv, BaseTypeOK, GenerationsInOrder,
     LiveSlotsWereIssued, LiveCountExact, registryVars

LEMMA RegistryStep ==
    RegistryAssumption /\ NoWrap /\ RegistryInv /\ [BaseNext]_baseVars => RegistryInv'
<1> SUFFICES ASSUME RegistryAssumption, NoWrap, RegistryInv, [BaseNext]_baseVars
             PROVE  RegistryInv'
  OBVIOUS
<1>1. ASSUME NEW i \in Index, RegisterNamedThread(i) PROVE RegistryInv'
  BY <1>1, RegisterKeepsInv
<1>2. ASSUME NEW id \in issued, ReleaseNamedThread(id) PROVE RegistryInv'
  BY <1>2, ReleaseKeepsInv DEF RegistryInv, BaseTypeOK
<1>3. QED
  BY <1>1, <1>2, CounterKeepsInv DEF BaseNext

(* The registry keeps its invariant: its types, the order of its           *)
(* generations, and a live count that is exact.                            *)
THEOREM RegistryInvariant ==
    ASSUME NoWrap PROVE BaseSpec => []RegistryInv
<1>1. BaseInit => RegistryInv
  BY RegistryInit, RegistryAssumption
<1>2. RegistryInv /\ [BaseNext]_baseVars => RegistryInv'
  BY RegistryStep, RegistryAssumption
<1>3. QED BY <1>1, <1>2, PTL DEF BaseSpec

(* namedThreadCount() counts the live registrations.                       *)
THEOREM LiveCountIsExact ==
    ASSUME NoWrap PROVE BaseSpec => []LiveCountExact
<1>1. RegistryInv => LiveCountExact
  BY DEF RegistryInv
<1>2. QED BY <1>1, RegistryInvariant, PTL

(* Every live slot can be reached, and freed, through an id some caller    *)
(* was given.                                                              *)
THEOREM LiveSlotsStayOwned ==
    ASSUME NoWrap PROVE BaseSpec => []LiveSlotsAreOwned
<1>1. RegistryInv => LiveSlotsAreOwned
  <2> SUFFICES ASSUME RegistryInv, NEW i \in Index, slots[i].live
               PROVE  \E id \in issued : id.index = i /\ Resolves(id)
    BY DEF LiveSlotsAreOwned
  <2> DEFINE id == [index |-> i, generation |-> slots[i].generation]
  <2>1. id \in issued
    BY DEF RegistryInv, LiveSlotsWereIssued
  <2>2. id.generation # 0
    BY <2>1 DEF RegistryInv, GenerationsInOrder, BaseTypeOK
  <2>3. QED BY <2>1, <2>2 DEF Resolves
<1>2. QED BY <1>1, RegistryInvariant, PTL

(* A step of the registry never brings a stale id back to life.            *)
LEMMA StaleStep ==
    ASSUME RegistryAssumption, NoWrap, RegistryInv, [BaseNext]_baseVars,
           NEW id \in issued, ~Resolves(id)
    PROVE  ~Resolves(id)'
<1>1. id \in NamedId /\ id.generation \in 1 .. registrations
  BY DEF RegistryInv, BaseTypeOK, GenerationsInOrder
<1>2. ASSUME NEW i \in Index, RegisterNamedThread(i) PROVE ~Resolves(id)'
  <2>1. nextGeneration = registrations + 1 /\ registrations \in Nat
    BY <1>2 DEF RegistryInv, BaseTypeOK, GenerationsInOrder, RegisterNamedThread, NoWrap,
                RegistryAssumption
  <2>2. id.generation # nextGeneration
    BY <1>1, <2>1
  <2>3. slots \in [Index -> NamedSlot]
    BY DEF RegistryInv, BaseTypeOK
  <2>4. QED
    BY <1>1, <1>2, <2>2, <2>3 DEF RegisterNamedThread, Resolves, NamedId
<1>3. ASSUME NEW other \in issued, ReleaseNamedThread(other) PROVE ~Resolves(id)'
  <2>1. other \in NamedId /\ slots \in [Index -> NamedSlot]
    BY DEF RegistryInv, BaseTypeOK
  <2>2. QED
    BY <1>1, <1>3, <2>1 DEF ReleaseNamedThread, Resolves, NamedId, NamedSlot
<1>4. CASE UNCHANGED slots
  BY <1>4 DEF Resolves
<1>5. QED
  BY <1>2, <1>3, <1>4 DEF BaseNext, AcquireDedicatedSlot, ReleaseDedicatedSlot,
     MarkShutDown, baseVars, registryVars

(* Stale ids stay stale, for any number of names and registrations.        *)
THEOREM StaleIdsNeverReturn ==
    ASSUME NoWrap PROVE BaseSpec => StaleIdsStayStale
<1>1. RegistryInv /\ [BaseNext]_baseVars
          => [\A id \in issued : ~Resolves(id) => ~Resolves(id)']_baseVars
  BY StaleStep, RegistryAssumption
<1>2. QED BY <1>1, RegistryInvariant, PTL DEF BaseSpec, StaleIdsStayStale

-----------------------------------------------------------------------------
(* The types alone need no bound on the registrations: a counter that      *)
(* wraps is still a generation.                                            *)
LEMMA BaseTypeStep ==
    ASSUME BaseTypeOK, [BaseNext]_baseVars PROVE BaseTypeOK'
<1> USE RegistryAssumption DEF RegistryAssumption
<1> USE DEF BaseTypeOK
<1>1. ASSUME NEW i \in Index, RegisterNamedThread(i) PROVE BaseTypeOK'
  <2>1. nextGeneration' \in Generation
    BY <1>1, CounterStep DEF RegisterNamedThread, Generation
  <2>2. [generation |-> nextGeneration, live |-> TRUE] \in NamedSlot
    BY DEF NamedSlot
  <2>3. [index |-> i, generation |-> nextGeneration] \in NamedId
    BY DEF NamedId
  <2>4. slots' \in [Index -> NamedSlot] /\ issued' \subseteq NamedId
    BY <1>1, <2>2, <2>3 DEF RegisterNamedThread
  <2>5. liveCount' \in Nat /\ registrations' \in 0 .. MaxRegistrations
    BY <1>1 DEF RegisterNamedThread
  <2>6. UNCHANGED <<dedicatedCount, shutDown>>
    BY <1>1 DEF RegisterNamedThread
  <2>7. QED BY <2>1, <2>4, <2>5, <2>6
<1>2. ASSUME NEW id \in issued, ReleaseNamedThread(id) PROVE BaseTypeOK'
  <2>1. slots' \in [Index -> NamedSlot]
    BY <1>2 DEF ReleaseNamedThread, NamedId, NamedSlot
  <2>2. liveCount' \in Nat
    BY <1>2 DEF ReleaseNamedThread
  <2>3. UNCHANGED <<nextGeneration, registrations, issued, dedicatedCount, shutDown>>
    BY <1>2 DEF ReleaseNamedThread
  <2>4. QED BY <2>1, <2>2, <2>3
<1>3. ASSUME AcquireDedicatedSlot \/ ReleaseDedicatedSlot \/ MarkShutDown \/ UNCHANGED baseVars
      PROVE  BaseTypeOK'
  <2>1. UNCHANGED registryVars
    BY <1>3 DEF AcquireDedicatedSlot, ReleaseDedicatedSlot, MarkShutDown, baseVars
  <2>2. shutDown' \in BOOLEAN
    BY <1>3 DEF AcquireDedicatedSlot, ReleaseDedicatedSlot, MarkShutDown, baseVars
  <2>3. dedicatedCount' \in 0 .. MaxDedicated
    BY <1>3 DEF AcquireDedicatedSlot, ReleaseDedicatedSlot, MarkShutDown, baseVars
  <2>4. QED BY <2>1, <2>2, <2>3 DEF registryVars
<1>4. QED BY <1>1, <1>2, <1>3 DEF BaseNext

(* The bookkeeping is well typed in every reachable state.                 *)
THEOREM BaseTypes == BaseSpec => []BaseTypeOK
<1>1. BaseInit => BaseTypeOK
  BY RegistryInit, RegistryAssumption DEF RegistryInv
<1>2. BaseTypeOK /\ [BaseNext]_baseVars => BaseTypeOK'
  BY BaseTypeStep
<1>3. QED BY <1>1, <1>2, PTL DEF BaseSpec

-----------------------------------------------------------------------------
(* The scheduler.                                                          *)

(* What a thread holds at each stage of a call: an id that was issued, a   *)
(* queue to push into, a slot to join, an entry to run.                    *)
StageInv ==
    /\ \A t \in Tasks :
          /\ pc[t] \in {"named", "slot"} => named[t] \in issued
          /\ pc[t] = "push" => target[t] \in Tasks
    /\ \A o \in Owners :
          /\ opc[o] \in {"release", "take"} => oid[o] \in issued
          /\ opc[o] \in {"stop", "join"} => oslot[o] \in Tasks
    /\ \A w \in Workers : worker[w] \in {"holding", "running"} => job[w] \in Tasks

TypeInv == TypeOK /\ StageInv

-----------------------------------------------------------------------------
(* Every step of the scheduler is a step of the bookkeeping, or leaves it  *)
(* alone: what is proved of the registry holds of the scheduler.           *)
LEMMA StepOfBase ==
    ASSUME TypeInv, [Next]_vars PROVE [BaseNext]_baseVars
<1>1. ASSUME NEW t \in Tasks, CallStep(t) PROVE [BaseNext]_baseVars
  BY <1>1 DEF CallStep, PushPool, PushMain, ReserveDedicated, RegisterDedicated,
              ResolveNamed, FindNamedSlot, PushSlot, BaseNext
<1>2. ASSUME NEW w \in Workers, WorkerStep(w) PROVE [BaseNext]_baseVars
  BY <1>2 DEF WorkerStep, Pop, Exit, Begin, Finish
<1>3. ASSUME NEW o \in Owners, OwnerStep(o) PROVE [BaseNext]_baseVars
  <2>1. CASE Register(o)
    BY <2>1 DEF Register, BaseNext
  <2>2. CASE ReleaseOwned(o)
    BY <2>2 DEF ReleaseOwned, BaseNext, TypeInv, StageInv
  <2>3. CASE TakeSlot(o) \/ StopOwned(o) \/ JoinOwned(o)
    BY <2>3 DEF TakeSlot, StopOwned, JoinOwned
  <2>4. QED BY <1>3, <2>1, <2>2, <2>3 DEF OwnerStep
<1>4. ASSUME CloseStep PROVE [BaseNext]_baseVars
  BY <1>4 DEF CloseStep, Mark, StopPool, JoinPool, TakeDedicated, StopSlot, JoinSlot,
              TakeNamed, DrainMain, BaseNext
<1>5. CASE UNCHANGED vars
  BY <1>5 DEF vars
<1>6. QED
  BY <1>1, <1>2, <1>3, <1>4, <1>5
     DEF Next, Submit, Cancel, SwapMain, CheckRegister, ResolveOwned, BeginShutdown

-----------------------------------------------------------------------------
(* settle() yields a result, and keeps the one there is.                   *)
LEMMA SettledFacts ==
    ASSUME NEW h \in [Tasks -> Outcomes], NEW S, NEW r \in Outcomes
    PROVE  /\ Settled(h, S, r) \in [Tasks -> Outcomes]
           /\ \A t \in Tasks :
                Settled(h, S, r)[t] = IF t \in S /\ h[t] = "pending" /\ kind[t] # "post"
                                      THEN r ELSE h[t]
BY DEF Settled

LEMMA InitTypes == Init => TypeInv
<1> SUFFICES ASSUME Init PROVE TypeInv
  OBVIOUS
<1> USE DEF Init
<1>1. BaseTypeOK
  BY RegistryInit, RegistryAssumption DEF RegistryInv
<1>2. TypeOK
  BY <1>1 DEF TypeOK, Outcomes, AllAffinities, None
<1>3. StageInv
  BY DEF StageInv, Workers
<1>4. QED BY <1>2, <1>3 DEF TypeInv

(* Refusing a call, or putting its entry into a queue, keeps the types.    *)
LEMMA RefuseTypes ==
    ASSUME TypeOK, NEW t \in Tasks, NEW r \in Outcomes, Refuse(t, r)
    PROVE  /\ handle' \in [Tasks -> Outcomes]
           /\ pc' = [pc EXCEPT ![t] = "refused"]
           /\ UNCHANGED <<cancelled, runs, queueVars, workerVars>>
BY SettledFacts DEF Refuse, TypeOK

LEMMA CallTypes ==
    ASSUME TypeInv, BaseTypeOK', issued \subseteq issued', NEW t \in Tasks, CallStep(t)
    PROVE  TypeInv'
<1> USE DEF TypeInv, TypeOK, StageInv, callVars, taskVars, queueVars, workerVars,
            slotVars, ownerVars, closeVars
<1>0. ASSUME NEW r \in Outcomes, Refuse(t, r), UNCHANGED <<kind, named, target, ahead, slotVars, ownerVars, closeVars>>
      PROVE  TypeInv'
  <2>1. handle' \in [Tasks -> Outcomes] /\ pc' = [pc EXCEPT ![t] = "refused"]
        /\ UNCHANGED <<cancelled, runs, queueVars, workerVars>>
    BY <1>0, RefuseTypes
  <2>2. pc' \in [Tasks -> {"idle", "pool", "main", "post", "dedicated", "named",
                        "register", "slot", "push", "accepted", "refused", "lost"}]
    BY <2>1
  <2>3. TypeOK'
    BY <2>1, <2>2, <1>0
  <2>4. StageInv'
    BY <2>1, <1>0
  <2>5. QED BY <2>3, <2>4
<1>1. CASE PushPool(t)
  <2>1. CASE Pool \in stopped
    BY <1>1, <2>1, <1>0 DEF PushPool, Outcomes
  <2>2. CASE Pool \notin stopped
    <3>1. Enqueue(t, Pool) /\ UNCHANGED <<kind, named, target, ahead, slotVars, ownerVars, closeVars>>
      BY <1>1, <2>2 DEF PushPool
    <3>2. QED BY <3>1 DEF Enqueue, Queues
  <2>3. QED BY <2>1, <2>2
<1>2. CASE PushMain(t)
  BY <1>2 DEF PushMain, Enqueue, Queues
<1>3. CASE ReserveDedicated(t)
  <2>1. CASE Refuse(t, "refused")
    BY <1>3, <2>1, <1>0 DEF ReserveDedicated, Outcomes
  <2>2. CASE pc' = [pc EXCEPT ![t] = "register"] /\ UNCHANGED <<taskVars, queueVars, workerVars>>
    <3>1. UNCHANGED <<kind, named, target, ahead, slotVars, ownerVars, closeVars>>
      BY <1>3 DEF ReserveDedicated
    <3>2. QED BY <2>2, <3>1
  <2>3. QED BY <1>3, <2>1, <2>2 DEF ReserveDedicated
<1>4. CASE RegisterDedicated(t)
  BY <1>4 DEF RegisterDedicated, Workers
<1>5. CASE ResolveNamed(t)
  <2>1. CASE Resolves(named[t])
    BY <1>5, <2>1 DEF ResolveNamed
  <2>2. CASE ~Resolves(named[t])
    BY <1>5, <2>2, <1>0 DEF ResolveNamed, Outcomes
  <2>3. QED BY <2>1, <2>2
<1>6. CASE FindNamedSlot(t)
  <2>1. named[t].index \in Index
    BY <1>6 DEF FindNamedSlot, BaseTypeOK, NamedId
  <2>2. CASE namedSlots[named[t].index] = None
    <3>1. /\ namedSlots' = [namedSlots EXCEPT ![named[t].index] = t]
          /\ worker' = [worker EXCEPT ![t] = "waiting"]
          /\ target' = [target EXCEPT ![t] = t]
          /\ pc' = [pc EXCEPT ![t] = "push"]
          /\ UNCHANGED <<kind, named, ahead, taskVars, queueVars, job, dedicatedSlots,
                         ownerVars, closeVars>>
      BY <1>6, <2>2 DEF FindNamedSlot
    <3>2. TypeOK'
      BY <2>1, <3>1
    <3>3. StageInv'
      BY <3>1 DEF Workers
    <3>4. QED BY <3>2, <3>3
  <2>3. CASE namedSlots[named[t].index] # None
    BY <1>6, <2>1, <2>3 DEF FindNamedSlot
  <2>4. QED BY <2>2, <2>3
<1>7. CASE PushSlot(t)
  <2>1. CASE Enqueue(t, target[t])
    BY <1>7, <2>1 DEF PushSlot, Enqueue, Queues
  <2>2. CASE Refuse(t, "closed")
    BY <1>7, <2>2, <1>0 DEF PushSlot, Outcomes
  <2>3. CASE pc' = [pc EXCEPT ![t] = "lost"] /\ UNCHANGED <<taskVars, queueVars, workerVars>>
    BY <1>7, <2>3 DEF PushSlot
  <2>4. QED BY <1>7, <2>1, <2>2, <2>3 DEF PushSlot
<1>8. QED
  BY <1>1, <1>2, <1>3, <1>4, <1>5, <1>6, <1>7 DEF CallStep

(* A step of a worker, or of the pump, preserves the types.                *)
LEMMA WorkerTypes ==
    ASSUME TypeInv, BaseTypeOK', issued' = issued, NEW w \in Workers, WorkerStep(w)
    PROVE  TypeInv'
<1> USE DEF TypeInv, TypeOK, StageInv, callVars, taskVars, queueVars, workerVars,
            slotVars, ownerVars, closeVars
<1>1. CASE Pop(w)
  <2>1. QueueOf(w) \in Queues
    BY DEF QueueOf, Queues, Workers
  <2>2. items[QueueOf(w)] \in Seq(Tasks) /\ items[QueueOf(w)] # <<>>
    BY <1>1, <2>1 DEF Pop
  <2>3. Head(items[QueueOf(w)]) \in Tasks /\ Tail(items[QueueOf(w)]) \in Seq(Tasks)
    BY <2>2
  <2>4. QED
    BY <1>1, <2>1, <2>3 DEF Pop
<1>2. CASE Exit(w)
  BY <1>2 DEF Exit
<1>3. CASE Begin(w)
  <2>1. CASE job[w] \in cancelled
    <3>1. /\ handle' = Settled(handle, {job[w]}, "cancelled")
          /\ worker' = [worker EXCEPT ![w] = "waiting"]
          /\ job' = [job EXCEPT ![w] = None]
          /\ UNCHANGED <<callVars, cancelled, runs, queueVars, slotVars, ownerVars, closeVars>>
      BY <1>3, <2>1 DEF Begin
    <3>2. handle' \in [Tasks -> Outcomes]
      BY <3>1, SettledFacts DEF Outcomes
    <3>3. TypeOK'
      BY <3>1, <3>2
    <3>4. StageInv'
      BY <3>1
    <3>5. QED BY <3>3, <3>4
  <2>2. CASE job[w] \notin cancelled
    <3>1. /\ runs' = [runs EXCEPT ![job[w]] = @ + 1]
          /\ worker' = [worker EXCEPT ![w] = "running"]
          /\ UNCHANGED <<callVars, handle, job, cancelled, queueVars, slotVars, ownerVars, closeVars>>
      BY <1>3, <2>2 DEF Begin
    <3>2. runs' \in [Tasks -> Nat]
      <4>1. job[w] \in Tasks
        BY <1>3 DEF Begin
      <4>2. QED BY <3>1, <4>1
    <3>3. TypeOK'
      BY <3>1, <3>2
    <3>4. StageInv'
      BY <1>3, <3>1 DEF Begin
    <3>5. QED BY <3>3, <3>4
  <2>3. QED BY <2>1, <2>2
<1>4. CASE Finish(w)
  <2>1. handle' \in [Tasks -> Outcomes]
    BY <1>4, SettledFacts DEF Finish, Outcomes
  <2>2. QED BY <1>4, <2>1 DEF Finish
<1>5. QED BY <1>1, <1>2, <1>3, <1>4 DEF WorkerStep

LEMMA DrainTypes ==
    ASSUME TypeOK, NEW q, Drain(q)
    PROVE  /\ handle' \in [Tasks -> Outcomes]
           /\ items' \in [Queues -> Seq(Tasks)]
<1>1. handle' \in [Tasks -> Outcomes]
  BY SettledFacts DEF Drain, TypeOK, Outcomes
<1>2. items' \in [Queues -> Seq(Tasks)]
  <2>1. <<>> \in Seq(Tasks)
    OBVIOUS
  <2>2. items \in [Queues -> Seq(Tasks)] /\ items' = [items EXCEPT ![q] = <<>>]
    BY DEF Drain, TypeOK
  <2>3. QED BY <2>1, <2>2
<1>3. QED BY <1>1, <1>2

(* A step of an owner of named threads preserves the types.                *)
LEMMA OwnerTypes ==
    ASSUME TypeInv, BaseTypeOK', issued \subseteq issued', NEW o \in Owners, OwnerStep(o)
    PROVE  TypeInv'
<1> USE DEF TypeInv, TypeOK, StageInv, callVars, taskVars, queueVars, workerVars,
            slotVars, ownerVars, closeVars
<1>1. CASE Register(o)
  BY <1>1 DEF Register
<1>2. CASE ReleaseOwned(o)
  BY <1>2 DEF ReleaseOwned
<1>3. CASE TakeSlot(o)
  <2>1. oid[o].index \in Index
    BY <1>3 DEF TakeSlot, BaseTypeOK, NamedId
  <2>2. CASE namedSlots[oid[o].index] = None
    BY <1>3, <2>2 DEF TakeSlot
  <2>3. CASE namedSlots[oid[o].index] # None
    BY <1>3, <2>1, <2>3 DEF TakeSlot
  <2>4. QED BY <2>2, <2>3
<1>4. CASE StopOwned(o)
  BY <1>4 DEF StopOwned, Queues
<1>5. CASE JoinOwned(o)
  <2>1. handle' \in [Tasks -> Outcomes] /\ items' \in [Queues -> Seq(Tasks)]
    BY <1>5, DrainTypes DEF JoinOwned
  <2>2. QED BY <1>5, <2>1 DEF JoinOwned
<1>6. QED BY <1>1, <1>2, <1>3, <1>4, <1>5 DEF OwnerStep

(* A step of shutdown() preserves the types.                               *)
LEMMA CloseTypes ==
    ASSUME TypeInv, BaseTypeOK', issued' = issued, CloseStep
    PROVE  TypeInv'
<1> USE DEF TypeInv, TypeOK, StageInv, callVars, taskVars, queueVars, workerVars,
            slotVars, ownerVars, closeVars, Close
<1>1. CASE Mark
  BY <1>1 DEF Mark
<1>2. CASE StopPool
  BY <1>2 DEF StopPool, Queues
<1>3. CASE JoinPool
  <2>1. handle' \in [Tasks -> Outcomes] /\ items' \in [Queues -> Seq(Tasks)]
    BY <1>3, DrainTypes DEF JoinPool
  <2>2. QED BY <1>3, <2>1 DEF JoinPool
<1>4. CASE TakeDedicated
  BY <1>4 DEF TakeDedicated
<1>5. ASSUME NEW q \in Tasks, StopSlot(q) PROVE TypeInv'
  BY <1>5 DEF StopSlot, Queues
<1>6. ASSUME NEW q \in Tasks, JoinSlot(q) PROVE TypeInv'
  <2>1. handle' \in [Tasks -> Outcomes] /\ items' \in [Queues -> Seq(Tasks)]
    BY <1>6, DrainTypes DEF JoinSlot
  <2>2. QED BY <1>6, <2>1 DEF JoinSlot
<1>7. CASE TakeNamed
  <2>1. Range(namedSlots) \ {None} \subseteq Tasks
    BY DEF Range
  <2>2. QED BY <1>7, <2>1 DEF TakeNamed
<1>8. CASE DrainMain
  <2>1. handle' \in [Tasks -> Outcomes] /\ items' \in [Queues -> Seq(Tasks)]
    BY <1>8, DrainTypes DEF DrainMain
  <2>2. QED BY <1>8, <2>1 DEF DrainMain
<1>9. QED
  BY <1>1, <1>2, <1>3, <1>4, <1>5, <1>6, <1>7, <1>8 DEF CloseStep

(* The steps that belong to no thread of the manager: a call is made or    *)
(* cancelled, the main loop takes the main queue, an owner makes a call,   *)
(* shutdown() is called.                                                   *)
LEMMA RequestTypes ==
    ASSUME TypeInv, BaseTypeOK', issued' = issued,
           \/ \E t \in Tasks :
                 \/ \E k \in Affinities \ {"named"} : Submit(t, k, NoId)
                 \/ \E id \in issued : "named" \in Affinities /\ Submit(t, "named", id)
                 \/ Cancel(t)
           \/ SwapMain
           \/ \E o \in Owners : CheckRegister(o) \/ \E id \in issued : ResolveOwned(o, id)
           \/ BeginShutdown
           \/ UNCHANGED vars
    PROVE  TypeInv'
<1> USE DEF TypeInv, TypeOK, StageInv, callVars, taskVars, queueVars, workerVars,
            slotVars, ownerVars, closeVars
<1>1. ASSUME NEW t \in Tasks, NEW k \in AllAffinities, NEW id \in issued \cup {NoId},
             k = "named" => id \in issued, Submit(t, k, id)
      PROVE  TypeInv'
  <2>1. id \in NamedId \cup {NoId}
    BY DEF BaseTypeOK
  <2>2. kind' \in [Tasks -> AllAffinities \cup {None}] /\ named' \in [Tasks -> NamedId \cup {NoId}]
    BY <1>1, <2>1 DEF Submit
  <2>3. ahead' \in [Tasks -> SUBSET Tasks]
    BY <1>1 DEF Submit
  <2>4. CASE k = "invalid" \/ shutDown
    <3>1. pc' = [pc EXCEPT ![t] = "refused"]
      BY <1>1, <2>4 DEF Submit
    <3>2. handle' \in [Tasks -> Outcomes]
      BY <1>1, <2>4 DEF Submit, Outcomes
    <3>3. QED BY <1>1, <2>2, <2>3, <3>1, <3>2 DEF Submit
  <2>5. CASE ~(k = "invalid" \/ shutDown)
    <3>1. pc' = [pc EXCEPT ![t] = k] /\ UNCHANGED handle
      BY <1>1, <2>5 DEF Submit
    <3>2. k \in {"pool", "main", "post", "dedicated", "named"}
      BY <2>5 DEF AllAffinities
    <3>3. named' = [named EXCEPT ![t] = id]
      BY <1>1 DEF Submit
    <3>4. UNCHANGED <<target, cancelled, runs, queueVars, workerVars, slotVars, ownerVars, closeVars>>
      BY <1>1 DEF Submit
    <3>5. TypeOK'
      BY <2>2, <2>3, <3>1, <3>2, <3>4
    <3>6. StageInv'
      BY <1>1, <3>1, <3>2, <3>3, <3>4
    <3>7. QED BY <3>5, <3>6
  <2>6. QED BY <2>4, <2>5
<1>2. ASSUME NEW t \in Tasks, Cancel(t) PROVE TypeInv'
  BY <1>2 DEF Cancel
<1>3. CASE SwapMain
  <2>1. Main \in Queues /\ Batch \in Queues /\ <<>> \in Seq(Tasks)
    BY DEF Queues
  <2>2. items' \in [Queues -> Seq(Tasks)]
    BY <1>3, <2>1 DEF SwapMain
  <2>3. QED BY <1>3, <2>2 DEF SwapMain
<1>4. ASSUME NEW o \in Owners, CheckRegister(o) PROVE TypeInv'
  BY <1>4 DEF CheckRegister
<1>5. ASSUME NEW o \in Owners, NEW id \in issued, ResolveOwned(o, id) PROVE TypeInv'
  BY <1>5 DEF ResolveOwned, BaseTypeOK
<1>6. CASE BeginShutdown
  BY <1>6 DEF BeginShutdown, Close
<1>7. CASE UNCHANGED vars
  BY <1>7 DEF vars
<1>8. ASSUME NEW t \in Tasks, NEW k \in Affinities \ {"named"}, Submit(t, k, NoId)
      PROVE  TypeInv'
  <2>1. k \in AllAffinities /\ k # "named"
    BY SchedulerAssumption DEF SchedulerAssumption
  <2>2. QED BY <1>1, <1>8, <2>1
<1>9. ASSUME NEW t \in Tasks, NEW id \in issued, Submit(t, "named", id) PROVE TypeInv'
  <2>1. "named" \in AllAffinities
    BY DEF AllAffinities
  <2>2. QED BY <1>1, <1>9, <2>1
<1>10. QED
  BY <1>2, <1>3, <1>4, <1>5, <1>6, <1>7, <1>8, <1>9

LEMMA TypeStep == TypeInv /\ [Next]_vars => TypeInv'
<1> SUFFICES ASSUME TypeInv, [Next]_vars PROVE TypeInv'
  OBVIOUS
<1>1. [BaseNext]_baseVars
  BY StepOfBase
<1>2. BaseTypeOK'
  BY <1>1, BaseTypeStep DEF TypeInv, TypeOK
<1>3. issued \subseteq issued'
  BY <1>1 DEF BaseNext, RegisterNamedThread, ReleaseNamedThread, AcquireDedicatedSlot,
              ReleaseDedicatedSlot, MarkShutDown, baseVars, registryVars
<1>4. ASSUME NEW t \in Tasks, CallStep(t) PROVE TypeInv'
  BY <1>2, <1>3, <1>4, CallTypes
<1>5. ASSUME NEW w \in Workers, WorkerStep(w) PROVE TypeInv'
  <2>1. issued' = issued
    BY <1>5 DEF WorkerStep, Pop, Exit, Begin, Finish, baseVars, registryVars
  <2>2. QED BY <1>2, <1>5, <2>1, WorkerTypes
<1>6. ASSUME NEW o \in Owners, OwnerStep(o) PROVE TypeInv'
  BY <1>2, <1>3, <1>6, OwnerTypes
<1>7. CASE CloseStep
  <2>1. issued' = issued
    BY <1>7 DEF CloseStep, Mark, StopPool, JoinPool, TakeDedicated, StopSlot, JoinSlot,
                TakeNamed, DrainMain, MarkShutDown, ReleaseDedicatedSlot, baseVars, registryVars
  <2>2. QED BY <1>2, <1>7, <2>1, CloseTypes
<1>8. CASE /\ ~\E t \in Tasks : CallStep(t)
           /\ ~\E w \in Workers : WorkerStep(w)
           /\ ~\E o \in Owners : OwnerStep(o)
           /\ ~CloseStep
  <2>1. \/ \E t \in Tasks :
              \/ \E k \in Affinities \ {"named"} : Submit(t, k, NoId)
              \/ \E id \in issued : "named" \in Affinities /\ Submit(t, "named", id)
              \/ Cancel(t)
        \/ SwapMain
        \/ \E o \in Owners : CheckRegister(o) \/ \E id \in issued : ResolveOwned(o, id)
        \/ BeginShutdown
        \/ UNCHANGED vars
    BY <1>8 DEF Next
  <2>2. issued' = issued
    BY <2>1 DEF Submit, Cancel, SwapMain, CheckRegister, ResolveOwned, BeginShutdown, vars,
                baseVars, registryVars
  <2>3. QED BY <1>2, <2>1, <2>2, RequestTypes
<1>9. QED BY <1>4, <1>5, <1>6, <1>7, <1>8

(* Type correctness of the scheduler.                                      *)
THEOREM TypesHold == Spec => []TypeOK
<1>1. TypeInv => TypeOK
  BY DEF TypeInv
<1>2. QED BY <1>1, InitTypes, TypeStep, PTL DEF Spec

(* The scheduler implements the bookkeeping it inherits, so everything     *)
(* proved of the registry holds under the scheduler's interleavings.       *)
THEOREM ImplementsRegistry == Spec => BaseSpec
<1>1. Init => BaseInit
  BY DEF Init
<1>2. TypeInv /\ [Next]_vars => [BaseNext]_baseVars
  BY StepOfBase
<1>3. QED BY <1>1, <1>2, InitTypes, TypeStep, PTL DEF Spec, BaseSpec

(* Stale ids stay stale while calls, workers, owners and the shutdown      *)
(* interleave.                                                             *)
THEOREM SchedulerKeepsIdsStale ==
    ASSUME NoWrap PROVE Spec => StaleIdsStayStale
BY ImplementsRegistry, StaleIdsNeverReturn

-----------------------------------------------------------------------------
(* Where a task is.  An entry is in one place of one queue or in the hands *)
(* of one thread, never in two; while it is there its handle is pending,   *)
(* and its runnable was entered only if the thread that holds it runs it.  *)
Busy(w) == worker[w] \in {"holding", "running"}

QueuedOnce ==
    \A q1, q2 \in Queues : \A i \in 1 .. Len(items[q1]), j \in 1 .. Len(items[q2]) :
        items[q1][i] = items[q2][j] => q1 = q2 /\ i = j
HeldOnce ==
    /\ \A v, w \in Workers : Busy(v) /\ Busy(w) /\ job[v] = job[w] => v = w
    /\ \A w \in Workers, q \in Queues : \A i \in 1 .. Len(items[q]) :
          Busy(w) => items[q][i] # job[w]
QueuedFresh ==
    \A q \in Queues : \A i \in 1 .. Len(items[q]) :
        LET t == items[q][i] IN
        pc[t] = "accepted" /\ handle[t] = "pending" /\ runs[t] = 0
HeldFresh ==
    \A w \in Workers : Busy(w) =>
        /\ pc[job[w]] = "accepted" /\ handle[job[w]] = "pending"
        /\ runs[job[w]] = IF worker[w] = "running" THEN 1 ELSE 0
CallFresh ==
    \A t \in Tasks : pc[t] # "accepted" =>
        /\ runs[t] = 0
        /\ pc[t] # "refused" => handle[t] = "pending"

PlaceInv ==
    QueuedOnce /\ HeldOnce /\ QueuedFresh /\ HeldFresh /\ CallFresh /\ OutcomeMatchesExecution

LEMMA InitPlace == Init => PlaceInv
BY DEF Init, PlaceInv, QueuedOnce, HeldOnce, QueuedFresh, HeldFresh, CallFresh, Busy,
       OutcomeMatchesExecution, Workers

(* A call that refuses its task.                                           *)
LEMMA RefusePlace ==
    ASSUME TypeInv, PlaceInv, NEW t \in Tasks, pc[t] \notin {"accepted", "refused"},
           NEW r \in {"refused", "closed"},
           pc' = [pc EXCEPT ![t] = "refused"],
           handle' \in [Tasks -> Outcomes],
           \A u \in Tasks : u # t => handle'[u] = handle[u],
           handle'[t] \in {"pending", r},
           UNCHANGED <<runs, items, worker, job>>
    PROVE  PlaceInv'
<1> USE DEF PlaceInv, TypeInv, TypeOK, Busy
<1>1. QueuedOnce' /\ HeldOnce'
  BY DEF QueuedOnce, HeldOnce
<1>2. QueuedFresh'
  BY DEF QueuedFresh
<1>3. HeldFresh'
  BY DEF HeldFresh, StageInv
<1>4. CallFresh'
  BY DEF CallFresh
<1>5. OutcomeMatchesExecution'
  BY DEF OutcomeMatchesExecution, CallFresh
<1>6. QED BY <1>1, <1>2, <1>3, <1>4, <1>5

(* A call that puts its task into a queue.                                 *)
LEMMA EnqueuePlace ==
    ASSUME TypeInv, PlaceInv, NEW t \in Tasks, NEW q \in Queues,
           pc[t] \notin {"accepted", "refused"}, Enqueue(t, q)
    PROVE  PlaceInv'
<1> USE DEF PlaceInv, TypeInv, TypeOK, Busy
<1>1. /\ pc' = [pc EXCEPT ![t] = "accepted"]
      /\ UNCHANGED <<handle, runs, worker, job>>
  BY DEF Enqueue, taskVars, workerVars
<1>2. \A p \in Queues : items'[p] = IF p = q THEN Append(items[q], t) ELSE items[p]
  BY DEF Enqueue
<1>3. \A p \in Queues : \A i \in 1 .. Len(items'[p]) :
        \/ i \in 1 .. Len(items[p]) /\ items'[p][i] = items[p][i]
        \/ p = q /\ i = Len(items[q]) + 1 /\ items'[p][i] = t
  <2> SUFFICES ASSUME NEW p \in Queues, NEW i \in 1 .. Len(items'[p])
               PROVE  \/ i \in 1 .. Len(items[p]) /\ items'[p][i] = items[p][i]
                      \/ p = q /\ i = Len(items[q]) + 1 /\ items'[p][i] = t
    OBVIOUS
  <2>1. CASE p # q
    BY <1>2, <2>1
  <2>2. CASE p = q
    <3>1. items[q] \in Seq(Tasks) /\ items'[p] = Append(items[q], t)
      BY <1>2, <2>2
    <3>2. QED BY <2>2, <3>1
  <2>3. QED BY <2>1, <2>2
<1>4. \A p \in Queues : \A i \in 1 .. Len(items[p]) : items[p][i] # t
  BY DEF QueuedFresh
<1>5. \A w \in Workers : Busy(w) => job[w] # t
  BY DEF HeldFresh
<1>6. QueuedOnce'
  <2> SUFFICES ASSUME NEW q1 \in Queues, NEW q2 \in Queues,
                      NEW i \in 1 .. Len(items'[q1]), NEW j \in 1 .. Len(items'[q2]),
                      items'[q1][i] = items'[q2][j]
               PROVE  q1 = q2 /\ i = j
    BY DEF QueuedOnce
  <2>1. CASE i \in 1 .. Len(items[q1]) /\ items'[q1][i] = items[q1][i]
    <3>1. CASE j \in 1 .. Len(items[q2]) /\ items'[q2][j] = items[q2][j]
      <4>1. QueuedOnce /\ items[q1][i] = items[q2][j]
        BY <2>1, <3>1
      <4>2. QED BY ONLY <2>1, <3>1, <4>1 DEF QueuedOnce
    <3>2. CASE items'[q2][j] = t
      BY <1>4, <2>1, <3>2
    <3>3. QED BY <1>3, <3>1, <3>2
  <2>2. CASE q1 = q /\ i = Len(items[q]) + 1 /\ items'[q1][i] = t
    BY <1>3, <1>4, <2>2
  <2>3. QED BY <1>3, <2>1, <2>2
<1>7. HeldOnce'
  <2>1. \A w \in Workers, p \in Queues : \A i \in 1 .. Len(items'[p]) :
            Busy(w) => items'[p][i] # job[w]
    BY <1>3, <1>5 DEF HeldOnce
  <2>2. QED BY <1>1, <2>1 DEF HeldOnce
<1>8. QueuedFresh'
  <2> SUFFICES ASSUME NEW p \in Queues, NEW i \in 1 .. Len(items'[p])
               PROVE  /\ pc'[items'[p][i]] = "accepted" /\ handle'[items'[p][i]] = "pending"
                      /\ runs'[items'[p][i]] = 0
    BY DEF QueuedFresh
  <2>1. CASE i \in 1 .. Len(items[p]) /\ items'[p][i] = items[p][i]
    BY <1>1, <1>4, <2>1 DEF QueuedFresh
  <2>2. CASE items'[p][i] = t
    BY <1>1, <2>2 DEF CallFresh
  <2>3. QED BY <1>3, <2>1, <2>2
<1>9. HeldFresh'
  BY <1>1 DEF HeldFresh
<1>10. CallFresh' /\ OutcomeMatchesExecution'
  BY <1>1 DEF CallFresh, OutcomeMatchesExecution
<1>11. QED BY <1>6, <1>7, <1>8, <1>9, <1>10

(* A call that goes on, whether or not it starts a thread.                 *)
LEMMA ProgressPlace ==
    ASSUME TypeInv, PlaceInv, NEW t \in Tasks, NEW p,
           pc[t] \notin {"accepted", "refused"}, p \notin {"accepted", "refused"},
           pc' = [pc EXCEPT ![t] = p],
           worker' = worker \/ worker' = [worker EXCEPT ![t] = "waiting"],
           UNCHANGED <<handle, runs, items, job>>
    PROVE  PlaceInv'
<1> USE DEF PlaceInv, TypeInv, TypeOK, Busy
<1>1. \A w \in Workers : Busy(w)' => Busy(w) /\ worker'[w] = worker[w]
  BY DEF Workers
<1>2. QueuedOnce' /\ HeldOnce'
  BY <1>1 DEF QueuedOnce, HeldOnce
<1>3. QueuedFresh'
  BY DEF QueuedFresh
<1>4. HeldFresh'
  BY <1>1 DEF HeldFresh
<1>5. CallFresh' /\ OutcomeMatchesExecution'
  BY DEF CallFresh, OutcomeMatchesExecution
<1>6. QED BY <1>2, <1>3, <1>4, <1>5

(* A teardown that fails what a queue still holds.                         *)
LEMMA DrainPlace ==
    ASSUME TypeInv, PlaceInv, NEW q \in Queues, Drain(q), UNCHANGED <<pc, runs, worker, job>>
    PROVE  PlaceInv'
<1> USE DEF PlaceInv, TypeInv, TypeOK, Busy
<1> DEFINE S == Range(items[q])
<1>1. \A p \in Queues : items'[p] = IF p = q THEN <<>> ELSE items[p]
  BY DEF Drain
<1>2. \A p \in Queues : \A i \in 1 .. Len(items'[p]) :
        p # q /\ i \in 1 .. Len(items[p]) /\ items'[p][i] = items[p][i]
  <2> SUFFICES ASSUME NEW p \in Queues, NEW i \in 1 .. Len(items'[p])
               PROVE  p # q /\ i \in 1 .. Len(items[p]) /\ items'[p][i] = items[p][i]
    OBVIOUS
  <2>1. CASE p = q
    <3>1. items'[p] = <<>>
      BY <1>1, <2>1
    <3>2. Len(items'[p]) = 0
      BY <3>1
    <3>3. QED BY <3>2
  <2>2. CASE p # q
    BY <1>1, <2>2
  <2>3. QED BY <2>1, <2>2
<1>3. /\ handle' \in [Tasks -> Outcomes]
      /\ \A u \in Tasks : handle'[u] = IF u \in S /\ handle[u] = "pending" /\ kind[u] # "post"
                                       THEN "closed" ELSE handle[u]
  <2>1. handle' = Settled(handle, S, "closed")
    BY DEF Drain
  <2>2. "closed" \in Outcomes
    BY DEF Outcomes
  <2>3. handle \in [Tasks -> Outcomes]
    OBVIOUS
  <2> HIDE DEF S
  <2>4. QED BY ONLY <2>1, <2>2, <2>3, SettledFacts
<1>4. S = {items[q][i] : i \in 1 .. Len(items[q])}
  <2>1. DOMAIN items[q] = 1 .. Len(items[q])
    OBVIOUS
  <2>2. QED BY <2>1 DEF Range
<1>5. \A u \in S : pc[u] = "accepted" /\ runs[u] = 0
  <2>1. \A i \in 1 .. Len(items[q]) : pc[items[q][i]] = "accepted" /\ runs[items[q][i]] = 0
    BY DEF QueuedFresh
  <2> HIDE DEF S
  <2>2. QED BY ONLY <1>4, <2>1
<1>6. \A w \in Workers : Busy(w) => job[w] \notin S
  BY <1>4 DEF HeldOnce
<1>7. \A p \in Queues : \A i \in 1 .. Len(items[p]) : p # q => items[p][i] \notin S
  BY <1>4 DEF QueuedOnce
<1>8. QueuedOnce'
  <2> SUFFICES ASSUME NEW q1 \in Queues, NEW q2 \in Queues,
                      NEW i \in 1 .. Len(items'[q1]), NEW j \in 1 .. Len(items'[q2]),
                      items'[q1][i] = items'[q2][j]
               PROVE  q1 = q2 /\ i = j
    BY DEF QueuedOnce
  <2>1. QED BY <1>2 DEF QueuedOnce
<1>9. HeldOnce'
  <2>1. ASSUME NEW w \in Workers, NEW p \in Queues, NEW i \in 1 .. Len(items'[p]), Busy(w)
        PROVE  items'[p][i] # job[w]
    <3>1. HeldOnce /\ i \in 1 .. Len(items[p]) /\ items'[p][i] = items[p][i]
      BY <1>2
    <3>2. QED BY ONLY <2>1, <3>1 DEF HeldOnce
  <2>2. \A v, w \in Workers : Busy(v) /\ Busy(w) /\ job[v] = job[w] => v = w
    BY DEF HeldOnce
  <2>3. QED BY <2>1, <2>2 DEF HeldOnce
<1>10. QueuedFresh'
  <2> SUFFICES ASSUME NEW p \in Queues, NEW i \in 1 .. Len(items'[p])
               PROVE  /\ pc'[items'[p][i]] = "accepted" /\ handle'[items'[p][i]] = "pending"
                      /\ runs'[items'[p][i]] = 0
    BY DEF QueuedFresh
  <2>1. p # q /\ i \in 1 .. Len(items[p]) /\ items'[p][i] = items[p][i]
    BY <1>2
  <2>2. items[p][i] \in Tasks /\ items[p][i] \notin S
    BY <1>7, <2>1
  <2>3. QED BY <1>3, <2>1, <2>2 DEF QueuedFresh
<1>11. HeldFresh'
  BY <1>3, <1>6 DEF HeldFresh, StageInv
<1>12. CallFresh' /\ OutcomeMatchesExecution'
  BY <1>3, <1>5 DEF CallFresh, OutcomeMatchesExecution
<1>13. QED BY <1>8, <1>9, <1>10, <1>11, <1>12

(* A worker takes the head of its queue.                                   *)
LEMMA PopPlace ==
    ASSUME TypeInv, PlaceInv, NEW w \in Workers, Pop(w)
    PROVE  PlaceInv'
<1> USE DEF PlaceInv, TypeInv, TypeOK, Busy
<1> DEFINE q == QueueOf(w)
           t == items[q][1]
<1>1. q \in Queues
  BY DEF QueueOf, Queues, Workers
<1>2. items[q] \in Seq(Tasks) /\ items[q] # <<>>
  BY <1>1 DEF Pop
<1>3. /\ 1 \in 1 .. Len(items[q]) /\ t = Head(items[q]) /\ t \in Tasks
      /\ Len(Tail(items[q])) = Len(items[q]) - 1
      /\ \A i \in 1 .. Len(Tail(items[q])) :
            i + 1 \in 1 .. Len(items[q]) /\ Tail(items[q])[i] = items[q][i + 1]
  BY <1>2
<1>4. /\ job' = [job EXCEPT ![w] = t] /\ worker' = [worker EXCEPT ![w] = "holding"]
      /\ items' = [items EXCEPT ![q] = Tail(items[q])]
      /\ worker[w] = "waiting"
      /\ UNCHANGED <<pc, handle, runs>>
  BY <1>3 DEF Pop, callVars, taskVars
<1>5. \A p \in Queues : \A i \in 1 .. Len(items'[p]) :
        \/ p # q /\ i \in 1 .. Len(items[p]) /\ items'[p][i] = items[p][i]
        \/ p = q /\ i + 1 \in 1 .. Len(items[p]) /\ items'[p][i] = items[p][i + 1]
  <2> SUFFICES ASSUME NEW p \in Queues, NEW i \in 1 .. Len(items'[p])
               PROVE  \/ p # q /\ i \in 1 .. Len(items[p]) /\ items'[p][i] = items[p][i]
                      \/ p = q /\ i + 1 \in 1 .. Len(items[p]) /\ items'[p][i] = items[p][i + 1]
    OBVIOUS
  <2> HIDE DEF q, t
  <2>1. CASE p # q
    BY <1>1, <1>4, <2>1
  <2>2. CASE p = q
    BY <1>1, <1>3, <1>4, <2>2
  <2>3. QED BY <2>1, <2>2
<1>6. \A p \in Queues : \A i \in 1 .. Len(items'[p]) : items'[p][i] # t /\ items'[p][i] \in Tasks
  <2> SUFFICES ASSUME NEW p \in Queues, NEW i \in 1 .. Len(items'[p])
               PROVE  items'[p][i] # t /\ items'[p][i] \in Tasks
    OBVIOUS
  <2> HIDE DEF q, t
  <2>1. CASE p # q /\ i \in 1 .. Len(items[p]) /\ items'[p][i] = items[p][i]
    <3>1. QueuedOnce /\ items[p][i] \in Tasks
      BY <2>1
    <3>2. QED BY ONLY <1>1, <1>3, <2>1, <3>1 DEF QueuedOnce, t
  <2>2. CASE p = q /\ i + 1 \in 1 .. Len(items[p]) /\ items'[p][i] = items[p][i + 1]
    <3>1. QueuedOnce /\ items[p][i + 1] \in Tasks
      BY <2>2
    <3>2. i \in Nat \ {0}
      OBVIOUS
    <3>3. QED BY ONLY <1>1, <1>3, <2>2, <3>1, <3>2 DEF QueuedOnce, t
  <2>3. QED BY <1>5, <2>1, <2>2
<1>7. pc[t] = "accepted" /\ handle[t] = "pending" /\ runs[t] = 0
  BY <1>1, <1>3 DEF QueuedFresh
<1>8. \A v \in Workers : Busy(v) => job[v] # t
  BY <1>1, <1>3 DEF HeldOnce
<1>9. \A v \in Workers : v # w => worker'[v] = worker[v] /\ job'[v] = job[v]
  BY <1>4
<1>10. worker'[w] = "holding" /\ job'[w] = t
  BY <1>4
<1> HIDE DEF q, t
<1>11. QueuedOnce'
  <2> SUFFICES ASSUME NEW q1 \in Queues, NEW q2 \in Queues,
                      NEW i \in 1 .. Len(items'[q1]), NEW j \in 1 .. Len(items'[q2]),
                      items'[q1][i] = items'[q2][j]
               PROVE  q1 = q2 /\ i = j
    BY DEF QueuedOnce
  <2>0. QueuedOnce /\ i \in Nat /\ j \in Nat
    OBVIOUS
  <2>1. \/ q1 # q /\ i \in 1 .. Len(items[q1]) /\ items'[q1][i] = items[q1][i]
        \/ q1 = q /\ i + 1 \in 1 .. Len(items[q1]) /\ items'[q1][i] = items[q1][i + 1]
    BY <1>5
  <2>2. \/ q2 # q /\ j \in 1 .. Len(items[q2]) /\ items'[q2][j] = items[q2][j]
        \/ q2 = q /\ j + 1 \in 1 .. Len(items[q2]) /\ items'[q2][j] = items[q2][j + 1]
    BY <1>5
  <2>3. items'[q1][i] = items'[q2][j]
    OBVIOUS
  <2>4. QED BY ONLY <2>0, <2>1, <2>2, <2>3 DEF QueuedOnce
<1>12. HeldOnce'
  <2>0. HeldOnce
    OBVIOUS
  <2>1. \A v, u \in Workers : Busy(v)' /\ Busy(u)' /\ job'[v] = job'[u] => v = u
    BY ONLY <1>8, <1>9, <1>10, <2>0 DEF HeldOnce, Busy
  <2>2. ASSUME NEW v \in Workers, NEW p \in Queues, NEW i \in 1 .. Len(items'[p]), Busy(v)'
        PROVE  items'[p][i] # job'[v]
    <3>1. CASE v = w
      BY <1>6, <1>10, <3>1
    <3>2. CASE v # w
      <4>1. Busy(v) /\ job'[v] = job[v]
        BY <1>9, <2>2, <3>2
      <4>2. \/ i \in 1 .. Len(items[p]) /\ items'[p][i] = items[p][i]
            \/ i + 1 \in 1 .. Len(items[p]) /\ items'[p][i] = items[p][i + 1]
        BY <1>5
      <4>3. QED BY ONLY <2>0, <4>1, <4>2 DEF HeldOnce
    <3>3. QED BY <3>1, <3>2
  <2>3. QED BY <2>1, <2>2 DEF HeldOnce
<1>13. QueuedFresh'
  <2> SUFFICES ASSUME NEW p \in Queues, NEW i \in 1 .. Len(items'[p])
               PROVE  /\ pc'[items'[p][i]] = "accepted" /\ handle'[items'[p][i]] = "pending"
                      /\ runs'[items'[p][i]] = 0
    BY DEF QueuedFresh
  <2>1. QED BY <1>4, <1>5 DEF QueuedFresh
<1>14. HeldFresh'
  BY <1>4, <1>7, <1>9, <1>10 DEF HeldFresh
<1>15. CallFresh' /\ OutcomeMatchesExecution'
  BY <1>4 DEF CallFresh, OutcomeMatchesExecution
<1>16. QED BY <1>11, <1>12, <1>13, <1>14, <1>15

(* The pump takes the whole main queue.                                    *)
LEMMA SwapMainPlace ==
    ASSUME TypeInv, PlaceInv, SwapMain
    PROVE  PlaceInv'
<1> USE DEF PlaceInv, TypeInv, TypeOK
<1>0. UNCHANGED <<pc, handle, runs, worker, job>>
  BY DEF SwapMain, callVars, taskVars, workerVars
<1>1. /\ Main \in Queues /\ Batch \in Queues /\ Main # Batch
      /\ items' = [items EXCEPT ![Batch] = items[Main], ![Main] = <<>>]
  BY DEF SwapMain, Queues, Main, Batch
<1> DEFINE from(p) == IF p = Batch THEN Main ELSE p
<1>2. \A p \in Queues : \A i \in 1 .. Len(items'[p]) :
        /\ p # Main /\ from(p) \in Queues /\ i \in 1 .. Len(items[from(p)])
        /\ items'[p][i] = items[from(p)][i]
  <2> SUFFICES ASSUME NEW p \in Queues, NEW i \in 1 .. Len(items'[p])
               PROVE  /\ p # Main /\ from(p) \in Queues /\ i \in 1 .. Len(items[from(p)])
                      /\ items'[p][i] = items[from(p)][i]
    OBVIOUS
  <2>1. p # Main
    <3>1. ASSUME p = Main PROVE FALSE
      <4>1. items'[p] = <<>>
        BY <1>1, <3>1
      <4>2. Len(items'[p]) = 0
        BY <4>1
      <4>3. QED BY <4>2
    <3>2. QED BY <3>1
  <2>2. items'[p] = items[from(p)]
    BY <1>1, <2>1
  <2>3. from(p) \in Queues
    BY <1>1
  <2>4. QED BY <2>1, <2>2, <2>3
<1>3. \A p, r \in Queues : p # Main /\ r # Main /\ from(p) = from(r) => p = r
  OBVIOUS
<1> HIDE DEF from
<1>4. QueuedOnce'
  <2> SUFFICES ASSUME NEW q1 \in Queues, NEW q2 \in Queues,
                      NEW i \in 1 .. Len(items'[q1]), NEW j \in 1 .. Len(items'[q2]),
                      items'[q1][i] = items'[q2][j]
               PROVE  q1 = q2 /\ i = j
    BY DEF QueuedOnce
  <2>1. /\ q1 # Main /\ from(q1) \in Queues /\ i \in 1 .. Len(items[from(q1)])
        /\ items'[q1][i] = items[from(q1)][i]
    BY ONLY <1>2
  <2>2. /\ q2 # Main /\ from(q2) \in Queues /\ j \in 1 .. Len(items[from(q2)])
        /\ items'[q2][j] = items[from(q2)][j]
    BY ONLY <1>2
  <2>3. QueuedOnce /\ items[from(q1)][i] = items[from(q2)][j]
    BY <2>1, <2>2
  <2>4. from(q1) = from(q2) /\ i = j
    BY ONLY <2>1, <2>2, <2>3 DEF QueuedOnce
  <2>5. QED BY <1>3, <2>1, <2>2, <2>4
<1>5. HeldOnce'
  <2>0. HeldOnce
    OBVIOUS
  <2>1. ASSUME NEW v \in Workers, NEW p \in Queues, NEW i \in 1 .. Len(items'[p]), Busy(v)
        PROVE  items'[p][i] # job[v]
    <3>1. /\ from(p) \in Queues /\ i \in 1 .. Len(items[from(p)])
          /\ items'[p][i] = items[from(p)][i]
      BY ONLY <1>2
    <3>2. QED BY ONLY <2>0, <2>1, <3>1 DEF HeldOnce
  <2>2. QED BY <1>0, <2>0, <2>1 DEF HeldOnce, Busy
<1>6. QueuedFresh'
  <2> SUFFICES ASSUME NEW p \in Queues, NEW i \in 1 .. Len(items'[p])
               PROVE  /\ pc'[items'[p][i]] = "accepted" /\ handle'[items'[p][i]] = "pending"
                      /\ runs'[items'[p][i]] = 0
    BY DEF QueuedFresh
  <2>1. /\ from(p) \in Queues /\ i \in 1 .. Len(items[from(p)])
        /\ items'[p][i] = items[from(p)][i]
    BY ONLY <1>2
  <2>2. QueuedFresh
    OBVIOUS
  <2>3. QED BY ONLY <1>0, <2>1, <2>2 DEF QueuedFresh
<1>7. HeldFresh' /\ CallFresh' /\ OutcomeMatchesExecution'
  BY <1>0 DEF HeldFresh, CallFresh, OutcomeMatchesExecution, Busy
<1>8. QED BY <1>4, <1>5, <1>6, <1>7

(* A worker that settles the entry it holds and lets go of it.             *)
LEMMA LetGoPlace ==
    ASSUME TypeInv, PlaceInv, NEW w \in Workers, Busy(w), NEW r \in {"cancelled", "ran"},
           r = "ran" <=> worker[w] = "running",
           handle' = Settled(handle, {job[w]}, r),
           worker' = [worker EXCEPT ![w] = "waiting"],
           job' = [job EXCEPT ![w] = None],
           UNCHANGED <<pc, runs, items>>
    PROVE  PlaceInv'
<1> USE DEF PlaceInv, TypeInv, TypeOK
<1> DEFINE t == job[w]
<1>1. t \in Tasks /\ pc[t] = "accepted" /\ handle[t] = "pending"
      /\ runs[t] = IF r = "ran" THEN 1 ELSE 0
  BY DEF StageInv, HeldFresh, Busy
<1>2. /\ handle' \in [Tasks -> Outcomes]
      /\ \A u \in Tasks : u # t => handle'[u] = handle[u]
      /\ handle'[t] \in {"pending", r}
  <2>1. handle' = Settled(handle, {t}, r) /\ r \in Outcomes /\ handle \in [Tasks -> Outcomes]
    BY DEF Outcomes
  <2>2. handle[t] = "pending" /\ t \in Tasks
    BY <1>1
  <2> HIDE DEF t
  <2>3. QED BY ONLY <2>1, <2>2, SettledFacts
<1>3. \A v \in Workers : Busy(v)' => v # w /\ Busy(v) /\ worker'[v] = worker[v] /\ job'[v] = job[v]
  BY DEF Busy
<1>4. \A v \in Workers : v # w /\ Busy(v) => job[v] # t /\ job[v] \in Tasks
  BY DEF HeldOnce, StageInv, Busy
<1>5. \A q \in Queues : \A i \in 1 .. Len(items[q]) : items[q][i] # t /\ items[q][i] \in Tasks
  BY DEF HeldOnce
<1> HIDE DEF t
<1>6. QueuedOnce'
  BY DEF QueuedOnce
<1>7. HeldOnce'
  BY <1>3 DEF HeldOnce
<1>8. QueuedFresh'
  BY <1>2, <1>5 DEF QueuedFresh
<1>9. HeldFresh'
  BY <1>2, <1>3, <1>4 DEF HeldFresh
<1>10. CallFresh'
  BY <1>1, <1>2 DEF CallFresh
<1>11. OutcomeMatchesExecution'
  <2> SUFFICES ASSUME NEW u \in Tasks
               PROVE  /\ runs[u] <= 1
                      /\ handle'[u] = "ran" => runs[u] = 1
                      /\ handle'[u] \in {"cancelled", "refused", "closed"} => runs[u] = 0
    BY DEF OutcomeMatchesExecution
  <2>1. QED BY <1>1, <1>2 DEF OutcomeMatchesExecution
<1>12. QED BY <1>6, <1>7, <1>8, <1>9, <1>10, <1>11

(* A worker enters the runnable it holds.                                  *)
LEMMA EnterPlace ==
    ASSUME TypeInv, PlaceInv, NEW w \in Workers, worker[w] = "holding",
           runs' = [runs EXCEPT ![job[w]] = @ + 1],
           worker' = [worker EXCEPT ![w] = "running"],
           UNCHANGED <<pc, handle, items, job>>
    PROVE  PlaceInv'
<1> USE DEF PlaceInv, TypeInv, TypeOK
<1> DEFINE t == job[w]
<1>1. t \in Tasks /\ pc[t] = "accepted" /\ handle[t] = "pending" /\ runs[t] = 0
  BY DEF StageInv, HeldFresh, Busy
<1>2. runs'[t] = 1 /\ \A u \in Tasks : u # t => runs'[u] = runs[u]
  BY <1>1
<1>3. /\ \A v \in Workers : Busy(v)' <=> Busy(v)
      /\ \A v \in Workers : v # w => worker'[v] = worker[v]
      /\ Busy(w) /\ worker'[w] = "running"
  BY DEF Busy
<1>4. \A v \in Workers : v # w /\ Busy(v) => job[v] # t /\ job[v] \in Tasks
  BY <1>3 DEF HeldOnce, StageInv, Busy
<1>5. \A q \in Queues : \A i \in 1 .. Len(items[q]) : items[q][i] # t /\ items[q][i] \in Tasks
  BY <1>3 DEF HeldOnce
<1>6. QueuedOnce' /\ HeldOnce'
  BY <1>3 DEF QueuedOnce, HeldOnce
<1> HIDE DEF t
<1>7. QueuedFresh'
  BY <1>2, <1>5 DEF QueuedFresh
<1>8. HeldFresh'
  <2> SUFFICES ASSUME NEW v \in Workers, Busy(v)'
               PROVE  /\ pc[job[v]] = "accepted" /\ handle[job[v]] = "pending"
                      /\ runs'[job[v]] = IF worker'[v] = "running" THEN 1 ELSE 0
    BY DEF HeldFresh
  <2>1. CASE v = w
    BY <1>1, <1>2, <1>3, <2>1 DEF t
  <2>2. CASE v # w
    BY <1>2, <1>3, <1>4, <2>2 DEF HeldFresh
  <2>3. QED BY <2>1, <2>2
<1>9. CallFresh'
  BY <1>1, <1>2 DEF CallFresh
<1>10. OutcomeMatchesExecution'
  BY <1>1, <1>2 DEF OutcomeMatchesExecution
<1>11. QED BY <1>6, <1>7, <1>8, <1>9, <1>10

(* Steps that move no task and start no thread.                            *)
LEMMA StillPlace ==
    ASSUME TypeInv, PlaceInv, UNCHANGED <<pc, handle, runs, items, job>>,
           \A w \in Workers : worker'[w] = worker[w] \/ (~Busy(w) /\ worker'[w] = "exited")
    PROVE  PlaceInv'
<1>1. \A w \in Workers : Busy(w)' => Busy(w) /\ worker'[w] = worker[w]
  BY DEF Busy
<1>2. (QueuedOnce /\ QueuedFresh /\ CallFresh /\ OutcomeMatchesExecution)'
  BY DEF PlaceInv, QueuedOnce, QueuedFresh, CallFresh, OutcomeMatchesExecution
<1>3. HeldOnce' /\ HeldFresh'
  BY <1>1 DEF PlaceInv, HeldOnce, HeldFresh
<1>4. QED BY <1>2, <1>3 DEF PlaceInv

LEMMA CallPlace ==
    ASSUME TypeInv, PlaceInv, NEW t \in Tasks, CallStep(t)
    PROVE  PlaceInv'
<1>0. ASSUME NEW r \in {"refused", "closed"}, Refuse(t, r), pc[t] \notin {"accepted", "refused"}
      PROVE  PlaceInv'
  <2>1. handle[t] = "pending"
    BY <1>0 DEF PlaceInv, CallFresh
  <2>2. /\ handle' = Settled(handle, {t}, r) /\ handle \in [Tasks -> Outcomes]
        /\ r \in Outcomes
    BY <1>0 DEF Refuse, TypeInv, TypeOK, Outcomes
  <2>3. /\ handle' \in [Tasks -> Outcomes]
        /\ \A u \in Tasks : u # t => handle'[u] = handle[u]
        /\ handle'[t] \in {"pending", r}
    BY ONLY <2>1, <2>2, SettledFacts, t \in Tasks
  <2>4. pc' = [pc EXCEPT ![t] = "refused"] /\ UNCHANGED <<runs, items, worker, job>>
    BY <1>0 DEF Refuse, queueVars, workerVars
  <2>5. QED BY <1>0, <2>3, <2>4, RefusePlace
<1>1. CASE PushPool(t)
  <2>1. pc[t] \notin {"accepted", "refused"} /\ Pool \in Queues
    BY <1>1 DEF PushPool, Queues
  <2>2. Refuse(t, "closed") \/ Enqueue(t, Pool)
    BY <1>1 DEF PushPool
  <2>3. QED BY <1>0, <2>1, <2>2, EnqueuePlace
<1>2. CASE PushMain(t)
  <2>1. pc[t] \notin {"accepted", "refused"} /\ Main \in Queues /\ Enqueue(t, Main)
    BY <1>2 DEF PushMain, Queues
  <2>2. QED BY <2>1, EnqueuePlace
<1>3. CASE ReserveDedicated(t)
  <2>1. CASE Refuse(t, "refused")
    BY <1>0, <1>3, <2>1 DEF ReserveDedicated
  <2>2. CASE pc' = [pc EXCEPT ![t] = "register"] /\ UNCHANGED <<taskVars, queueVars, workerVars>>
    <3>1. UNCHANGED <<handle, runs, items, worker, job>>
      BY <2>2 DEF taskVars, queueVars, workerVars
    <3>2. pc[t] \notin {"accepted", "refused"}
      BY <1>3 DEF ReserveDedicated
    <3>3. QED BY <2>2, <3>1, <3>2, ProgressPlace
  <2>3. QED BY <1>3, <2>1, <2>2 DEF ReserveDedicated
<1>4. CASE RegisterDedicated(t)
  <2>1. /\ UNCHANGED <<handle, runs, items, job>> /\ pc[t] \notin {"accepted", "refused"}
        /\ pc' = [pc EXCEPT ![t] = "push"] /\ worker' = [worker EXCEPT ![t] = "waiting"]
    BY <1>4 DEF RegisterDedicated, taskVars, queueVars
  <2>2. QED BY <2>1, ProgressPlace
<1>5. CASE ResolveNamed(t)
  <2>1. CASE Refuse(t, "refused")
    BY <1>0, <1>5, <2>1 DEF ResolveNamed
  <2>2. CASE pc' = [pc EXCEPT ![t] = "slot"] /\ UNCHANGED <<taskVars, queueVars, workerVars>>
    <3>1. UNCHANGED <<handle, runs, items, worker, job>>
      BY <2>2 DEF taskVars, queueVars, workerVars
    <3>2. pc[t] \notin {"accepted", "refused"}
      BY <1>5 DEF ResolveNamed
    <3>3. QED BY <2>2, <3>1, <3>2, ProgressPlace
  <2>3. QED BY <1>5, <2>1, <2>2 DEF ResolveNamed
<1>6. CASE FindNamedSlot(t)
  <2>1. /\ UNCHANGED <<handle, runs, items, job>> /\ pc[t] \notin {"accepted", "refused"}
        /\ pc' = [pc EXCEPT ![t] = "push"]
    BY <1>6 DEF FindNamedSlot, taskVars, queueVars
  <2>2. worker' = worker \/ worker' = [worker EXCEPT ![t] = "waiting"]
    BY <1>6 DEF FindNamedSlot
  <2>3. QED BY <2>1, <2>2, ProgressPlace
<1>7. CASE PushSlot(t)
  <2>1. pc[t] \notin {"accepted", "refused"} /\ target[t] \in Queues
    BY <1>7 DEF PushSlot, TypeInv, StageInv, Queues
  <2>2. CASE Enqueue(t, target[t])
    BY <2>1, <2>2, EnqueuePlace
  <2>3. CASE Refuse(t, "closed")
    BY <1>0, <2>1, <2>3
  <2>4. CASE pc' = [pc EXCEPT ![t] = "lost"] /\ UNCHANGED <<taskVars, queueVars, workerVars>>
    <3>1. UNCHANGED <<handle, runs, items, worker, job>>
      BY <2>4 DEF taskVars, queueVars, workerVars
    <3>2. QED BY <2>1, <2>4, <3>1, ProgressPlace
  <2>5. QED BY <1>7, <2>2, <2>3, <2>4 DEF PushSlot
<1>8. QED BY <1>1, <1>2, <1>3, <1>4, <1>5, <1>6, <1>7 DEF CallStep

LEMMA SubmitPlace ==
    ASSUME TypeInv, PlaceInv, NEW t \in Tasks, NEW k, NEW id,
           k \in {"pool", "main", "post", "dedicated", "named", "invalid"}, Submit(t, k, id)
    PROVE  PlaceInv'
<1>1. /\ UNCHANGED <<runs, items, worker, job>> /\ pc[t] = "idle"
  BY DEF Submit, queueVars, workerVars
<1>2. handle[t] = "pending" /\ handle \in [Tasks -> Outcomes]
  BY <1>1 DEF PlaceInv, CallFresh, TypeInv, TypeOK
<1>3. CASE pc' = [pc EXCEPT ![t] = k] /\ UNCHANGED handle
  BY <1>1, <1>3, ProgressPlace
<1>4. CASE /\ pc' = [pc EXCEPT ![t] = "refused"]
           /\ handle' = [handle EXCEPT ![t] = IF k = "post" THEN @ ELSE "refused"]
  <2>1. /\ handle' \in [Tasks -> Outcomes]
        /\ \A u \in Tasks : u # t => handle'[u] = handle[u]
        /\ handle'[t] \in {"pending", "refused"}
    BY <1>2, <1>4 DEF Outcomes
  <2>2. QED BY <1>1, <1>4, <2>1, RefusePlace
<1>5. QED BY <1>3, <1>4 DEF Submit

LEMMA WorkerPlace ==
    ASSUME TypeInv, PlaceInv, NEW w \in Workers, WorkerStep(w)
    PROVE  PlaceInv'
<1>1. CASE Exit(w)
  <2>1. UNCHANGED <<pc, handle, runs, items, job>>
    BY <1>1 DEF Exit, callVars, taskVars, queueVars
  <2>2. \A v \in Workers : worker'[v] = worker[v] \/ (~Busy(v) /\ worker'[v] = "exited")
    <3>1. /\ worker[w] = "waiting" /\ worker' = [worker EXCEPT ![w] = "exited"]
          /\ worker \in [Workers -> {"none", "waiting", "holding", "running", "exited"}]
      BY <1>1 DEF Exit, TypeInv, TypeOK
    <3>2. worker'[w] = "exited" /\ \A v \in Workers : v # w => worker'[v] = worker[v]
      BY <3>1
    <3>3. ~Busy(w)
      BY <3>1 DEF Busy
    <3>4. QED BY <3>2, <3>3
  <2>3. QED BY <2>1, <2>2, StillPlace
<1>2. CASE Begin(w)
  <2>1. worker[w] = "holding" /\ UNCHANGED <<pc, items>>
    BY <1>2 DEF Begin, callVars, queueVars
  <2>2. CASE job[w] \in cancelled
    <3>1. /\ handle' = Settled(handle, {job[w]}, "cancelled") /\ UNCHANGED runs
          /\ worker' = [worker EXCEPT ![w] = "waiting"] /\ job' = [job EXCEPT ![w] = None]
      BY <1>2, <2>2 DEF Begin
    <3>2. Busy(w) /\ ("cancelled" = "ran" <=> worker[w] = "running")
      BY <2>1 DEF Busy
    <3>3. QED BY <2>1, <3>1, <3>2, LetGoPlace
  <2>3. CASE job[w] \notin cancelled
    <3>1. /\ runs' = [runs EXCEPT ![job[w]] = @ + 1] /\ UNCHANGED <<handle, job>>
          /\ worker' = [worker EXCEPT ![w] = "running"]
      BY <1>2, <2>3 DEF Begin
    <3>2. QED BY <2>1, <3>1, EnterPlace
  <2>4. QED BY <2>2, <2>3
<1>3. CASE Finish(w)
  <2>1. /\ handle' = Settled(handle, {job[w]}, "ran") /\ UNCHANGED <<pc, runs, items>>
        /\ worker' = [worker EXCEPT ![w] = "waiting"] /\ job' = [job EXCEPT ![w] = None]
        /\ worker[w] = "running"
    BY <1>3 DEF Finish, callVars, queueVars
  <2>2. Busy(w) /\ ("ran" = "ran" <=> worker[w] = "running")
    BY <2>1 DEF Busy
  <2>3. QED BY <2>1, <2>2, LetGoPlace
<1>4. QED BY <1>1, <1>2, <1>3, PopPlace DEF WorkerStep

LEMMA TeardownPlace ==
    ASSUME TypeInv, PlaceInv, CloseStep \/ \E o \in Owners : OwnerStep(o)
    PROVE  PlaceInv'
<1>1. ASSUME NEW q \in Queues, Drain(q), UNCHANGED <<pc, runs, worker, job>>
      PROVE  PlaceInv'
  BY <1>1, DrainPlace
<1>2. ASSUME UNCHANGED <<pc, handle, runs, items, worker, job>>
      PROVE  PlaceInv'
  <2>1. UNCHANGED <<pc, handle, runs, items, job>>
    BY <1>2
  <2>2. \A w \in Workers : worker'[w] = worker[w] \/ (~Busy(w) /\ worker'[w] = "exited")
    BY <1>2
  <2>3. QED BY <2>1, <2>2, StillPlace
<1>3. CASE CloseStep
  <2>1. CASE JoinPool
    BY <1>1, <2>1 DEF JoinPool, Queues, callVars, workerVars
  <2>2. ASSUME NEW q \in Tasks, JoinSlot(q) PROVE PlaceInv'
    BY <1>1, <2>2 DEF JoinSlot, Queues, callVars, workerVars
  <2>3. CASE DrainMain
    BY <1>1, <2>3 DEF DrainMain, Queues, callVars, workerVars
  <2>4. CASE Mark \/ StopPool \/ TakeDedicated \/ TakeNamed \/ \E q \in Tasks : StopSlot(q)
    BY <1>2, <2>4 DEF Mark, StopPool, TakeDedicated, TakeNamed, StopSlot,
                      callVars, taskVars, queueVars, workerVars
  <2>5. QED BY <1>3, <2>1, <2>2, <2>3, <2>4 DEF CloseStep
<1>4. ASSUME NEW o \in Owners, OwnerStep(o) PROVE PlaceInv'
  <2>1. CASE JoinOwned(o)
    <3>1. oslot[o] \in Queues
      BY <2>1 DEF JoinOwned, TypeInv, StageInv, Queues
    <3>2. Drain(oslot[o]) /\ UNCHANGED <<pc, runs, worker, job>>
      BY <2>1 DEF JoinOwned, callVars, workerVars
    <3>3. QED BY <1>1, <3>1, <3>2
  <2>2. CASE Register(o) \/ ReleaseOwned(o) \/ TakeSlot(o) \/ StopOwned(o)
    BY <1>2, <2>2 DEF Register, ReleaseOwned, TakeSlot, StopOwned,
                      callVars, taskVars, queueVars, workerVars
  <2>3. QED BY <1>4, <2>1, <2>2 DEF OwnerStep
<1>5. QED BY <1>3, <1>4

LEMMA PlaceStep == TypeInv /\ PlaceInv /\ [Next]_vars => PlaceInv'
<1> SUFFICES ASSUME TypeInv, PlaceInv, [Next]_vars PROVE PlaceInv'
  OBVIOUS
<1>1. ASSUME UNCHANGED <<pc, handle, runs, items, worker, job>>
      PROVE  PlaceInv'
  <2>1. UNCHANGED <<pc, handle, runs, items, job>>
    BY <1>1
  <2>2. \A w \in Workers : worker'[w] = worker[w] \/ (~Busy(w) /\ worker'[w] = "exited")
    BY <1>1
  <2>3. QED BY <2>1, <2>2, StillPlace
<1>2. ASSUME NEW t \in Tasks, NEW k \in Affinities \ {"named"}, Submit(t, k, NoId)
      PROVE  PlaceInv'
  BY <1>2, SubmitPlace, SchedulerAssumption DEF AllAffinities
<1>3. ASSUME NEW t \in Tasks, NEW id \in issued, Submit(t, "named", id) PROVE PlaceInv'
  BY <1>3, SubmitPlace
<1>4. ASSUME NEW t \in Tasks, CallStep(t) PROVE PlaceInv'
  BY <1>4, CallPlace
<1>5. ASSUME NEW w \in Workers, WorkerStep(w) PROVE PlaceInv'
  BY <1>5, WorkerPlace
<1>6. CASE CloseStep \/ \E o \in Owners : OwnerStep(o)
  BY <1>6, TeardownPlace
<1>7. CASE \/ \E t \in Tasks : Cancel(t)
           \/ \E o \in Owners : CheckRegister(o) \/ \E id \in issued : ResolveOwned(o, id)
           \/ BeginShutdown
           \/ UNCHANGED vars
  BY <1>1, <1>7 DEF Cancel, CheckRegister, ResolveOwned, BeginShutdown, vars,
                    callVars, taskVars, queueVars, workerVars
<1>8. QED BY <1>2, <1>3, <1>4, <1>5, <1>6, <1>7, SwapMainPlace DEF Next

(* A handle never lies about its runnable, for any number of callers,      *)
(* workers and owners racing with cancellations and a shutdown: whatever   *)
(* settles it first, runEntry, a refusal or a drain, it says "ran" only of *)
(* a runnable that was entered, fails only one that never is, and no       *)
(* runnable is entered twice.                                              *)
THEOREM HandlesTellTheTruth == Spec => []OutcomeMatchesExecution
<1>1. Init => TypeInv /\ PlaceInv
  BY InitTypes, InitPlace
<1>2. TypeInv /\ PlaceInv /\ [Next]_vars => TypeInv' /\ PlaceInv'
  BY TypeStep, PlaceStep
<1>3. PlaceInv => OutcomeMatchesExecution
  BY DEF PlaceInv
<1>4. QED BY <1>1, <1>2, <1>3, PTL DEF Spec

-----------------------------------------------------------------------------
(* A thread and who holds it: OneHolderPerThread                           *)

(* Who holds the thread of a slot: the tables, an owner, or the shutdown.  *)
HasHolder(t) ==
    \/ t \in dedicatedSlots
    \/ \E i \in Index : namedSlots[i] = t
    \/ \E o \in Owners : oslot[o] = t
    \/ t \in todo
Live(t) == worker[t] \in {"waiting", "holding", "running"}

(* No two holders share a slot.                                            *)
HoldersApart ==
    /\ \A i, j \in Index : namedSlots[i] \in Tasks /\ namedSlots[i] = namedSlots[j] => i = j
    /\ \A o, p \in Owners : oslot[o] \in Tasks /\ oslot[o] = oslot[p] => o = p
    /\ \A i \in Index, o \in Owners : namedSlots[i] \in Tasks => namedSlots[i] # oslot[o]
    /\ \A i \in Index : namedSlots[i] \notin dedicatedSlots \cup todo
    /\ \A o \in Owners : oslot[o] \notin dedicatedSlots \cup todo
    /\ dedicatedSlots \cap todo = {}
(* An owner and the shutdown hold slots during a teardown only.            *)
HoldersBusy ==
    /\ \A o \in Owners : opc[o] \notin {"stop", "join"} => oslot[o] = None
    /\ spc \in {"open", "mark", "stopPool", "joinPool", "takeDedicated"} => todo = {}
(* A call that has not reached its push has started no thread yet, ...     *)
NotStarted ==
    \A t \in Tasks : pc[t] \notin {"push", "accepted", "refused", "lost"} =>
        worker[t] = "none" /\ ~HasHolder(t)
(* ... and a thread that was started is held until it has exited.          *)
LiveAreHeld == \A t \in Tasks : Live(t) => HasHolder(t)

HolderInv == HoldersApart /\ HoldersBusy /\ NotStarted /\ LiveAreHeld

(* The call's kind decides which way it goes, and which table it enters.   *)
KindInv ==
    /\ \A t \in Tasks :
        /\ pc[t] = "pool" => kind[t] = "pool"
        /\ pc[t] = "main" => kind[t] = "main"
        /\ pc[t] = "post" => kind[t] = "post"
        /\ pc[t] \in {"dedicated", "register"} => kind[t] = "dedicated"
        /\ pc[t] \in {"named", "slot"} => kind[t] = "named"
        /\ pc[t] = "push" => kind[t] \in {"dedicated", "named"}
    /\ \A i \in Index : namedSlots[i] \in Tasks => kind[namedSlots[i]] = "named"
    /\ \A o \in Owners : oslot[o] \in Tasks => kind[oslot[o]] = "named"
    /\ spc \in {"stopNamed", "joinNamed", "done"} => \A t \in todo : kind[t] = "named"
Charged ==
    {t \in Tasks : pc[t] = "register"} \cup dedicatedSlots
        \cup (IF spc \in {"stopDedicated", "joinDedicated"} THEN todo ELSE {})
CountInv == dedicatedCount = Cardinality(Charged)


-----------------------------------------------------------------------------
LEMMA InitHolders == Init => HolderInv
<1> SUFFICES ASSUME Init PROVE HolderInv
  OBVIOUS
<1>1. None \notin Tasks /\ Tasks \cap PoolWorkers = {} /\ Pump \notin Tasks
  BY SchedulerAssumption
<1> USE <1>1 DEF Init
<1>2. \A t \in Tasks : worker[t] = "none" /\ ~HasHolder(t)
  BY DEF HasHolder, Workers
<1>3. HoldersApart /\ HoldersBusy
  BY DEF HoldersApart, HoldersBusy
<1>4. NotStarted /\ LiveAreHeld
  BY <1>2 DEF NotStarted, LiveAreHeld, Live
<1>5. QED BY <1>3, <1>4 DEF HolderInv

Started == {"push", "accepted", "refused", "lost"}
BeforeSlots == {"open", "mark", "stopPool", "joinPool", "takeDedicated"}

(* Steps that hand no slot over and start no thread.                       *)
LEMMA SameHolders ==
    ASSUME HolderInv, UNCHANGED <<dedicatedSlots, namedSlots, oslot, todo>>,
           \A t \in Tasks : pc'[t] \notin Started => pc[t] \notin Started,
           \A t \in Tasks : worker[t] = "none" => worker'[t] = "none",
           \A t \in Tasks : Live(t)' => Live(t),
           \A o \in Owners : opc'[o] \notin {"stop", "join"} => opc[o] \notin {"stop", "join"},
           spc' \in BeforeSlots => spc \in BeforeSlots
    PROVE  HolderInv'
<1> USE DEF HolderInv
<1>1. \A t \in Tasks : HasHolder(t)' <=> HasHolder(t)
  BY DEF HasHolder
<1>2. HoldersApart'
  BY DEF HoldersApart
<1>3. HoldersBusy'
  BY DEF HoldersBusy, BeforeSlots
<1>4. NotStarted' /\ LiveAreHeld'
  BY <1>1 DEF NotStarted, LiveAreHeld, Started
<1>5. QED BY <1>2, <1>3, <1>4

LEMMA CallHolders ==
    ASSUME TypeInv, HolderInv, NEW t \in Tasks, CallStep(t)
    PROVE  HolderInv'
<1>0. None \notin Tasks /\ t \in Workers
  BY SchedulerAssumption DEF Workers
<1> USE <1>0 DEF TypeInv, TypeOK
<1>1. CASE RegisterDedicated(t)
  <2>1. /\ dedicatedSlots' = dedicatedSlots \cup {t}
        /\ worker' = [worker EXCEPT ![t] = "waiting"]
        /\ pc' = [pc EXCEPT ![t] = "push"] /\ pc[t] = "register"
        /\ UNCHANGED <<namedSlots, opc, oslot, spc, todo>>
    BY <1>1 DEF RegisterDedicated, ownerVars, closeVars
  <2>2. ~HasHolder(t) /\ HasHolder(t)'
    BY <2>1 DEF HolderInv, NotStarted, HasHolder
  <2>3. \A u \in Tasks \ {t} : worker'[u] = worker[u] /\ pc'[u] = pc[u] /\ (HasHolder(u)' <=> HasHolder(u))
    BY <2>1 DEF HasHolder
  <2>4. HoldersApart' /\ HoldersBusy'
    BY <2>1, <2>2 DEF HolderInv, HoldersApart, HoldersBusy, HasHolder
  <2>5. NotStarted' /\ LiveAreHeld'
    BY <2>1, <2>2, <2>3 DEF HolderInv, NotStarted, LiveAreHeld, Live
  <2>6. QED BY <2>4, <2>5 DEF HolderInv
<1>2. CASE FindNamedSlot(t) /\ namedSlots[named[t].index] = None
  <2> DEFINE n == named[t].index
  <2>1. n \in Index
    BY <1>2 DEF FindNamedSlot, StageInv, BaseTypeOK, NamedId
  <2>2. /\ namedSlots' = [namedSlots EXCEPT ![n] = t]
        /\ worker' = [worker EXCEPT ![t] = "waiting"]
        /\ pc' = [pc EXCEPT ![t] = "push"] /\ pc[t] = "slot"
        /\ UNCHANGED <<dedicatedSlots, opc, oslot, spc, todo>>
    BY <1>2 DEF FindNamedSlot, ownerVars, closeVars
  <2>3. /\ namedSlots[n] = None /\ namedSlots'[n] = t
        /\ \A i \in Index \ {n} : namedSlots'[i] = namedSlots[i]
    BY <1>2, <2>1, <2>2
  <2> HIDE DEF n
  <2>4. ~HasHolder(t) /\ HasHolder(t)'
    BY <2>1, <2>2, <2>3 DEF HolderInv, NotStarted, HasHolder
  <2>5. \A u \in Tasks \ {t} : worker'[u] = worker[u] /\ pc'[u] = pc[u] /\ (HasHolder(u)' <=> HasHolder(u))
    BY <2>1, <2>2, <2>3 DEF HasHolder
  <2>6. HoldersApart' /\ HoldersBusy'
    BY <2>1, <2>2, <2>3, <2>4 DEF HolderInv, HoldersApart, HoldersBusy, HasHolder
  <2>7. NotStarted' /\ LiveAreHeld'
    BY <2>2, <2>4, <2>5 DEF HolderInv, NotStarted, LiveAreHeld, Live
  <2>8. QED BY <2>6, <2>7 DEF HolderInv
<1>3. CASE ~RegisterDedicated(t) /\ ~(FindNamedSlot(t) /\ namedSlots[named[t].index] = None)
  <2>1. UNCHANGED <<dedicatedSlots, namedSlots, opc, oslot, spc, todo, worker>>
    BY <1>3 DEF CallStep, PushPool, PushMain, ReserveDedicated, ResolveNamed, FindNamedSlot,
                PushSlot, Enqueue, Refuse, slotVars, ownerVars, closeVars, workerVars
  <2>2. \A u \in Tasks : pc'[u] \notin Started => pc[u] \notin Started
    <3>1. pc[t] \notin Started \/ pc'[t] \in Started
      BY <1>3 DEF CallStep, PushPool, PushMain, ReserveDedicated, ResolveNamed, FindNamedSlot,
                  PushSlot, Enqueue, Refuse, Started
    <3>2. \A u \in Tasks \ {t} : pc'[u] = pc[u]
      BY <1>3 DEF CallStep, PushPool, PushMain, ReserveDedicated, ResolveNamed, FindNamedSlot,
                  PushSlot, Enqueue, Refuse
    <3>3. QED BY <3>1, <3>2
  <2>3. QED BY <2>1, <2>2, SameHolders DEF Live
<1>4. QED BY <1>1, <1>2, <1>3

LEMMA OwnerHolders ==
    ASSUME TypeInv, HolderInv, NEW o \in Owners, OwnerStep(o)
    PROVE  HolderInv'
<1>0. None \notin Tasks
  BY SchedulerAssumption
<1> USE <1>0 DEF TypeInv, TypeOK
<1>1. CASE TakeSlot(o) /\ namedSlots[oid[o].index] # None
  <2> DEFINE n == oid[o].index
             q == namedSlots[n]
  <2>1. n \in Index
    BY <1>1 DEF TakeSlot, StageInv, BaseTypeOK, NamedId
  <2>2. /\ namedSlots' = [namedSlots EXCEPT ![n] = None]
        /\ oslot' = [oslot EXCEPT ![o] = q] /\ opc' = [opc EXCEPT ![o] = "stop"]
        /\ opc[o] = "take"
        /\ UNCHANGED <<dedicatedSlots, pc, worker, spc, todo>>
    BY <1>1 DEF TakeSlot, callVars, workerVars, closeVars
  <2>3. q \in Tasks /\ oslot[o] = None
    BY <1>1, <2>1, <2>2 DEF HolderInv, HoldersBusy
  <2>4. /\ namedSlots'[n] = None /\ oslot'[o] = q
        /\ \A i \in Index \ {n} : namedSlots'[i] = namedSlots[i] /\ namedSlots[i] # q
        /\ \A p \in Owners \ {o} : oslot'[p] = oslot[p] /\ opc'[p] = opc[p] /\ oslot[p] # q
        /\ q \notin dedicatedSlots \cup todo
    BY <2>1, <2>2, <2>3 DEF HolderInv, HoldersApart
  <2>5. opc'[o] = "stop"
    BY <2>2
  <2>q. q = namedSlots[n]
    OBVIOUS
  <2> HIDE DEF n, q
  <2>6. \A u \in Tasks : HasHolder(u)' <=> HasHolder(u)
    BY <2>1, <2>2, <2>3, <2>4, <2>q DEF HasHolder
  <2>7. HoldersApart'
    BY <2>1, <2>2, <2>3, <2>4, <2>q DEF HolderInv, HoldersApart
  <2>8. HoldersBusy'
    BY <2>2, <2>4, <2>5 DEF HolderInv, HoldersBusy
  <2>9. NotStarted' /\ LiveAreHeld'
    BY <2>2, <2>6 DEF HolderInv, NotStarted, LiveAreHeld, Live
  <2>10. QED BY <2>7, <2>8, <2>9 DEF HolderInv
<1>2. CASE JoinOwned(o)
  <2> DEFINE q == oslot[o]
  <2>1. /\ oslot' = [oslot EXCEPT ![o] = None] /\ opc' = [opc EXCEPT ![o] = "idle"]
        /\ opc[o] = "join" /\ worker[q] = "exited"
        /\ UNCHANGED <<dedicatedSlots, namedSlots, pc, worker, spc, todo>>
    BY <1>2 DEF JoinOwned, callVars, workerVars, slotVars, closeVars
  <2>2. oslot'[o] = None /\ \A p \in Owners \ {o} : oslot'[p] = oslot[p] /\ opc'[p] = opc[p]
    BY <2>1
  <2>3. \A u \in Tasks : /\ HasHolder(u)' => HasHolder(u)
                         /\ u # q => (HasHolder(u)' <=> HasHolder(u))
    BY <2>1, <2>2 DEF HasHolder
  <2>4. HoldersApart'
    BY <2>1, <2>2 DEF HolderInv, HoldersApart
  <2>5. HoldersBusy'
    BY <2>1, <2>2 DEF HolderInv, HoldersBusy
  <2>6. NotStarted' /\ LiveAreHeld'
    BY <2>1, <2>3 DEF HolderInv, NotStarted, LiveAreHeld, Live
  <2>7. QED BY <2>4, <2>5, <2>6 DEF HolderInv
<1>3. CASE \/ Register(o) \/ ReleaseOwned(o) \/ StopOwned(o)
           \/ TakeSlot(o) /\ namedSlots[oid[o].index] = None
  <2>1. UNCHANGED <<dedicatedSlots, namedSlots, oslot, todo, spc, pc, worker>>
    BY <1>3 DEF Register, ReleaseOwned, StopOwned, TakeSlot, callVars, workerVars, slotVars,
                closeVars
  <2>2. \A p \in Owners : opc'[p] \notin {"stop", "join"} => opc[p] \notin {"stop", "join"}
    BY <1>3 DEF Register, ReleaseOwned, StopOwned, TakeSlot
  <2>3. QED BY <2>1, <2>2, SameHolders DEF Live
<1>4. QED BY <1>1, <1>2, <1>3 DEF OwnerStep

LEMMA CloseHolders ==
    ASSUME TypeInv, HolderInv, CloseStep
    PROVE  HolderInv'
<1>0. None \notin Tasks
  BY SchedulerAssumption
<1> USE <1>0 DEF TypeInv, TypeOK, Close
<1>1. CASE TakeDedicated
  <2>1. /\ dedicatedSlots' = {} /\ todo' = dedicatedSlots /\ todo = {} /\ spc' = "stopDedicated"
        /\ UNCHANGED <<namedSlots, opc, oslot, pc, worker>>
    BY <1>1 DEF TakeDedicated, HolderInv, HoldersBusy, ownerVars, callVars, workerVars
  <2>2. \A u \in Tasks : HasHolder(u)' <=> HasHolder(u)
    BY <2>1 DEF HasHolder
  <2>3. HoldersApart' /\ HoldersBusy'
    BY <2>1 DEF HolderInv, HoldersApart, HoldersBusy
  <2>4. NotStarted' /\ LiveAreHeld'
    BY <2>1, <2>2 DEF HolderInv, NotStarted, LiveAreHeld, Live
  <2>5. QED BY <2>3, <2>4 DEF HolderInv
<1>2. ASSUME NEW q \in Tasks, JoinSlot(q) PROVE HolderInv'
  <2>1. /\ todo' = todo \ {q} /\ worker[q] = "exited" /\ spc' \in {"stopDedicated", "stopNamed"}
        /\ UNCHANGED <<dedicatedSlots, namedSlots, opc, oslot, pc, worker>>
    BY <1>2 DEF JoinSlot, callVars, workerVars, slotVars, ownerVars
  <2>2. \A u \in Tasks : /\ HasHolder(u)' => HasHolder(u)
                         /\ u # q => (HasHolder(u)' <=> HasHolder(u))
    BY <2>1 DEF HasHolder
  <2>3. HoldersApart' /\ HoldersBusy'
    BY <2>1 DEF HolderInv, HoldersApart, HoldersBusy
  <2>4. NotStarted' /\ LiveAreHeld'
    BY <2>1, <2>2 DEF HolderInv, NotStarted, LiveAreHeld, Live
  <2>5. QED BY <2>3, <2>4 DEF HolderInv
<1>3. CASE TakeNamed
  <2>1. /\ todo = {} /\ todo' = Range(namedSlots) \ {None}
        /\ namedSlots' = [i \in Index |-> None] /\ spc' = "stopNamed"
        /\ UNCHANGED <<dedicatedSlots, opc, oslot, pc, worker>>
    BY <1>3 DEF TakeNamed, callVars, workerVars, ownerVars
  <2>2. \A u \in Tasks : u \in todo' <=> \E i \in Index : namedSlots[i] = u
    BY <2>1 DEF Range
  <2>3. \A i \in Index : namedSlots'[i] = None
    BY <2>1
  <2>4. \A u \in Tasks : HasHolder(u)' <=> HasHolder(u)
    BY <2>1, <2>2, <2>3 DEF HasHolder
  <2>5. todo' \subseteq Tasks
    BY <2>1 DEF Range
  <2>6. HoldersApart'
    <3>1. \A p \in Owners : oslot[p] \notin todo'
      BY <2>2, <2>5 DEF HolderInv, HoldersApart
    <3>2. dedicatedSlots \cap todo' = {}
      BY <2>2, <2>5 DEF HolderInv, HoldersApart
    <3>3. \A i \in Index : namedSlots'[i] \notin dedicatedSlots \cup todo'
      BY <2>3, <2>5
    <3>4. QED BY <2>1, <2>3, <3>1, <3>2, <3>3 DEF HolderInv, HoldersApart
  <2>7. HoldersBusy'
    BY <2>1 DEF HolderInv, HoldersBusy
  <2>8. NotStarted' /\ LiveAreHeld'
    BY <2>1, <2>4 DEF HolderInv, NotStarted, LiveAreHeld, Live
  <2>9. QED BY <2>6, <2>7, <2>8 DEF HolderInv
<1>4. CASE Mark \/ StopPool \/ JoinPool \/ DrainMain \/ \E q \in Tasks : StopSlot(q)
  <2>1. UNCHANGED <<dedicatedSlots, namedSlots, oslot, opc, todo, pc, worker>>
    BY <1>4 DEF Mark, StopPool, JoinPool, DrainMain, StopSlot, callVars, workerVars, slotVars,
                ownerVars
  <2>2. spc' \in BeforeSlots => spc \in BeforeSlots
    BY <1>4 DEF Mark, StopPool, JoinPool, DrainMain, StopSlot, BeforeSlots
  <2>3. QED BY <2>1, <2>2, SameHolders DEF Live
<1>5. QED BY <1>1, <1>2, <1>3, <1>4 DEF CloseStep

(* The threads of the slots come and go with their workers only.           *)
LEMMA WorkerHolders ==
    ASSUME TypeInv, HolderInv, NEW w \in Workers, WorkerStep(w)
    PROVE  HolderInv'
<1>1. UNCHANGED <<dedicatedSlots, namedSlots, oslot, opc, todo, spc, pc>>
  BY DEF WorkerStep, Pop, Exit, Begin, Finish, callVars, slotVars, ownerVars, closeVars
<1>2. /\ worker[w] \in {"waiting", "holding", "running"} /\ worker'[w] # "none"
      /\ \A v \in Workers \ {w} : worker'[v] = worker[v]
  BY DEF WorkerStep, Pop, Exit, Begin, Finish, TypeInv, TypeOK
<1>3. \A t \in Tasks : (worker[t] = "none" => worker'[t] = "none") /\ (Live(t)' => Live(t))
  BY <1>2 DEF Live, Workers
<1>4. QED BY <1>1, <1>3, SameHolders

LEMMA HolderStep == TypeInv /\ HolderInv /\ [Next]_vars => HolderInv'
<1> SUFFICES ASSUME TypeInv, HolderInv, [Next]_vars PROVE HolderInv'
  OBVIOUS
<1>1. ASSUME UNCHANGED <<dedicatedSlots, namedSlots, oslot, todo, worker>>,
             \A t \in Tasks : pc'[t] \notin Started => pc[t] \notin Started,
             \A o \in Owners : opc'[o] \notin {"stop", "join"} => opc[o] \notin {"stop", "join"},
             spc' \in BeforeSlots => spc \in BeforeSlots
      PROVE  HolderInv'
  BY <1>1, SameHolders DEF Live
<1>2. ASSUME NEW t \in Tasks, NEW k, NEW id, Submit(t, k, id) PROVE HolderInv'
  <2>1. pc[t] = "idle" /\ \A u \in Tasks \ {t} : pc'[u] = pc[u]
    BY <1>2 DEF Submit, TypeInv, TypeOK
  <2>2. UNCHANGED <<dedicatedSlots, namedSlots, oslot, todo, worker, opc, spc>>
    BY <1>2 DEF Submit, slotVars, ownerVars, closeVars, workerVars
  <2>3. QED BY <1>1, <2>1, <2>2 DEF Started
<1>3. CASE \/ \E t \in Tasks : Cancel(t)
           \/ SwapMain
           \/ \E o \in Owners : CheckRegister(o) \/ \E id \in issued : ResolveOwned(o, id)
           \/ BeginShutdown
           \/ UNCHANGED vars
  <2>1. UNCHANGED <<dedicatedSlots, namedSlots, oslot, todo, worker, pc>>
    BY <1>3 DEF Cancel, SwapMain, CheckRegister, ResolveOwned, BeginShutdown, vars, callVars,
                slotVars, ownerVars, closeVars, workerVars
  <2>2. \A o \in Owners : opc'[o] \notin {"stop", "join"} => opc[o] \notin {"stop", "join"}
    BY <1>3 DEF Cancel, SwapMain, CheckRegister, ResolveOwned, BeginShutdown, vars, ownerVars,
                TypeInv, TypeOK
  <2>3. spc' \in BeforeSlots => spc \in BeforeSlots
    BY <1>3 DEF Cancel, SwapMain, CheckRegister, ResolveOwned, BeginShutdown, Close, vars,
                closeVars, BeforeSlots
  <2>4. QED BY <1>1, <2>1, <2>2, <2>3
<1>4. QED
  BY <1>2, <1>3, CallHolders, OwnerHolders, CloseHolders, WorkerHolders DEF Next

LEMMA OneHolder == TypeInv /\ HolderInv => OneHolderPerThread
<1> SUFFICES ASSUME TypeInv, HolderInv, NEW t \in Tasks
             PROVE  /\ Cardinality(SlotHolders(t)) <= 1
                    /\ Live(t) => SlotHolders(t) # {}
  BY DEF OneHolderPerThread, Live
<1>1. \A a, b \in SlotHolders(t) : a = b
  BY DEF SlotHolders, HolderInv, HoldersApart
<1>2. Cardinality(SlotHolders(t)) <= 1
  <2>1. CASE SlotHolders(t) = {}
    BY <2>1, FS_EmptySet
  <2>2. CASE SlotHolders(t) # {}
    <3>1. PICK a \in SlotHolders(t) : SlotHolders(t) = {a}
      BY <1>1, <2>2
    <3>2. QED BY <3>1, FS_Singleton
  <2>3. QED BY <2>1, <2>2
<1>3. Live(t) => SlotHolders(t) # {}
  <2>1. t \in dedicatedSlots => <<"dedicated", 0>> \in SlotHolders(t)
    BY DEF SlotHolders
  <2>2. \A i \in Index : namedSlots[i] = t => <<"named", i>> \in SlotHolders(t)
    BY DEF SlotHolders
  <2>3. \A o \in Owners : oslot[o] = t => <<"owner", o>> \in SlotHolders(t)
    BY DEF SlotHolders
  <2>4. t \in todo => <<"shutdown", 0>> \in SlotHolders(t)
    BY DEF SlotHolders
  <2>5. QED BY <2>1, <2>2, <2>3, <2>4 DEF HolderInv, LiveAreHeld, HasHolder
<1>4. QED BY <1>2, <1>3

(* No std::thread of a slot is joined twice and none is dropped while it   *)
(* may still run, for any number of named and dedicated threads, owners    *)
(* that unregister names, and the shutdown.                                *)
THEOREM OneHolderHolds == Spec => []OneHolderPerThread
<1>1. Init => TypeInv /\ HolderInv
  BY InitTypes, InitHolders
<1>2. TypeInv /\ HolderInv /\ [Next]_vars => TypeInv' /\ HolderInv'
  BY TypeStep, HolderStep
<1>3. QED BY <1>1, <1>2, OneHolder, PTL DEF Spec

-----------------------------------------------------------------------------
(* The dedicated cap: DedicatedCapBoundsThreads                            *)

LEMMA InitKinds == Init => KindInv /\ CountInv
<1> SUFFICES ASSUME Init PROVE KindInv /\ CountInv
  OBVIOUS
<1>1. None \notin Tasks
  BY SchedulerAssumption
<1>2. KindInv
  BY <1>1 DEF Init, KindInv
<1>3. Charged = {}
  BY DEF Init, Charged
<1>4. CountInv
  BY <1>3, FS_EmptySet DEF Init, BaseInit, CountInv
<1>5. QED BY <1>2, <1>4

LEMMA KindStep == TypeInv /\ HolderInv /\ KindInv /\ [Next]_vars => KindInv'
<1> SUFFICES ASSUME TypeInv, HolderInv, KindInv, [Next]_vars PROVE KindInv'
  OBVIOUS
<1>0. None \notin Tasks
  BY SchedulerAssumption
<1> USE <1>0 DEF TypeInv, TypeOK
<1>1. ASSUME NEW t \in Tasks, NEW k \in AllAffinities, NEW id, Submit(t, k, id) PROVE KindInv'
  <2>1. /\ kind' = [kind EXCEPT ![t] = k] /\ pc[t] = "idle"
        /\ pc' = [pc EXCEPT ![t] = k] \/ pc' = [pc EXCEPT ![t] = "refused"]
        /\ UNCHANGED <<namedSlots, oslot, todo, spc>>
    BY <1>1 DEF Submit, slotVars, ownerVars, closeVars
  <2>2. ~HasHolder(t)
    BY <2>1 DEF HolderInv, NotStarted
  <2>3. \A u \in Tasks \ {t} : kind'[u] = kind[u] /\ pc'[u] = pc[u]
    BY <2>1
  <2>4. kind'[t] = k /\ pc'[t] \in {k, "refused"}
    BY <2>1
  <2>5. k \in {"pool", "main", "post", "dedicated", "named", "invalid"}
    BY DEF AllAffinities
  <2>6. QED BY <2>1, <2>2, <2>3, <2>4, <2>5 DEF KindInv, HasHolder
<1>2. ASSUME NEW t \in Tasks, CallStep(t) PROVE KindInv'
  <2>1. UNCHANGED <<kind, oslot, spc, todo>> /\ \A u \in Tasks \ {t} : pc'[u] = pc[u]
    BY <1>2 DEF CallStep, PushPool, PushMain, ReserveDedicated, RegisterDedicated, ResolveNamed,
                FindNamedSlot, PushSlot, Enqueue, Refuse, ownerVars, closeVars
  <2>2. \/ pc'[t] \in {"accepted", "refused", "lost"}
        \/ pc[t] = "dedicated" /\ pc'[t] = "register"
        \/ pc[t] = "register" /\ pc'[t] = "push"
        \/ pc[t] = "named" /\ pc'[t] = "slot"
        \/ pc[t] = "slot" /\ pc'[t] = "push"
    BY <1>2 DEF CallStep, PushPool, PushMain, ReserveDedicated, RegisterDedicated, ResolveNamed,
                FindNamedSlot, PushSlot, Enqueue, Refuse
  <2>3. \A i \in Index : namedSlots'[i] = namedSlots[i] \/ (namedSlots'[i] = t /\ pc[t] = "slot")
    BY <1>2 DEF CallStep, PushPool, PushMain, ReserveDedicated, RegisterDedicated, ResolveNamed,
                FindNamedSlot, PushSlot, slotVars
  <2>4. \A i \in Index : namedSlots'[i] \in Tasks => kind[namedSlots'[i]] = "named"
    BY ONLY KindInv, <2>3, t \in Tasks DEF KindInv
  <2>5. \A u \in Tasks :
            /\ pc'[u] = "pool" => kind[u] = "pool"
            /\ pc'[u] = "main" => kind[u] = "main"
            /\ pc'[u] = "post" => kind[u] = "post"
            /\ pc'[u] \in {"dedicated", "register"} => kind[u] = "dedicated"
            /\ pc'[u] \in {"named", "slot"} => kind[u] = "named"
            /\ pc'[u] = "push" => kind[u] \in {"dedicated", "named"}
    BY ONLY KindInv, <2>1, <2>2, t \in Tasks DEF KindInv
  <2>6. QED BY ONLY KindInv, <2>1, <2>4, <2>5 DEF KindInv
<1>3. ASSUME NEW o \in Owners, OwnerStep(o) PROVE KindInv'
  <2>1. UNCHANGED <<kind, pc, spc, todo>>
    BY <1>3 DEF OwnerStep, Register, ReleaseOwned, TakeSlot, StopOwned, JoinOwned, callVars, closeVars
  <2>2. CASE TakeSlot(o)
    <3>1. oid[o].index \in Index
      BY <2>2 DEF TakeSlot, StageInv, BaseTypeOK, NamedId
    <3>2. \A i \in Index : namedSlots'[i] = None \/ namedSlots'[i] = namedSlots[i]
      BY <2>2 DEF TakeSlot
    <3>3. \A p \in Owners : oslot'[p] = oslot[p] \/ oslot'[p] = namedSlots[oid[o].index]
      BY <2>2 DEF TakeSlot
    <3>4. \A i \in Index : namedSlots'[i] \in Tasks => kind[namedSlots'[i]] = "named"
      BY ONLY KindInv, None \notin Tasks, <3>2 DEF KindInv
    <3>5. \A p \in Owners : oslot'[p] \in Tasks => kind[oslot'[p]] = "named"
      BY ONLY KindInv, <3>1, <3>3 DEF KindInv
    <3>6. QED BY ONLY KindInv, <2>1, <3>4, <3>5 DEF KindInv
  <2>3. CASE JoinOwned(o)
    <3>1. \A p \in Owners : oslot'[p] = None \/ oslot'[p] = oslot[p]
      BY <2>3 DEF JoinOwned
    <3>2. UNCHANGED namedSlots
      BY <2>3 DEF JoinOwned, slotVars
    <3>3. \A p \in Owners : oslot'[p] \in Tasks => kind[oslot'[p]] = "named"
      BY ONLY KindInv, None \notin Tasks, <3>1 DEF KindInv
    <3>4. QED BY ONLY KindInv, <2>1, <3>2, <3>3 DEF KindInv
  <2>4. CASE Register(o) \/ ReleaseOwned(o) \/ StopOwned(o)
    BY <2>1, <2>4 DEF Register, ReleaseOwned, StopOwned, slotVars, KindInv
  <2>5. QED BY <1>3, <2>2, <2>3, <2>4 DEF OwnerStep
<1>4. CASE CloseStep
  <2>1. UNCHANGED <<kind, pc, oslot>>
    BY <1>4 DEF CloseStep, Mark, StopPool, JoinPool, TakeDedicated, StopSlot, JoinSlot, TakeNamed,
                DrainMain, callVars, ownerVars
  <2>2. CASE TakeNamed
    <3>1. /\ \A i \in Index : namedSlots'[i] = None
          /\ \A t \in todo' : t # None /\ \E i \in Index : t = namedSlots[i]
      BY <2>2 DEF TakeNamed, Range
    <3>2. QED BY <2>1, <3>1 DEF KindInv
  <2>3. ASSUME NEW q \in Tasks, JoinSlot(q) PROVE KindInv'
    BY <2>1, <2>3 DEF JoinSlot, Close, slotVars, KindInv
  <2>4. CASE TakeDedicated
    BY <2>1, <2>4 DEF TakeDedicated, Close, KindInv
  <2>5. CASE Mark \/ StopPool \/ JoinPool \/ DrainMain \/ \E q \in Tasks : StopSlot(q)
    <3>1. UNCHANGED <<namedSlots, todo>>
      BY <2>5 DEF Mark, StopPool, JoinPool, DrainMain, StopSlot, slotVars
    <3>2. spc' \in {"stopNamed", "joinNamed", "done"} => spc \in {"stopNamed", "joinNamed", "done"}
      BY <2>5 DEF Mark, StopPool, JoinPool, DrainMain, StopSlot, Close
    <3>3. QED BY <2>1, <3>1, <3>2 DEF KindInv
  <2>6. QED BY <1>4, <2>2, <2>3, <2>4, <2>5 DEF CloseStep
<1>5. CASE \/ \E t \in Tasks : Cancel(t)
           \/ \E w \in Workers : WorkerStep(w)
           \/ SwapMain
           \/ \E o \in Owners : CheckRegister(o) \/ \E id \in issued : ResolveOwned(o, id)
           \/ BeginShutdown
           \/ UNCHANGED vars
  <2>1. UNCHANGED <<kind, pc, namedSlots, oslot, todo>>
    BY <1>5 DEF Cancel, WorkerStep, Pop, Exit, Begin, Finish, SwapMain, CheckRegister,
                ResolveOwned, BeginShutdown, vars, callVars, slotVars, ownerVars, closeVars
  <2>2. spc' = spc \/ spc' = "mark"
    BY <1>5 DEF Cancel, WorkerStep, Pop, Exit, Begin, Finish, SwapMain, CheckRegister,
                ResolveOwned, BeginShutdown, Close, vars, closeVars
  <2>3. QED BY <2>1, <2>2 DEF KindInv
<1>6. "named" \in AllAffinities /\ Affinities \subseteq AllAffinities
  BY SchedulerAssumption DEF AllAffinities
<1>7. QED
  BY <1>1, <1>2, <1>3, <1>4, <1>5, <1>6 DEF Next

-----------------------------------------------------------------------------
(* The counter follows the set it counts, one element at a time.           *)
LEMMA ChargedStep ==
    ASSUME TypeInv, HolderInv, NEW t \in Tasks
    PROVE  /\ IsFiniteSet(Charged) /\ Cardinality(Charged) \in Nat
           /\ t \notin Charged => Cardinality(Charged \cup {t}) = Cardinality(Charged) + 1
           /\ t \in Charged => /\ Cardinality(Charged \ {t}) = Cardinality(Charged) - 1
                               /\ Cardinality(Charged) > 0
<1>1. Charged \subseteq Tasks
  BY DEF Charged, TypeInv, TypeOK
<1>2. IsFiniteSet(Charged)
  BY <1>1, FS_Subset, SchedulerAssumption
<1>3. Cardinality(Charged) \in Nat
  BY <1>2, FS_CardinalityType
<1>4. t \notin Charged => Cardinality(Charged \cup {t}) = Cardinality(Charged) + 1
  BY <1>2, FS_AddElement
<1>5. t \in Charged => Cardinality(Charged \ {t}) = Cardinality(Charged) - 1
  BY <1>2, FS_RemoveElement
<1>6. t \in Charged => Cardinality(Charged) > 0
  BY <1>2, <1>3, FS_EmptySet
<1>7. QED BY <1>2, <1>3, <1>4, <1>5, <1>6

LEMMA CountStep == TypeInv /\ HolderInv /\ CountInv /\ [Next]_vars => CountInv'
<1> SUFFICES ASSUME TypeInv, HolderInv, CountInv, [Next]_vars PROVE CountInv'
  OBVIOUS
<1> USE DEF TypeInv, TypeOK
<1>1. ASSUME Charged' = Charged, dedicatedCount' = dedicatedCount PROVE CountInv'
  BY <1>1 DEF CountInv
<1>2. ASSUME NEW t \in Tasks, ReserveDedicated(t) PROVE CountInv'
  <2>1. CASE AcquireDedicatedSlot /\ pc' = [pc EXCEPT ![t] = "register"]
    <3>1. pc[t] = "dedicated" /\ UNCHANGED <<dedicatedSlots, spc, todo>>
      BY <1>2 DEF ReserveDedicated, slotVars, closeVars
    <3>2. {u \in Tasks : pc'[u] = "register"} = {u \in Tasks : pc[u] = "register"} \cup {t}
      BY <2>1
    <3>3. Charged' = Charged \cup {t}
      BY <3>1, <3>2 DEF Charged
    <3>4. t \notin Charged
      BY <3>1 DEF Charged, HolderInv, NotStarted, HasHolder
    <3>5. dedicatedCount' = dedicatedCount + 1
      BY <2>1 DEF AcquireDedicatedSlot
    <3>6. QED BY <3>3, <3>4, <3>5, ChargedStep DEF CountInv
  <2>2. CASE Refuse(t, "refused") /\ UNCHANGED baseVars
    <3>1. pc[t] = "dedicated" /\ pc' = [pc EXCEPT ![t] = "refused"]
          /\ UNCHANGED <<dedicatedSlots, spc, todo, dedicatedCount>>
      BY <1>2, <2>2 DEF ReserveDedicated, Refuse, slotVars, closeVars, baseVars
    <3>2. Charged' = Charged
      BY <3>1 DEF Charged
    <3>3. QED BY <1>1, <3>1, <3>2
  <2>3. QED BY <1>2, <2>1, <2>2 DEF ReserveDedicated
<1>3. ASSUME NEW t \in Tasks, CallStep(t), ~ReserveDedicated(t) PROVE CountInv'
  <2>1. UNCHANGED <<spc, todo, dedicatedCount>> /\ \A u \in Tasks \ {t} : pc'[u] = pc[u]
    BY <1>3 DEF CallStep, PushPool, PushMain, RegisterDedicated, ResolveNamed, FindNamedSlot,
                PushSlot, Enqueue, Refuse, closeVars, baseVars
  <2>2. \/ pc[t] # "register" /\ pc'[t] # "register" /\ UNCHANGED dedicatedSlots
        \/ pc[t] = "register" /\ pc'[t] = "push" /\ dedicatedSlots' = dedicatedSlots \cup {t}
    BY <1>3 DEF CallStep, PushPool, PushMain, RegisterDedicated, ResolveNamed, FindNamedSlot,
                PushSlot, Enqueue, Refuse, slotVars
  <2>3. Charged' = Charged
    BY <2>1, <2>2 DEF Charged
  <2>4. QED BY <1>1, <2>1, <2>3
<1>4. ASSUME NEW q \in Tasks, JoinSlot(q) PROVE CountInv'
  <2>1. /\ q \in todo /\ todo' = todo \ {q} /\ UNCHANGED <<pc, dedicatedSlots>>
        /\ q \notin dedicatedSlots
    BY <1>4 DEF JoinSlot, callVars, slotVars, HolderInv, HoldersApart
  <2>2. pc[q] # "register"
    BY <2>1 DEF HolderInv, NotStarted, HasHolder
  <2>3. CASE Close("joinDedicated", "stopDedicated") /\ ReleaseDedicatedSlot
    <3>1. Charged' = Charged \ {q} /\ q \in Charged
      BY <2>1, <2>2, <2>3 DEF Charged, Close
    <3>2. dedicatedCount' = IF dedicatedCount > 0 THEN dedicatedCount - 1 ELSE 0
      BY <2>3 DEF ReleaseDedicatedSlot
    <3>3. QED BY <3>1, <3>2, ChargedStep DEF CountInv
  <2>4. CASE Close("joinNamed", "stopNamed") /\ UNCHANGED baseVars
    BY <1>1, <2>1, <2>4 DEF Charged, Close, baseVars
  <2>5. QED BY <1>4, <2>3, <2>4 DEF JoinSlot
<1>5. CASE CloseStep /\ ~\E q \in Tasks : JoinSlot(q)
  <2>1. UNCHANGED <<pc, dedicatedCount>>
    BY <1>5 DEF CloseStep, Mark, StopPool, JoinPool, TakeDedicated, StopSlot, TakeNamed,
                DrainMain, MarkShutDown, callVars, baseVars
  <2>2. CASE TakeDedicated
    BY <1>1, <2>1, <2>2 DEF TakeDedicated, Close, Charged
  <2>3. CASE TakeNamed
    BY <1>1, <2>1, <2>3 DEF TakeNamed, Close, Charged
  <2>4. CASE Mark \/ StopPool \/ JoinPool \/ DrainMain \/ \E q \in Tasks : StopSlot(q)
    <3>1. UNCHANGED <<dedicatedSlots, todo>>
      BY <2>4 DEF Mark, StopPool, JoinPool, DrainMain, StopSlot, slotVars
    <3>2. spc \in {"stopDedicated", "joinDedicated"} <=> spc' \in {"stopDedicated", "joinDedicated"}
      BY <2>4 DEF Mark, StopPool, JoinPool, DrainMain, StopSlot, Close
    <3>3. Charged' = Charged
      BY <2>1, <3>1, <3>2 DEF Charged
    <3>4. QED BY <1>1, <2>1, <3>3
  <2>5. QED BY <1>5, <2>2, <2>3, <2>4 DEF CloseStep
<1>6. ASSUME NEW t \in Tasks, NEW k \in AllAffinities, NEW id, Submit(t, k, id) PROVE CountInv'
  <2>1. /\ pc[t] = "idle" /\ pc'[t] \in {k, "refused"} /\ \A u \in Tasks \ {t} : pc'[u] = pc[u]
        /\ UNCHANGED <<dedicatedSlots, spc, todo, dedicatedCount>>
    BY <1>6 DEF Submit, slotVars, closeVars, baseVars
  <2>2. k # "register"
    BY DEF AllAffinities
  <2>3. Charged' = Charged
    BY <2>1, <2>2 DEF Charged
  <2>4. QED BY <1>1, <2>1, <2>3
<1>7. CASE \/ \E t \in Tasks : Cancel(t)
           \/ \E w \in Workers : WorkerStep(w)
           \/ \E o \in Owners : OwnerStep(o) \/ CheckRegister(o) \/ \E id \in issued : ResolveOwned(o, id)
           \/ SwapMain
           \/ BeginShutdown
           \/ UNCHANGED vars
  <2>1. UNCHANGED <<pc, dedicatedSlots, todo, dedicatedCount>>
    BY <1>7 DEF Cancel, WorkerStep, Pop, Exit, Begin, Finish, OwnerStep, Register, ReleaseOwned,
                TakeSlot, StopOwned, JoinOwned, RegisterNamedThread, ReleaseNamedThread, SwapMain,
                CheckRegister, ResolveOwned, BeginShutdown, vars, callVars, slotVars, closeVars,
                baseVars
  <2>2. spc' = spc \/ (spc = "open" /\ spc' = "mark")
    BY <1>7 DEF Cancel, WorkerStep, Pop, Exit, Begin, Finish, OwnerStep, Register, ReleaseOwned,
                TakeSlot, StopOwned, JoinOwned, SwapMain, CheckRegister, ResolveOwned,
                BeginShutdown, Close, vars, closeVars
  <2>3. Charged' = Charged
    BY <2>1, <2>2 DEF Charged
  <2>4. QED BY <1>1, <2>1, <2>3
<1>8. "named" \in AllAffinities /\ Affinities \subseteq AllAffinities
  BY SchedulerAssumption DEF AllAffinities
<1>9. QED
  BY <1>2, <1>3, <1>4, <1>5, <1>6, <1>7, <1>8 DEF Next

LEMMA CapBounds == TypeInv /\ HolderInv /\ KindInv /\ CountInv => DedicatedCapBoundsThreads
<1> SUFFICES ASSUME TypeInv, HolderInv, KindInv, CountInv PROVE DedicatedCapBoundsThreads
  OBVIOUS
<1>1. LiveThreads("dedicated") \subseteq Charged
  <2> SUFFICES ASSUME NEW t \in LiveThreads("dedicated") PROVE t \in Charged
    OBVIOUS
  <2>1. t \in Tasks /\ kind[t] = "dedicated" /\ Live(t)
    BY DEF LiveThreads, Live, TypeInv, TypeOK, Workers
  <2>2. HasHolder(t)
    BY <2>1 DEF HolderInv, LiveAreHeld
  <2>3. t \in dedicatedSlots \/ t \in todo
    BY <2>1, <2>2 DEF HasHolder, KindInv
  <2>4. t \in todo => spc \in {"stopDedicated", "joinDedicated"}
    BY <2>1 DEF KindInv, HolderInv, HoldersBusy, TypeInv, TypeOK
  <2>5. QED BY <2>3, <2>4 DEF Charged
<1>2. IsFiniteSet(Charged)
  BY FS_Subset, SchedulerAssumption DEF Charged, TypeInv, TypeOK
<1>3. QED BY <1>1, <1>2, FS_Subset DEF DedicatedCapBoundsThreads, CountInv

(* The cap on dedicated threads bounds the threads that exist, however     *)
(* many callers race for a slot and whatever the shutdown has joined.      *)
THEOREM DedicatedCapHolds == Spec => []DedicatedCapBoundsThreads
<1>1. Init => TypeInv /\ HolderInv /\ KindInv /\ CountInv
  BY InitTypes, InitHolders, InitKinds
<1>2. TypeInv /\ HolderInv /\ KindInv /\ CountInv /\ [Next]_vars
        => TypeInv' /\ HolderInv' /\ KindInv' /\ CountInv'
  BY TypeStep, HolderStep, KindStep, CountStep
<1>3. QED BY <1>1, <1>2, CapBounds, PTL DEF Spec

-----------------------------------------------------------------------------
(* The pool and its shutdown: ShutdownSettlesPool                          *)

InPool(t)    == \E i \in 1 .. Len(items[Pool]) : items[Pool][i] = t
PoolHolds(t) == \E w \in PoolWorkers : Busy(w) /\ job[w] = t
PoolClosed ==
    /\ spc \notin {"open", "mark", "stopPool"} => Pool \in stopped
    /\ spc \notin {"open", "mark", "stopPool", "joinPool"} =>
          items[Pool] = <<>> /\ \A w \in PoolWorkers : worker[w] = "exited"
PoolServes ==
    \A t \in Tasks : pc[t] = "accepted" /\ kind[t] = "pool" /\ handle[t] = "pending" =>
        InPool(t) \/ PoolHolds(t)

LEMMA PoolNames ==
    /\ Pool \in Queues /\ Pool \notin Tasks /\ Pool # Main /\ Pool # Batch
    /\ PoolWorkers \subseteq Workers /\ Tasks \subseteq Workers /\ None \notin Tasks
    /\ \A w \in Workers : QueueOf(w) \in Queues /\ (QueueOf(w) = Pool <=> w \in PoolWorkers)
BY SchedulerAssumption DEF Queues, Workers, QueueOf, Pool, Main, Batch, Pump, None

LEMMA InitPool == Init => PoolClosed /\ PoolServes
BY DEF Init, PoolClosed, PoolServes

(* Steps that take nothing from the pool.                                  *)
LEMMA SamePool ==
    ASSUME PoolClosed, PoolServes, UNCHANGED kind,
           \A t \in Tasks : pc'[t] = "accepted" /\ kind[t] = "pool" /\ handle'[t] = "pending" =>
                pc[t] = "accepted" /\ handle[t] = "pending",
           UNCHANGED items[Pool], stopped \subseteq stopped',
           \A w \in PoolWorkers : worker'[w] = worker[w] /\ job'[w] = job[w],
           spc' = spc \/ (spc \notin {"stopPool", "joinPool"} /\ spc' \notin {"takeDedicated", "joinPool"}
                          /\ (spc \in {"open", "mark"} => spc' \in {"open", "mark", "stopPool"}))
    PROVE  PoolClosed' /\ PoolServes'
<1>1. \A t \in Tasks : InPool(t)' = InPool(t) /\ PoolHolds(t)' = PoolHolds(t)
  BY DEF InPool, PoolHolds, Busy
<1>2. PoolServes'
  BY <1>1 DEF PoolServes
<1>3. PoolClosed'
  BY DEF PoolClosed
<1>4. QED BY <1>2, <1>3

LEMMA CallPool ==
    ASSUME TypeInv, KindInv, PoolClosed, PoolServes, NEW t \in Tasks, CallStep(t)
    PROVE  PoolClosed' /\ PoolServes'
<1> USE PoolNames DEF TypeInv, TypeOK
<1>0. UNCHANGED <<kind, stopped, job, spc>> /\ \A u \in Tasks \ {t} : pc'[u] = pc[u] /\ handle'[u] = handle[u]
  <2>1. UNCHANGED <<kind, stopped, job, spc>> /\ \A u \in Tasks \ {t} : pc'[u] = pc[u]
    BY DEF CallStep, PushPool, PushMain, ReserveDedicated, RegisterDedicated, ResolveNamed,
           FindNamedSlot, PushSlot, Enqueue, Refuse, closeVars, queueVars, workerVars
  <2>2. \A u \in Tasks \ {t} : handle'[u] = handle[u]
    BY DEF CallStep, PushPool, PushMain, ReserveDedicated, RegisterDedicated, ResolveNamed,
           FindNamedSlot, PushSlot, Enqueue, Refuse, taskVars, Settled
  <2>3. QED BY <2>1, <2>2
<1>1. CASE PushPool(t) /\ Pool \notin stopped
  <2>1. /\ items' = [items EXCEPT ![Pool] = Append(items[Pool], t)] /\ UNCHANGED <<handle, worker>>
        /\ pc' = [pc EXCEPT ![t] = "accepted"]
    BY <1>1 DEF PushPool, Enqueue, taskVars, workerVars
  <2>2. items[Pool] \in Seq(Tasks) /\ items'[Pool] = Append(items[Pool], t)
    BY <2>1
  <2>3. InPool(t)' /\ \A u \in Tasks : InPool(u) => InPool(u)'
    <3>1. /\ Len(items'[Pool]) = Len(items[Pool]) + 1 /\ Len(items[Pool]) \in Nat
          /\ items'[Pool][Len(items[Pool]) + 1] = t
          /\ \A i \in 1 .. Len(items[Pool]) :
                i \in 1 .. Len(items'[Pool]) /\ items'[Pool][i] = items[Pool][i]
      BY <2>2
    <3>2. InPool(t)'
      BY <3>1 DEF InPool
    <3>3. \A u \in Tasks : InPool(u) => InPool(u)'
      BY <3>1 DEF InPool
    <3>4. QED BY <3>2, <3>3
  <2>4. \A u \in Tasks : PoolHolds(u)' = PoolHolds(u)
    BY <1>0, <2>1 DEF PoolHolds, Busy
  <2>5. PoolServes'
    BY <1>0, <2>1, <2>3, <2>4 DEF PoolServes
  <2>6. PoolClosed'
    BY <1>0, <1>1, <2>1 DEF PoolClosed
  <2>7. QED BY <2>5, <2>6
<1>2. CASE ~(PushPool(t) /\ Pool \notin stopped)
  <2>1. UNCHANGED items[Pool]
    <3>1. CASE PushSlot(t)
      <4>1. target[t] \in Tasks
        BY <3>1 DEF PushSlot, StageInv
      <4>2. items' = items \/ items' = [items EXCEPT ![target[t]] = Append(@, t)]
        BY <3>1 DEF PushSlot, Enqueue, Refuse, queueVars
      <4>3. QED BY <4>1, <4>2
    <3>2. CASE PushMain(t)
      BY <3>2 DEF PushMain, Enqueue
    <3>3. CASE ~PushSlot(t) /\ ~PushMain(t)
      BY <1>2, <3>3 DEF CallStep, PushPool, ReserveDedicated, RegisterDedicated, ResolveNamed,
                FindNamedSlot, Refuse, queueVars
    <3>4. QED BY <3>1, <3>2, <3>3
  <2>2. kind[t] = "pool" => pc'[t] # "accepted"
    BY <1>2 DEF CallStep, PushPool, PushMain, ReserveDedicated, RegisterDedicated, ResolveNamed,
                FindNamedSlot, PushSlot, Enqueue, Refuse, KindInv
  <2>3. \A w \in PoolWorkers : worker'[w] = worker[w]
    <3>1. UNCHANGED worker \/ worker' = [worker EXCEPT ![t] = "waiting"]
      BY DEF CallStep, PushPool, PushMain, ReserveDedicated, RegisterDedicated, ResolveNamed,
             FindNamedSlot, PushSlot, Enqueue, Refuse, workerVars
    <3>2. t \notin PoolWorkers
      BY SchedulerAssumption
    <3>3. QED BY <3>1, <3>2
  <2>4. QED BY <1>0, <2>1, <2>2, <2>3, SamePool
<1>3. QED BY <1>1, <1>2

LEMMA WorkerPool ==
    ASSUME TypeInv, PoolClosed, PoolServes, NEW w \in Workers, WorkerStep(w)
    PROVE  PoolClosed' /\ PoolServes'
<1> USE PoolNames DEF TypeInv, TypeOK
<1>0. /\ UNCHANGED <<kind, pc, stopped, spc>>
      /\ worker[w] # "exited"
      /\ \A v \in Workers \ {w} : worker'[v] = worker[v] /\ job'[v] = job[v]
  BY DEF WorkerStep, Pop, Exit, Begin, Finish, callVars, queueVars, closeVars
<1>1. CASE w \notin PoolWorkers
  <2>1. UNCHANGED items[Pool]
    BY <1>1 DEF WorkerStep, Pop, Exit, Begin, Finish, queueVars
  <2>2. \A t \in Tasks : handle'[t] = "pending" => handle[t] = "pending"
    BY DEF WorkerStep, Pop, Exit, Begin, Finish, taskVars, Settled
  <2>3. QED BY <1>0, <1>1, <2>1, <2>2, SamePool
<1>2. CASE w \in PoolWorkers /\ Pop(w)
  <2> DEFINE q == items[Pool]
  <2>1. /\ q \in Seq(Tasks) /\ q # <<>> /\ items'[Pool] = Tail(q) /\ worker'[w] = "holding"
        /\ job'[w] = Head(q) /\ UNCHANGED handle /\ worker[w] = "waiting"
    BY <1>2 DEF Pop, taskVars
  <2>2. \A u \in Tasks : InPool(u) => InPool(u)' \/ u = Head(q)
    <3> SUFFICES ASSUME NEW u \in Tasks, NEW i \in 1 .. Len(q), q[i] = u, i # 1
                 PROVE  InPool(u)'
      BY <2>1 DEF InPool
    <3>1. i - 1 \in 1 .. Len(Tail(q)) /\ Tail(q)[i - 1] = u
      BY <2>1
    <3>2. QED BY <2>1, <3>1 DEF InPool
  <2>3. \A u \in Tasks : PoolHolds(u) \/ u = Head(q) => PoolHolds(u)'
    BY <1>0, <1>2, <2>1 DEF PoolHolds, Busy
  <2>4. PoolServes'
    BY <1>0, <2>1, <2>2, <2>3 DEF PoolServes
  <2>5. PoolClosed'
    BY <1>0, <1>2, <2>1 DEF PoolClosed
  <2>6. QED BY <2>4, <2>5
<1>3. CASE w \in PoolWorkers /\ ~Pop(w)
  <2>1. UNCHANGED items
    BY <1>3 DEF WorkerStep, Exit, Begin, Finish, queueVars
  <2>2. \A u \in Tasks : handle'[u] = "pending" => handle[u] = "pending"
    BY DEF WorkerStep, Pop, Exit, Begin, Finish, taskVars, Settled
  <2>3. ASSUME NEW u \in Tasks, PoolHolds(u), handle'[u] = "pending", kind[u] = "pool"
        PROVE  PoolHolds(u)'
    <3>1. PICK v \in PoolWorkers : Busy(v) /\ job[v] = u
      BY <2>3 DEF PoolHolds
    <3>2. CASE v # w
      BY <1>0, <3>1, <3>2 DEF PoolHolds, Busy
    <3>3. CASE v = w
      <4>1. CASE handle' = Settled(handle, {job[w]}, "cancelled") \/ handle' = Settled(handle, {job[w]}, "ran")
        <5>1. u \in {job[w]} /\ kind[u] # "post"
          BY <2>3, <3>1, <3>3
        <5>2. QED BY <2>3, <4>1, <5>1 DEF Settled
      <4>2. CASE job'[w] = job[w] /\ worker'[w] = "running"
        BY <1>3, <3>1, <3>3, <4>2 DEF PoolHolds, Busy
      <4>3. ~Exit(w)
        BY <3>1, <3>3 DEF Exit, Busy
      <4>4. QED BY <1>3, <4>1, <4>2, <4>3 DEF WorkerStep, Begin, Finish
    <3>4. QED BY <3>2, <3>3
  <2>4. PoolServes'
    BY <1>0, <2>1, <2>2, <2>3 DEF PoolServes, InPool
  <2>5. PoolClosed'
    BY <1>0, <1>3, <2>1 DEF PoolClosed
  <2>6. QED BY <2>4, <2>5
<1>4. QED BY <1>1, <1>2, <1>3

(* Failing the rest of a queue settles every handle of it.                 *)
LEMMA DrainPool ==
    ASSUME TypeInv, PoolServes, NEW q \in Queues, Drain(q),
           UNCHANGED <<kind, pc, worker, job>>
    PROVE  PoolServes' /\ (q # Pool => UNCHANGED items[Pool]) /\ (q = Pool => items'[Pool] = <<>>)
<1> USE PoolNames DEF TypeInv, TypeOK
<1> DEFINE S == Range(items[q])
<1>1. items' = [items EXCEPT ![q] = <<>>]
  BY DEF Drain
<1>2. \A u \in Tasks : handle'[u] = IF u \in S /\ handle[u] = "pending" /\ kind[u] # "post"
                                    THEN "closed" ELSE handle[u]
  <2>1. handle' = Settled(handle, S, "closed") /\ handle \in [Tasks -> Outcomes] /\ "closed" \in Outcomes
    BY DEF Drain, Outcomes
  <2> HIDE DEF S
  <2>2. QED BY ONLY <2>1, SettledFacts
<1>3. q = Pool => \A u \in Tasks : InPool(u) => u \in S
  BY DEF InPool, Range
<1>4. q # Pool => \A u \in Tasks : InPool(u)' = InPool(u)
  BY <1>1 DEF InPool
<1>5. \A u \in Tasks : PoolHolds(u)' = PoolHolds(u)
  BY DEF PoolHolds, Busy
<1>6. PoolServes'
  <2> HIDE DEF S
  <2>1. QED BY <1>2, <1>3, <1>4, <1>5 DEF PoolServes
<1>7. QED BY <1>1, <1>6

LEMMA TeardownPool ==
    ASSUME TypeInv, PoolClosed, PoolServes, CloseStep \/ \E o \in Owners : OwnerStep(o)
    PROVE  PoolClosed' /\ PoolServes'
<1> USE PoolNames DEF TypeInv, TypeOK, Close
<1>1. CASE JoinPool
  <2>1. Drain(Pool) /\ UNCHANGED <<kind, pc, worker, job, stopped>> /\ spc = "joinPool"
        /\ \A w \in PoolWorkers : worker[w] = "exited"
    BY <1>1 DEF JoinPool, callVars, workerVars
  <2>2. PoolServes' /\ items'[Pool] = <<>>
    BY <2>1, DrainPool
  <2>3. QED BY <2>1, <2>2 DEF PoolClosed
<1>2. CASE StopPool
  BY <1>2 DEF StopPool, callVars, taskVars, workerVars, PoolClosed, PoolServes, InPool, PoolHolds, Busy
<1>3. ASSUME NEW q \in Queues \ {Pool}, Drain(q), UNCHANGED <<kind, pc, worker, job, stopped>>,
             spc' = spc \/ spc' \in {"stopDedicated", "stopNamed", "done"},
             spc \in {"open", "mark", "stopPool", "joinPool"} => spc' = spc
      PROVE  PoolClosed' /\ PoolServes'
  <2>1. PoolServes' /\ UNCHANGED items[Pool]
    BY <1>3, DrainPool
  <2>2. QED BY <1>3, <2>1 DEF PoolClosed
<1>4. CASE (\E q \in Tasks : JoinSlot(q)) \/ DrainMain \/ \E o \in Owners : JoinOwned(o)
  <2>1. ASSUME NEW q \in Tasks, JoinSlot(q) PROVE PoolClosed' /\ PoolServes'
    BY <1>3, <2>1 DEF JoinSlot, Queues, callVars, workerVars
  <2>2. CASE DrainMain
    BY <1>3, <2>2 DEF DrainMain, Queues, callVars, workerVars
  <2>3. ASSUME NEW o \in Owners, JoinOwned(o) PROVE PoolClosed' /\ PoolServes'
    <3>1. oslot[o] \in Tasks
      BY <2>3 DEF JoinOwned, StageInv
    <3>2. QED BY <1>3, <2>3, <3>1 DEF JoinOwned, Queues, callVars, workerVars, closeVars
  <2>4. QED BY <1>4, <2>1, <2>2, <2>3
<1>5. CASE \/ Mark \/ TakeDedicated \/ TakeNamed \/ \E q \in Tasks : StopSlot(q)
           \/ \E o \in Owners : Register(o) \/ ReleaseOwned(o) \/ TakeSlot(o) \/ StopOwned(o)
  <2>1. UNCHANGED <<kind, pc, handle, worker, job, items>> /\ stopped \subseteq stopped'
    BY <1>5 DEF Mark, TakeDedicated, TakeNamed, StopSlot, Register, ReleaseOwned, TakeSlot, StopOwned,
                callVars, taskVars, queueVars, workerVars
  <2>2. \/ spc' = spc
        \/ spc = "mark" /\ spc' = "stopPool"
        \/ spc = "takeDedicated" /\ spc' = "stopDedicated"
        \/ spc = "stopDedicated" /\ spc' \in {"joinDedicated", "stopNamed"}
        \/ spc = "stopNamed" /\ spc' = "joinNamed"
    BY <1>5 DEF Mark, TakeDedicated, TakeNamed, StopSlot, Register, ReleaseOwned, TakeSlot, StopOwned,
                closeVars
  <2>3. QED BY <2>1, <2>2, SamePool
<1>6. QED BY <1>1, <1>2, <1>4, <1>5 DEF CloseStep, OwnerStep

LEMMA PoolStep ==
    TypeInv /\ KindInv /\ PoolClosed /\ PoolServes /\ [Next]_vars => PoolClosed' /\ PoolServes'
<1> SUFFICES ASSUME TypeInv, KindInv, PoolClosed, PoolServes, [Next]_vars
             PROVE  PoolClosed' /\ PoolServes'
  OBVIOUS
<1> USE PoolNames
<1>1. ASSUME NEW t \in Tasks, NEW k \in AllAffinities, NEW id, Submit(t, k, id)
      PROVE  PoolClosed' /\ PoolServes'
  <2>1. /\ UNCHANGED <<items, stopped, worker, job, spc>> /\ pc'[t] \in {k, "refused"}
        /\ \A u \in Tasks \ {t} : pc'[u] = pc[u] /\ kind'[u] = kind[u] /\ handle'[u] = handle[u]
    BY <1>1 DEF Submit, TypeInv, TypeOK, queueVars, workerVars, closeVars
  <2>2. pc'[t] # "accepted"
    BY <2>1 DEF AllAffinities
  <2>3. QED BY <2>1, <2>2 DEF PoolClosed, PoolServes, InPool, PoolHolds, Busy
<1>2. CASE \/ \E t \in Tasks : Cancel(t)
           \/ SwapMain
           \/ \E o \in Owners : CheckRegister(o) \/ \E id \in issued : ResolveOwned(o, id)
           \/ BeginShutdown
           \/ UNCHANGED vars
  <2>1. UNCHANGED <<kind, pc, handle, stopped, worker, job>> /\ UNCHANGED items[Pool]
    BY <1>2 DEF Cancel, SwapMain, CheckRegister, ResolveOwned, BeginShutdown, vars, callVars,
                taskVars, queueVars, workerVars, TypeInv, TypeOK
  <2>2. spc' = spc \/ (spc = "open" /\ spc' = "mark")
    BY <1>2 DEF Cancel, SwapMain, CheckRegister, ResolveOwned, BeginShutdown, Close, vars, closeVars
  <2>3. QED BY <2>1, <2>2, SamePool
<1>3. "named" \in AllAffinities /\ Affinities \subseteq AllAffinities
  BY SchedulerAssumption DEF AllAffinities
<1>4. QED
  BY <1>1, <1>2, <1>3, CallPool, WorkerPool, TeardownPool DEF Next

(* When shutdown() returns, every handle the pool accepted has its result  *)
(* and the pool's threads are gone, whatever raced with the shutdown.      *)
THEOREM ShutdownSettlesThePool == Spec => []ShutdownSettlesPool
<1>1. Init => TypeInv /\ HolderInv /\ KindInv /\ PoolClosed /\ PoolServes
  BY InitTypes, InitHolders, InitKinds, InitPool
<1>2. TypeInv /\ HolderInv /\ KindInv /\ PoolClosed /\ PoolServes /\ [Next]_vars
        => TypeInv' /\ HolderInv' /\ KindInv' /\ PoolClosed' /\ PoolServes'
  BY TypeStep, HolderStep, KindStep, PoolStep
<1>3. PoolClosed /\ PoolServes => ShutdownSettlesPool
  BY DEF PoolClosed, PoolServes, InPool, PoolHolds, Busy, ShutdownSettlesPool
<1>4. QED BY <1>1, <1>2, <1>3, PTL DEF Spec

-----------------------------------------------------------------------------
(* The lanes and their order: LaneIsFifo                                   *)

(* Named calls are made while every name keeps its thread: a name that is  *)
(* unregistered, or torn down, may pass its slot on with calls under way.  *)
FixedNames == "named" \in Affinities => ~MayUnregister /\ ~MayShutDown

IdleHandsEmpty == \A w \in Workers : ~Busy(w) => job[w] = None

(* The queue of each lane.                                                 *)
InLane ==
    \A q \in Queues : \A i \in 1 .. Len(items[q]) :
        LET t == items[q][i] IN
        /\ kind[t] = "pool" => q = Pool
        /\ kind[t] \in {"main", "post"} => q \in {Main, Batch}
        /\ kind[t] = "named" => q = target[t]
OneSlotPerName ==
    \A t \in Tasks : kind[t] = "named" /\ pc[t] \in {"push", "accepted"} =>
        named[t].index \in Index /\ target[t] = namedSlots[named[t].index] /\ target[t] \in Tasks

Before(q, i, r, j) == (q = r /\ i < j) \/ (q = Batch /\ r = Main)
SameLane ==
    \A t \in Tasks : \A u \in ahead[t] : Lane(u) = Lane(t) /\ pc[u] = "accepted" /\ pc[t] # "idle"
InOrder ==
    \A t \in Tasks : \A u \in ahead[t] : kind[t] # "dedicated" =>
        \A q, r \in Queues : \A i \in 1 .. Len(items[q]), j \in 1 .. Len(items[r]) :
            items[q][i] = u /\ items[r][j] = t => Before(q, i, r, j)
Served(t) == runs[t] > 0 \/ \E w \in Workers : Busy(w) /\ job[w] = t
ServedLast ==
    \A t \in Tasks : \A u \in ahead[t] : kind[t] # "dedicated" /\ Served(t) => ~Queued(u)
NamesStay == "named" \in Affinities => spc = "open" /\ (\A o \in Owners : opc[o] \in {"idle", "registering"})
KindsAsked == \A t \in Tasks : kind[t] \in Affinities \cup {None}
NamesInv == OneSlotPerName /\ NamesStay /\ KindsAsked
LaneInv  == InLane /\ SameLane /\ InOrder /\ ServedLast

-----------------------------------------------------------------------------
(* What a step does to the queues: each entry that is in one was in one    *)
(* before, or was just appended.                                           *)
LEMMA EnqueueItems ==
    ASSUME TypeInv, NEW t \in Tasks, NEW q \in Queues, Enqueue(t, q)
    PROVE  \A p \in Queues : \A i \in 1 .. Len(items'[p]) :
             \/ i \in 1 .. Len(items[p]) /\ items'[p][i] = items[p][i]
             \/ p = q /\ i = Len(items[q]) + 1 /\ items'[p][i] = t
<1> USE DEF TypeInv, TypeOK
<1> SUFFICES ASSUME NEW p \in Queues, NEW i \in 1 .. Len(items'[p])
             PROVE  \/ i \in 1 .. Len(items[p]) /\ items'[p][i] = items[p][i]
                    \/ p = q /\ i = Len(items[q]) + 1 /\ items'[p][i] = t
  OBVIOUS
<1>1. items' = [items EXCEPT ![q] = Append(items[q], t)]
  BY DEF Enqueue
<1>2. CASE p # q
  BY <1>1, <1>2
<1>3. CASE p = q
  <2>1. items[q] \in Seq(Tasks) /\ items'[p] = Append(items[q], t)
    BY <1>1, <1>3
  <2>2. QED BY <1>3, <2>1
<1>4. QED BY <1>2, <1>3

MovedBy(F, K) ==
    \A p \in Queues : \A i \in 1 .. Len(items'[p]) :
        /\ i + K[p] \in 1 .. Len(items[F[p]])
        /\ items'[p][i] = items[F[p]][i + K[p]]
Stay     == [p \in Queues |-> p]
MainOver == [p \in Queues |-> IF p = Batch THEN Main ELSE p]
NoShift  == [p \in Queues |-> 0]
Shift(q) == [p \in Queues |-> IF p = q THEN 1 ELSE 0]

LEMMA DrainItems ==
    ASSUME TypeInv, NEW q \in Queues, Drain(q) PROVE MovedBy(Stay, NoShift)
<1>1. items \in [Queues -> Seq(Tasks)] /\ items' = [items EXCEPT ![q] = <<>>]
  BY DEF Drain, TypeInv, TypeOK
<1> SUFFICES ASSUME NEW p \in Queues, NEW i \in 1 .. Len(items'[p])
             PROVE  i + 0 \in 1 .. Len(items[p]) /\ items'[p][i] = items[p][i + 0]
  BY DEF MovedBy, Stay, NoShift
<1>2. p # q
  <2>1. ASSUME p = q PROVE FALSE
    <3>1. items'[p] = <<>>
      BY <1>1, <2>1
    <3>2. Len(items'[p]) = 0
      BY <3>1
    <3>3. QED BY <3>2
  <2>2. QED BY <2>1
<1>3. QED BY <1>1, <1>2

LEMMA PopItems ==
    ASSUME TypeInv, NEW w \in Workers, Pop(w)
    PROVE  /\ MovedBy(Stay, Shift(QueueOf(w)))
           /\ QueueOf(w) \in Queues /\ 1 \in 1 .. Len(items[QueueOf(w)])
           /\ job'[w] = items[QueueOf(w)][1] /\ job'[w] \in Tasks
<1> DEFINE q == QueueOf(w)
<1>1. q \in Queues
  BY PoolNames
<1>2. items \in [Queues -> Seq(Tasks)] /\ job \in [Workers -> Tasks \cup {None}]
  BY DEF TypeInv, TypeOK
<1>3. /\ items[q] # <<>> /\ items' = [items EXCEPT ![q] = Tail(items[q])]
      /\ job' = [job EXCEPT ![w] = Head(items[q])]
  BY DEF Pop
<1> HIDE DEF q
<1>4. items[q] \in Seq(Tasks)
  BY <1>1, <1>2
<1>5. /\ 1 \in 1 .. Len(items[q]) /\ Head(items[q]) = items[q][1] /\ items[q][1] \in Tasks
      /\ \A i \in 1 .. Len(Tail(items[q])) :
            i + 1 \in 1 .. Len(items[q]) /\ Tail(items[q])[i] = items[q][i + 1]
  BY <1>3, <1>4
<1>6. ASSUME NEW p \in Queues, NEW i \in 1 .. Len(items'[p])
      PROVE  /\ i + Shift(q)[p] \in 1 .. Len(items[p])
             /\ items'[p][i] = items[p][i + Shift(q)[p]]
  <2>1. CASE p = q
    BY <1>1, <1>2, <1>3, <1>5, <2>1 DEF Shift
  <2>2. CASE p # q
    <3>1. Shift(q)[p] = 0 /\ items'[p] = items[p]
      BY <1>1, <1>2, <1>3, <2>2 DEF Shift
    <3>2. QED BY <3>1
  <2>3. QED BY <2>1, <2>2
<1>7. MovedBy(Stay, Shift(q))
  BY <1>6 DEF MovedBy, Stay
<1>8. job'[w] = Head(items[q])
  BY <1>2, <1>3
<1>9. QED BY <1>1, <1>5, <1>7, <1>8 DEF q

LEMMA SwapMainItems ==
    ASSUME TypeInv, SwapMain PROVE MovedBy(MainOver, NoShift) /\ Len(items'[Main]) = 0
<1>1. /\ items \in [Queues -> Seq(Tasks)] /\ Main \in Queues /\ Batch \in Queues /\ Main # Batch
      /\ items' = [items EXCEPT ![Batch] = items[Main], ![Main] = <<>>]
  BY DEF SwapMain, TypeInv, TypeOK, Queues, Main, Batch
<1>2. Len(items'[Main]) = 0
  <2>1. items'[Main] = <<>>
    BY <1>1
  <2>2. QED BY <2>1
<1>3. ASSUME NEW p \in Queues, NEW i \in 1 .. Len(items'[p])
      PROVE  i + 0 \in 1 .. Len(items[MainOver[p]]) /\ items'[p][i] = items[MainOver[p]][i + 0]
  <2>1. p # Main
    BY <1>2, <1>3
  <2>2. items'[p] = items[MainOver[p]] /\ MainOver[p] \in Queues
    BY <1>1, <2>1 DEF MainOver
  <2>3. QED BY <1>1, <2>2
<1>4. QED BY <1>2, <1>3 DEF MovedBy, NoShift

LEMMA RangeOfQueues ==
    ASSUME NEW f \in [Queues -> Seq(Tasks)], NEW t
    PROVE  (\E q \in Queues : t \in Range(f[q]))
             <=> (\E q \in Queues : \E i \in 1 .. Len(f[q]) : f[q][i] = t)
<1>1. ASSUME NEW q \in Queues
      PROVE  t \in Range(f[q]) <=> \E i \in 1 .. Len(f[q]) : f[q][i] = t
  <2>1. f[q] \in Seq(Tasks)
    OBVIOUS
  <2>2. DOMAIN f[q] = 1 .. Len(f[q])
    BY <2>1
  <2>3. QED BY <2>2 DEF Range
<1>2. QED BY <1>1

LEMMA QueuedAt ==
    ASSUME TypeInv
    PROVE  \A t : Queued(t) <=> \E q \in Queues : \E i \in 1 .. Len(items[q]) : items[q][i] = t
BY RangeOfQueues DEF Queued, TypeInv, TypeOK

LEMMA QueuedAtNext ==
    ASSUME TypeInv'
    PROVE  \A t : Queued(t)' <=> \E q \in Queues : \E i \in 1 .. Len(items'[q]) : items'[q][i] = t
BY RangeOfQueues DEF Queued, TypeInv, TypeOK

(* Entries that move together keep their lane and their order.             *)
LEMMA MovedLanes ==
    ASSUME TypeInv, TypeInv', InLane, InOrder, UNCHANGED <<kind, ahead>>,
           \A p \in Queues : \A i \in 1 .. Len(items[p]) :
               target'[items[p][i]] = target[items[p][i]],
           NEW F, NEW K \in [Queues -> Nat], MovedBy(F, K),
           F = Stay \/ (F = MainOver /\ Len(items'[Main]) = 0)
    PROVE  InLane' /\ InOrder' /\ \A t \in Tasks : Queued(t)' => Queued(t)
<1>0. Main \in Queues /\ Batch \in Queues /\ Main # Batch /\ Pool # Batch /\ Main \notin Tasks
  BY SchedulerAssumption DEF Queues, Main, Batch, Pool
<1>1. \A p \in Queues : F[p] \in Queues
  BY <1>0 DEF Stay, MainOver
<1>2. \A p \in Queues : \A i \in 1 .. Len(items'[p]) :
         /\ i \in Nat /\ i + K[p] \in 1 .. Len(items[F[p]])
         /\ items'[p][i] = items[F[p]][i + K[p]]
  BY DEF MovedBy
<1>3. \A p \in Queues : F[p] = p \/ (p = Batch /\ F[p] = Main /\ Len(items'[Main]) = 0)
  BY DEF Stay, MainOver
<1>4. InLane'
  <2> SUFFICES ASSUME NEW p \in Queues, NEW i \in 1 .. Len(items'[p])
               PROVE  /\ kind[items'[p][i]] = "pool" => p = Pool
                      /\ kind[items'[p][i]] \in {"main", "post"} => p \in {Main, Batch}
                      /\ kind[items'[p][i]] = "named" => p = target'[items'[p][i]]
    BY DEF InLane
  <2> DEFINE t == items[F[p]][i + K[p]]
  <2>1. /\ kind[t] = "pool" => F[p] = Pool
        /\ kind[t] \in {"main", "post"} => F[p] \in {Main, Batch}
        /\ kind[t] = "named" => F[p] = target[t]
    BY <1>1, <1>2 DEF InLane
  <2>2. t \in Tasks /\ items'[p][i] = t /\ target'[t] = target[t]
    <3>1. items[F[p]] \in Seq(Tasks) /\ i + K[p] \in 1 .. Len(items[F[p]])
      BY <1>1, <1>2 DEF TypeInv, TypeOK
    <3>2. items'[p][i] = t
      BY <1>2
    <3>3. target'[t] = target[t]
      BY <1>1, <3>1
    <3>4. QED BY <3>1, <3>2, <3>3
  <2> HIDE DEF t
  <2>3. target[t] # Main
    <3>1. target[t] \in Tasks \cup {None}
      BY <2>2 DEF TypeInv, TypeOK
    <3>2. QED BY <1>0, <3>1 DEF Main, None
  <2>4. QED BY <1>0, <1>3, <2>1, <2>2, <2>3 DEF Pool, Main, Batch
<1>5. InOrder'
  <2> SUFFICES ASSUME NEW t \in Tasks, NEW u \in ahead[t], kind[t] # "dedicated",
                      NEW q \in Queues, NEW r \in Queues,
                      NEW i \in 1 .. Len(items'[q]), NEW j \in 1 .. Len(items'[r]),
                      items'[q][i] = u, items'[r][j] = t
               PROVE  Before(q, i, r, j)
    BY DEF InOrder, Before
  <2>1. Before(F[q], i + K[q], F[r], j + K[r])
    BY <1>1, <1>2 DEF InOrder
  <2>2. K[q] \in Nat /\ i \in Nat /\ j \in Nat /\ K[r] \in Nat
    OBVIOUS
  <2>3. r # Main \/ F = Stay
    BY <1>2
  <2>4. QED BY <1>0, <1>3, <2>1, <2>2, <2>3 DEF Before, Stay, MainOver
<1>6. ASSUME NEW t \in Tasks, Queued(t)' PROVE Queued(t)
  <2>1. PICK p \in Queues : \E i \in 1 .. Len(items'[p]) : items'[p][i] = t
    BY <1>6, QueuedAtNext
  <2>2. PICK i \in 1 .. Len(items'[p]) : items'[p][i] = t
    BY <2>1
  <2>3. F[p] \in Queues /\ i + K[p] \in 1 .. Len(items[F[p]]) /\ items[F[p]][i + K[p]] = t
    BY <1>1, <1>2, <2>2
  <2>4. QED BY <2>3, QueuedAt
<1>7. QED BY <1>4, <1>5, <1>6

-----------------------------------------------------------------------------
LEMMA InitLanes == Init => IdleHandsEmpty /\ NamesInv /\ LaneInv
<1> SUFFICES ASSUME Init PROVE IdleHandsEmpty /\ NamesInv /\ LaneInv
  OBVIOUS
<1>1. IdleHandsEmpty
  BY DEF Init, IdleHandsEmpty
<1>2. NamesInv
  BY DEF Init, NamesInv, OneSlotPerName, NamesStay, KindsAsked, None
<1>3. LaneInv
  BY DEF Init, LaneInv, InLane, SameLane, InOrder, ServedLast
<1>4. QED BY <1>1, <1>2, <1>3

LEMMA IdleHandsStep == TypeInv /\ HolderInv /\ IdleHandsEmpty /\ [Next]_vars => IdleHandsEmpty'
<1> SUFFICES ASSUME TypeInv, HolderInv, IdleHandsEmpty, [Next]_vars PROVE IdleHandsEmpty'
  OBVIOUS
<1> USE DEF TypeInv, TypeOK
<1>1. ASSUME NEW w \in Workers, WorkerStep(w) PROVE IdleHandsEmpty'
  BY <1>1 DEF WorkerStep, Pop, Exit, Begin, Finish, IdleHandsEmpty, Busy
<1>2. ASSUME NEW t \in Tasks, CallStep(t) PROVE IdleHandsEmpty'
  <2>1. UNCHANGED job
    BY <1>2 DEF CallStep, PushPool, PushMain, ReserveDedicated, RegisterDedicated, ResolveNamed,
                FindNamedSlot, PushSlot, Enqueue, Refuse, workerVars
  <2>2. worker' = worker \/ (pc[t] \in {"register", "slot"} /\ worker' = [worker EXCEPT ![t] = "waiting"])
    BY <1>2 DEF CallStep, PushPool, PushMain, ReserveDedicated, RegisterDedicated, ResolveNamed,
                FindNamedSlot, PushSlot, Enqueue, Refuse, workerVars
  <2>3. pc[t] \in {"register", "slot"} => worker[t] = "none"
    BY DEF HolderInv, NotStarted
  <2>4. QED BY <2>1, <2>2, <2>3 DEF IdleHandsEmpty, Busy
<1>3. CASE UNCHANGED workerVars
  BY <1>3 DEF workerVars, IdleHandsEmpty, Busy
<1>4. QED
  BY <1>1, <1>2, <1>3
     DEF Next, Submit, Cancel, SwapMain, CheckRegister, ResolveOwned, BeginShutdown, OwnerStep,
         Register, ReleaseOwned, TakeSlot, StopOwned, JoinOwned, CloseStep, Mark, StopPool,
         JoinPool, TakeDedicated, StopSlot, JoinSlot, TakeNamed, DrainMain, vars

(* While names last, a name keeps the slot that its first call created.    *)
LEMMA NamesStep ==
    ASSUME FixedNames, TypeInv, HolderInv, KindInv, NamesInv, [Next]_vars
    PROVE  NamesInv'
<1>0. None \notin Tasks /\ None \notin AllAffinities /\ Affinities \subseteq AllAffinities
  BY SchedulerAssumption DEF None, AllAffinities
<1> USE <1>0 DEF TypeInv, TypeOK
<1>1. KindsAsked'
  <2>1. ASSUME NEW t \in Tasks, NEW k \in Affinities, NEW id, Submit(t, k, id) PROVE KindsAsked'
    BY <2>1 DEF Submit, KindsAsked, NamesInv
  <2>2. CASE UNCHANGED kind
    BY <2>2 DEF KindsAsked, NamesInv
  <2>3. QED
    BY <2>1, <2>2
       DEF Next, CallStep, PushPool, PushMain, ReserveDedicated, RegisterDedicated, ResolveNamed,
           FindNamedSlot, PushSlot, Cancel, WorkerStep, Pop, Exit, Begin, Finish, SwapMain,
           CheckRegister, ResolveOwned, OwnerStep, Register, ReleaseOwned, TakeSlot, StopOwned,
           JoinOwned, BeginShutdown, CloseStep, Mark, StopPool, JoinPool, TakeDedicated, StopSlot,
           JoinSlot, TakeNamed, DrainMain, callVars, vars
<1>2. CASE "named" \notin Affinities
  BY <1>1, <1>2 DEF NamesInv, NamesStay, OneSlotPerName, KindsAsked, None
<1>3. CASE "named" \in Affinities
  <2>1. /\ spc = "open" /\ ~MayShutDown /\ ~MayUnregister
        /\ \A o \in Owners : opc[o] \in {"idle", "registering"}
    BY <1>3 DEF NamesInv, NamesStay, FixedNames
  <2>2. ~CloseStep /\ ~BeginShutdown
    BY <2>1 DEF CloseStep, Mark, StopPool, JoinPool, TakeDedicated, StopSlot, JoinSlot, TakeNamed,
                DrainMain, BeginShutdown, Close
  <2>3. \A o \in Owners : /\ ~ReleaseOwned(o) /\ ~TakeSlot(o) /\ ~StopOwned(o) /\ ~JoinOwned(o)
                          /\ \A id \in issued : ~ResolveOwned(o, id)
    BY <2>1 DEF ReleaseOwned, TakeSlot, StopOwned, JoinOwned, ResolveOwned
  <2>4. NamesStay'
    <3>1. UNCHANGED spc
      BY <2>2, <2>3
         DEF Next, Submit, CallStep, PushPool, PushMain, ReserveDedicated, RegisterDedicated,
             ResolveNamed, FindNamedSlot, PushSlot, Cancel, WorkerStep, Pop, Exit, Begin, Finish,
             SwapMain, CheckRegister, OwnerStep, Register, closeVars, vars
    <3>2. ASSUME NEW o \in Owners PROVE opc'[o] \in {"idle", "registering"}
      BY <2>1, <2>2, <2>3
         DEF Next, Submit, CallStep, PushPool, PushMain, ReserveDedicated, RegisterDedicated,
             ResolveNamed, FindNamedSlot, PushSlot, Cancel, WorkerStep, Pop, Exit, Begin, Finish,
             SwapMain, CheckRegister, OwnerStep, Register, ownerVars, vars
    <3>3. QED BY <2>1, <3>1, <3>2 DEF NamesStay
  <2>5. OneSlotPerName'
    <3>1. ASSUME UNCHANGED <<kind, named, target, namedSlots>>,
                 \A u \in Tasks : pc'[u] \in {"push", "accepted"} /\ kind[u] = "named" =>
                     pc[u] \in {"push", "accepted"}
          PROVE  OneSlotPerName'
      BY <3>1 DEF NamesInv, OneSlotPerName
    <3>2. ASSUME NEW t \in Tasks, NEW k \in AllAffinities, NEW id, Submit(t, k, id)
          PROVE  OneSlotPerName'
      <4>1. /\ pc'[t] \in {k, "refused"} /\ k \notin {"push", "accepted"}
            /\ \A u \in Tasks \ {t} : pc'[u] = pc[u] /\ kind'[u] = kind[u] /\ named'[u] = named[u]
            /\ UNCHANGED <<target, namedSlots>>
        BY <3>2 DEF Submit, slotVars, AllAffinities
      <4>2. QED BY <4>1 DEF NamesInv, OneSlotPerName
    <3>3. ASSUME NEW t \in Tasks, FindNamedSlot(t) PROVE OneSlotPerName'
      <4>1. pc[t] = "slot" /\ named[t].index \in Index
        BY <3>3 DEF FindNamedSlot, StageInv, BaseTypeOK, NamedId
      <4>2. /\ UNCHANGED <<kind, named>> /\ target'[t] = namedSlots'[named[t].index]
            /\ target'[t] \in Tasks
            /\ \A i \in Index : namedSlots[i] \in Tasks => namedSlots'[i] = namedSlots[i]
            /\ \A u \in Tasks \ {t} : pc'[u] = pc[u] /\ target'[u] = target[u]
        BY <3>3, <4>1 DEF FindNamedSlot
      <4>3. QED BY <4>1, <4>2 DEF NamesInv, OneSlotPerName
    <3>4. ASSUME NEW t \in Tasks, RegisterDedicated(t) PROVE OneSlotPerName'
      <4>1. /\ kind[t] = "dedicated" /\ UNCHANGED <<kind, named, namedSlots>>
            /\ \A u \in Tasks \ {t} : pc'[u] = pc[u] /\ target'[u] = target[u]
        BY <3>4 DEF RegisterDedicated, KindInv
      <4>2. QED BY <4>1 DEF NamesInv, OneSlotPerName
    <3>5. ASSUME NEW t \in Tasks, CallStep(t), ~FindNamedSlot(t), ~RegisterDedicated(t)
          PROVE  OneSlotPerName'
      <4>1. /\ UNCHANGED <<kind, named, target, namedSlots>>
            /\ \A u \in Tasks \ {t} : pc'[u] = pc[u]
            /\ pc'[t] \in {"push", "accepted"} /\ kind[t] = "named" => pc[t] \in {"push", "accepted"}
        BY <3>5 DEF CallStep, PushPool, PushMain, ReserveDedicated, ResolveNamed, PushSlot, Enqueue,
                    Refuse, slotVars, KindInv
      <4>2. QED BY <3>1, <4>1
    <3>6. CASE UNCHANGED <<callVars, namedSlots>>
      BY <3>1, <3>6 DEF callVars
    <3>7. "named" \in AllAffinities
      BY DEF AllAffinities
    <3>8. QED
      BY <2>2, <2>3, <3>2, <3>3, <3>4, <3>5, <3>6, <3>7
         DEF Next, Cancel, WorkerStep, Pop, Exit, Begin, Finish, SwapMain, CheckRegister, OwnerStep,
             Register, slotVars, vars
  <2>6. QED BY <1>1, <2>4, <2>5 DEF NamesInv
<1>4. QED BY <1>2, <1>3

LEMMA MovedKeepLanes ==
    ASSUME TypeInv, TypeInv', LaneInv, UNCHANGED <<kind, named, ahead>>,
           \A p \in Queues : \A i \in 1 .. Len(items[p]) :
               target'[items[p][i]] = target[items[p][i]],
           \A t \in Tasks : /\ pc[t] = "accepted" => pc'[t] = "accepted"
                            /\ pc'[t] = "idle" => pc[t] = "idle",
           NEW F, NEW K \in [Queues -> Nat], MovedBy(F, K),
           F = Stay \/ (F = MainOver /\ Len(items'[Main]) = 0),
           \A t \in Tasks : kind[t] # "dedicated" /\ Served(t)' /\ ~Served(t) =>
               \A u \in ahead[t] : ~Queued(u)'
    PROVE  LaneInv'
<1>1. InLane' /\ InOrder' /\ \A t \in Tasks : Queued(t)' => Queued(t)
  BY MovedLanes DEF LaneInv
<1>2. \A t \in Tasks : ahead[t] \subseteq Tasks
  BY DEF TypeInv, TypeOK
<1>3. SameLane'
  BY <1>2 DEF LaneInv, SameLane, Lane
<1>4. ServedLast'
  BY <1>1, <1>2 DEF LaneInv, ServedLast
<1>5. QED BY <1>1, <1>3, <1>4 DEF LaneInv

LEMMA EnqueueLanes ==
    ASSUME TypeInv, TypeInv', PlaceInv, LaneInv, NEW t \in Tasks, NEW q \in Queues, Enqueue(t, q),
           pc[t] \notin {"idle", "accepted"}, UNCHANGED <<kind, named, ahead, target>>,
           kind[t] \notin {"invalid", None}, kind[t] = "pool" => q = Pool,
           kind[t] \in {"main", "post"} => q = Main,
           kind[t] = "named" => q = target[t],
           \A u \in Tasks : kind[u] = "named" /\ Lane(u) = Lane(t) /\ pc[u] = "accepted" =>
               target[u] = target[t]
    PROVE  LaneInv'
<1>1. /\ pc' = [pc EXCEPT ![t] = "accepted"] /\ UNCHANGED <<runs, worker, job>>
      /\ pc \in [Tasks -> {"idle", "pool", "main", "post", "dedicated", "named",
                        "register", "slot", "push", "accepted", "refused", "lost"}]
  BY DEF Enqueue, taskVars, workerVars, TypeInv, TypeOK
<1>2. \A p \in Queues : \A i \in 1 .. Len(items'[p]) :
        \/ i \in 1 .. Len(items[p]) /\ items'[p][i] = items[p][i] /\ items'[p][i] \in Tasks \ {t}
        \/ p = q /\ i = Len(items[q]) + 1 /\ items'[p][i] = t
  <2>1. ASSUME NEW p \in Queues, NEW i \in 1 .. Len(items[p])
        PROVE  items[p][i] \in Tasks /\ items[p][i] # t
    <3>1. items[p] \in Seq(Tasks)
      BY DEF TypeInv, TypeOK
    <3>2. pc[items[p][i]] = "accepted"
      BY DEF PlaceInv, QueuedFresh
    <3>3. QED BY <3>1, <3>2
  <2>2. QED BY <2>1, EnqueueItems
<1>3. \A x \in Tasks : \A u \in ahead[x] : u \in Tasks /\ u # t
  BY DEF LaneInv, SameLane, TypeInv, TypeOK
<1>4. InLane'
  BY <1>2 DEF LaneInv, InLane
<1>5. SameLane'
  BY <1>1, <1>3 DEF LaneInv, SameLane, Lane
<1>6. InOrder'
  <2> SUFFICES ASSUME NEW x \in Tasks, NEW u \in ahead[x], kind[x] # "dedicated",
                      NEW p \in Queues, NEW r \in Queues,
                      NEW i \in 1 .. Len(items'[p]), NEW j \in 1 .. Len(items'[r]),
                      items'[p][i] = u, items'[r][j] = x
               PROVE  Before(p, i, r, j)
    BY DEF InOrder, Before
  <2>1. i \in 1 .. Len(items[p]) /\ items[p][i] = u
    BY <1>2, <1>3
  <2>2. CASE j \in 1 .. Len(items[r]) /\ items[r][j] = x
    BY <2>1, <2>2 DEF LaneInv, InOrder
  <2>3. CASE r = q /\ j = Len(items[q]) + 1 /\ x = t
    <3>1. Lane(u) = Lane(t) /\ pc[u] = "accepted"
      BY <2>3 DEF LaneInv, SameLane
    <3>2. kind[u] = kind[t] /\ kind[t] \in {"pool", "main", "post", "named", "dedicated", "invalid", None}
      BY <2>3, <3>1 DEF Lane, TypeInv, TypeOK, AllAffinities
    <3>3. /\ kind[u] = "pool" => p = Pool
          /\ kind[u] \in {"main", "post"} => p \in {Main, Batch}
          /\ kind[u] = "named" => p = target[u]
      BY <2>1 DEF LaneInv, InLane
    <3>4. p = q \/ (p = Batch /\ q = Main)
      <4>1. CASE kind[t] \in {"pool", "main", "post"}
        BY <3>2, <3>3, <4>1
      <4>2. CASE kind[t] = "named"
        <5>1. u \in Tasks /\ target[u] = target[t]
          BY <1>3, <3>1, <3>2, <4>2
        <5>2. QED BY <3>2, <3>3, <4>2, <5>1
      <4>3. kind[t] # "dedicated" /\ kind[t] \notin {"invalid", None}
        BY <2>3
      <4>4. QED BY <3>2, <4>1, <4>2, <4>3
    <3>5. p = q => i < j
      BY <2>1, <2>3
    <3>6. QED BY <2>3, <3>4, <3>5 DEF Before
  <2>4. QED BY <1>2, <2>2, <2>3
<1>7. ServedLast'
  <2>1. \A x \in Tasks : Served(x)' <=> Served(x)
    BY <1>1 DEF Served, Busy
  <2>2. \A u \in Tasks \ {t} : Queued(u)' => Queued(u)
    BY <1>2, QueuedAt, QueuedAtNext
  <2>3. QED BY <1>3, <2>1, <2>2 DEF LaneInv, ServedLast
<1>8. QED BY <1>4, <1>5, <1>6, <1>7 DEF LaneInv

LEMMA StillLanes ==
    ASSUME TypeInv, TypeInv', PlaceInv, LaneInv, UNCHANGED <<kind, named, ahead, items>>,
           \A t \in Tasks : pc[t] = "accepted" => target'[t] = target[t],
           \A t \in Tasks : /\ pc[t] = "accepted" => pc'[t] = "accepted"
                            /\ pc'[t] = "idle" => pc[t] = "idle",
           \A t \in Tasks : Served(t)' => Served(t)
    PROVE  LaneInv'
<1>1. MovedBy(Stay, NoShift) /\ NoShift \in [Queues -> Nat]
  <2> SUFFICES ASSUME NEW p \in Queues, NEW i \in 1 .. Len(items[p])
               PROVE  i + 0 \in 1 .. Len(items[p]) /\ items'[p][i] = items[p][i + 0]
    BY DEF MovedBy, Stay, NoShift
  <2>1. QED OBVIOUS
<1>2. \A p \in Queues : \A i \in 1 .. Len(items[p]) : target'[items[p][i]] = target[items[p][i]]
  <2> SUFFICES ASSUME NEW p \in Queues, NEW i \in 1 .. Len(items[p])
               PROVE  target'[items[p][i]] = target[items[p][i]]
    OBVIOUS
  <2>1. items[p] \in Seq(Tasks)
    BY DEF TypeInv, TypeOK
  <2>2. items[p][i] \in Tasks /\ pc[items[p][i]] = "accepted"
    BY <2>1 DEF PlaceInv, QueuedFresh
  <2>3. QED BY <2>2
<1>3. QED BY <1>1, <1>2, MovedKeepLanes

LEMMA CallLanes ==
    ASSUME TypeInv, TypeInv', PlaceInv, HolderInv, KindInv, NamesInv, LaneInv,
           NEW t \in Tasks, CallStep(t)
    PROVE  LaneInv'
<1>0. UNCHANGED <<kind, named, ahead>>
  BY DEF CallStep, PushPool, PushMain, ReserveDedicated, RegisterDedicated, ResolveNamed,
         FindNamedSlot, PushSlot
<1>1. ASSUME NEW q \in Queues, Enqueue(t, q), pc[t] \in {"pool", "main", "post", "push"},
             UNCHANGED target,
             pc[t] = "pool" => q = Pool, pc[t] \in {"main", "post"} => q = Main,
             pc[t] = "push" => q = target[t]
      PROVE  LaneInv'
  <2>1. /\ pc[t] \notin {"idle", "accepted"} /\ kind[t] \notin {"invalid", None}
        /\ kind[t] = "pool" => q = Pool
        /\ kind[t] \in {"main", "post"} => q = Main
        /\ kind[t] = "named" => q = target[t] /\ pc[t] = "push"
    BY <1>1 DEF KindInv, None
  <2>2. \A u \in Tasks : kind[u] = "named" /\ Lane(u) = Lane(t) /\ pc[u] = "accepted" =>
            target[u] = target[t]
    BY <2>1 DEF NamesInv, OneSlotPerName, Lane
  <2>3. QED BY <1>0, <1>1, <2>1, <2>2, EnqueueLanes
<1>2. CASE UNCHANGED items
  <2>1. pc[t] # "accepted" /\ pc'[t] # "idle"
        /\ \A u \in Tasks \ {t} : pc'[u] = pc[u] /\ target'[u] = target[u]
    BY DEF CallStep, PushPool, PushMain, ReserveDedicated, RegisterDedicated, ResolveNamed,
           FindNamedSlot, PushSlot, Enqueue, Refuse, TypeInv, TypeOK
  <2>2. UNCHANGED <<job, runs>> /\ (worker' = worker \/ worker' = [worker EXCEPT ![t] = "waiting"])
    BY DEF CallStep, PushPool, PushMain, ReserveDedicated, RegisterDedicated, ResolveNamed,
           FindNamedSlot, PushSlot, Enqueue, Refuse, taskVars, workerVars
  <2>3. \A u \in Tasks : Served(u)' => Served(u)
    BY <2>2 DEF Served, Busy, TypeInv, TypeOK
  <2>4. QED BY <1>0, <1>2, <2>1, <2>3, StillLanes
<1>3. CASE PushPool(t)
  BY <1>1, <1>2, <1>3, PoolNames DEF PushPool, Refuse, queueVars
<1>4. CASE PushMain(t)
  BY <1>1, <1>4 DEF PushMain, Queues
<1>5. CASE PushSlot(t)
  <2>1. target[t] \in Queues
    BY <1>5 DEF PushSlot, TypeInv, StageInv, Queues
  <2>2. QED BY <1>1, <1>2, <1>5, <2>1 DEF PushSlot, Refuse, queueVars
<1>6. CASE ~PushPool(t) /\ ~PushMain(t) /\ ~PushSlot(t)
  BY <1>2, <1>6 DEF CallStep, ReserveDedicated, RegisterDedicated, ResolveNamed, FindNamedSlot,
                    Refuse, queueVars
<1>7. QED BY <1>3, <1>4, <1>5, <1>6

LEMMA SubmitLanes ==
    ASSUME TypeInv, TypeInv', PlaceInv, LaneInv, NEW t \in Tasks, NEW k \in AllAffinities, NEW id,
           Submit(t, k, id)
    PROVE  LaneInv'
<1>1. /\ pc[t] = "idle" /\ UNCHANGED <<items, target, runs, worker, job>>
      /\ ahead'[t] = {u \in Tasks : pc[u] = "accepted" /\ Lane(u) = <<k, id>>}
      /\ kind'[t] = k /\ named'[t] = id /\ pc'[t] # "idle"
      /\ \A u \in Tasks \ {t} : /\ pc'[u] = pc[u] /\ kind'[u] = kind[u] /\ named'[u] = named[u]
                                /\ ahead'[u] = ahead[u]
  BY DEF Submit, queueVars, workerVars, TypeInv, TypeOK, AllAffinities
<1>2. \A q \in Queues : \A i \in 1 .. Len(items[q]) : items[q][i] \in Tasks \ {t}
  <2> SUFFICES ASSUME NEW q \in Queues, NEW i \in 1 .. Len(items[q]) PROVE items[q][i] \in Tasks \ {t}
    OBVIOUS
  <2>1. items[q] \in Seq(Tasks)
    BY DEF TypeInv, TypeOK
  <2>2. pc[items[q][i]] = "accepted"
    BY DEF PlaceInv, QueuedFresh
  <2>3. QED BY <1>1, <2>1, <2>2
<1>3. /\ ~Served(t)' /\ \A u \in Tasks \ {t} : Served(u)' <=> Served(u)
      /\ \A u \in Tasks : Queued(u)' <=> Queued(u)
  BY <1>1 DEF Served, Busy, PlaceInv, HeldFresh, CallFresh, Queued
<1>4. \A x \in Tasks \ {t} : \A u \in ahead[x] : u \in Tasks \ {t}
  BY <1>1 DEF LaneInv, SameLane, TypeInv, TypeOK
<1>5. InLane'
  BY <1>1, <1>2 DEF LaneInv, InLane
<1>6. SameLane'
  <2>1. ASSUME NEW x \in Tasks \ {t}, NEW u \in ahead'[x]
        PROVE  Lane(u)' = Lane(x)' /\ pc'[u] = "accepted" /\ pc'[x] # "idle"
    <3>1. u \in ahead[x] /\ u \in Tasks \ {t}
      BY <1>1, <1>4
    <3>2. Lane(u) = Lane(x) /\ pc[u] = "accepted" /\ pc[x] # "idle"
      BY <3>1 DEF LaneInv, SameLane
    <3>3. QED BY <1>1, <3>1, <3>2 DEF Lane
  <2>2. ASSUME NEW u \in ahead'[t]
        PROVE  Lane(u)' = Lane(t)' /\ pc'[u] = "accepted"
    <3>1. u \in Tasks \ {t} /\ pc[u] = "accepted" /\ Lane(u) = <<k, id>>
      BY <1>1
    <3>2. QED BY <1>1, <3>1 DEF Lane
  <2>3. QED BY <1>1, <2>1, <2>2 DEF SameLane
<1>7. InOrder'
  <2> SUFFICES ASSUME NEW x \in Tasks, NEW u \in ahead'[x], kind'[x] # "dedicated",
                      NEW p \in Queues, NEW r \in Queues,
                      NEW i \in 1 .. Len(items'[p]), NEW j \in 1 .. Len(items'[r]),
                      items'[p][i] = u, items'[r][j] = x
               PROVE  Before(p, i, r, j)
    BY DEF InOrder, Before
  <2>1. x # t
    BY <1>1, <1>2
  <2>2. QED BY <1>1, <2>1 DEF LaneInv, InOrder
<1>8. ServedLast'
  BY <1>1, <1>3, <1>4 DEF LaneInv, ServedLast, TypeInv, TypeOK
<1>9. QED BY <1>5, <1>6, <1>7, <1>8 DEF LaneInv

LEMMA WorkerLanes ==
    ASSUME TypeInv, TypeInv', PlaceInv, LaneInv, NEW w \in Workers, WorkerStep(w)
    PROVE  LaneInv'
<1>0. UNCHANGED <<pc, kind, named, target, ahead>>
  BY DEF WorkerStep, Pop, Exit, Begin, Finish, callVars
<1>1. CASE Pop(w)
  <2> DEFINE q == QueueOf(w)
             t == items[q][1]
  <2>1. /\ MovedBy(Stay, Shift(q)) /\ q \in Queues /\ 1 \in 1 .. Len(items[q])
        /\ job'[w] = t /\ t \in Tasks
    BY <1>1, PopItems
  <2>2. Shift(q) \in [Queues -> Nat]
    BY DEF Shift
  <2>3. UNCHANGED runs /\ \A v \in Workers \ {w} : worker'[v] = worker[v] /\ job'[v] = job[v]
    BY <1>1 DEF Pop, taskVars
  <2>q. q # Main
    BY SchedulerAssumption DEF QueueOf, Workers, Pool, Main, Batch
  <2> HIDE DEF q
  <2>4. ASSUME NEW x \in Tasks, kind[x] # "dedicated", Served(x)', ~Served(x), NEW u \in ahead[x]
        PROVE  ~Queued(u)'
    <3>1. x = t
      BY <2>1, <2>3, <2>4 DEF Served, Busy
    <3> SUFFICES ASSUME NEW p \in Queues, NEW i \in 1 .. Len(items'[p]), items'[p][i] = u
                 PROVE  FALSE
      BY QueuedAtNext
    <3>2. i \in Nat /\ i + Shift(q)[p] \in 1 .. Len(items[p]) /\ items[p][i + Shift(q)[p]] = u
      BY <2>1 DEF MovedBy, Stay
    <3>3. Before(p, i + Shift(q)[p], q, 1)
      BY <2>1, <2>4, <3>1, <3>2 DEF LaneInv, InOrder
    <3>4. QED BY <2>q, <3>2, <3>3 DEF Before, Shift
  <2>5. QED BY <1>0, <2>1, <2>2, <2>4, MovedKeepLanes
<1>2. CASE ~Pop(w)
  <2>1. UNCHANGED items /\ \A v \in Workers \ {w} : worker'[v] = worker[v] /\ job'[v] = job[v]
    BY <1>2 DEF WorkerStep, Exit, Begin, Finish, queueVars, TypeInv, TypeOK
  <2>2. \/ Busy(w) /\ runs' = [runs EXCEPT ![job[w]] = @ + 1] /\ job'[w] = job[w]
        \/ UNCHANGED runs /\ ~Busy(w)'
    BY <1>2 DEF WorkerStep, Exit, Begin, Finish, taskVars, Busy, TypeInv, TypeOK
  <2>3. \A t \in Tasks : Served(t)' => Served(t)
    BY <2>1, <2>2 DEF Served, Busy, TypeInv, TypeOK
  <2>4. QED BY <1>0, <2>1, <2>3, StillLanes
<1>3. QED BY <1>1, <1>2

LEMMA TeardownLanes ==
    ASSUME TypeInv, TypeInv', PlaceInv, LaneInv, CloseStep \/ \E o \in Owners : OwnerStep(o)
    PROVE  LaneInv'
<1>1. UNCHANGED <<pc, kind, named, target, ahead, runs, worker, job>>
  BY DEF CloseStep, Mark, StopPool, JoinPool, TakeDedicated, TakeNamed, DrainMain, StopSlot, JoinSlot,
         OwnerStep, Register, ReleaseOwned, TakeSlot, StopOwned, JoinOwned, callVars, taskVars,
         workerVars
<1>2. \A t \in Tasks : Served(t)' <=> Served(t)
  BY <1>1 DEF Served, Busy
<1>3. CASE UNCHANGED items
  BY <1>1, <1>2, <1>3, StillLanes
<1>4. ASSUME NEW q \in Queues, Drain(q) PROVE LaneInv'
  <2>1. MovedBy(Stay, NoShift) /\ NoShift \in [Queues -> Nat]
    BY <1>4, DrainItems DEF NoShift
  <2>2. QED BY <1>1, <1>2, <2>1, MovedKeepLanes
<1>5. CASE CloseStep
  <2>1. ASSUME NEW q \in Tasks, JoinSlot(q) PROVE LaneInv'
    BY <1>4, <2>1 DEF JoinSlot, Queues
  <2>2. CASE JoinPool \/ DrainMain
    BY <1>4, <2>2 DEF JoinPool, DrainMain, Queues
  <2>3. CASE Mark \/ StopPool \/ TakeDedicated \/ TakeNamed \/ \E q \in Tasks : StopSlot(q)
    BY <1>3, <2>3 DEF Mark, StopPool, TakeDedicated, TakeNamed, StopSlot, queueVars
  <2>4. QED BY <1>5, <2>1, <2>2, <2>3 DEF CloseStep
<1>6. ASSUME NEW o \in Owners, OwnerStep(o) PROVE LaneInv'
  <2>1. CASE JoinOwned(o)
    <3>1. oslot[o] \in Queues
      BY <2>1 DEF JoinOwned, TypeInv, StageInv, Queues
    <3>2. QED BY <1>4, <2>1, <3>1 DEF JoinOwned
  <2>2. CASE Register(o) \/ ReleaseOwned(o) \/ TakeSlot(o) \/ StopOwned(o)
    BY <1>3, <2>2 DEF Register, ReleaseOwned, TakeSlot, StopOwned, queueVars
  <2>3. QED BY <1>6, <2>1, <2>2 DEF OwnerStep
<1>7. QED BY <1>5, <1>6

LEMMA LaneStep ==
    ASSUME TypeInv, TypeInv', PlaceInv, HolderInv, KindInv, NamesInv, LaneInv, [Next]_vars
    PROVE  LaneInv'
<1>1. CASE SwapMain
  <2>1. MovedBy(MainOver, NoShift) /\ NoShift \in [Queues -> Nat] /\ Len(items'[Main]) = 0
    BY <1>1, SwapMainItems DEF NoShift
  <2>2. UNCHANGED <<pc, kind, named, target, ahead>> /\ \A t \in Tasks : Served(t)' <=> Served(t)
    BY <1>1 DEF SwapMain, callVars, taskVars, workerVars, Served, Busy
  <2>3. QED BY <2>1, <2>2, MovedKeepLanes
<1>2. CASE \/ \E t \in Tasks : Cancel(t)
           \/ \E o \in Owners : CheckRegister(o) \/ \E id \in issued : ResolveOwned(o, id)
           \/ BeginShutdown
           \/ UNCHANGED vars
  <2>1. UNCHANGED <<pc, kind, named, target, ahead, items>>
    BY <1>2 DEF Cancel, CheckRegister, ResolveOwned, BeginShutdown, vars, callVars, queueVars
  <2>2. UNCHANGED <<runs, worker, job>>
    BY <1>2 DEF Cancel, CheckRegister, ResolveOwned, BeginShutdown, vars, taskVars, workerVars
  <2>3. \A t \in Tasks : Served(t)' <=> Served(t)
    BY <2>2 DEF Served, Busy
  <2>4. QED BY <2>1, <2>3, StillLanes
<1>3. "named" \in AllAffinities /\ Affinities \subseteq AllAffinities
  BY SchedulerAssumption DEF AllAffinities
<1>4. QED
  BY <1>1, <1>2, <1>3, CallLanes, SubmitLanes, WorkerLanes, TeardownLanes DEF Next

(* The lanes are first in, first out, for any number of callers, workers   *)
(* and calls per lane: the pool and the main queue through any shutdown,   *)
(* a named thread as long as names are neither unregistered nor torn down. *)
THEOREM LanesAreFifo ==
    ASSUME FixedNames PROVE Spec => []LaneIsFifo
<1> DEFINE Inv == /\ TypeInv /\ PlaceInv /\ HolderInv /\ KindInv /\ NamesInv /\ LaneInv
<1>1. Init => Inv
  BY InitTypes, InitPlace, InitHolders, InitKinds, InitLanes
<1>2. Inv /\ [Next]_vars => Inv'
  BY TypeStep, PlaceStep, HolderStep, KindStep, NamesStep, LaneStep
<1>3. Inv => LaneIsFifo
  BY DEF LaneInv, ServedLast, Served, LaneIsFifo
<1> HIDE DEF Inv
<1>4. QED BY <1>1, <1>2, <1>3, PTL DEF Spec

-----------------------------------------------------------------------------
(* The scheduler implements the life of a task: KeepsLifecycle             *)

InHand(t, s) == \E w \in Workers : worker[w] = s /\ job[w] = t

PhaseFacts ==
    \A t \in Tasks :
        /\ pc[t] = "idle" => Phase(t) = "new" /\ Result(t) = "pending"
        /\ pc[t] \notin {"idle", "accepted", "refused"} => Phase(t) = "waiting" /\ Result(t) = "pending"
        /\ Queued(t) \/ InHand(t, "holding") => Phase(t) = "waiting" /\ Result(t) = "pending"
        /\ InHand(t, "running") => Phase(t) = "running" /\ Result(t) = "pending"
        /\ pc[t] = "refused" => Phase(t) = "over"
        /\ pc[t] = "accepted" /\ ~Queued(t) /\ ~InHand(t, "holding") /\ ~InHand(t, "running") =>
              Phase(t) = "over"

LEMMA PhaseNow == TypeInv /\ PlaceInv /\ IdleHandsEmpty => PhaseFacts
<1> SUFFICES ASSUME TypeInv, PlaceInv, IdleHandsEmpty, NEW t \in Tasks
             PROVE  /\ pc[t] = "idle" => Phase(t) = "new" /\ Result(t) = "pending"
                    /\ pc[t] \notin {"idle", "accepted", "refused"} =>
                          Phase(t) = "waiting" /\ Result(t) = "pending"
                    /\ Queued(t) \/ InHand(t, "holding") => Phase(t) = "waiting" /\ Result(t) = "pending"
                    /\ InHand(t, "running") => Phase(t) = "running" /\ Result(t) = "pending"
                    /\ pc[t] = "refused" => Phase(t) = "over"
                    /\ pc[t] = "accepted" /\ ~Queued(t) /\ ~InHand(t, "holding")
                         /\ ~InHand(t, "running") => Phase(t) = "over"
  BY DEF PhaseFacts
<1>1. None \notin Tasks
  BY SchedulerAssumption
<1>2. Held(t) <=> InHand(t, "holding") \/ InHand(t, "running")
  BY <1>1 DEF Held, InHand, IdleHandsEmpty, Busy
<1>3. Queued(t) => pc[t] = "accepted" /\ handle[t] = "pending" /\ runs[t] = 0
  BY QueuedAt DEF PlaceInv, QueuedFresh
<1>4. /\ InHand(t, "holding") => pc[t] = "accepted" /\ handle[t] = "pending" /\ runs[t] = 0
      /\ InHand(t, "running") => pc[t] = "accepted" /\ handle[t] = "pending" /\ runs[t] = 1
  BY DEF InHand, PlaceInv, HeldFresh, Busy
<1>5. pc[t] # "accepted" => runs[t] = 0 /\ (pc[t] # "refused" => handle[t] = "pending")
  BY DEF PlaceInv, CallFresh
<1>6. runs[t] \in Nat
  BY DEF TypeInv, TypeOK
<1>7. CASE pc[t] # "accepted"
  BY <1>2, <1>3, <1>4, <1>5, <1>7 DEF Phase, Dropped, Result
<1>8. CASE pc[t] = "accepted"
  BY <1>2, <1>3, <1>4, <1>6, <1>8 DEF Phase, Dropped, Result
<1>9. QED BY <1>7, <1>8

LEMMA PhaseNext == (TypeInv /\ PlaceInv /\ IdleHandsEmpty)' => PhaseFacts'
BY PhaseNow, PTL

LEMMA AcceptsOne ==
    ASSUME NEW t \in Tasks, Phase(t) = "new", Phase(t)' = "waiting",
           \A u \in Tasks \ {t} : Phase(u)' = Phase(u), \A u \in Tasks : Result(u)' = Result(u)
    PROVE  Lifecycle!Accept(t)
BY DEF Lifecycle!Accept

LEMMA StartsOne ==
    ASSUME NEW t \in Tasks, Phase(t) = "waiting", Phase(t)' = "running",
           \A u \in Tasks \ {t} : Phase(u)' = Phase(u), \A u \in Tasks : Result(u)' = Result(u)
    PROVE  Lifecycle!Start(t)
BY DEF Lifecycle!Start

LEMMA CompletesOne ==
    ASSUME NEW t \in Tasks, Phase(t) = "running", Phase(t)' = "over", Result(t)' \in {"ran", Result(t)},
           \A u \in Tasks \ {t} : Phase(u)' = Phase(u) /\ Result(u)' = Result(u)
    PROVE  Lifecycle!Complete(t)
BY DEF Lifecycle!Complete

LEMMA FailsAll ==
    ASSUME NEW S \in SUBSET Tasks,
           \A t \in S : /\ Phase(t) \in {"new", "waiting"} /\ Phase(t)' = "over"
                        /\ Result(t)' \in {"failed", Result(t)},
           \A u \in Tasks \ S : Phase(u)' = Phase(u) /\ Result(u)' = Result(u)
    PROVE  Lifecycle!Fail(S)
<1> DEFINE F == {t \in S : Result(t)' = "failed"}
<1>1. [t \in Tasks |-> Phase(t)]' = [t \in Tasks |-> IF t \in S THEN "over" ELSE Phase(t)]
  OBVIOUS
<1>2. F \in SUBSET S
  OBVIOUS
<1>3. [t \in Tasks |-> Result(t)]' = [t \in Tasks |-> IF t \in F THEN "failed" ELSE Result(t)]
  OBVIOUS
<1>4. QED BY <1>1, <1>2, <1>3 DEF Lifecycle!Fail

LEMMA Stutters ==
    ASSUME \A u \in Tasks : Phase(u)' = Phase(u) /\ Result(u)' = Result(u)
    PROVE  UNCHANGED Lifecycle!lifeVars
BY DEF Lifecycle!lifeVars

-----------------------------------------------------------------------------
(* Who is queued after each step that touches a queue.                     *)
LEMMA EnqueueQueued ==
    ASSUME TypeInv, TypeInv', NEW t \in Tasks, NEW q \in Queues, Enqueue(t, q)
    PROVE  \A u \in Tasks : Queued(u)' <=> Queued(u) \/ u = t
<1>1. \A u \in Tasks : Queued(u)' => Queued(u) \/ u = t
  BY EnqueueItems, QueuedAt, QueuedAtNext
<1>2. /\ items \in [Queues -> Seq(Tasks)] /\ items' = [items EXCEPT ![q] = Append(items[q], t)]
  BY DEF Enqueue, TypeInv, TypeOK
<1>3. \A p \in Queues : \A i \in 1 .. Len(items[p]) : i \in 1 .. Len(items'[p]) /\ items'[p][i] = items[p][i]
  <2> SUFFICES ASSUME NEW p \in Queues, NEW i \in 1 .. Len(items[p])
               PROVE  i \in 1 .. Len(items'[p]) /\ items'[p][i] = items[p][i]
    OBVIOUS
  <2>1. CASE p # q
    BY <1>2, <2>1
  <2>2. CASE p = q
    <3>1. items[q] \in Seq(Tasks) /\ items'[p] = Append(items[q], t)
      BY <1>2, <2>2
    <3>2. QED BY <2>2, <3>1
  <2>3. QED BY <2>1, <2>2
<1>4. \A u \in Tasks : Queued(u) => Queued(u)'
  BY <1>3, QueuedAt, QueuedAtNext
<1>5. Queued(t)'
  <2>1. items[q] \in Seq(Tasks) /\ items'[q] = Append(items[q], t)
    BY <1>2
  <2>2. Len(items[q]) + 1 \in 1 .. Len(items'[q]) /\ items'[q][Len(items[q]) + 1] = t
    BY <2>1
  <2>3. QED BY <2>2, QueuedAtNext
<1>6. QED BY <1>1, <1>4, <1>5

LEMMA PopQueued ==
    ASSUME TypeInv, TypeInv', PlaceInv', NEW w \in Workers, Pop(w), NEW t, t = job'[w]
    PROVE  /\ t \in Tasks /\ Queued(t) /\ ~Queued(t)'
           /\ \A u \in Tasks : u # t => (Queued(u)' <=> Queued(u))
<1> DEFINE q == QueueOf(w)
<1>1. /\ MovedBy(Stay, Shift(q)) /\ q \in Queues /\ 1 \in 1 .. Len(items[q])
      /\ t = items[q][1] /\ t \in Tasks
  BY PopItems
<1>2. items \in [Queues -> Seq(Tasks)] /\ items' = [items EXCEPT ![q] = Tail(items[q])]
  BY DEF Pop, TypeInv, TypeOK
<1>3. Queued(t)
  BY <1>1, QueuedAt
<1>4. ~Queued(t)'
  <2>1. Busy(w)'
    BY DEF Pop, TypeInv, TypeOK, Busy
  <2>2. \A p \in Queues : \A i \in 1 .. Len(items'[p]) : items'[p][i] # t
    BY <2>1 DEF PlaceInv, HeldOnce
  <2>3. QED BY <2>2, QueuedAtNext
<1> HIDE DEF q
<1>5. ASSUME NEW u \in Tasks, u # t, Queued(u) PROVE Queued(u)'
  <2>1. PICK p \in Queues : \E i \in 1 .. Len(items[p]) : items[p][i] = u
    BY <1>5, QueuedAt
  <2>2. PICK i \in 1 .. Len(items[p]) : items[p][i] = u
    BY <2>1
  <2>3. CASE p # q
    BY <1>2, <2>2, <2>3, QueuedAtNext
  <2>4. CASE p = q
    <3>1. items[q] \in Seq(Tasks) /\ items'[q] = Tail(items[q]) /\ i # 1
      BY <1>1, <1>2, <1>5, <2>2, <2>4
    <3>2. i - 1 \in 1 .. Len(items'[q]) /\ items'[q][i - 1] = u
      BY <2>2, <2>4, <3>1
    <3>3. QED BY <1>1, <3>2, QueuedAtNext
  <2>5. QED BY <2>3, <2>4
<1>6. ASSUME NEW u \in Tasks, Queued(u)' PROVE Queued(u)
  <2>1. PICK p \in Queues : \E i \in 1 .. Len(items'[p]) : items'[p][i] = u
    BY <1>6, QueuedAtNext
  <2>2. PICK i \in 1 .. Len(items'[p]) : items'[p][i] = u
    BY <2>1
  <2>3. i + Shift(q)[p] \in 1 .. Len(items[p]) /\ items[p][i + Shift(q)[p]] = u
    BY <1>1, <2>2 DEF MovedBy, Stay
  <2>4. QED BY <2>3, QueuedAt
<1>7. QED BY <1>1, <1>3, <1>4, <1>5, <1>6

LEMMA SwapMainQueued ==
    ASSUME TypeInv, TypeInv', SwapMain
    PROVE  \A u \in Tasks : Queued(u)' <=> Queued(u)
<1>1. /\ items \in [Queues -> Seq(Tasks)] /\ Main \in Queues /\ Batch \in Queues /\ Main # Batch
      /\ items' = [items EXCEPT ![Batch] = items[Main], ![Main] = <<>>] /\ items[Batch] = <<>>
  BY DEF SwapMain, TypeInv, TypeOK, Queues, Main, Batch
<1>2. /\ items'[Batch] = items[Main] /\ items'[Main] = <<>>
      /\ \A p \in Queues : p # Main /\ p # Batch => items'[p] = items[p]
  BY <1>1
<1>3. \A u : u \notin Range(<<>>)
  BY DEF Range
<1>4. QED BY <1>1, <1>2, <1>3 DEF Queued

LEMMA DrainQueued ==
    ASSUME TypeInv, PlaceInv, NEW q \in Queues, Drain(q)
    PROVE  /\ Range(items[q]) \subseteq Tasks
           /\ \A u \in Range(items[q]) : Queued(u)
           /\ \A u \in Tasks : Queued(u)' <=> Queued(u) /\ u \notin Range(items[q])
           /\ \A u \in Tasks : handle'[u] = IF u \in Range(items[q]) /\ handle[u] = "pending" /\ kind[u] # "post"
                                            THEN "closed" ELSE handle[u]
<1>1. /\ items \in [Queues -> Seq(Tasks)] /\ items' = [items EXCEPT ![q] = <<>>]
      /\ handle' = Settled(handle, Range(items[q]), "closed")
  BY DEF Drain, TypeInv, TypeOK
<1>2. \A p \in Queues : Range(items[p]) = {items[p][i] : i \in 1 .. Len(items[p])}
  <2> SUFFICES ASSUME NEW p \in Queues PROVE Range(items[p]) = {items[p][i] : i \in 1 .. Len(items[p])}
    OBVIOUS
  <2>1. items[p] \in Seq(Tasks)
    BY <1>1
  <2>2. DOMAIN items[p] = 1 .. Len(items[p])
    BY <2>1
  <2>3. QED BY <2>2 DEF Range
<1>3. Range(items[q]) \subseteq Tasks
  <2>1. items[q] \in Seq(Tasks)
    BY <1>1
  <2>2. \A i \in 1 .. Len(items[q]) : items[q][i] \in Tasks
    BY <2>1
  <2>3. QED BY <1>2, <2>2
<1>4. \A p \in Queues : p # q => Range(items[p]) \cap Range(items[q]) = {}
  BY <1>2 DEF PlaceInv, QueuedOnce
<1>5. items'[q] = <<>> /\ \A p \in Queues : p # q => items'[p] = items[p]
  BY <1>1
<1>6. \A u : u \notin Range(<<>>)
  BY DEF Range
<1>7. \A u \in Tasks : Queued(u)' <=> Queued(u) /\ u \notin Range(items[q])
  BY <1>4, <1>5, <1>6 DEF Queued
<1>8. \A u \in Tasks : handle'[u] = IF u \in Range(items[q]) /\ handle[u] = "pending" /\ kind[u] # "post"
                                    THEN "closed" ELSE handle[u]
  BY <1>1 DEF Settled
<1>9. QED BY <1>3, <1>7, <1>8 DEF Queued

-----------------------------------------------------------------------------
LEMMA SameStage ==
    ASSUME TypeInv, TypeInv', PhaseFacts, PhaseFacts', NEW t \in Tasks, handle'[t] = handle[t],
           pc[t] = "idle" <=> pc'[t] = "idle",
           pc[t] = "refused" <=> pc'[t] = "refused",
           pc[t] = "accepted" <=> pc'[t] = "accepted",
           Queued(t) \/ InHand(t, "holding") <=> Queued(t)' \/ InHand(t, "holding")',
           InHand(t, "running") <=> InHand(t, "running")'
    PROVE  Phase(t)' = Phase(t) /\ Result(t)' = Result(t)
<1>1. Phase(t)' = Phase(t)
  BY DEF PhaseFacts
<1>2. Result(t)' = Result(t)
  BY DEF Result
<1>3. QED BY <1>1, <1>2

LEMMA CallLives ==
    ASSUME TypeInv, TypeInv', HolderInv, PhaseFacts, PhaseFacts', NEW t \in Tasks, CallStep(t)
    PROVE  [Lifecycle!LifeNext]_(Lifecycle!lifeVars)
<1>0. /\ \A u \in Tasks \ {t} : pc'[u] = pc[u] /\ handle'[u] = handle[u]
      /\ pc[t] \notin {"idle", "accepted", "refused"}
  BY DEF CallStep, PushPool, PushMain, ReserveDedicated, RegisterDedicated, ResolveNamed,
         FindNamedSlot, PushSlot, Enqueue, Refuse, TypeInv, TypeOK, taskVars, Settled
<1>1. \A u \in Tasks : \A s \in {"holding", "running"} : InHand(u, s)' <=> InHand(u, s)
  <2>1. UNCHANGED job
    BY DEF CallStep, PushPool, PushMain, ReserveDedicated, RegisterDedicated, ResolveNamed,
           FindNamedSlot, PushSlot, Enqueue, Refuse, workerVars
  <2>2. worker' = worker \/ (pc[t] \in {"register", "slot"} /\ worker' = [worker EXCEPT ![t] = "waiting"])
    BY DEF CallStep, PushPool, PushMain, ReserveDedicated, RegisterDedicated, ResolveNamed,
           FindNamedSlot, PushSlot, Enqueue, Refuse, workerVars
  <2>3. pc[t] \in {"register", "slot"} => worker[t] = "none"
    BY DEF HolderInv, NotStarted
  <2>4. QED BY <2>1, <2>2, <2>3 DEF InHand, TypeInv, TypeOK
<1>2. CASE \E q \in Queues : Enqueue(t, q)
  <2>0. PICK q \in Queues : Enqueue(t, q)
    BY <1>2
  <2>1. pc'[t] = "accepted" /\ Queued(t)' /\ \A u \in Tasks \ {t} : Queued(u)' <=> Queued(u)
    <3>1. pc'[t] = "accepted"
      BY <2>0 DEF Enqueue, TypeInv, TypeOK
    <3>2. \A u \in Tasks : Queued(u)' <=> Queued(u) \/ u = t
      BY <2>0, EnqueueQueued
    <3>3. QED BY <3>1, <3>2
  <2>2. Phase(t)' = Phase(t) /\ Result(t)' = Result(t)
    BY <1>0, <2>1 DEF PhaseFacts
  <2>3. \A u \in Tasks \ {t} : Phase(u)' = Phase(u) /\ Result(u)' = Result(u)
    BY <1>0, <1>1, <2>1, SameStage
  <2>4. QED BY <2>2, <2>3, Stutters
<1>3. CASE UNCHANGED items
  <2>1. \A u \in Tasks : Queued(u)' <=> Queued(u)
    BY <1>3 DEF Queued
  <2>2. \A u \in Tasks \ {t} : Phase(u)' = Phase(u) /\ Result(u)' = Result(u)
    BY <1>0, <1>1, <2>1, SameStage
  <2>3. Phase(t) = "waiting" /\ Result(t) = "pending"
    BY <1>0 DEF PhaseFacts
  <2>4. CASE pc'[t] = "refused" /\ handle'[t] \in {"pending", "refused", "closed"}
    <3>1. Phase(t)' = "over" /\ Result(t)' \in {"failed", "pending"}
      BY <2>4 DEF PhaseFacts, Result
    <3>2. Lifecycle!Fail({t})
      BY <2>2, <2>3, <3>1, FailsAll
    <3>3. QED BY <3>2 DEF Lifecycle!LifeNext
  <2>5. CASE pc'[t] \notin {"idle", "accepted", "refused"}
    <3>1. Phase(t)' = Phase(t) /\ Result(t)' = Result(t)
      BY <2>3, <2>5 DEF PhaseFacts
    <3>2. QED BY <2>2, <3>1, Stutters
  <2>6. CASE \E r \in {"refused", "closed"} : Refuse(t, r)
    <3>1. handle[t] = "pending"
      BY <2>3 DEF Result
    <3>2. QED BY <2>4, <2>6, <3>1 DEF Refuse, Settled, TypeInv, TypeOK
  <2>7. pc'[t] # "idle"
    BY DEF CallStep, PushPool, PushMain, ReserveDedicated, RegisterDedicated, ResolveNamed,
           FindNamedSlot, PushSlot, Enqueue, Refuse, TypeInv, TypeOK
  <2>8. (\E r \in {"refused", "closed"} : Refuse(t, r)) \/ pc'[t] \notin {"idle", "accepted", "refused"}
        \/ \E q \in Queues : Enqueue(t, q)
    <3>1. Pool \in Queues /\ Main \in Queues /\ (pc[t] = "push" => target[t] \in Queues)
      BY DEF Queues, TypeInv, StageInv
    <3>2. QED
      BY <3>1 DEF CallStep, PushPool, PushMain, ReserveDedicated, RegisterDedicated, ResolveNamed,
         FindNamedSlot, PushSlot, TypeInv, TypeOK
  <2>9. QED BY <1>2, <2>5, <2>6, <2>8
<1>4. QED
  <2>1. Pool \in Queues /\ Main \in Queues /\ (pc[t] = "push" => target[t] \in Queues)
    BY DEF Queues, TypeInv, StageInv
  <2>2. QED
    BY <1>2, <1>3, <2>1 DEF CallStep, PushPool, PushMain, ReserveDedicated, RegisterDedicated, ResolveNamed,
         FindNamedSlot, PushSlot, Refuse, queueVars

LEMMA SubmitLives ==
    ASSUME TypeInv, TypeInv', PhaseFacts, PhaseFacts', NEW t \in Tasks, NEW k \in AllAffinities,
           NEW id, Submit(t, k, id)
    PROVE  Lifecycle!LifeNext
<1>1. /\ pc[t] = "idle" /\ pc'[t] \in {k, "refused"} /\ handle'[t] \in {handle[t], "refused"}
      /\ k \notin {"idle", "accepted", "refused"}
      /\ pc'[t] # "refused" => handle'[t] = handle[t]
      /\ \A u \in Tasks \ {t} : pc'[u] = pc[u] /\ handle'[u] = handle[u]
  BY DEF Submit, TypeInv, TypeOK, AllAffinities
<1>2. \A u \in Tasks : /\ Queued(u)' <=> Queued(u)
                       /\ \A s \in {"holding", "running"} : InHand(u, s)' <=> InHand(u, s)
  BY DEF Submit, queueVars, workerVars, Queued, InHand
<1>3. \A u \in Tasks \ {t} : Phase(u)' = Phase(u) /\ Result(u)' = Result(u)
  BY <1>1, <1>2, SameStage
<1>4. Phase(t) = "new" /\ Result(t) = "pending"
  BY <1>1 DEF PhaseFacts
<1>5. CASE pc'[t] = "refused"
  <2>1. Phase(t)' = "over"
    BY <1>5 DEF PhaseFacts
  <2>2. Result(t)' \in {"failed", "pending"}
    BY <1>1, <1>4 DEF Result
  <2>3. Lifecycle!Fail({t})
    BY <1>3, <1>4, <2>1, <2>2, FailsAll
  <2>4. QED BY <2>3 DEF Lifecycle!LifeNext
<1>6. CASE pc'[t] = k
  <2>1. Phase(t)' = "waiting" /\ Result(t)' = "pending"
    BY <1>1, <1>6 DEF PhaseFacts
  <2>2. Lifecycle!Accept(t)
    BY <1>3, <1>4, <2>1, AcceptsOne
  <2>3. QED BY <2>2 DEF Lifecycle!LifeNext
<1>7. QED BY <1>1, <1>5, <1>6

LEMMA WorkerLives ==
    ASSUME TypeInv, TypeInv', PlaceInv, PlaceInv', IdleHandsEmpty, PhaseFacts, PhaseFacts',
           NEW w \in Workers, WorkerStep(w)
    PROVE  [Lifecycle!LifeNext]_(Lifecycle!lifeVars)
<1> USE DEF TypeInv, TypeOK
<1>0. /\ UNCHANGED pc /\ None \notin Tasks
      /\ \A v \in Workers \ {w} : worker'[v] = worker[v] /\ job'[v] = job[v]
  BY SchedulerAssumption DEF WorkerStep, Pop, Exit, Begin, Finish, callVars
<1>1. \A v \in Workers \ {w} : Busy(v) /\ Busy(w) => job[v] # job[w]
  BY DEF PlaceInv, HeldOnce
<1>2. CASE Pop(w)
  <2>1. UNCHANGED handle /\ worker[w] = "waiting" /\ worker'[w] = "holding" /\ job[w] = None
    BY <1>2 DEF Pop, taskVars, IdleHandsEmpty, Busy
  <2>0. job'[w] \in Tasks
    BY <1>2, PopItems
  <2> PICK t \in Tasks : t = job'[w]
    BY <2>0
  <2>2. /\ Queued(t)
        /\ \A u \in Tasks : u # t => (Queued(u)' <=> Queued(u))
    BY <1>2, PopQueued
  <2>3. InHand(t, "holding")'
    BY <2>1 DEF InHand
  <2>4. \A u \in Tasks : /\ u # t => (InHand(u, "holding")' <=> InHand(u, "holding"))
                         /\ InHand(u, "running")' <=> InHand(u, "running")
    BY <1>0, <2>1 DEF InHand
  <2>5. \A u \in Tasks \ {t} : Phase(u)' = Phase(u) /\ Result(u)' = Result(u)
    BY <1>0, <2>1, <2>2, <2>4, SameStage
  <2>6. Phase(t)' = Phase(t) /\ Result(t)' = Result(t)
    BY <2>2, <2>3 DEF PhaseFacts
  <2>7. QED BY <2>5, <2>6, Stutters
<1>3. CASE Exit(w)
  <2>1. UNCHANGED <<handle, items>> /\ worker[w] = "waiting" /\ worker'[w] = "exited" /\ UNCHANGED job
    BY <1>3 DEF Exit, taskVars, queueVars
  <2>2. \A u \in Tasks : /\ Queued(u)' <=> Queued(u)
                         /\ \A s \in {"holding", "running"} : InHand(u, s)' <=> InHand(u, s)
    BY <1>0, <2>1 DEF InHand, Queued
  <2>3. QED BY <1>0, <2>1, <2>2, SameStage, Stutters
<1>4. CASE Begin(w) \/ Finish(w)
  <2>0. Busy(w) /\ UNCHANGED items /\ job[w] \in Tasks
    <3>1. Busy(w) /\ UNCHANGED items
      BY <1>4 DEF Begin, Finish, queueVars, Busy
    <3>2. QED BY <3>1 DEF StageInv, Busy
  <2> PICK t \in Tasks : t = job[w]
    BY <2>0
  <2>1. UNCHANGED items /\ Busy(w) /\ t \in Tasks
    BY <2>0
  <2>2. /\ \A u \in Tasks \ {t} : handle'[u] = handle[u]
        /\ job'[w] \in {None, t}
    BY <1>4 DEF Begin, Finish, Settled
  <2>3. \A u \in Tasks : Queued(u)' <=> Queued(u)
    BY <2>1 DEF Queued
  <2>4. \A u \in Tasks \ {t} : \A s \in {"holding", "running"} : InHand(u, s)' <=> InHand(u, s)
    <3>1. \A u \in Tasks \ {t} : job[w] # u /\ job'[w] # u
      BY <1>0, <2>2
    <3>2. QED BY <1>0, <3>1 DEF InHand
  <2>5. \A u \in Tasks \ {t} : Phase(u)' = Phase(u) /\ Result(u)' = Result(u)
    BY <1>0, <2>2, <2>3, <2>4, SameStage
  <2>6. pc[t] = "accepted" /\ handle[t] = "pending" /\ ~Queued(t)
    <3>1. pc[t] = "accepted" /\ handle[t] = "pending"
      BY <2>1 DEF PlaceInv, HeldFresh
    <3>2. \A q \in Queues : \A i \in 1 .. Len(items[q]) : items[q][i] # t
      BY <2>1 DEF PlaceInv, HeldOnce
    <3>3. QED BY <3>1, <3>2, QueuedAt
  <2>7. CASE worker'[w] = "running"
    <3>1. worker[w] = "holding" /\ UNCHANGED <<handle, job>>
      BY <1>4, <2>7 DEF Begin, Finish
    <3>2. InHand(t, "holding") /\ InHand(t, "running")'
      BY <2>7, <3>1 DEF InHand
    <3>3. Phase(t) = "waiting" /\ Phase(t)' = "running" /\ Result(t) = "pending" /\ Result(t)' = "pending"
      BY <2>1, <3>2 DEF PhaseFacts
    <3>4. Lifecycle!Start(t)
      BY <2>1, <2>5, <3>3, StartsOne
    <3>5. QED BY <2>1, <3>4 DEF Lifecycle!LifeNext
  <2>8. CASE job'[w] = None
    <3>1. ~InHand(t, "holding")' /\ ~InHand(t, "running")'
      BY <1>0, <1>1, <2>1, <2>8 DEF InHand, IdleHandsEmpty
    <3>2. Phase(t)' = "over"
      BY <1>0, <2>1, <2>3, <2>6, <3>1 DEF PhaseFacts
    <3>3. CASE Begin(w)
      <4>1. InHand(t, "holding") /\ handle'[t] \in {"pending", "cancelled"}
        BY <2>1, <2>6, <3>3, <2>8 DEF Begin, InHand, Settled
      <4>2. Phase(t) = "waiting" /\ Result(t) = "pending" /\ Result(t)' \in {"pending", "failed"}
        BY <2>1, <4>1 DEF PhaseFacts, Result
      <4>3. Lifecycle!Fail({t})
        BY <2>1, <2>5, <3>2, <4>2, FailsAll
      <4>4. QED BY <2>1, <4>3 DEF Lifecycle!LifeNext
    <3>4. CASE Finish(w)
      <4>1. InHand(t, "running") /\ handle'[t] \in {"pending", "ran"}
        BY <2>1, <2>6, <3>4 DEF Finish, InHand, Settled
      <4>2. Phase(t) = "running" /\ Result(t) = "pending" /\ Result(t)' \in {"pending", "ran"}
        BY <2>1, <4>1 DEF PhaseFacts, Result
      <4>3. Lifecycle!Complete(t)
        BY <2>1, <2>5, <3>2, <4>2, CompletesOne
      <4>4. QED BY <2>1, <4>3 DEF Lifecycle!LifeNext
    <3>5. QED BY <1>4, <3>3, <3>4
  <2>9. worker'[w] = "running" \/ job'[w] = None
    BY <1>4 DEF Begin, Finish
  <2>10. QED BY <2>7, <2>8, <2>9
<1>5. QED BY <1>2, <1>3, <1>4 DEF WorkerStep

LEMMA DrainLives ==
    ASSUME TypeInv, TypeInv', PlaceInv, PhaseFacts, PhaseFacts', NEW q \in Queues, Drain(q),
           UNCHANGED <<pc, worker, job>>
    PROVE  Lifecycle!LifeNext
<1> DEFINE S == Range(items[q])
<1>1. /\ S \subseteq Tasks
      /\ \A u \in S : Queued(u)
      /\ \A u \in Tasks : Queued(u)' <=> Queued(u) /\ u \notin S
      /\ \A u \in Tasks : handle'[u] = IF u \in S /\ handle[u] = "pending" /\ kind[u] # "post"
                                       THEN "closed" ELSE handle[u]
  BY DrainQueued
<1>2. \A u \in S : pc[u] = "accepted" /\ ~InHand(u, "holding") /\ ~InHand(u, "running")
  <2> SUFFICES ASSUME NEW u \in S
               PROVE  pc[u] = "accepted" /\ ~InHand(u, "holding") /\ ~InHand(u, "running")
    OBVIOUS
  <2>1. PICK p \in Queues : \E i \in 1 .. Len(items[p]) : items[p][i] = u
    BY <1>1, QueuedAt
  <2>2. QED BY <2>1 DEF InHand, PlaceInv, QueuedFresh, HeldOnce, Busy
<1> HIDE DEF S
<1>3. \A u \in Tasks : \A s \in {"holding", "running"} : InHand(u, s)' <=> InHand(u, s)
  BY DEF InHand
<1>4. \A u \in Tasks \ S : Phase(u)' = Phase(u) /\ Result(u)' = Result(u)
  BY <1>1, <1>3, SameStage
<1>5. \A u \in S : Phase(u) = "waiting" /\ Result(u) = "pending" /\ Phase(u)' = "over"
  BY <1>1, <1>2, <1>3 DEF PhaseFacts
<1>6. \A u \in S : Result(u)' \in {"failed", Result(u)}
  BY <1>1 DEF Result
<1>7. Lifecycle!Fail(S)
  BY <1>1, <1>4, <1>5, <1>6, FailsAll
<1>8. QED BY <1>1, <1>7 DEF Lifecycle!LifeNext

LEMMA StillLives ==
    ASSUME TypeInv, TypeInv', PhaseFacts, PhaseFacts', UNCHANGED <<pc, handle, worker, job>>,
           \A u \in Tasks : Queued(u)' <=> Queued(u)
    PROVE  UNCHANGED Lifecycle!lifeVars
<1>1. \A u \in Tasks : \A s \in {"holding", "running"} : InHand(u, s)' <=> InHand(u, s)
  BY DEF InHand
<1>2. \A u \in Tasks : Phase(u)' = Phase(u) /\ Result(u)' = Result(u)
  BY <1>1, SameStage
<1>3. QED BY <1>2, Stutters

(* Every step of the scheduler is a step of the life of the tasks.         *)
LEMMA LifeStep ==
    ASSUME TypeInv, TypeInv', PlaceInv, PlaceInv', HolderInv, IdleHandsEmpty, IdleHandsEmpty', [Next]_vars
    PROVE  [Lifecycle!LifeNext]_(Lifecycle!lifeVars)
<1>0. PhaseFacts /\ PhaseFacts'
  BY PhaseNow, PhaseNext
<1>1. ASSUME NEW t \in Tasks, NEW k \in AllAffinities, NEW id, Submit(t, k, id)
      PROVE  [Lifecycle!LifeNext]_(Lifecycle!lifeVars)
  BY <1>0, <1>1, SubmitLives
<1>2. ASSUME NEW t \in Tasks, CallStep(t) PROVE [Lifecycle!LifeNext]_(Lifecycle!lifeVars)
  BY <1>0, <1>2, CallLives
<1>3. ASSUME NEW w \in Workers, WorkerStep(w) PROVE [Lifecycle!LifeNext]_(Lifecycle!lifeVars)
  BY <1>0, <1>3, WorkerLives
<1>4. CASE SwapMain
  <2>1. \A u \in Tasks : Queued(u)' <=> Queued(u)
    BY <1>4, SwapMainQueued
  <2>2. UNCHANGED <<pc, handle, worker, job>>
    BY <1>4 DEF SwapMain, callVars, taskVars, workerVars
  <2>3. QED BY <1>0, <2>1, <2>2, StillLives
<1>5. ASSUME NEW q \in Queues, Drain(q), UNCHANGED <<pc, worker, job>>
      PROVE  [Lifecycle!LifeNext]_(Lifecycle!lifeVars)
  BY <1>0, <1>5, DrainLives
<1>6. ASSUME UNCHANGED <<pc, handle, items, worker, job>>
      PROVE  [Lifecycle!LifeNext]_(Lifecycle!lifeVars)
  <2>1. \A u \in Tasks : Queued(u)' <=> Queued(u)
    BY <1>6 DEF Queued
  <2>2. QED BY <1>0, <1>6, <2>1, StillLives
<1>7. ASSUME NEW o \in Owners, OwnerStep(o) PROVE [Lifecycle!LifeNext]_(Lifecycle!lifeVars)
  <2>1. CASE JoinOwned(o)
    <3>1. oslot[o] \in Queues
      BY <2>1 DEF JoinOwned, Queues, TypeInv, StageInv
    <3>2. Drain(oslot[o]) /\ UNCHANGED <<pc, worker, job>>
      BY <2>1 DEF JoinOwned, callVars, workerVars
    <3>3. QED BY <1>5, <3>1, <3>2
  <2>2. CASE ~JoinOwned(o)
    BY <1>6, <1>7, <2>2 DEF OwnerStep, Register, ReleaseOwned, TakeSlot, StopOwned, callVars,
                           taskVars, queueVars, workerVars
  <2>3. QED BY <2>1, <2>2
<1>8. ASSUME CloseStep PROVE [Lifecycle!LifeNext]_(Lifecycle!lifeVars)
  <2>1. CASE JoinPool \/ DrainMain \/ \E q \in Tasks : JoinSlot(q)
    <3>1. \E q \in Queues : Drain(q) /\ UNCHANGED <<pc, worker, job>>
      BY <2>1 DEF JoinPool, DrainMain, JoinSlot, Queues, callVars, workerVars
    <3>2. QED BY <1>5, <3>1
  <2>2. CASE ~(JoinPool \/ DrainMain \/ \E q \in Tasks : JoinSlot(q))
    BY <1>6, <1>8, <2>2 DEF CloseStep, Mark, StopPool, TakeDedicated, StopSlot, TakeNamed, callVars,
                           taskVars, queueVars, workerVars
  <2>3. QED BY <2>1, <2>2
<1>9. Affinities \subseteq AllAffinities
  BY SchedulerAssumption
<1>10. QED
  BY <1>1, <1>2, <1>3, <1>4, <1>6, <1>7, <1>8, <1>9
     DEF Next, Cancel, CheckRegister, ResolveOwned, BeginShutdown, callVars, taskVars, queueVars,
         workerVars, vars, AllAffinities

LEMMA LifeBegins == Init => Lifecycle!LifeInit
<1> SUFFICES ASSUME Init PROVE Lifecycle!LifeInit
  OBVIOUS
<1>1. \A t \in Tasks : runs[t] = 0 /\ pc[t] = "idle" /\ handle[t] = "pending"
  BY DEF Init
<1>2. \A t \in Tasks : Phase(t) = "new" /\ Result(t) = "pending"
  BY <1>1 DEF Phase, Result, Dropped
<1>3. QED BY <1>2 DEF Lifecycle!LifeInit

(* The scheduler keeps the promise its interface makes of every runnable.  *)
THEOREM SchedulerKeepsLifecycle == Spec => KeepsLifecycle
<1>1. Init => TypeInv /\ PlaceInv /\ HolderInv /\ IdleHandsEmpty /\ Lifecycle!LifeInit
  BY InitTypes, InitPlace, InitHolders, InitLanes, LifeBegins
<1>2. TypeInv /\ PlaceInv /\ HolderInv /\ IdleHandsEmpty /\ [Next]_vars
        => (TypeInv /\ PlaceInv /\ HolderInv /\ IdleHandsEmpty)'
  BY TypeStep, PlaceStep, HolderStep, IdleHandsStep
<1>3. ASSUME TypeInv, PlaceInv, HolderInv, IdleHandsEmpty,
             TypeInv', PlaceInv', HolderInv', IdleHandsEmpty', [Next]_vars
      PROVE  [Lifecycle!LifeNext]_(Lifecycle!lifeVars)
  BY <1>3, LifeStep
<1>4. QED BY <1>1, <1>2, <1>3, PTL DEF Spec, KeepsLifecycle, Lifecycle!LifeSpec
=============================================================================
