----------------------------- MODULE SyncProofs -----------------------------
(***************************************************************************)
(* What threads wait in, for any number of threads, timers, watchers,      *)
(* runnables and services.  The barrier, the semaphore, the message        *)
(* channel, the engine and the event scheduler share nothing: each has its *)
(* own specification here, and at the end the model-checked composition is *)
(* shown to run the last two.                                              *)
(***************************************************************************)
EXTENDS MCEventScheduler, SequenceTheorems, FiniteSetTheorems, TLAPS

-----------------------------------------------------------------------------
(* The barrier.  What the steps need beyond the two properties: who has    *)
(* dropped out is outside, and no call is ahead of the generation.         *)
Left == Parties \ dropped

BarrierShape ==
    /\ at \in [Parties -> {"out", "asleep", "awake", "late"}]
    /\ mine \in [Parties -> Nat]
    /\ passes \in [Parties -> Nat]
    /\ generation \in Nat
    /\ dropped \subseteq Parties
    /\ \A p \in dropped : at[p] = "out"

BarrierInv ==
    /\ BarrierShape
    /\ PendingIsExact
    /\ PhasesStayTogether
    /\ SleepersWaitForThisPhase

(* The counters as cardinalities: what is pending is who is left and has   *)
(* not arrived.                                                            *)
LEMMA CountersAreNaturals ==
    ASSUME BarrierShape, PendingIsExact
    PROVE  /\ Arrived \subseteq Left
           /\ IsFiniteSet(Left) /\ IsFiniteSet(Arrived) /\ IsFiniteSet(Left \ Arrived)
           /\ parties = Cardinality(Left)
           /\ pending = Cardinality(Left \ Arrived)
           /\ parties \in Nat /\ pending \in Nat
<1>1. Arrived \subseteq Left
  BY DEF Arrived, Left, BarrierShape
<1>2. IsFiniteSet(Left)
  BY BarrierAssumption, FS_Subset DEF Left
<1>3. IsFiniteSet(Arrived) /\ IsFiniteSet(Left \ Arrived)
  BY <1>1, <1>2, FS_Subset
<1>4. Cardinality(Left \ Arrived) = Cardinality(Left) - Cardinality(Arrived)
  <2>1. Left \cap Arrived = Arrived
    BY <1>1
  <2>2. QED BY <1>2, <2>1, FS_Difference
<1>5. Cardinality(Left) \in Nat /\ Cardinality(Left \ Arrived) \in Nat
  BY <1>2, <1>3, FS_CardinalityType
<1>6. QED BY <1>1, <1>2, <1>3, <1>4, <1>5 DEF PendingIsExact, Left

(* When one arrival is missing, every other party that is left waits for   *)
(* this very phase.                                                        *)
LEMMA LastArrival ==
    ASSUME BarrierShape, PendingIsExact, NEW p \in Parties, Outside(p), pending = 1
    PROVE  \A q \in Left : q # p => q \in Arrived
<1>1. p \in Left \ Arrived
  BY DEF Outside, Left, Arrived
<1>2. \E x : Left \ Arrived = {x}
  BY CountersAreNaturals, FS_Singleton
<1>3. QED BY <1>1, <1>2

LEMMA BarrierStarts == BarrierInit => BarrierInv
<1> SUFFICES ASSUME BarrierInit PROVE BarrierInv
  OBVIOUS
<1> USE DEF BarrierInit
<1>1. BarrierShape
  BY DEF BarrierShape
<1>2. PendingIsExact
  <2>1. Arrived = {} /\ Parties \ dropped = Parties
    BY DEF Arrived
  <2>2. Cardinality(Parties) \in Nat /\ Cardinality({}) = 0
    BY BarrierAssumption, FS_CardinalityType, FS_EmptySet
  <2>3. QED BY <2>1, <2>2 DEF PendingIsExact
<1>3. PhasesStayTogether /\ SleepersWaitForThisPhase
  BY DEF PhasesStayTogether, SleepersWaitForThisPhase
<1>4. QED BY <1>1, <1>2, <1>3 DEF BarrierInv

(* The end of a phase.  Nobody has arrived in the next one yet, and all    *)
(* who are left have passed this one or are about to.                      *)
LEMMA PhaseEnds ==
    ASSUME BarrierInv, NEW p \in Parties, Outside(p), pending = 1,
           CompletePhase(parties'),
           \/ ArriveLast(p)
           \/ ArriveAndDrop(p)
    PROVE  BarrierInv'
<1> USE DEF BarrierInv, BarrierShape
<1>1. \A q \in Left : q # p => q \in Arrived
  BY LastArrival
<1>2. /\ parties \in Nat /\ parties = Cardinality(Left) /\ IsFiniteSet(Left)
      /\ p \in Left
  BY CountersAreNaturals DEF Outside, Left
<1>3. /\ at' = AllAwake /\ generation' = generation + 1 /\ pending' = parties'
      /\ mine' = mine
      /\ \/ /\ dropped' = dropped /\ parties' = parties
            /\ passes' = [passes EXCEPT ![p] = @ + 1]
         \/ /\ dropped' = dropped \cup {p} /\ parties' = parties - 1
            /\ passes' = passes
  BY DEF CompletePhase, ArriveLast, ArriveAndDrop
<1>4. BarrierShape'
  <2>1. at' \in [Parties -> {"out", "asleep", "awake", "late"}]
    BY <1>3 DEF AllAwake
  <2>2. \A q \in dropped' : at'[q] = "out"
    BY <1>3 DEF AllAwake, Outside
  <2>3. QED BY <1>3, <2>1, <2>2
<1>5. \A q \in Parties : at'[q] # "out" => q \in Arrived
  BY <1>1, <1>3 DEF AllAwake, Left, Outside
<1>6. PendingIsExact'
  <2>1. Arrived' = {}
    BY <1>3, <1>5 DEF Arrived
  <2>2. Cardinality(Arrived') = 0
    BY <2>1, FS_EmptySet
  <2>3. parties' = Cardinality(Parties \ dropped')
    <3>1. CASE dropped' = dropped /\ parties' = parties
      BY <1>2, <3>1 DEF Left
    <3>2. CASE dropped' = dropped \cup {p} /\ parties' = parties - 1
      <4>1. Parties \ dropped' = Left \ {p}
        BY <3>2 DEF Left
      <4>2. QED BY <1>2, <3>2, <4>1, FS_RemoveElement
    <3>3. QED BY <1>3, <3>1, <3>2
  <2>4. parties' \in Nat
    BY <2>3, <1>4, BarrierAssumption, FS_Subset, FS_CardinalityType
  <2>5. QED BY <1>3, <2>2, <2>3, <2>4 DEF PendingIsExact
<1>7. PhasesStayTogether'
  <2>1. SUFFICES ASSUME NEW q \in Parties \ dropped'
                 PROVE  passes'[q] + (IF at'[q] # "out" /\ mine'[q] # generation' THEN 1 ELSE 0)
                           = generation'
    BY DEF PhasesStayTogether
  <2>2. CASE q = p
    BY <1>3, <2>2 DEF AllAwake, Outside, PhasesStayTogether, Left
  <2>3. CASE q # p
    <3>1. q \in Left /\ q \in Arrived
      BY <1>1, <1>3, <2>3 DEF Left
    <3>2. passes[q] + 0 = generation
      BY <3>1 DEF PhasesStayTogether, Arrived, Left
    <3>3. at'[q] # "out" /\ mine'[q] # generation' /\ passes'[q] = passes[q]
      BY <1>3, <2>3, <3>1 DEF AllAwake, Arrived
    <3>4. QED BY <1>3, <3>2, <3>3
  <2>4. QED BY <2>2, <2>3
<1>8. SleepersWaitForThisPhase'
  BY <1>3 DEF SleepersWaitForThisPhase, AllAwake
<1>9. QED BY <1>4, <1>6, <1>7, <1>8

(* An arrival that does not end the phase, a wake-up, a return: the        *)
(* generation stays, and what one party does shows in its own share only.  *)
LEMMA OneParty ==
    ASSUME BarrierInv, NEW p \in Parties,
           \/ ArriveAndSleep(p) \/ WakeSpuriously(p) \/ TimeOut(p) \/ Recheck(p)
           \/ ArriveAndDrop(p) /\ pending # 1
    PROVE  BarrierInv'
<1> USE DEF BarrierInv, BarrierShape
<1>1. /\ parties \in Nat /\ pending \in Nat
      /\ IsFiniteSet(Left) /\ IsFiniteSet(Arrived) /\ IsFiniteSet(Parties)
      /\ Cardinality(Left) \in Nat /\ Cardinality(Arrived) \in Nat
      /\ parties = Cardinality(Left) /\ pending = parties - Cardinality(Arrived)
  BY CountersAreNaturals, FS_CardinalityType, BarrierAssumption DEF PendingIsExact
<1>2. CASE ArriveAndSleep(p)
  <2>1. p \notin Arrived /\ Arrived' = Arrived \cup {p}
    BY <1>2 DEF ArriveAndSleep, Outside, Arrived
  <2>1a. Cardinality(Arrived') = Cardinality(Arrived) + 1
    BY <1>1, <2>1, FS_AddElement
  <2>2. PendingIsExact'
    BY <1>1, <1>2, <2>1a DEF ArriveAndSleep, PendingIsExact, Left
  <2>3. BarrierShape' /\ PhasesStayTogether' /\ SleepersWaitForThisPhase'
    BY <1>2 DEF ArriveAndSleep, Outside, PhasesStayTogether, SleepersWaitForThisPhase
  <2>4. QED BY <2>2, <2>3
<1>3. CASE WakeSpuriously(p) \/ TimeOut(p) \/ SleepAgain(p)
  <2>1. Arrived' = Arrived
    BY <1>3 DEF WakeSpuriously, TimeOut, SleepAgain, Arrived
  <2>2. PendingIsExact'
    BY <1>3, <2>1 DEF WakeSpuriously, TimeOut, SleepAgain, PendingIsExact
  <2>3. BarrierShape' /\ PhasesStayTogether' /\ SleepersWaitForThisPhase'
    BY <1>3 DEF WakeSpuriously, TimeOut, SleepAgain, PhasesStayTogether,
                SleepersWaitForThisPhase
  <2>4. QED BY <2>2, <2>3
<1>4. CASE ReturnPassed(p)
  <2>1. Arrived' = Arrived
    BY <1>4 DEF ReturnPassed, Arrived
  <2>2. PendingIsExact'
    BY <1>4, <2>1 DEF ReturnPassed, PendingIsExact
  <2>3. BarrierShape' /\ PhasesStayTogether' /\ SleepersWaitForThisPhase'
    BY <1>4 DEF ReturnPassed, PhasesStayTogether, SleepersWaitForThisPhase
  <2>4. QED BY <2>2, <2>3
<1>5. CASE Withdraw(p)
  <2>1. p \in Arrived /\ Arrived' = Arrived \ {p}
    BY <1>5 DEF Withdraw, Arrived
  <2>1a. Cardinality(Arrived') = Cardinality(Arrived) - 1
    BY <1>1, <2>1, FS_RemoveElement
  <2>2. PendingIsExact'
    BY <1>1, <1>5, <2>1a DEF Withdraw, PendingIsExact, Left
  <2>3. BarrierShape' /\ PhasesStayTogether' /\ SleepersWaitForThisPhase'
    BY <1>5 DEF Withdraw, PhasesStayTogether, SleepersWaitForThisPhase
  <2>4. QED BY <2>2, <2>3
<1>6. CASE ArriveAndDrop(p) /\ pending # 1
  <2>1. Arrived' = Arrived
    BY <1>6 DEF ArriveAndDrop, Arrived
  <2>2. p \in Left /\ Parties \ dropped' = Left \ {p}
    BY <1>6 DEF ArriveAndDrop, Outside, Left
  <2>2a. Cardinality(Parties \ dropped') = Cardinality(Left) - 1
    BY <1>1, <2>2, FS_RemoveElement
  <2>3. PendingIsExact'
    BY <1>1, <1>6, <2>1, <2>2a DEF ArriveAndDrop, PendingIsExact
  <2>4. BarrierShape' /\ PhasesStayTogether' /\ SleepersWaitForThisPhase'
    BY <1>6 DEF ArriveAndDrop, Outside, PhasesStayTogether, SleepersWaitForThisPhase
  <2>5. QED BY <2>3, <2>4
<1>7. QED BY <1>2, <1>3, <1>4, <1>5, <1>6 DEF Recheck

LEMMA BarrierSteps == BarrierInv /\ [BarrierNext]_barrierVars => BarrierInv'
<1> SUFFICES ASSUME BarrierInv, [BarrierNext]_barrierVars PROVE BarrierInv'
  OBVIOUS
<1>1. ASSUME NEW p \in Parties, ArriveLast(p) PROVE BarrierInv'
  <2>1. Outside(p) /\ pending = 1 /\ CompletePhase(parties')
    BY <1>1 DEF ArriveLast
  <2>2. QED BY <1>1, <2>1, PhaseEnds
<1>2. ASSUME NEW p \in Parties, ArriveAndDrop(p), pending = 1 PROVE BarrierInv'
  <2>1. Outside(p) /\ CompletePhase(parties')
    BY <1>2 DEF ArriveAndDrop
  <2>2. QED BY <1>2, <2>1, PhaseEnds
<1>3. CASE UNCHANGED barrierVars
  BY <1>3 DEF barrierVars, BarrierInv, BarrierShape, PendingIsExact, Arrived,
              PhasesStayTogether, SleepersWaitForThisPhase
<1>4. QED BY <1>1, <1>2, <1>3, OneParty DEF BarrierNext

LEMMA BarrierAlways == BarrierSpec => []BarrierInv
BY BarrierStarts, BarrierSteps, PTL DEF BarrierSpec

(* "All N calls return together", for any number of parties, timeouts and  *)
(* drops: nobody passes a phase that another party that is left has not    *)
(* also passed (DefaultBarrier::arriveAndWait).                            *)
THEOREM BarrierPhases == BarrierSpec => []PhasesStayTogether
BY BarrierAlways, PTL DEF BarrierInv

(* The pending count is exact: a withdrawn arrival is counted back and a   *)
(* party that dropped out is waited for no more.                           *)
THEOREM BarrierCountIsExact == BarrierSpec => []PendingIsExact
BY BarrierAlways, PTL DEF BarrierInv

-----------------------------------------------------------------------------
(* The semaphore.  The count is covered by the threads that are awake or   *)
(* about to notify one that sleeps.                                        *)
LEMMA UsersAreCounted ==
    ASSUME NEW stages
    PROVE  IsFiniteSet(In(stages)) /\ Cardinality(In(stages)) \in Nat
<1>1. In(stages) \in SUBSET Users
  BY DEF In
<1>2. QED BY <1>1, SemaphoreAssumption, FS_Subset, FS_CardinalityType

Heralds == In({"awake", "late", "notifying"})

SemaphoreInv == SemaphoreTypeOK /\ NoPermitUnannounced

LEMMA SemaphoreSteps == SemaphoreInv /\ [SemaphoreNext]_semaphoreVars => SemaphoreInv'
<1> SUFFICES ASSUME SemaphoreInv, [SemaphoreNext]_semaphoreVars PROVE SemaphoreInv'
  OBVIOUS
<1> USE DEF SemaphoreInv, SemaphoreTypeOK
<1>1. /\ IsFiniteSet(Heralds) /\ Cardinality(Heralds) \in Nat
      /\ In({"asleep"}) # {} => count <= Cardinality(Heralds)
  BY UsersAreCounted DEF Heralds, NoPermitUnannounced
<1>2. SUFFICES /\ SemaphoreTypeOK'
               /\ In({"asleep"})' # {} => count' <= Cardinality(Heralds')
  BY DEF NoPermitUnannounced, Heralds
<1>3. ASSUME NEW u \in Users, Acquire(u)
      PROVE  SemaphoreTypeOK' /\ (In({"asleep"})' # {} => count' <= Cardinality(Heralds'))
  <2>1. Heralds' = Heralds /\ In({"asleep"})' = In({"asleep"})
    BY <1>3 DEF Acquire, Heralds, In
  <2>2. QED BY <1>1, <1>3, <2>1 DEF Acquire
<1>4. ASSUME NEW u \in Users, Wait(u)
      PROVE  SemaphoreTypeOK' /\ (In({"asleep"})' # {} => count' <= Cardinality(Heralds'))
  <2>1. Heralds' = Heralds
    BY <1>4 DEF Wait, Heralds, In
  <2>2. QED BY <1>1, <1>4, <2>1 DEF Wait
<1>5. ASSUME NEW u \in Users, Stir(u)
      PROVE  SemaphoreTypeOK' /\ (In({"asleep"})' # {} => count' <= Cardinality(Heralds'))
  <2>1. u \notin Heralds /\ Heralds' = Heralds \cup {u} /\ In({"asleep"}) # {}
    BY <1>5 DEF Stir, Heralds, In
  <2>2. Cardinality(Heralds') = Cardinality(Heralds) + 1
    BY <1>1, <2>1, FS_AddElement
  <2>3. SemaphoreTypeOK' /\ count' = count
    BY <1>5 DEF Stir
  <2>4. QED BY <1>1, <2>1, <2>2, <2>3
<1>6. ASSUME NEW u \in Users, LookAgain(u)
      PROVE  SemaphoreTypeOK' /\ (In({"asleep"})' # {} => count' <= Cardinality(Heralds'))
  <2>1. u \in Heralds /\ Heralds' = Heralds \ {u}
    BY <1>6 DEF LookAgain, Heralds, In
  <2>2. Cardinality(Heralds') = Cardinality(Heralds) - 1 /\ Cardinality(Heralds') \in Nat
    <3>1. Cardinality(Heralds') = Cardinality(Heralds) - 1
      BY <1>1, <2>1, FS_RemoveElement
    <3>2. IsFiniteSet(Heralds')
      BY <1>1, <2>1, FS_RemoveElement
    <3>3. QED BY <3>1, <3>2, FS_CardinalityType
  <2>3. CASE count > 0
    <3>1. In({"asleep"})' \subseteq In({"asleep"})
      BY <1>6, <2>3 DEF LookAgain, In
    <3>2. SemaphoreTypeOK' /\ count' = count - 1
      BY <1>6, <2>3 DEF LookAgain
    <3>3. QED BY <1>1, <2>2, <3>1, <3>2
  <2>4. CASE ~(count > 0)
    <3>1. SemaphoreTypeOK' /\ count' = 0
      BY <1>6, <2>4 DEF LookAgain
    <3>2. QED BY <2>2, <3>1
  <2>5. QED BY <2>3, <2>4
<1>7. ASSUME NEW u \in Users, Release(u)
      PROVE  SemaphoreTypeOK' /\ (In({"asleep"})' # {} => count' <= Cardinality(Heralds'))
  <2>1. u \notin Heralds /\ Heralds' = Heralds \cup {u} /\ In({"asleep"})' = In({"asleep"})
    BY <1>7 DEF Release, Heralds, In
  <2>2. Cardinality(Heralds') = Cardinality(Heralds) + 1
    BY <1>1, <2>1, FS_AddElement
  <2>3. SemaphoreTypeOK' /\ count' = count + 1
    BY <1>7 DEF Release
  <2>4. QED BY <1>1, <2>1, <2>2, <2>3
<1>8. ASSUME NEW u \in Users, Notify(u)
      PROVE  SemaphoreTypeOK' /\ (In({"asleep"})' # {} => count' <= Cardinality(Heralds'))
  <2>1. CASE In({"asleep"}) = {}
    <3>1. In({"asleep"})' = {}
      BY <1>8, <2>1 DEF Notify, In
    <3>2. SemaphoreTypeOK'
      BY <1>8, <2>1 DEF Notify
    <3>3. QED BY <3>1, <3>2
  <2>2. CASE In({"asleep"}) # {}
    <3>1. PICK v \in In({"asleep"}) : user' = [user EXCEPT ![u] = "idle", ![v] = "awake"]
      BY <1>8, <2>2 DEF Notify
    <3>2. /\ user[u] = "notifying" /\ user[v] = "asleep" /\ v \in Users /\ u # v
          /\ count' = count /\ released' = released
      BY <1>8, <3>1 DEF Notify, In
    <3>3. u \in Heralds /\ v \notin Heralds /\ Heralds' = (Heralds \ {u}) \cup {v}
      BY <3>1, <3>2 DEF Heralds, In
    <3>4. /\ IsFiniteSet(Heralds \ {u}) /\ v \notin Heralds \ {u}
          /\ Cardinality(Heralds \ {u}) = Cardinality(Heralds) - 1
      BY <1>1, <3>3, FS_RemoveElement
    <3>5. Cardinality(Heralds') = Cardinality(Heralds \ {u}) + 1
      BY <3>3, <3>4, FS_AddElement
    <3>6. Cardinality(Heralds') = Cardinality(Heralds)
      BY <1>1, <3>4, <3>5
    <3>7. SemaphoreTypeOK'
      BY <3>1, <3>2
    <3>8. QED BY <1>1, <2>2, <3>2, <3>6, <3>7
  <2>3. QED BY <2>1, <2>2
<1>9. CASE UNCHANGED semaphoreVars
  <2>1. Heralds' = Heralds /\ In({"asleep"})' = In({"asleep"}) /\ count' = count
    BY <1>9 DEF semaphoreVars, Heralds, In
  <2>2. QED BY <1>1, <1>9, <2>1 DEF semaphoreVars
<1>10. QED
  BY <1>3, <1>4, <1>5, <1>6, <1>7, <1>8, <1>9 DEF SemaphoreNext

(* release() notifies outside the mutex, and yet no permit stays behind    *)
(* unannounced while a thread sleeps in acquire(), for any number of       *)
(* threads, timeouts and permits taken on the way.                         *)
THEOREM SemaphoreLosesNoWakeup == SemaphoreSpec => []NoPermitUnannounced
<1>1. SemaphoreInit => SemaphoreInv
  BY SemaphoreAssumption
     DEF SemaphoreInit, SemaphoreInv, SemaphoreTypeOK, NoPermitUnannounced, In
<1>2. SemaphoreInv => NoPermitUnannounced
  BY DEF SemaphoreInv
<1>3. QED BY <1>1, <1>2, SemaphoreSteps, PTL DEF SemaphoreSpec

-----------------------------------------------------------------------------
(* The channel.  Each count of threads changes by what the one thread that *)
(* moves on that side leaves and enters.                                   *)
LEMMA SidesAreFinite ==
    /\ IsFiniteSet(Senders) /\ IsFiniteSet(Receivers)
    /\ Senders \cap Receivers = {}
    /\ \A stages : /\ IsFiniteSet(Among(Senders, stages))
                   /\ IsFiniteSet(Among(Receivers, stages))
                   /\ Cardinality(Among(Senders, stages)) \in Nat
                   /\ Cardinality(Among(Receivers, stages)) \in Nat
<1>1. ASSUME NEW S, IsFiniteSet(S), NEW stages
      PROVE  IsFiniteSet(Among(S, stages)) /\ Cardinality(Among(S, stages)) \in Nat
  <2>1. Among(S, stages) \in SUBSET S
    BY DEF Among
  <2>2. QED BY <1>1, <2>1, FS_Subset, FS_CardinalityType
<1>2. QED BY <1>1, ChannelAssumption

Mark(S, t, v, stages) == IF t \in S /\ v \in stages THEN 1 ELSE 0

LEMMA OneMoves ==
    ASSUME NEW S, IsFiniteSet(S), NEW t, NEW v, NEW stages,
           \A u \in S : thread'[u] = IF u = t THEN v ELSE thread[u]
    PROVE  Cardinality(Among(S, stages)') =
              Cardinality(Among(S, stages)) - Mark(S, t, thread[t], stages) + Mark(S, t, v, stages)
<1> DEFINE A == Among(S, stages)
           B == A \ {t}
<1>1. IsFiniteSet(A) /\ Cardinality(A) \in Nat
  <2>1. A \in SUBSET S
    BY DEF Among
  <2>2. QED BY <2>1, FS_Subset, FS_CardinalityType
<1>2. /\ IsFiniteSet(B) /\ t \notin B
      /\ Cardinality(B) = Cardinality(A) - Mark(S, t, thread[t], stages)
  <2>1. t \in A <=> t \in S /\ thread[t] \in stages
    BY DEF Among
  <2>2. /\ IsFiniteSet(B)
        /\ Cardinality(B) = IF t \in A THEN Cardinality(A) - 1 ELSE Cardinality(A)
    BY <1>1, FS_RemoveElement
  <2>3. QED BY <1>1, <2>1, <2>2 DEF Mark
<1>3. CASE t \in S /\ v \in stages
  <2>1. Among(S, stages)' = B \cup {t}
    BY <1>3 DEF Among
  <2>2. Cardinality(B \cup {t}) = Cardinality(B) + 1
    BY <1>2, FS_AddElement
  <2>3. QED BY <1>2, <1>3, <2>1, <2>2 DEF Mark
<1>4. CASE ~(t \in S /\ v \in stages)
  <2>1. Among(S, stages)' = B
    BY <1>4 DEF Among
  <2>2. Cardinality(B) \in Nat
    BY <1>2, FS_CardinalityType
  <2>3. QED BY <1>1, <1>2, <1>4, <2>1, <2>2 DEF Mark
<1>5. QED BY <1>3, <1>4

(* The two halves of the property, in terms of who is up, who is about to  *)
(* notify the other side and whether anybody sleeps.                       *)
Up == {"awake", "late"}

SendersUp        == Cardinality(Among(Senders, Up))
ReceiversUp      == Cardinality(Among(Receivers, Up))
SendersTelling   == Cardinality(Among(Senders, {"notifying"}))
ReceiversTelling == Cardinality(Among(Receivers, {"notifying"}))
SenderSleeps     == Among(Senders, {"asleep"}) # {}
ReceiverSleeps   == Among(Receivers, {"asleep"}) # {}

Announced ==
    /\ ReceiverSleeps =>
          /\ closed => closer \in {"wakeSenders", "wakeReceivers"}
          /\ Len(queue) <= ReceiversUp + SendersTelling
    /\ SenderSleeps =>
          /\ closed => closer = "wakeSenders"
          /\ ~closed => Slots - Len(queue) <= SendersUp + ReceiversTelling

ChannelShape ==
    /\ ChannelTypeOK
    /\ ~closed => closer = "idle"

ChannelInv == ChannelShape /\ Announced

LEMMA AnnouncedIsNoWakeupLost == Announced <=> NoWakeupLost
BY DEF Announced, NoWakeupLost, NoMessageUnannounced, NoPlaceUnannounced, SendersUp,
       ReceiversUp, SendersTelling, ReceiversTelling, SenderSleeps, ReceiverSleeps, Up

(* One sender s goes to v and one receiver r to w.                         *)
LEMMA CountsMove ==
    ASSUME NEW s, NEW v, NEW r, NEW w,
           \A u \in Senders : thread'[u] = IF u = s THEN v ELSE thread[u],
           \A u \in Receivers : thread'[u] = IF u = r THEN w ELSE thread[u]
    PROVE  /\ SendersUp' = SendersUp - Mark(Senders, s, thread[s], Up) + Mark(Senders, s, v, Up)
           /\ ReceiversUp' = ReceiversUp - Mark(Receivers, r, thread[r], Up)
                                + Mark(Receivers, r, w, Up)
           /\ SendersTelling' = SendersTelling - Mark(Senders, s, thread[s], {"notifying"})
                                   + Mark(Senders, s, v, {"notifying"})
           /\ ReceiversTelling' = ReceiversTelling - Mark(Receivers, r, thread[r], {"notifying"})
                                     + Mark(Receivers, r, w, {"notifying"})
           /\ SendersUp \in Nat /\ ReceiversUp \in Nat
           /\ SendersTelling \in Nat /\ ReceiversTelling \in Nat
           /\ v # "asleep" => (SenderSleeps' => SenderSleeps)
           /\ w # "asleep" => (ReceiverSleeps' => ReceiverSleeps)
<1>1. /\ SendersUp' = SendersUp - Mark(Senders, s, thread[s], Up) + Mark(Senders, s, v, Up)
      /\ SendersTelling' = SendersTelling - Mark(Senders, s, thread[s], {"notifying"})
                              + Mark(Senders, s, v, {"notifying"})
  BY OneMoves, SidesAreFinite DEF SendersUp, SendersTelling
<1>2. /\ ReceiversUp' = ReceiversUp - Mark(Receivers, r, thread[r], Up)
                           + Mark(Receivers, r, w, Up)
      /\ ReceiversTelling' = ReceiversTelling - Mark(Receivers, r, thread[r], {"notifying"})
                                + Mark(Receivers, r, w, {"notifying"})
  BY OneMoves, SidesAreFinite DEF ReceiversUp, ReceiversTelling
<1>3. /\ SendersUp \in Nat /\ ReceiversUp \in Nat
      /\ SendersTelling \in Nat /\ ReceiversTelling \in Nat
  BY SidesAreFinite DEF SendersUp, ReceiversUp, SendersTelling, ReceiversTelling
<1>4. /\ v # "asleep" => (SenderSleeps' => SenderSleeps)
      /\ w # "asleep" => (ReceiverSleeps' => ReceiverSleeps)
  BY DEF SenderSleeps, ReceiverSleeps, Among
<1>5. QED BY <1>1, <1>2, <1>3, <1>4

Naturals4 ==
    /\ SendersUp \in Nat /\ ReceiversUp \in Nat
    /\ SendersTelling \in Nat /\ ReceiversTelling \in Nat

(* A sender moves alone, ...                                               *)
LEMMA SenderMoves ==
    ASSUME ChannelShape, NEW s \in Senders, NEW v, thread' = [thread EXCEPT ![s] = v]
    PROVE  /\ SendersUp' = SendersUp - (IF thread[s] \in Up THEN 1 ELSE 0)
                           + (IF v \in Up THEN 1 ELSE 0)
           /\ SendersTelling' = SendersTelling - (IF thread[s] = "notifying" THEN 1 ELSE 0)
                           + (IF v = "notifying" THEN 1 ELSE 0)
           /\ ReceiversUp' = ReceiversUp /\ ReceiversTelling' = ReceiversTelling
           /\ v # "asleep" => (SenderSleeps' => SenderSleeps)
           /\ ReceiverSleeps' <=> ReceiverSleeps
           /\ Naturals4
<1>1. /\ s \in Threads /\ s \notin Receivers
      /\ \A u \in Senders : thread'[u] = IF u = s THEN v ELSE thread[u]
      /\ \A u \in Receivers : thread'[u] = IF u = s THEN v ELSE thread[u]
  BY SidesAreFinite DEF Threads, ChannelShape, ChannelTypeOK
<1>2. /\ Mark(Receivers, s, thread[s], Up) = 0 /\ Mark(Receivers, s, v, Up) = 0
      /\ Mark(Receivers, s, thread[s], {"notifying"}) = 0 /\ Mark(Receivers, s, v, {"notifying"}) = 0
      /\ Mark(Senders, s, thread[s], Up) = IF thread[s] \in Up THEN 1 ELSE 0
      /\ Mark(Senders, s, v, Up) = IF v \in Up THEN 1 ELSE 0
      /\ Mark(Senders, s, thread[s], {"notifying"}) = IF thread[s] = "notifying" THEN 1 ELSE 0
      /\ Mark(Senders, s, v, {"notifying"}) = IF v = "notifying" THEN 1 ELSE 0
  BY <1>1 DEF Mark
<1>3. ReceiverSleeps' <=> ReceiverSleeps
  BY <1>1 DEF ReceiverSleeps, Among
<1>4. QED BY <1>1, <1>2, <1>3, CountsMove DEF Naturals4

(* ... or a receiver.                                                      *)
LEMMA ReceiverMoves ==
    ASSUME ChannelShape, NEW r \in Receivers, NEW v, thread' = [thread EXCEPT ![r] = v]
    PROVE  /\ ReceiversUp' = ReceiversUp - (IF thread[r] \in Up THEN 1 ELSE 0)
                           + (IF v \in Up THEN 1 ELSE 0)
           /\ ReceiversTelling' = ReceiversTelling - (IF thread[r] = "notifying" THEN 1 ELSE 0)
                           + (IF v = "notifying" THEN 1 ELSE 0)
           /\ SendersUp' = SendersUp /\ SendersTelling' = SendersTelling
           /\ v # "asleep" => (ReceiverSleeps' => ReceiverSleeps)
           /\ SenderSleeps' <=> SenderSleeps
           /\ Naturals4
<1>1. /\ r \in Threads /\ r \notin Senders
      /\ \A u \in Senders : thread'[u] = IF u = r THEN v ELSE thread[u]
      /\ \A u \in Receivers : thread'[u] = IF u = r THEN v ELSE thread[u]
  BY SidesAreFinite DEF Threads, ChannelShape, ChannelTypeOK
<1>2. /\ Mark(Senders, r, thread[r], Up) = 0 /\ Mark(Senders, r, v, Up) = 0
      /\ Mark(Senders, r, thread[r], {"notifying"}) = 0 /\ Mark(Senders, r, v, {"notifying"}) = 0
      /\ Mark(Receivers, r, thread[r], Up) = IF thread[r] \in Up THEN 1 ELSE 0
      /\ Mark(Receivers, r, v, Up) = IF v \in Up THEN 1 ELSE 0
      /\ Mark(Receivers, r, thread[r], {"notifying"}) = IF thread[r] = "notifying" THEN 1 ELSE 0
      /\ Mark(Receivers, r, v, {"notifying"}) = IF v = "notifying" THEN 1 ELSE 0
  BY <1>1 DEF Mark
<1>3. SenderSleeps' <=> SenderSleeps
  BY <1>1 DEF SenderSleeps, Among
<1>4. QED BY <1>1, <1>2, <1>3, CountsMove DEF Naturals4

(* The counts after a sender or a receiver found what it looked for, ...   *)
LEMMA SenderFinds ==
    ASSUME ChannelShape, NEW s \in Senders, thread[s] \in {"idle", "awake", "late"},
           thread' = [thread EXCEPT ![s] = "notifying"]
    PROVE  /\ SendersTelling' = SendersTelling + 1
           /\ SendersUp' = SendersUp \/ SendersUp' = SendersUp - 1
           /\ ReceiversUp' = ReceiversUp /\ ReceiversTelling' = ReceiversTelling
           /\ (SenderSleeps' => SenderSleeps) /\ (ReceiverSleeps' => ReceiverSleeps)
           /\ Naturals4
<1>1. thread[s] # "notifying" /\ "notifying" \notin Up
  BY DEF Up
<1>2. /\ SendersUp' = SendersUp - (IF thread[s] \in Up THEN 1 ELSE 0) + 0
      /\ SendersTelling' = SendersTelling - 0 + 1
      /\ ReceiversUp' = ReceiversUp /\ ReceiversTelling' = ReceiversTelling
      /\ (SenderSleeps' => SenderSleeps) /\ (ReceiverSleeps' => ReceiverSleeps)
      /\ Naturals4
  BY <1>1, SenderMoves
<1>3. QED BY <1>2 DEF Naturals4

LEMMA ReceiverFinds ==
    ASSUME ChannelShape, NEW r \in Receivers, thread[r] \in {"idle", "awake", "late"},
           thread' = [thread EXCEPT ![r] = "notifying"]
    PROVE  /\ ReceiversTelling' = ReceiversTelling + 1
           /\ ReceiversUp' = ReceiversUp \/ ReceiversUp' = ReceiversUp - 1
           /\ SendersUp' = SendersUp /\ SendersTelling' = SendersTelling
           /\ (SenderSleeps' => SenderSleeps) /\ (ReceiverSleeps' => ReceiverSleeps)
           /\ Naturals4
<1>1. thread[r] # "notifying" /\ "notifying" \notin Up
  BY DEF Up
<1>2. /\ ReceiversUp' = ReceiversUp - (IF thread[r] \in Up THEN 1 ELSE 0) + 0
      /\ ReceiversTelling' = ReceiversTelling - 0 + 1
      /\ SendersUp' = SendersUp /\ SendersTelling' = SendersTelling
      /\ (SenderSleeps' => SenderSleeps) /\ (ReceiverSleeps' => ReceiverSleeps)
      /\ Naturals4
  BY <1>1, ReceiverMoves
<1>3. QED BY <1>2 DEF Naturals4

(* ... found nothing, ...                                                  *)
LEMMA SenderRests ==
    ASSUME ChannelShape, NEW s \in Senders, thread[s] \in {"idle", "awake", "late"},
           NEW v \in {"idle", "asleep"}, thread' = [thread EXCEPT ![s] = v]
    PROVE  /\ SendersTelling' = SendersTelling /\ SendersUp' <= SendersUp
           /\ SendersUp' \in Int
           /\ ReceiversUp' = ReceiversUp /\ ReceiversTelling' = ReceiversTelling
           /\ v = "idle" => (SenderSleeps' => SenderSleeps)
           /\ ReceiverSleeps' <=> ReceiverSleeps
           /\ Naturals4
<1>1. thread[s] # "notifying" /\ v # "notifying" /\ v \notin Up
  BY DEF Up
<1>2. /\ SendersUp' = SendersUp - (IF thread[s] \in Up THEN 1 ELSE 0) + 0
      /\ SendersTelling' = SendersTelling - 0 + 0
      /\ ReceiversUp' = ReceiversUp /\ ReceiversTelling' = ReceiversTelling
      /\ v = "idle" => (SenderSleeps' => SenderSleeps)
      /\ ReceiverSleeps' <=> ReceiverSleeps
      /\ Naturals4
  BY <1>1, SenderMoves
<1>3. QED BY <1>2 DEF Naturals4

LEMMA ReceiverRests ==
    ASSUME ChannelShape, NEW r \in Receivers, thread[r] \in {"idle", "awake", "late"},
           NEW v \in {"idle", "asleep"}, thread' = [thread EXCEPT ![r] = v]
    PROVE  /\ ReceiversTelling' = ReceiversTelling /\ ReceiversUp' <= ReceiversUp
           /\ ReceiversUp' \in Int
           /\ SendersUp' = SendersUp /\ SendersTelling' = SendersTelling
           /\ v = "idle" => (ReceiverSleeps' => ReceiverSleeps)
           /\ SenderSleeps' <=> SenderSleeps
           /\ Naturals4
<1>1. thread[r] # "notifying" /\ v # "notifying" /\ v \notin Up
  BY DEF Up
<1>2. /\ ReceiversUp' = ReceiversUp - (IF thread[r] \in Up THEN 1 ELSE 0) + 0
      /\ ReceiversTelling' = ReceiversTelling - 0 + 0
      /\ SendersUp' = SendersUp /\ SendersTelling' = SendersTelling
      /\ v = "idle" => (ReceiverSleeps' => ReceiverSleeps)
      /\ SenderSleeps' <=> SenderSleeps
      /\ Naturals4
  BY <1>1, ReceiverMoves
<1>3. QED BY <1>2 DEF Naturals4

(* ... or woke up.                                                         *)
LEMMA SenderWakes ==
    ASSUME ChannelShape, NEW s \in Senders, thread[s] = "asleep",
           NEW v \in Up, thread' = [thread EXCEPT ![s] = v]
    PROVE  /\ SendersTelling' = SendersTelling /\ SendersUp' = SendersUp + 1
           /\ ReceiversUp' = ReceiversUp /\ ReceiversTelling' = ReceiversTelling
           /\ (SenderSleeps' => SenderSleeps) /\ (ReceiverSleeps' <=> ReceiverSleeps)
           /\ Naturals4
<1>1. v # "notifying" /\ v # "asleep" /\ thread[s] \notin Up
  BY DEF Up
<1>2. /\ SendersUp' = SendersUp - 0 + 1
      /\ SendersTelling' = SendersTelling - 0 + 0
      /\ ReceiversUp' = ReceiversUp /\ ReceiversTelling' = ReceiversTelling
      /\ (SenderSleeps' => SenderSleeps) /\ (ReceiverSleeps' <=> ReceiverSleeps)
      /\ Naturals4
  BY <1>1, SenderMoves
<1>3. QED BY <1>2 DEF Naturals4

LEMMA ReceiverWakes ==
    ASSUME ChannelShape, NEW r \in Receivers, thread[r] = "asleep",
           NEW v \in Up, thread' = [thread EXCEPT ![r] = v]
    PROVE  /\ ReceiversTelling' = ReceiversTelling /\ ReceiversUp' = ReceiversUp + 1
           /\ SendersUp' = SendersUp /\ SendersTelling' = SendersTelling
           /\ (ReceiverSleeps' => ReceiverSleeps) /\ (SenderSleeps' <=> SenderSleeps)
           /\ Naturals4
<1>1. v # "notifying" /\ v # "asleep" /\ thread[r] \notin Up
  BY DEF Up
<1>2. /\ ReceiversUp' = ReceiversUp - 0 + 1
      /\ ReceiversTelling' = ReceiversTelling - 0 + 0
      /\ SendersUp' = SendersUp /\ SendersTelling' = SendersTelling
      /\ (ReceiverSleeps' => ReceiverSleeps) /\ (SenderSleeps' <=> SenderSleeps)
      /\ Naturals4
  BY <1>1, ReceiverMoves
<1>3. QED BY <1>2 DEF Naturals4

(* notify_one: a thread goes idle and one that sleeps on the other side    *)
(* wakes up, if any does.                                                  *)
LEMMA SenderTells ==
    ASSUME ChannelShape, NEW s \in Senders, TellOne(s, Receivers), ReceiverSleeps
    PROVE  /\ SendersTelling' = SendersTelling - 1 /\ ReceiversUp' = ReceiversUp + 1
           /\ SendersUp' = SendersUp /\ ReceiversTelling' = ReceiversTelling
           /\ SenderSleeps' => SenderSleeps
           /\ Naturals4
<1>1. PICK r \in Among(Receivers, {"asleep"}) :
         thread' = [thread EXCEPT ![s] = "idle", ![r] = "awake"]
  BY DEF TellOne, ReceiverSleeps
<1>2. /\ thread[s] = "notifying" /\ r \in Receivers /\ thread[r] = "asleep"
      /\ s \in Threads /\ r \in Threads /\ s \notin Receivers /\ r \notin Senders
      /\ thread \in [Threads -> {"idle", "asleep", "awake", "late", "notifying"}]
  BY SidesAreFinite DEF TellOne, Among, Threads, ChannelShape, ChannelTypeOK
<1>3. /\ \A u \in Senders : thread'[u] = IF u = s THEN "idle" ELSE thread[u]
      /\ \A u \in Receivers : thread'[u] = IF u = r THEN "awake" ELSE thread[u]
  BY <1>1, <1>2 DEF Threads
<1>4. /\ Mark(Senders, s, thread[s], Up) = 0 /\ Mark(Senders, s, "idle", Up) = 0
      /\ Mark(Senders, s, thread[s], {"notifying"}) = 1
      /\ Mark(Senders, s, "idle", {"notifying"}) = 0
      /\ Mark(Receivers, r, thread[r], Up) = 0 /\ Mark(Receivers, r, "awake", Up) = 1
      /\ Mark(Receivers, r, thread[r], {"notifying"}) = 0
      /\ Mark(Receivers, r, "awake", {"notifying"}) = 0
  BY <1>2 DEF Mark, Up
<1>5. QED BY <1>3, <1>4, CountsMove DEF Naturals4

LEMMA ReceiverTells ==
    ASSUME ChannelShape, NEW r \in Receivers, TellOne(r, Senders), SenderSleeps
    PROVE  /\ ReceiversTelling' = ReceiversTelling - 1 /\ SendersUp' = SendersUp + 1
           /\ ReceiversUp' = ReceiversUp /\ SendersTelling' = SendersTelling
           /\ ReceiverSleeps' => ReceiverSleeps
           /\ Naturals4
<1>1. PICK s \in Among(Senders, {"asleep"}) :
         thread' = [thread EXCEPT ![r] = "idle", ![s] = "awake"]
  BY DEF TellOne, SenderSleeps
<1>2. /\ thread[r] = "notifying" /\ s \in Senders /\ thread[s] = "asleep"
      /\ s \in Threads /\ r \in Threads /\ s \notin Receivers /\ r \notin Senders
      /\ thread \in [Threads -> {"idle", "asleep", "awake", "late", "notifying"}]
  BY SidesAreFinite DEF TellOne, Among, Threads, ChannelShape, ChannelTypeOK
<1>3. /\ \A u \in Senders : thread'[u] = IF u = s THEN "awake" ELSE thread[u]
      /\ \A u \in Receivers : thread'[u] = IF u = r THEN "idle" ELSE thread[u]
  BY <1>1, <1>2 DEF Threads
<1>4. /\ Mark(Receivers, r, thread[r], Up) = 0 /\ Mark(Receivers, r, "idle", Up) = 0
      /\ Mark(Receivers, r, thread[r], {"notifying"}) = 1
      /\ Mark(Receivers, r, "idle", {"notifying"}) = 0
      /\ Mark(Senders, s, thread[s], Up) = 0 /\ Mark(Senders, s, "awake", Up) = 1
      /\ Mark(Senders, s, thread[s], {"notifying"}) = 0
      /\ Mark(Senders, s, "awake", {"notifying"}) = 0
  BY <1>2 DEF Mark, Up
<1>5. QED BY <1>3, <1>4, CountsMove DEF Naturals4

LEMMA SlotsAreNatural == Slots \in Nat /\ 0 < Slots
BY ChannelAssumption DEF Slots

LEMMA ShapeSteps == ChannelShape /\ [ChannelNext]_channelVars => ChannelShape'
<1> SUFFICES ASSUME ChannelShape, [ChannelNext]_channelVars PROVE ChannelShape'
  OBVIOUS
<1> USE SlotsAreNatural DEF ChannelShape, ChannelTypeOK
<1>1. ASSUME NEW s \in Senders, Put(s) PROVE ChannelShape'
  <2>1. /\ queue' \in Seq(Nat) /\ Len(queue') = Len(queue) + 1 /\ Len(queue) \in Nat
        /\ Len(queue) < Slots /\ accepted' \in Nat
    BY <1>1 DEF Put
  <2>2. QED BY <1>1, <2>1 DEF Put, Threads
<1>2. ASSUME NEW r \in Receivers, Take(r) PROVE ChannelShape'
  <2>1. queue' \in Seq(Nat) /\ Len(queue') = Len(queue) - 1 /\ Len(queue) \in Nat
    BY <1>2 DEF Take
  <2>2. QED BY <1>2, <2>1 DEF Take, Threads
<1>3. ASSUME NEW t \in Threads, FindFull(t) \/ FindEmpty(t) \/ FindClosed(t) \/ Rouse(t)
      PROVE  ChannelShape'
  BY <1>3 DEF FindFull, FindEmpty, FindClosed, Rouse, Baffled
<1>4. ASSUME NEW t \in Threads, NEW others, TellOne(t, others) PROVE ChannelShape'
  BY <1>4 DEF TellOne
<1>5. CASE Close \/ WakeSenders \/ WakeReceivers
  BY <1>5 DEF Close, WakeSenders, WakeReceivers, TellAll
<1>6. CASE UNCHANGED channelVars
  BY <1>6 DEF channelVars
<1>7. QED
  BY <1>1, <1>2, <1>3, <1>4, <1>5, <1>6 DEF ChannelNext, SenderStep, ReceiverStep, Threads

LEMMA AnnouncedSteps == ChannelInv /\ [ChannelNext]_channelVars => Announced'
<1> SUFFICES ASSUME ChannelShape, Announced, [ChannelNext]_channelVars PROVE Announced'
  BY DEF ChannelInv
<1>0. /\ Len(queue) \in Nat /\ Len(queue) <= Slots /\ Slots \in Nat
      /\ closed \in BOOLEAN /\ (~closed => closer = "idle")
  BY SlotsAreNatural DEF ChannelShape, ChannelTypeOK
<1>1. ASSUME NEW s \in Senders, Put(s) PROVE Announced'
  <2>1. /\ thread' = [thread EXCEPT ![s] = "notifying"]
        /\ thread[s] \in {"idle", "awake", "late"}
        /\ ~closed /\ closed' = closed /\ Len(queue') = Len(queue) + 1
    BY <1>1 DEF Put, Looks, ChannelShape, ChannelTypeOK
  <2>2. /\ SendersTelling' = SendersTelling + 1
        /\ SendersUp' = SendersUp \/ SendersUp' = SendersUp - 1
        /\ ReceiversUp' = ReceiversUp /\ ReceiversTelling' = ReceiversTelling
        /\ (SenderSleeps' => SenderSleeps) /\ (ReceiverSleeps' => ReceiverSleeps)
        /\ Naturals4
    BY <2>1, SenderFinds
  <2>3. QED BY <1>0, <2>1, <2>2 DEF Announced, Naturals4
<1>2. ASSUME NEW r \in Receivers, Take(r) PROVE Announced'
  <2>1. /\ thread' = [thread EXCEPT ![r] = "notifying"]
        /\ thread[r] \in {"idle", "awake", "late"}
        /\ closed' = closed /\ closer' = closer /\ Len(queue') = Len(queue) - 1
    BY <1>2 DEF Take, Looks, ChannelShape, ChannelTypeOK
  <2>2. /\ ReceiversTelling' = ReceiversTelling + 1
        /\ ReceiversUp' = ReceiversUp \/ ReceiversUp' = ReceiversUp - 1
        /\ SendersUp' = SendersUp /\ SendersTelling' = SendersTelling
        /\ (SenderSleeps' => SenderSleeps) /\ (ReceiverSleeps' => ReceiverSleeps)
        /\ Naturals4
    BY <2>1, ReceiverFinds
  <2>3. QED BY <1>0, <2>1, <2>2 DEF Announced, Naturals4
<1>3. ASSUME NEW s \in Senders, FindFull(s) \/ FindClosed(s) PROVE Announced'
  <2>1. PICK v \in {"idle", "asleep"} : /\ thread' = [thread EXCEPT ![s] = v]
                                        /\ closed => v = "idle"
    BY <1>3 DEF FindFull, FindClosed, Baffled
  <2>2. /\ thread[s] \in {"idle", "awake", "late"} /\ (closed \/ Slots <= Len(queue))
        /\ UNCHANGED <<queue, closed, closer>>
    BY <1>3 DEF FindFull, FindClosed, Looks
  <2>3. SendersUp' \in Nat
    <3>1. Among(Senders, Up)' \in SUBSET Senders
      BY DEF Among
    <3>2. QED BY <3>1, SidesAreFinite, FS_Subset, FS_CardinalityType DEF SendersUp
  <2>4. /\ SendersTelling' = SendersTelling
        /\ ReceiversUp' = ReceiversUp /\ ReceiversTelling' = ReceiversTelling
        /\ v = "idle" => (SenderSleeps' => SenderSleeps)
        /\ ReceiverSleeps' <=> ReceiverSleeps
        /\ Naturals4
    BY <2>1, <2>2, SenderRests
  <2>5. QED BY <1>0, <2>1, <2>2, <2>3, <2>4 DEF Announced, Naturals4
<1>4. ASSUME NEW r \in Receivers, FindEmpty(r) \/ FindClosed(r) PROVE Announced'
  <2>1. PICK v \in {"idle", "asleep"} : /\ thread' = [thread EXCEPT ![r] = v]
                                        /\ closed => v = "idle"
    BY <1>4 DEF FindEmpty, FindClosed, Baffled
  <2>2. /\ thread[r] \in {"idle", "awake", "late"} /\ Len(queue') = 0
        /\ UNCHANGED <<queue, closed, closer>>
    <3>1. queue = <<>> /\ UNCHANGED <<queue, closed, closer>>
      BY <1>4 DEF FindEmpty, FindClosed
    <3>2. QED BY <1>4, <3>1 DEF FindEmpty, FindClosed, Looks
  <2>3. ReceiversUp' \in Nat
    <3>1. Among(Receivers, Up)' \in SUBSET Receivers
      BY DEF Among
    <3>2. QED BY <3>1, SidesAreFinite, FS_Subset, FS_CardinalityType DEF ReceiversUp
  <2>4. /\ ReceiversTelling' = ReceiversTelling
        /\ SendersUp' = SendersUp /\ SendersTelling' = SendersTelling
        /\ v = "idle" => (ReceiverSleeps' => ReceiverSleeps)
        /\ SenderSleeps' <=> SenderSleeps
        /\ Naturals4
    BY <2>1, <2>2, ReceiverRests
  <2>5. ReceiverSleeps' =>
           /\ closed' => closer' \in {"wakeSenders", "wakeReceivers"}
           /\ Len(queue') <= ReceiversUp' + SendersTelling'
    <3>1. SendersTelling' \in Nat
      BY <2>4 DEF Naturals4
    <3>2. Len(queue') <= ReceiversUp' + SendersTelling'
      <4>1. \A a, b \in Nat : 0 <= a + b
        OBVIOUS
      <4>2. 0 <= ReceiversUp' + SendersTelling'
        BY ONLY <2>3, <3>1, <4>1
      <4>3. Len(queue') = 0
        BY <2>2
      <4>4. QED BY <4>2, <4>3, Zenon
    <3>3. closed' /\ ReceiverSleeps' => closer' \in {"wakeSenders", "wakeReceivers"}
      BY <2>1, <2>2, <2>4 DEF Announced
    <3>4. QED BY <3>2, <3>3
  <2>6. SenderSleeps' =>
           /\ closed' => closer' = "wakeSenders"
           /\ ~closed' => Slots - Len(queue') <= SendersUp' + ReceiversTelling'
    BY <2>2, <2>4 DEF Announced
  <2>7. QED BY <2>5, <2>6 DEF Announced
<1>5. ASSUME NEW s \in Senders, Rouse(s) PROVE Announced'
  <2>1. PICK v \in Up : thread' = [thread EXCEPT ![s] = v]
    BY <1>5 DEF Rouse, Up
  <2>2. thread[s] = "asleep" /\ UNCHANGED <<queue, closed, closer>>
    BY <1>5 DEF Rouse
  <2>3. /\ SendersTelling' = SendersTelling /\ SendersUp' = SendersUp + 1
        /\ ReceiversUp' = ReceiversUp /\ ReceiversTelling' = ReceiversTelling
        /\ (SenderSleeps' => SenderSleeps) /\ (ReceiverSleeps' <=> ReceiverSleeps)
        /\ Naturals4
    BY <2>1, <2>2, SenderWakes
  <2>4. QED BY <1>0, <2>2, <2>3 DEF Announced, Naturals4
<1>6. ASSUME NEW r \in Receivers, Rouse(r) PROVE Announced'
  <2>1. PICK v \in Up : thread' = [thread EXCEPT ![r] = v]
    BY <1>6 DEF Rouse, Up
  <2>2. thread[r] = "asleep" /\ UNCHANGED <<queue, closed, closer>>
    BY <1>6 DEF Rouse
  <2>3. /\ ReceiversTelling' = ReceiversTelling /\ ReceiversUp' = ReceiversUp + 1
        /\ SendersUp' = SendersUp /\ SendersTelling' = SendersTelling
        /\ (ReceiverSleeps' => ReceiverSleeps) /\ (SenderSleeps' <=> SenderSleeps)
        /\ Naturals4
    BY <2>1, <2>2, ReceiverWakes
  <2>4. QED BY <1>0, <2>2, <2>3 DEF Announced, Naturals4
<1>7. ASSUME NEW s \in Senders, TellOne(s, Receivers) PROVE Announced'
  <2>1. UNCHANGED <<queue, closed, closer>>
    BY <1>7 DEF TellOne
  <2>2. CASE ReceiverSleeps
    BY <1>0, <1>7, <2>1, <2>2, SenderTells DEF Announced, Naturals4
  <2>3. CASE ~ReceiverSleeps
    <3>1. thread' = [thread EXCEPT ![s] = "idle"] /\ thread[s] = "notifying"
      BY <1>7, <2>3 DEF TellOne, ReceiverSleeps
    <3>2. /\ SendersUp' = SendersUp - (IF thread[s] \in Up THEN 1 ELSE 0)
                                    + (IF "idle" \in Up THEN 1 ELSE 0)
          /\ ReceiversTelling' = ReceiversTelling
          /\ (SenderSleeps' => SenderSleeps) /\ (ReceiverSleeps' <=> ReceiverSleeps)
          /\ Naturals4
      BY <3>1, "idle" # "asleep", SenderMoves
    <3>3. SendersUp' = SendersUp
      BY <3>1, <3>2 DEF Up, Naturals4
    <3>4. QED BY <2>1, <2>3, <3>2, <3>3 DEF Announced
  <2>4. QED BY <2>2, <2>3
<1>8. ASSUME NEW r \in Receivers, TellOne(r, Senders) PROVE Announced'
  <2>1. UNCHANGED <<queue, closed, closer>>
    BY <1>8 DEF TellOne
  <2>2. CASE SenderSleeps
    BY <1>0, <1>8, <2>1, <2>2, ReceiverTells DEF Announced, Naturals4
  <2>3. CASE ~SenderSleeps
    <3>1. thread' = [thread EXCEPT ![r] = "idle"] /\ thread[r] = "notifying"
      BY <1>8, <2>3 DEF TellOne, SenderSleeps
    <3>2. /\ ReceiversUp' = ReceiversUp - (IF thread[r] \in Up THEN 1 ELSE 0)
                                        + (IF "idle" \in Up THEN 1 ELSE 0)
          /\ SendersTelling' = SendersTelling
          /\ (SenderSleeps' <=> SenderSleeps) /\ (ReceiverSleeps' => ReceiverSleeps)
          /\ Naturals4
      BY <3>1, "idle" # "asleep", ReceiverMoves
    <3>3. ReceiversUp' = ReceiversUp
      BY <3>1, <3>2 DEF Up, Naturals4
    <3>4. QED BY <2>1, <2>3, <3>2, <3>3 DEF Announced
  <2>4. QED BY <2>2, <2>3
<1>9. CASE Close
  <2>1. UNCHANGED <<SendersUp, ReceiversUp, SendersTelling, ReceiversTelling,
                    SenderSleeps, ReceiverSleeps>>
    BY <1>9 DEF Close, SendersUp, ReceiversUp, SendersTelling, ReceiversTelling,
                SenderSleeps, ReceiverSleeps, Among
  <2>2. closed' /\ ~closed /\ closer' = "wakeSenders" /\ queue' = queue
    BY <1>9 DEF Close
  <2>3. QED BY <2>1, <2>2 DEF Announced
<1>10. CASE WakeSenders
  <2>1. /\ UNCHANGED <<queue, closed>> /\ closer' = "wakeReceivers" /\ closed
        /\ \A t \in Senders : thread'[t] # "asleep"
        /\ \A t \in Receivers : thread'[t] = thread[t]
    BY <1>0, <1>10, SidesAreFinite DEF WakeSenders, TellAll, Threads
  <2>2. ~SenderSleeps'
    BY <2>1 DEF SenderSleeps, Among
  <2>3. /\ ReceiverSleeps' = ReceiverSleeps /\ ReceiversUp' = ReceiversUp
    BY <2>1 DEF ReceiverSleeps, ReceiversUp, Among
  <2>4. SendersTelling' = SendersTelling
    <3>1. \A t \in Senders : thread'[t] = "notifying" <=> thread[t] = "notifying"
      BY <1>10 DEF WakeSenders, TellAll, Threads
    <3>2. Among(Senders, {"notifying"})' = Among(Senders, {"notifying"})
      BY <3>1 DEF Among
    <3>3. QED BY <3>2 DEF SendersTelling
  <2>5. QED BY <2>1, <2>2, <2>3, <2>4 DEF Announced
<1>11. CASE WakeReceivers
  <2>1. /\ UNCHANGED <<queue, closed>> /\ closer = "wakeReceivers" /\ closed
        /\ \A t \in Receivers : thread'[t] # "asleep"
        /\ \A t \in Senders : thread'[t] = thread[t]
    BY <1>0, <1>11, SidesAreFinite DEF WakeReceivers, TellAll, Threads
  <2>2. ~ReceiverSleeps'
    BY <2>1 DEF ReceiverSleeps, Among
  <2>3. SenderSleeps' = SenderSleeps
    BY <2>1 DEF SenderSleeps, Among
  <2>4. QED BY <2>1, <2>2, <2>3 DEF Announced
<1>12. CASE UNCHANGED channelVars
  BY <1>12 DEF channelVars, Announced, SendersUp, ReceiversUp, SendersTelling,
               ReceiversTelling, SenderSleeps, ReceiverSleeps, Among
<1>13. QED
  BY <1>1, <1>2, <1>3, <1>4, <1>5, <1>6, <1>7, <1>8, <1>9, <1>10, <1>11, <1>12
     DEF ChannelNext, SenderStep, ReceiverStep, Threads

(* The channel notifies outside the mutex too, on two condition variables, *)
(* and close() adds its own notifications: still no message and no free    *)
(* place is left unannounced to a thread that sleeps, and nobody sleeps on *)
(* in a closed channel.                                                    *)
THEOREM ChannelLosesNoWakeup == ChannelSpec => []NoWakeupLost
<1>1. ChannelInit => ChannelInv
  <2> SUFFICES ASSUME ChannelInit PROVE ChannelInv
    OBVIOUS
  <2>1. ChannelShape
    <3>1. queue \in Seq(Nat) /\ Len(queue) = 0
      BY DEF ChannelInit
    <3>2. closed \in BOOLEAN /\ closer = "idle" /\ accepted \in Nat
          /\ thread \in [Threads -> {"idle", "asleep", "awake", "late", "notifying"}]
      BY DEF ChannelInit
    <3>3. QED BY <3>1, <3>2, SlotsAreNatural DEF ChannelShape, ChannelTypeOK
  <2>2. ~SenderSleeps /\ ~ReceiverSleeps
    BY DEF ChannelInit, SenderSleeps, ReceiverSleeps, Among, Threads
  <2>3. QED BY <2>1, <2>2 DEF ChannelInv, Announced
<1>2. ChannelInv /\ [ChannelNext]_channelVars => ChannelInv'
  BY ShapeSteps, AnnouncedSteps DEF ChannelInv
<1>3. ChannelInv => NoWakeupLost
  BY AnnouncedIsNoWakeupLost DEF ChannelInv
<1>4. QED BY <1>1, <1>2, <1>3, PTL DEF ChannelSpec

-----------------------------------------------------------------------------
(* The engine and its context: EngineIsSound                               *)

EngineSpec == EngineInit /\ [][EngineNext \/ BusesNext]_engineVars

MainPlaces == {"out", "freeze", "publish", "test", "wait", "leave", "returned", "ending", "gone"}
              \cup Draining
WorkTypes ==
    /\ mainPc \in MainPlaces /\ pumping \in BOOLEAN
    /\ posts \in Seq(Work) /\ swapped \in Seq(Work) /\ posted \in Seq(Work) /\ ran \in Seq(Work)
    /\ early \in Nat
(* Everything posted has run, is in the batch or in the queue, in that     *)
(* order.                                                                  *)
NothingDropped == posted = ran \o (swapped \o posts)
(* The last drain begins after the shutdown and has all that was posted    *)
(* before it in its batch.                                                 *)
DrainInv ==
    /\ early <= Len(posted)
    /\ pumping => mainPc \in Draining
    /\ ~pumping => swapped = <<>>
    /\ stopRequested = asked
    /\ mainPc \in {"final", "leave", "returned"} => asked
    /\ mainPc \in {"final", "last"} /\ pumping => Len(ran) + Len(swapped) >= early
    /\ mainPc \in {"leave", "returned", "gone"} => Len(ran) >= early
FreezeInv ==
    /\ mainPc = "publish" => frozen
    /\ running => frozen
WorkInv == WorkTypes /\ NothingDropped /\ DrainInv /\ FreezeInv

(* An index is given out once, and what is stored there stays.             *)
ServiceInv ==
    /\ serviceIndex \in Nat /\ IsFiniteSet(issued) /\ serviceIndex = Cardinality(issued) + 1
    /\ DOMAIN services = 1 .. MaxStamps /\ DOMAIN stamp = Services
    /\ \A i \in 1 .. MaxStamps : i >= serviceIndex => services[i] = Free
    /\ \A entry \in issued :
          /\ entry[1][1] \in 1 .. serviceIndex - 1 /\ entry[1][1] <= MaxStamps
          /\ services[entry[1][1]] = entry[2]
    /\ \A s \in Stamped : stamp[s] # NoStamp => <<stamp[s], s>> \in issued
(* A bus that was made is under its id.                                    *)
BusCalls == [id : Nat, asks : Nat, made : BOOLEAN]
BusInv ==
    /\ busIdCounter \in Nat /\ busCalls \in Seq(BusCalls)
    /\ \A k \in DOMAIN busCalls : busCalls[k].made =>
          busCalls[k].id \in DOMAIN userBuses /\ userBuses[busCalls[k].id] = k
EngineInv == WorkInv /\ ServiceInv /\ BusInv

LEMMA EngineStarts == EngineInit => EngineInv
<1> SUFFICES ASSUME EngineInit PROVE EngineInv
  OBVIOUS
<1>1. <<>> \in Seq(Work) /\ Len(<<>>) = 0 /\ <<>> \o (<<>> \o <<>>) = <<>>
  BY EmptySeq, ConcatEmptySeq
<1>2. WorkInv
  <2>1. WorkTypes
    <3>1. /\ mainPc = "out" /\ pumping = FALSE /\ early = 0
          /\ posts = <<>> /\ swapped = <<>> /\ posted = <<>> /\ ran = <<>>
      BY DEF EngineInit
    <3>2. QED BY <1>1, <3>1 DEF WorkTypes, MainPlaces
  <2>2. NothingDropped
    BY <1>1 DEF EngineInit, NothingDropped
  <2>3. DrainInv /\ FreezeInv
    <3>1. /\ mainPc = "out" /\ pumping = FALSE /\ early = 0 /\ swapped = <<>> /\ posted = <<>>
          /\ stopRequested = FALSE /\ asked = FALSE /\ running = FALSE
      BY DEF EngineInit
    <3>2. early <= Len(posted)
      BY <1>1, <3>1
    <3>3. QED BY <3>1, <3>2 DEF DrainInv, FreezeInv
  <2>4. QED BY <2>1, <2>2, <2>3 DEF WorkInv
<1>3. ServiceInv
  BY FS_EmptySet, EngineAssumption DEF EngineInit, ContextInit, ServiceInv
<1>4. BusInv
  <2>1. DOMAIN busCalls = {} /\ busCalls \in Seq(BusCalls)
    BY DEF EngineInit
  <2>2. busIdCounter \in Nat
    BY DEF EngineInit, ContextInit, SystemBus
  <2>3. QED BY <2>1, <2>2 DEF BusInv
<1>5. QED BY <1>2, <1>3, <1>4 DEF EngineInv

-----------------------------------------------------------------------------
(* Runs of work one after the other, however they are put together.        *)
LEMMA RunsAssociate ==
    \A r, b, q \in Seq(Work) : (r \o b) \o q = r \o (b \o q)
<1> SUFFICES ASSUME NEW r \in Seq(Work), NEW b \in Seq(Work), NEW q \in Seq(Work)
             PROVE  (r \o b) \o q = r \o (b \o q)
  OBVIOUS
<1>1. QED BY ConcatAssociative, SMTT(30)

(* What runs next is what is first in the batch.                           *)
LEMMA BatchGoesOn ==
    ASSUME NEW r \in Seq(Work), NEW b \in Seq(Work), NEW q \in Seq(Work), b # <<>>
    PROVE  r \o (b \o q) = Append(r, Head(b)) \o (Tail(b) \o q)
<1>1. /\ Head(b) \in Work /\ Tail(b) \in Seq(Work) /\ Len(Tail(b)) = Len(b) - 1
      /\ Head(b) = b[1] /\ \A i \in 1 .. Len(Tail(b)) : Tail(b)[i] = b[i + 1]
  BY HeadTailProperties
<1>2. b = <<Head(b)>> \o Tail(b) /\ <<Head(b)>> \in Seq(Work)
  BY <1>1
<1>3. Append(r, Head(b)) = r \o <<Head(b)>>
  BY <1>1, AppendIsConcat
<1>4. PICK h \in Seq(Work) : b = h \o Tail(b) /\ Append(r, Head(b)) = r \o h
  BY <1>1, <1>2, <1>3
<1>5. PICK t \in Seq(Work) : t = Tail(b)
  BY <1>1
<1>6. t \o q \in Seq(Work)
  BY ConcatProperties
<1>7. (h \o t) \o q = h \o (t \o q)
  BY RunsAssociate
<1>8. PICK m \in Seq(Work) : m = t \o q
  BY <1>6
<1>9. (r \o h) \o m = r \o (h \o m)
  BY RunsAssociate
<1>10. QED BY <1>4, <1>5, <1>7, <1>8, <1>9, Zenon

(* What is posted comes last.                                              *)
LEMMA PostComesLast ==
    ASSUME NEW r \in Seq(Work), NEW b \in Seq(Work), NEW q \in Seq(Work), NEW w \in Work
    PROVE  Append(r \o (b \o q), w) = r \o (b \o Append(q, w))
<1>1. <<w>> \in Seq(Work) /\ b \o q \in Seq(Work) /\ r \o (b \o q) \in Seq(Work)
  BY ConcatProperties
<1>2. Append(q, w) = q \o <<w>> /\ Append(r \o (b \o q), w) = (r \o (b \o q)) \o <<w>>
  BY <1>1, AppendIsConcat
<1>3. (r \o (b \o q)) \o <<w>> = r \o ((b \o q) \o <<w>>)
  BY <1>1, ConcatAssociative
<1>4. (b \o q) \o <<w>> = b \o (q \o <<w>>)
  BY <1>1, ConcatAssociative
<1>5. QED BY <1>2, <1>3, <1>4

LEMMA CourseKeepsWork == ASSUME WorkInv, Course PROVE WorkInv'
<1> USE DEF WorkInv, WorkTypes, MainPlaces, Draining
<1>0. Len(posted) \in Nat /\ Len(ran) \in Nat /\ Len(swapped) \in Nat /\ Len(posts) \in Nat
  OBVIOUS
<1>1. CASE EnterRun
  BY <1>1 DEF EnterRun, Go, queueVars, NothingDropped, DrainInv, FreezeInv
<1>2. CASE Freeze("freeze", "publish")
  BY <1>2 DEF Freeze, Go, queueVars, NothingDropped, DrainInv, FreezeInv
<1>3. CASE Freeze("ending", "last")
  BY <1>3 DEF Freeze, Go, queueVars, NothingDropped, DrainInv, FreezeInv
<1>4. CASE Publish
  BY <1>4 DEF Publish, Go, queueVars, NothingDropped, DrainInv, FreezeInv
<1>5. CASE TestShutdown
  BY <1>5 DEF TestShutdown, LastDrain, queueVars, NothingDropped, DrainInv, FreezeInv
<1>6. CASE WakeFromWait
  BY <1>6 DEF WakeFromWait, Go, queueVars, NothingDropped, DrainInv, FreezeInv
<1>7. CASE LeaveRun
  BY <1>7 DEF LeaveRun, Go, queueVars, NothingDropped, DrainInv, FreezeInv
<1>8. CASE Shutdown
  <2>1. early' \in Nat /\ early' <= Len(posted)
    BY <1>0, <1>8 DEF Shutdown, DrainInv
  <2>2. mainPc \in {"final", "last"} /\ pumping => Len(ran) + Len(swapped) >= early'
    BY <1>8 DEF Shutdown, DrainInv
  <2>3. mainPc \notin {"leave", "returned", "gone"}
    BY <1>8 DEF Shutdown, DrainInv
  <2>4. QED BY <1>8, <2>1, <2>2, <2>3
        DEF Shutdown, RequestStop, queueVars, NothingDropped, DrainInv, FreezeInv
<1>9. CASE Destroy
  <2>1. mainPc \in {"out", "returned"} /\ mainPc' = "ending"
    BY <1>9 DEF Destroy, Go
  <2>2. QED BY <1>0, <1>9, <2>1 DEF Destroy, queueVars, NothingDropped, DrainInv, FreezeInv
<1>10. CASE SwapPosts
  <2>1. swapped = <<>> /\ posted = ran \o posts /\ posts \o <<>> = posts
    <3>1. swapped = <<>>
      BY <1>10 DEF SwapPosts, DrainInv
    <3>2. <<>> \o posts = posts /\ posts \o <<>> = posts
      BY ConcatEmptySeq
    <3>3. QED BY <3>1, <3>2 DEF NothingDropped
  <2>2. Len(posted) = Len(ran) + Len(posts)
    BY <2>1, ConcatProperties
  <2>3. <<>> \in Seq(Work)
    OBVIOUS
  <2>4. QED BY <1>10, <2>1, <2>2, <2>3 DEF SwapPosts, NothingDropped, DrainInv, FreezeInv
<1>11. CASE RunNext
  <2>1. /\ Head(swapped) \in Work /\ Tail(swapped) \in Seq(Work)
        /\ Len(Tail(swapped)) = Len(swapped) - 1
        /\ Append(ran, Head(swapped)) \in Seq(Work) /\ Len(Append(ran, Head(swapped))) = Len(ran) + 1
    BY <1>11, HeadTailProperties, AppendProperties DEF RunNext
  <2>2. ran \o (swapped \o posts) = Append(ran, Head(swapped)) \o (Tail(swapped) \o posts)
    BY <1>11, BatchGoesOn DEF RunNext
  <2>3. QED BY <1>0, <1>11, <2>1, <2>2 DEF RunNext, NothingDropped, DrainInv, FreezeInv
<1>12. CASE EndPump
  <2>1. swapped = <<>> /\ Len(swapped) = 0 /\ mainPc \in {"pump", "final", "last"}
    BY <1>12, EmptySeq DEF EndPump, DrainInv
  <2>2. mainPc' = CASE mainPc = "pump" -> "wait" [] mainPc = "final" -> "leave"
                    [] mainPc = "last" -> "gone"
    BY <1>12 DEF EndPump, AfterDrain
  <2>3. /\ mainPc = "pump" => mainPc' = "wait"
        /\ mainPc = "final" => mainPc' = "leave"
        /\ mainPc = "last" => mainPc' = "gone"
    BY <2>1, <2>2
  <2>4. UNCHANGED <<stopRequested, running, frozen, asked, early, posts, swapped, posted, ran>>
        /\ pumping /\ pumping' = FALSE
    BY <1>12 DEF EndPump
  <2>5. Len(ran) + Len(swapped) = Len(ran)
    BY <1>0, <2>1
  <2>6. DrainInv'
    BY <1>0, <2>1, <2>3, <2>4, <2>5 DEF DrainInv
  <2>7. QED BY <2>1, <2>3, <2>4, <2>6 DEF NothingDropped, FreezeInv
<1>13. QED BY <1>1, <1>2, <1>3, <1>4, <1>5, <1>6, <1>7, <1>8, <1>9, <1>10, <1>11, <1>12
       DEF Course, MainNext

LEMMA PostKeepsWork == ASSUME WorkInv, NEW w \in Work, Post(w) PROVE WorkInv'
<1> USE DEF WorkInv, WorkTypes
<1>1. /\ Append(posts, w) \in Seq(Work) /\ Append(posted, w) \in Seq(Work)
      /\ Len(Append(posted, w)) = Len(posted) + 1 /\ Len(posted) \in Nat
  BY AppendProperties
<1>2. posted' = ran \o (swapped \o posts')
  BY PostComesLast DEF Post, NothingDropped
<1>3. QED BY <1>1, <1>2 DEF Post, NothingDropped, DrainInv, FreezeInv

LEMMA WorkKeeps == WorkInv /\ [EngineNext \/ BusesNext]_engineVars => WorkInv'
<1> SUFFICES ASSUME WorkInv, [EngineNext \/ BusesNext]_engineVars PROVE WorkInv'
  OBVIOUS
<1>1. CASE UNCHANGED <<mainPc, stopRequested, running, frozen, asked, early, queueVars>>
  BY <1>1 DEF queueVars, WorkInv, WorkTypes, NothingDropped, DrainInv, FreezeInv
<1>2. ASSUME NEW s \in Services, RegisterService(s) PROVE WorkInv'
  BY <1>1, <1>2 DEF RegisterService
<1>3. ASSUME NEW asks \in AskedIds, CreateMessageBus(asks) PROVE WorkInv'
  BY <1>1, <1>3 DEF CreateMessageBus
<1>4. CASE UNCHANGED engineVars
  BY <1>1, <1>4 DEF engineVars, queueVars
<1>5. QED BY <1>2, <1>3, <1>4, CourseKeepsWork, PostKeepsWork DEF EngineNext, BusesNext

-----------------------------------------------------------------------------
LEMMA RegisterKeeps == ASSUME ServiceInv, NEW s \in Services, RegisterService(s) PROVE ServiceInv'
<1>k. PICK k : k = serviceIndex
  OBVIOUS
<1>i. PICK id : id = <<serviceIndex, serviceGen>>
  OBVIOUS
<1>1. /\ k \in Nat /\ k \in 1 .. MaxStamps /\ services[k] = Free /\ id[1] = k
      /\ services' = [services EXCEPT ![k] = s] /\ serviceIndex' = k + 1
      /\ stamp' = (IF s \in Stamped THEN [stamp EXCEPT ![s] = id] ELSE stamp)
      /\ issued' = issued \cup {<<id, s>>}
  <2>1. Cardinality(issued) < MaxStamps /\ Cardinality(issued) \in Nat /\ k = Cardinality(issued) + 1
    BY <1>k, FS_CardinalityType DEF RegisterService, ServiceInv
  <2>2. k \in 1 .. MaxStamps /\ services[k] = Free
    BY <1>k, <2>1, EngineAssumption DEF ServiceInv
  <2>3. QED BY <1>k, <1>i, <2>1, <2>2 DEF RegisterService, IndexAfter, ServiceInv
<1>2. <<id, s>> \notin issued
  <2>1. \A entry \in issued : entry[1][1] # k
    BY <1>k, <1>1 DEF ServiceInv
  <2>2. QED BY <1>1, <2>1
<1>3. IsFiniteSet(issued') /\ serviceIndex' = Cardinality(issued') + 1
  BY <1>1, <1>2, <1>k, FS_AddElement DEF ServiceInv
<1>4. ASSUME NEW entry \in issued'
      PROVE  /\ entry[1][1] \in 1 .. serviceIndex' - 1 /\ entry[1][1] <= MaxStamps
             /\ services'[entry[1][1]] = entry[2]
  <2>1. CASE entry = <<id, s>>
    BY <1>1, <2>1 DEF ServiceInv
  <2>2. CASE entry \in issued
    <3>1. entry[1][1] \in 1 .. k - 1 /\ entry[1][1] <= MaxStamps /\ services[entry[1][1]] = entry[2]
      BY <1>k, <2>2 DEF ServiceInv
    <3>2. QED BY <1>1, <3>1, EngineAssumption DEF ServiceInv
  <2>3. QED BY <1>1, <2>1, <2>2
<1>5. \A x \in Stamped : stamp'[x] # NoStamp => <<stamp'[x], x>> \in issued'
  BY <1>1, EngineAssumption DEF ServiceInv
<1>6. DOMAIN services' = 1 .. MaxStamps /\ DOMAIN stamp' = Services
      /\ \A i \in 1 .. MaxStamps : i >= serviceIndex' => services'[i] = Free
  BY <1>1, <1>k DEF ServiceInv
<1>7. serviceIndex' \in Nat
  BY <1>1
<1>8. QED BY <1>3, <1>4, <1>5, <1>6, <1>7 DEF ServiceInv

LEMMA BusKeeps == ASSUME BusInv, NEW asks \in AskedIds, CreateMessageBus(asks) PROVE BusInv'
<1>i. PICK id : id = ResolvedId(asks)
  OBVIOUS
<1>n. PICK n : n = Len(busCalls) + 1
  OBVIOUS
<1>f. PICK fresh : fresh = (id \notin DOMAIN userBuses)
  OBVIOUS
<1>1. /\ id \in Nat /\ n \in Nat /\ busIdCounter' \in Nat
      /\ userBuses' = [i \in DOMAIN userBuses \cup {id} |->
                           IF i = id /\ fresh THEN n ELSE userBuses[i]]
      /\ busCalls' = Append(busCalls, [id |-> id, asks |-> asks, made |-> fresh])
  <2>1. asks \in Nat /\ busIdCounter \in Nat /\ Len(busCalls) \in Nat
    BY EngineAssumption DEF BusInv
  <2>2. id \in Nat
    BY <1>i, <2>1 DEF ResolvedId
  <2>3. busIdCounter' \in Nat
    BY <2>1 DEF CreateMessageBus
  <2>4. /\ userBuses' = [i \in DOMAIN userBuses \cup {id} |->
                             IF i = id /\ fresh THEN n ELSE userBuses[i]]
        /\ busCalls' = Append(busCalls, [id |-> id, asks |-> asks, made |-> fresh])
    BY <1>i, <1>n, <1>f, Zenon DEF CreateMessageBus
  <2>5. QED BY <1>n, <2>1, <2>2, <2>3, <2>4
<1>2. [id |-> id, asks |-> asks, made |-> fresh] \in BusCalls
  BY <1>1, <1>f, EngineAssumption DEF BusCalls
<1>3. /\ busCalls' \in Seq(BusCalls) /\ DOMAIN busCalls' = DOMAIN busCalls \cup {n}
      /\ busCalls'[n] = [id |-> id, asks |-> asks, made |-> fresh]
      /\ \A k \in DOMAIN busCalls : k # n /\ busCalls'[k] = busCalls[k]
  BY <1>1, <1>2, <1>n, AppendProperties DEF BusInv
<1>4. /\ \A i \in DOMAIN userBuses : i \in DOMAIN userBuses' /\ userBuses'[i] = userBuses[i]
      /\ fresh => id \in DOMAIN userBuses' /\ userBuses'[id] = n
  BY <1>1, <1>f
<1>5. ASSUME NEW k \in DOMAIN busCalls', busCalls'[k].made
      PROVE  busCalls'[k].id \in DOMAIN userBuses' /\ userBuses'[busCalls'[k].id] = k
  <2>1. CASE k = n
    BY <1>3, <1>4, <1>5, <2>1
  <2>2. CASE k \in DOMAIN busCalls
    BY <1>3, <1>4, <1>5, <2>2 DEF BusInv
  <2>3. QED BY <1>3, <2>1, <2>2
<1>6. QED BY <1>1, <1>3, <1>5 DEF BusInv

LEMMA EngineSteps == EngineInv /\ [EngineNext \/ BusesNext]_engineVars => EngineInv'
<1> SUFFICES ASSUME EngineInv, [EngineNext \/ BusesNext]_engineVars PROVE EngineInv'
  OBVIOUS
<1>1. WorkInv'
  BY WorkKeeps DEF EngineInv
<1>2. ASSUME UNCHANGED serviceVars PROVE ServiceInv'
  BY <1>2 DEF EngineInv, serviceVars, ServiceInv
<1>3. ASSUME UNCHANGED busVars PROVE BusInv'
  BY <1>3 DEF EngineInv, busVars, BusInv
<1>4. CASE Course \/ (\E w \in Work : Post(w)) \/ UNCHANGED engineVars
  <2>1. UNCHANGED registryVars
    BY <1>4 DEF Course, MainNext, EnterRun, Freeze, Publish, TestShutdown, SwapPosts, RunNext,
                EndPump, WakeFromWait, LeaveRun, Shutdown, Destroy, Post, engineVars
  <2>2. QED BY <1>1, <1>2, <1>3, <2>1 DEF EngineInv, registryVars
<1>5. ASSUME NEW s \in Services, RegisterService(s) PROVE EngineInv'
  BY <1>1, <1>3, <1>5, RegisterKeeps DEF EngineInv, RegisterService
<1>6. ASSUME NEW asks \in AskedIds, CreateMessageBus(asks) PROVE EngineInv'
  BY <1>1, <1>2, <1>6, BusKeeps DEF EngineInv, CreateMessageBus
<1>7. QED BY <1>4, <1>5, <1>6 DEF EngineNext, BusesNext

LEMMA EngineHolds == EngineInv => EngineIsSound
<1> SUFFICES ASSUME EngineInv PROVE EngineIsSound
  OBVIOUS
<1>1. WorkIsNotLost
  <2>1. swapped \o posts \in Seq(Work) /\ ran \in Seq(Work)
    BY ConcatProperties DEF EngineInv, WorkInv, WorkTypes
  <2>2. /\ Len(posted) = Len(ran) + Len(swapped \o posts)
        /\ \A i \in 1 .. Len(ran) : posted[i] = ran[i]
    BY <2>1, ConcatProperties DEF EngineInv, WorkInv, NothingDropped
  <2>3. Len(ran) <= Len(posted) /\ Len(ran) \in Nat /\ Len(posted) \in Nat /\ posted \in Seq(Work)
    BY <2>1, <2>2 DEF EngineInv, WorkInv, WorkTypes
  <2>4. ran = SubSeq(posted, 1, Len(ran))
    BY <2>1, <2>2, <2>3, SubSeqProperties
  <2>5. QED BY <2>3, <2>4 DEF WorkIsNotLost, EngineInv, WorkInv, DrainInv
<1>2. ServicesAreFound
  <2>1. ASSUME NEW s \in Stamped, stamp[s] # NoStamp PROVE ServiceAt(stamp[s]) = s
    BY <2>1 DEF EngineInv, ServiceInv, ServiceAt
  <2>2. \A entry \in issued : ServiceAt(entry[1]) \in {Free, entry[2]}
    BY DEF EngineInv, ServiceInv, ServiceAt
  <2>3. QED BY <2>1, <2>2 DEF ServicesAreFound, EngineInv, WorkInv, FreezeInv
<1>3. BusesAreFound
  BY DEF BusesAreFound, EngineInv, BusInv, MessageBus
<1>4. QED BY <1>1, <1>2, <1>3 DEF EngineIsSound

(* AbstractEngine and its context: no runnable that was posted before the  *)
(* shutdown, or the destructor, is left behind, and what was registered is *)
(* found under the id that was given out for it.                           *)
THEOREM EngineStaysSound == EngineSpec => []EngineIsSound
<1>1. QED BY EngineStarts, EngineSteps, EngineHolds, PTL DEF EngineSpec

-----------------------------------------------------------------------------
(* The event scheduler: CancelledGoesQuiet, NothingArmedAtTheEnd           *)

QuietSpec == (\E events \in SUBSET Events : SchedulerInit(events)) /\ [][SchedulerNext]_schedulerVars

CallPlaces == {"new", "checked", "armed", "returned", "refused"}
HandlePlaces == {"none", "held", "lowered", "cancelled"}
TimerPlaces == {"new", "active", "inactive", "gone"}
(* The shape of the state, and how far a call, its handle and its timer    *)
(* have got together.                                                      *)
EventTypes ==
    /\ call \in [Events -> CallPlaces] /\ handle \in [Events -> HandlePlaces]
    /\ timer \in [Timers -> TimerPlaces] /\ active \in [Events -> BOOLEAN]
    /\ late \in [Events -> Nat] /\ filed \subseteq Events
    /\ matches \subseteq Watchers /\ calling \in Timers \cup {None}
    /\ stage \in {"lookup", "gate", "deliver"}
    /\ calling = None => stage = "lookup"
HandleInv ==
    /\ \A e \in Events : handle[e] # "none" => call[e] = "returned"
    /\ \A e \in Events : call[e] = "returned" => handle[e] # "none"
    /\ \A e \in Events : handle[e] \in {"lowered", "cancelled"} => ~active[e]
    /\ \A t \in Timers : call[t] \in {"new", "checked", "refused"} => timer[t] = "new"
    /\ \A t \in Timers : handle[t] = "cancelled" => timer[t] # "active"
(* An event that was delivered late is not on its way any more.            *)
LateInv ==
    \A e \in Events :
        /\ late[e] <= 1
        /\ late[e] > 0 => /\ handle[e] = "cancelled" /\ e \notin matches
                          /\ ~(calling = e /\ stage = "deliver")
SchedulerInv == EventTypes /\ HandleInv /\ LateInv

LEMMA SchedulerStarts == \A events : SchedulerInit(events) => SchedulerInv
<1> SUFFICES ASSUME NEW events, SchedulerInit(events) PROVE SchedulerInv
  OBVIOUS
<1>1. \A t \in Timers : t \in Events
  BY DEF Events
<1>2. EventTypes
  BY DEF SchedulerInit, SourceInit, EventTypes, CallPlaces, HandlePlaces, TimerPlaces
<1>3. HandleInv
  BY <1>1 DEF SchedulerInit, SourceInit, HandleInv
<1>4. LateInv
  BY DEF SchedulerInit, LateInv
<1>5. QED BY <1>2, <1>3, <1>4 DEF SchedulerInv

(* The passes of the timer thread, which touch no call and no handle       *)
LEMMA TimersOnly ==
    ASSUME SchedulerInv, UNCHANGED <<call, handle, active, late, filed, matches, calling, stage>>,
           timer' \in [Timers -> TimerPlaces],
           \A t \in Timers : /\ timer[t] = "new" => timer'[t] = "new"
                             /\ timer'[t] = "active" => timer[t] = "active"
    PROVE  SchedulerInv'
<1>1. EventTypes'
  BY DEF SchedulerInv, EventTypes
<1>2. HandleInv'
  BY DEF SchedulerInv, HandleInv
<1>3. LateInv'
  BY DEF SchedulerInv, LateInv
<1>4. QED BY <1>1, <1>2, <1>3 DEF SchedulerInv

LEMMA CallKeepsQuiet ==
    ASSUME SchedulerInv, NEW e \in Events,
           LookAtFlag(e) \/ ArmSource(e) \/ File(e) \/ LowerFlag(e) \/ DisarmHandle(e)
    PROVE  SchedulerInv'
<1> USE DEF SchedulerInv
<1>0. /\ UNCHANGED <<late, matches, calling, stage>>
      /\ \A t \in Timers : t \in Events
      /\ \A f \in Events : f # e =>
             call'[f] = call[f] /\ handle'[f] = handle[f] /\ active'[f] = active[f]
      /\ \A t \in Timers : t # e => timer'[t] = timer[t]
  BY DEF EventTypes, LookAtFlag, ArmSource, File, LowerFlag, DisarmHandle, sourceVars, Arm, Disarm,
     Disarmed, Events
<1>1. CASE LookAtFlag(e)
  BY <1>0, <1>1 DEF LookAtFlag, sourceVars, EventTypes, HandleInv, LateInv, CallPlaces
<1>2. CASE ArmSource(e)
  <2>1. /\ call[e] = "checked" /\ call' = [call EXCEPT ![e] = call'[e]]
        /\ call'[e] \in {"armed", "refused"} /\ UNCHANGED <<handle, active, filed>>
        /\ e \in Timers => call'[e] = "armed" /\ timer' = [timer EXCEPT ![e] = "active"]
        /\ e \notin Timers => timer' = timer
    BY <1>2 DEF ArmSource, Arm, EventTypes, sourceVars
  <2>2. handle[e] = "none"
    BY <2>1 DEF HandleInv
  <2>3. EventTypes'
    BY <1>0, <2>1 DEF EventTypes, CallPlaces, TimerPlaces
  <2>4. HandleInv'
    BY <1>0, <2>1, <2>2 DEF HandleInv, EventTypes
  <2>5. LateInv'
    BY <1>0, <2>1 DEF LateInv
  <2>6. QED BY <2>3, <2>4, <2>5
<1>3. CASE File(e)
  <2>1. handle[e] = "none"
    BY <1>3 DEF File, HandleInv
  <2>2. EventTypes' /\ HandleInv'
    BY <1>0, <1>3, <2>1 DEF File, sourceVars, EventTypes, HandleInv, CallPlaces, HandlePlaces
  <2>3. LateInv'
    BY <1>0, <1>3, <2>1 DEF File, LateInv, EventTypes
  <2>4. QED BY <2>2, <2>3
<1>4. CASE LowerFlag(e)
  BY <1>0, <1>4 DEF LowerFlag, sourceVars, EventTypes, HandleInv, LateInv, HandlePlaces
<1>5. CASE DisarmHandle(e)
  <2>1. /\ handle[e] = "lowered" /\ handle' = [handle EXCEPT ![e] = "cancelled"]
        /\ UNCHANGED <<call, active, filed>>
    BY <1>5 DEF DisarmHandle
  <2>2. /\ timer' \in [Timers -> TimerPlaces]
        /\ \A t \in Timers : timer[t] = "new" => timer'[t] = "new"
        /\ e \in Timers => timer'[e] # "active"
    BY <1>5 DEF DisarmHandle, Disarm, Disarmed, sourceVars, EventTypes, TimerPlaces
  <2>3. EventTypes'
    BY <1>0, <2>1, <2>2 DEF EventTypes, HandlePlaces
  <2>4. HandleInv'
    BY <1>0, <2>1, <2>2 DEF HandleInv, EventTypes
  <2>5. LateInv'
    BY <1>0, <2>1 DEF LateInv, EventTypes
  <2>6. QED BY <2>3, <2>4, <2>5
<1>6. QED BY <1>1, <1>2, <1>3, <1>4, <1>5

LEMMA ShutdownKeepsQuiet == ASSUME SchedulerInv, RaiseShutdown \/ Sweep PROVE SchedulerInv'
<1>1. CASE RaiseShutdown
  BY <1>1 DEF RaiseShutdown, sourceVars, SchedulerInv, EventTypes, HandleInv, LateInv
<1>2. CASE Sweep
  <2>1. /\ UNCHANGED <<call, handle, late, matches, calling, stage>> /\ filed' = {}
        /\ active' \in [Events -> BOOLEAN] /\ \A e \in Events : active'[e] => active[e]
    BY <1>2 DEF Sweep, Disarm, SchedulerInv, EventTypes
  <2>2. /\ timer' \in [Timers -> TimerPlaces]
        /\ \A t \in Timers : /\ timer[t] = "new" => timer'[t] = "new"
                             /\ timer'[t] = "active" => timer[t] = "active"
    BY <1>2 DEF Sweep, Disarm, Disarmed, SchedulerInv, EventTypes, TimerPlaces
  <2>3. EventTypes'
    BY <2>1, <2>2 DEF SchedulerInv, EventTypes
  <2>4. HandleInv'
    BY <2>1, <2>2 DEF SchedulerInv, HandleInv
  <2>5. LateInv'
    BY <2>1 DEF SchedulerInv, LateInv
  <2>6. QED BY <2>3, <2>4, <2>5 DEF SchedulerInv
<1>3. QED BY <1>1, <1>2

LEMMA SourceKeepsQuiet ==
    ASSUME SchedulerInv, Scan \/ Unpark \/ WakeUp \/ NextPass \/ Tick \/ Stop,
           UNCHANGED <<call, handle, active, late, filed, matches, stage>>
    PROVE  SchedulerInv'
<1>1. CASE Scan
  <2>1. /\ timer' \in [Timers -> TimerPlaces]
        /\ \A t \in Timers : /\ timer[t] = "new" => timer'[t] = "new"
                             /\ timer'[t] = "active" => timer[t] = "active"
    BY <1>1 DEF Scan, Scanned, DueTimers, TimersIn, SchedulerInv, EventTypes, TimerPlaces
  <2>2. calling' = calling
    BY <1>1 DEF Scan
  <2>3. QED BY <2>1, <2>2, TimersOnly
<1>2. CASE Unpark \/ WakeUp \/ NextPass \/ Tick \/ Stop
  <2>1. UNCHANGED <<timer, calling>>
    BY <1>2 DEF Unpark, WakeUp, NextPass, Tick, Stop
  <2>2. timer \in [Timers -> TimerPlaces]
    BY DEF SchedulerInv, EventTypes
  <2>3. QED BY <2>1, <2>2, TimersOnly
<1>3. QED BY <1>1, <1>2

LEMMA CallbackKeepsQuiet ==
    ASSUME SchedulerInv, (\E t \in Timers : BeginCallback(t)) \/ Lookup \/ PassGate \/ StopAtGate \/ Deliver
    PROVE  SchedulerInv'
<1> USE DEF SchedulerInv
<1>0. None \notin Timers /\ (\A t \in Timers : t \in Events) /\ Timers \cap Watchers = {}
  BY TimerAssumption, SchedulerAssumption DEF Events
<1>1. ASSUME NEW t \in Timers, BeginCallback(t) PROVE SchedulerInv'
  BY <1>0, <1>1 DEF BeginCallback, CallBack, EventTypes, HandleInv, LateInv
<1>2. CASE Lookup
  BY <1>0, <1>2 DEF Lookup, Return, EventTypes, HandleInv, LateInv
<1>3. CASE PassGate
  <2>1. calling \in Timers /\ active[calling] /\ stage' = "deliver"
        /\ UNCHANGED <<call, handle, active, late, filed, matches, calling, timer>>
    BY <1>3 DEF PassGate, sourceVars, EventTypes
  <2>2. ~(late[calling] > 0)
    BY <1>0, <2>1 DEF LateInv, HandleInv
  <2>3. QED BY <1>0, <2>1, <2>2 DEF EventTypes, HandleInv, LateInv
<1>4. CASE StopAtGate
  <2>1. /\ calling' = None /\ stage' = "lookup" /\ calling \in Timers
        /\ UNCHANGED <<call, handle, late, filed, matches, timer>>
        /\ active' = active \/ active' = [active EXCEPT ![calling] = FALSE]
    BY <1>4 DEF StopAtGate, Return, EventTypes
  <2>2. active' \in [Events -> BOOLEAN] /\ \A e \in Events : active'[e] => active[e]
    BY <1>0, <2>1 DEF EventTypes
  <2>3. QED BY <1>0, <2>1, <2>2 DEF EventTypes, HandleInv, LateInv
<1>5. CASE Deliver
  <2>1. PICK t \in Timers : t = calling
    BY <1>5 DEF Deliver, EventTypes
  <2>2. /\ calling' = None /\ stage = "deliver" /\ stage' = "lookup"
        /\ UNCHANGED <<call, handle, filed, matches, timer>>
        /\ active' = [active EXCEPT ![t] = active[t] /\ Period[t] # 0]
        /\ late' = [late EXCEPT ![t] = IF handle[t] = "cancelled" /\ late[t] < 2
                                       THEN late[t] + 1 ELSE late[t]]
    BY <1>5, <2>1 DEF Deliver, Return, Counted
  <2>3. active' \in [Events -> BOOLEAN] /\ \A e \in Events : active'[e] => active[e]
    BY <1>0, <2>2 DEF EventTypes
  <2>4. late[t] = 0 /\ t \notin matches
    BY <1>0, <2>1, <2>2 DEF EventTypes, LateInv
  <2>5. late' \in [Events -> Nat] /\ LateInv'
    BY <1>0, <2>2, <2>4 DEF EventTypes, LateInv
  <2>6. EventTypes' /\ HandleInv'
    BY <1>0, <2>2, <2>3, <2>5 DEF EventTypes, HandleInv
  <2>7. QED BY <2>5, <2>6
<1>6. QED BY <1>1, <1>2, <1>3, <1>4, <1>5

LEMMA SignalKeepsQuiet ==
    ASSUME SchedulerInv, EnterOnSignal \/ \E w \in Watchers : DeliverSignal(w)
    PROVE  SchedulerInv'
<1> USE DEF SchedulerInv
<1>0. Timers \cap Watchers = {} /\ (\A w \in Watchers : w \in Events)
  BY SchedulerAssumption DEF Events
<1>1. CASE EnterOnSignal
  <2>1. /\ UNCHANGED <<timer, calling, call, active, filed, handle, stage, late>>
        /\ matches' \subseteq Watchers /\ \A w \in matches' : active[w]
    BY <1>1 DEF EnterOnSignal, Matching, sourceVars
  <2>2. LateInv'
    BY <1>0, <2>1 DEF LateInv, HandleInv
  <2>3. QED BY <2>1, <2>2 DEF EventTypes, HandleInv
<1>2. ASSUME NEW w \in Watchers, DeliverSignal(w) PROVE SchedulerInv'
  <2>1. /\ UNCHANGED <<timer, calling, call, active, filed, handle, stage>>
        /\ w \in matches /\ matches' = matches \ {w}
        /\ late' = [late EXCEPT ![w] = IF handle[w] = "cancelled" /\ late[w] < 2
                                       THEN late[w] + 1 ELSE late[w]]
    BY <1>2 DEF DeliverSignal, Counted, sourceVars
  <2>2. late[w] = 0 /\ ~(calling = w /\ stage = "deliver")
    <3>1. w \in Events /\ w \notin Timers
      BY <1>0
    <3>2. late[w] = 0
      BY <2>1, <3>1 DEF EventTypes, LateInv
    <3>3. QED BY <3>1, <3>2 DEF EventTypes
  <2>3. late' \in [Events -> Nat] /\ LateInv'
    BY <1>0, <2>1, <2>2 DEF EventTypes, LateInv
  <2>4. QED BY <2>1, <2>3 DEF EventTypes, HandleInv
<1>3. QED BY <1>1, <1>2

LEMMA SchedulerSteps == SchedulerInv /\ [SchedulerNext]_schedulerVars => SchedulerInv'
<1> SUFFICES ASSUME SchedulerInv, [SchedulerNext]_schedulerVars PROVE SchedulerInv'
  OBVIOUS
<1>1. CASE UNCHANGED <<timer, calling, call, active, filed, handle, stage, late, matches>>
  BY <1>1 DEF SchedulerInv, EventTypes, HandleInv, LateInv
<1>2. ASSUME ReadSignal \/ ReadSentinel \/ StopReader \/ (\E sig \in Signals : Raise(sig)),
             UNCHANGED OthersOfSignals
      PROVE  SchedulerInv'
  BY <1>1, <1>2 DEF OthersOfSignals, sourceVars
<1>3. ASSUME Scan \/ Unpark \/ WakeUp \/ NextPass \/ Tick \/ Stop, UNCHANGED OthersOfSource
      PROVE  SchedulerInv'
  BY <1>3, SourceKeepsQuiet DEF OthersOfSource
<1>4. CASE UNCHANGED schedulerVars
  BY <1>1, <1>4 DEF schedulerVars, sourceVars
<1>5. CASE ThreadStep
  BY <1>3, <1>5, CallbackKeepsQuiet DEF ThreadStep
<1>6. CASE ReaderStep
  BY <1>2, <1>6, SignalKeepsQuiet DEF ReaderStep
<1>7. CASE SchedulerNext
  BY <1>2, <1>3, <1>5, <1>6, <1>7, CallKeepsQuiet, ShutdownKeepsQuiet DEF SchedulerNext, ClockStep
<1>8. QED BY <1>4, <1>7

LEMMA SchedulerHolds == SchedulerInv => CancelledGoesQuiet /\ NothingArmedAtTheEnd
<1> SUFFICES ASSUME SchedulerInv PROVE CancelledGoesQuiet /\ NothingArmedAtTheEnd
  OBVIOUS
<1>1. CancelledGoesQuiet
  BY DEF SchedulerInv, LateInv, CancelledGoesQuiet
<1>2. NothingArmedAtTheEnd
  BY DEF SchedulerInv, HandleInv, NothingArmedAtTheEnd, TimersIn, Events
<1>3. QED BY <1>1, <1>2

(* DefaultEventScheduler: after cancel() has returned at most the delivery *)
(* that was in flight is made, and once it is shut down and every handle   *)
(* is gone no timer is armed, whichever schedule() raced the shutdown.     *)
THEOREM CancelledStayQuiet == QuietSpec => [](CancelledGoesQuiet /\ NothingArmedAtTheEnd)
<1>1. (\E events \in SUBSET Events : SchedulerInit(events)) => SchedulerInv
  BY SchedulerStarts
<1>2. QED BY <1>1, SchedulerHolds, SchedulerSteps, PTL DEF QuietSpec

-----------------------------------------------------------------------------
(* In the composition                                                      *)

LEMMA WaitersStep ==
    [Next]_<<schedulerVars, engineVars, syncVars, moving>> =>
        [SchedulerNext]_schedulerVars /\ [EngineNext \/ BusesNext]_engineVars
BY DEF Next

(* An event that is cancelled, or whose scheduler is shut down, goes quiet *)
(* in every behaviour of the composition (DefaultEventScheduler).          *)
THEOREM QuietStaysQuiet == Spec => []QuietMeansQuiet
<1>1. Init => SchedulerInv
  BY SchedulerStarts DEF Init
<1>2. SchedulerInv => QuietMeansQuiet
  BY SchedulerHolds DEF QuietMeansQuiet
<1>3. QED BY <1>1, <1>2, WaitersStep, SchedulerSteps, PTL DEF Spec

(* The engine in the composition: nothing posted is lost and everything    *)
(* that was registered is found (AbstractEngine, AbstractContext).         *)
THEOREM EngineInCompany == Spec => []EngineIsSound
<1>1. Init => EngineInit
  BY DEF Init
<1>2. Spec => EngineSpec
  BY <1>1, WaitersStep, PTL DEF Spec, EngineSpec
<1>3. QED BY <1>2, EngineStaysSound, PTL
=============================================================================
