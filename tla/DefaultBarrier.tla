--------------------------- MODULE DefaultBarrier ---------------------------
(***************************************************************************)
(* vigine::threading::DefaultBarrier: a reusable rendezvous of the threads *)
(* in Parties.  A party may give up after a timeout, which withdraws its   *)
(* arrival, and may drop out for good.  Each step is one critical section  *)
(* of _mutex; a party that waits is asleep in _cv until it is notified, a  *)
(* spurious wake-up comes or its timeout passes, and then looks again at   *)
(* the generation under the mutex, possibly much later.                    *)
(***************************************************************************)
EXTENDS Integers, FiniteSets

CONSTANTS
    Parties,   \* the threads the barrier was made for
    Patient,   \* those that wait without a timeout
    MaxPhases  \* bound of the model: phases explored

ASSUME BarrierAssumption ==
    /\ Parties # {} /\ IsFiniteSet(Parties)
    /\ MaxPhases \in Nat

VARIABLES
    parties,     \* _parties
    pending,     \* _pending
    generation,  \* _generation
    at,          \* where each party is: "out" of the barrier or inside _cv
    mine,        \* myGeneration of the call it makes
    dropped,     \* the parties that called arriveAndDrop
    passes       \* history: the calls of arriveAndWait that succeeded

barrierVars == <<parties, pending, generation, at, mine, dropped, passes>>

BarrierInit ==
    /\ parties = Cardinality(Parties)
    /\ pending = Cardinality(Parties)
    /\ generation = 0
    /\ at = [p \in Parties |-> "out"]
    /\ mine = [p \in Parties |-> 0]
    /\ dropped = {}
    /\ passes = [p \in Parties |-> 0]

(* A party outside, that may still call.                                   *)
Outside(p) == at[p] = "out" /\ p \notin dropped /\ generation < MaxPhases

(* notify_all: every sleeper will look again.                              *)
AllAwake == [p \in Parties |-> IF at[p] = "asleep" THEN "awake" ELSE at[p]]

(* The last arrival resets the barrier for the n parties that are left.    *)
CompletePhase(n) ==
    /\ pending' = n
    /\ generation' = generation + 1
    /\ at' = AllAwake

(* arriveAndWait up to the wait.  A barrier that every party has dropped   *)
(* out of lets the call pass and changes nothing, so it has no step here.  *)
ArriveLast(p) ==
    /\ Outside(p)
    /\ pending = 1
    /\ CompletePhase(parties)
    /\ passes' = [passes EXCEPT ![p] = @ + 1]
    /\ UNCHANGED <<parties, mine, dropped>>

ArriveAndSleep(p) ==
    /\ Outside(p)
    /\ pending > 1
    /\ pending' = pending - 1
    /\ at' = [at EXCEPT ![p] = "asleep"]
    /\ mine' = [mine EXCEPT ![p] = generation]
    /\ UNCHANGED <<parties, generation, dropped, passes>>

(* A spurious wake-up of the condition variable.                           *)
WakeSpuriously(p) ==
    /\ at[p] = "asleep"
    /\ at' = [at EXCEPT ![p] = "awake"]
    /\ UNCHANGED <<parties, pending, generation, mine, dropped, passes>>

(* The timeout passes; the party still has to take the mutex.              *)
TimeOut(p) ==
    /\ p \notin Patient
    /\ at[p] = "asleep"
    /\ at' = [at EXCEPT ![p] = "late"]
    /\ UNCHANGED <<parties, pending, generation, mine, dropped, passes>>

(* Back under the mutex: the phase is over, ...                            *)
ReturnPassed(p) ==
    /\ at[p] \in {"awake", "late"}
    /\ mine[p] # generation
    /\ at' = [at EXCEPT ![p] = "out"]
    /\ passes' = [passes EXCEPT ![p] = @ + 1]
    /\ UNCHANGED <<parties, pending, generation, mine, dropped>>

(* Mutant: a late party gives up without a last look at the generation.    *)
WithdrawUnchecked(p) ==
    /\ at[p] = "late"
    /\ pending' = pending + 1
    /\ at' = [at EXCEPT ![p] = "out"]
    /\ UNCHANGED <<parties, generation, mine, dropped, passes>>

(* ... or the time is and the arrival is withdrawn, ...                    *)
Withdraw(p) ==
    /\ at[p] = "late"
    /\ mine[p] = generation
    /\ pending' = pending + 1
    /\ at' = [at EXCEPT ![p] = "out"]
    /\ UNCHANGED <<parties, generation, mine, dropped, passes>>

(* ... or neither, and the party sleeps again.                             *)
SleepAgain(p) ==
    /\ at[p] = "awake"
    /\ mine[p] = generation
    /\ at' = [at EXCEPT ![p] = "asleep"]
    /\ UNCHANGED <<parties, pending, generation, mine, dropped, passes>>

(* Mutant: a drop that completes its phase leaves the next one to wait for *)
(* the party that dropped out.                                             *)
DropCounted(p) ==
    /\ Outside(p)
    /\ dropped' = dropped \cup {p}
    /\ parties' = parties - 1
    /\ IF pending = 1
       THEN CompletePhase(parties)
       ELSE pending' = pending - 1 /\ UNCHANGED <<generation, at>>
    /\ UNCHANGED <<mine, passes>>

(* arriveAndDrop counts as an arrival and shrinks the later phases.        *)
ArriveAndDrop(p) ==
    /\ Outside(p)
    /\ dropped' = dropped \cup {p}
    /\ parties' = parties - 1
    /\ IF pending = 1
       THEN CompletePhase(parties')
       ELSE pending' = pending - 1 /\ UNCHANGED <<generation, at>>
    /\ UNCHANGED <<mine, passes>>

Recheck(p) == ReturnPassed(p) \/ Withdraw(p) \/ SleepAgain(p)

BarrierNext ==
    \E p \in Parties :
        \/ ArriveLast(p) \/ ArriveAndSleep(p) \/ ArriveAndDrop(p)
        \/ WakeSpuriously(p) \/ TimeOut(p)
        \/ Recheck(p)

BarrierSpec == BarrierInit /\ [][BarrierNext]_barrierVars

-----------------------------------------------------------------------------
(* Every variable has its type.                                            *)
BarrierTypeOK ==
    /\ parties \in Nat
    /\ pending \in Nat
    /\ generation \in Nat
    /\ at \in [Parties -> {"out", "asleep", "awake", "late"}]
    /\ mine \in [Parties -> Nat]
    /\ dropped \subseteq Parties
    /\ passes \in [Parties -> Nat]

(* The parties that have arrived in this phase and wait for the others.    *)
Arrived == {p \in Parties : at[p] # "out" /\ mine[p] = generation}

(* pendingParties() is the number of parties the phase still waits for,    *)
(* whatever timeouts withdrew arrivals and whoever dropped out, so a phase *)
(* ends exactly when the last party that is left has arrived.              *)
PendingIsExact ==
    /\ parties = Cardinality(Parties \ dropped)
    /\ pending = parties - Cardinality(Arrived)

(* "all N calls return together": a party that has not dropped out has     *)
(* passed every phase that was completed, or is about to return from the   *)
(* last of them.  No party runs ahead and none is left behind.             *)
PhasesStayTogether ==
    \A p \in Parties \ dropped :
        passes[p] + (IF at[p] # "out" /\ mine[p] # generation THEN 1 ELSE 0) = generation

(* No sleeper misses the end of its phase: the notification cannot fall    *)
(* between a party's look at the generation and its sleep.                 *)
SleepersWaitForThisPhase ==
    \A p \in Parties : at[p] = "asleep" => mine[p] = generation
=============================================================================
