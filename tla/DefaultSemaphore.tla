-------------------------- MODULE DefaultSemaphore --------------------------
(***************************************************************************)
(* vigine::threading::DefaultSemaphore: a counting semaphore over a mutex  *)
(* and a condition variable.  release() raises the count under the mutex   *)
(* and notifies one sleeper after it has let go of it, so other calls may  *)
(* take the permit between the two, or before the notified thread is back  *)
(* under the mutex.                                                        *)
(***************************************************************************)
EXTENDS Integers, FiniteSets

CONSTANTS
    Users,         \* the threads that call the semaphore
    Unhurried,     \* those that wait without a timeout
    InitialCount,
    MaxReleases    \* bound of the model: calls of release() explored

ASSUME SemaphoreAssumption ==
    /\ IsFiniteSet(Users)
    /\ InitialCount \in Nat
    /\ MaxReleases \in Nat

VARIABLES
    count,    \* _count
    user,     \* where each thread is
    released  \* history: the calls of release()

semaphoreVars == <<count, user, released>>

SemaphoreInit ==
    /\ count = InitialCount
    /\ user = [u \in Users |-> "idle"]
    /\ released = 0

In(stages) == {u \in Users : user[u] \in stages}

(* acquire() or tryAcquire() with a permit at hand.                        *)
Acquire(u) ==
    /\ user[u] = "idle"
    /\ count > 0
    /\ count' = count - 1
    /\ UNCHANGED <<user, released>>

(* acquire() without one; tryAcquire() returns false and changes nothing.  *)
Wait(u) ==
    /\ user[u] = "idle"
    /\ count = 0
    /\ user' = [user EXCEPT ![u] = "asleep"]
    /\ UNCHANGED <<count, released>>

(* A spurious wake-up, or the timeout.                                     *)
Stir(u) ==
    /\ user[u] = "asleep"
    /\ \/ user' = [user EXCEPT ![u] = "awake"]
       \/ u \notin Unhurried /\ user' = [user EXCEPT ![u] = "late"]
    /\ UNCHANGED <<count, released>>

(* Back under the mutex, the thread looks at the count once more.          *)
LookAgain(u) ==
    /\ user[u] \in {"awake", "late"}
    /\ IF count > 0
       THEN user' = [user EXCEPT ![u] = "idle"] /\ count' = count - 1
       ELSE /\ user' = [user EXCEPT ![u] = IF @ = "late" THEN "idle" ELSE "asleep"]
            /\ UNCHANGED count
    /\ UNCHANGED released

(* Mutant: only the release that makes the count positive notifies.        *)
ReleaseFirstOnly(u) ==
    /\ user[u] = "idle"
    /\ released < MaxReleases
    /\ released' = released + 1
    /\ count' = count + 1
    /\ user' = [user EXCEPT ![u] = IF count = 0 THEN "notifying" ELSE "idle"]

Release(u) ==
    /\ user[u] = "idle"
    /\ released < MaxReleases
    /\ released' = released + 1
    /\ count' = count + 1
    /\ user' = [user EXCEPT ![u] = "notifying"]

(* notify_one: some sleeper wakes, if there is one.                        *)
Notify(u) ==
    /\ user[u] = "notifying"
    /\ IF In({"asleep"}) = {}
       THEN user' = [user EXCEPT ![u] = "idle"]
       ELSE \E v \in In({"asleep"}) :
               user' = [user EXCEPT ![u] = "idle", ![v] = "awake"]
    /\ UNCHANGED <<count, released>>

SemaphoreNext ==
    \E u \in Users :
        Acquire(u) \/ Wait(u) \/ Stir(u) \/ LookAgain(u) \/ Release(u) \/ Notify(u)

SemaphoreSpec == SemaphoreInit /\ [][SemaphoreNext]_semaphoreVars

-----------------------------------------------------------------------------
(* Every variable has its type; the unsigned count never passes below 0.   *)
SemaphoreTypeOK ==
    /\ count \in Nat
    /\ user \in [Users -> {"idle", "asleep", "awake", "late", "notifying"}]
    /\ released \in Nat

(* No wake-up is lost: while a thread sleeps, every permit is on its way   *)
(* to a thread that is about to look for it, although notify_one is called *)
(* outside the mutex, permits are taken by threads that never slept and    *)
(* notified threads may time out at the same moment.                       *)
NoPermitUnannounced ==
    In({"asleep"}) # {} => count <= Cardinality(In({"awake", "late", "notifying"}))
=============================================================================
