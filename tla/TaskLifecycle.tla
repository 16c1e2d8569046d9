--------------------------- MODULE TaskLifecycle ---------------------------
(***************************************************************************)
(* What ITaskHandle and IThreadManager promise of every runnable handed to *)
(* a thread manager, whatever queues and threads serve it: it is entered   *)
(* at most once; its handle gets one result, which never changes; the      *)
(* result says truly whether the runnable ran; and a runnable whose handle *)
(* failed is never entered.                                                *)
(***************************************************************************)
CONSTANT Tasks

VARIABLES
    phase,   \* "new", "waiting", "running", "over"
    result   \* the handle: "pending", "ran" or "failed"

lifeVars == <<phase, result>>

LifeInit ==
    /\ phase = [t \in Tasks |-> "new"]
    /\ result = [t \in Tasks |-> "pending"]

Accept(t) ==
    /\ phase[t] = "new"
    /\ phase' = [phase EXCEPT ![t] = "waiting"]
    /\ UNCHANGED result

Start(t) ==
    /\ phase[t] = "waiting"
    /\ phase' = [phase EXCEPT ![t] = "running"]
    /\ UNCHANGED result

\* A runnable posted without a handle leaves the result pending.
Complete(t) ==
    /\ phase[t] = "running"
    /\ phase' = [phase EXCEPT ![t] = "over"]
    /\ \/ result' = [result EXCEPT ![t] = "ran"]
       \/ UNCHANGED result

\* A refusal fails one task; a teardown fails all that a queue still holds,
\* and drops those that carry no handle.
Fail(S) ==
    /\ \A t \in S : phase[t] \in {"new", "waiting"}
    /\ phase' = [t \in Tasks |-> IF t \in S THEN "over" ELSE phase[t]]
    /\ \E F \in SUBSET S :
          result' = [t \in Tasks |-> IF t \in F THEN "failed" ELSE result[t]]

LifeNext ==
    \/ \E t \in Tasks : Accept(t) \/ Start(t) \/ Complete(t)
    \/ \E S \in SUBSET Tasks : Fail(S)

LifeSpec == LifeInit /\ [][LifeNext]_lifeVars
=============================================================================
