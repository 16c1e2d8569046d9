---------------------------- MODULE LegacyContext ---------------------------
(***************************************************************************)
(* vigine::Context, EntityManager and StateMachine, the frame in which     *)
(* both example programs run: services and systems that are made when a    *)
(* task asks the context for them by id and name, entities found by their  *)
(* alias, and a machine of four states, each with a flow of tasks.         *)
(*                                                                         *)
(* main() wires the states one after the other, then the machine runs on   *)
(* the same thread until no state is left.                                 *)
(***************************************************************************)
EXTENDS Integers, Sequences, TLC
Seqs == INSTANCE SequencesExt

CONSTANTS
    Flows,         \* state -> its tasks, in the order of their routes
    EarlyFlows,    \* states whose flow has the context before it has its tasks
    ExitCode,      \* state -> the code its exit() returns
    Wants          \* task -> what its contextChanged() asks for, in order

VARIABLES
    registry,             \* _services and _systems, in the order they were made
    serviceOf,            \* task -> service id -> the service it found, 0 for nullptr
    wired,                \* how far main() is in Wiring
    currState, taskAt,    \* _currState, and the place of its flow's current task
    entityCount, aliases     \* number of entities made, and alias -> entity

contextVars == <<registry, serviceOf, wired, currState, taskAt, entityCount, aliases>>

NoState == "none"

(* The tasks in the order in which main() hands them the context: state by *)
(* state, setTaskFlow() hands it to the flow, the flow to each of its      *)
(* tasks; addTask() has done so before when the flow had one.              *)
Wiring ==
    LET Told(s) == IF s \in EarlyFlows THEN Flows[s] \o Flows[s] ELSE Flows[s]
    IN Told("init") \o Told("work") \o Told("error") \o Told("close")

Transitions ==
    [init  |-> [Success |-> "work",  Error |-> "error"],
     work  |-> [Success |-> "close", Error |-> "error"],
     error |-> [Success |-> "work",  Error |-> "close"],
     close |-> [Success |-> NoState, Error |-> NoState]]

(* What a service asks the context for when it gets its context.           *)
DatabaseSystem == [id |-> "PostgreSQL", how |-> "new"]
WindowSystem   == [id |-> "Window", how |-> "either"]
RenderSystem   == [id |-> "Render", how |-> "either"]
SystemFor ==
    [Database |-> DatabaseSystem, Platform |-> WindowSystem, Graphics |-> RenderSystem]

-----------------------------------------------------------------------------
(* system(): "exist" takes the first one of the id, "new" always makes one *)
(* and "either" asks for both in turn.  Both programs use one name per id. *)
Found(ids, want) ==
    IF want.how = "new" THEN 0 ELSE Seqs!SelectInSeq(ids, LAMBDA id : id = want.id)

System(reg, want) ==
    LET found == Found(reg.systems, want)
    IN IF found # 0 \/ want.how = "exist" THEN [registry |-> reg, got |-> found]
       ELSE [registry |-> [reg EXCEPT !.systems = Append(@, want.id)],
             got |-> Len(reg.systems) + 1]

(* service() and createService(): a new service gets its context at once,  *)
(* and with it its system.                                                 *)
Service(reg, want) ==
    LET found == Found([k \in 1 .. Len(reg.services) |-> reg.services[k].id], want)
        made  == System(reg, SystemFor[want.id])
    IN IF found # 0 \/ want.how = "exist" THEN [registry |-> reg, got |-> found]
       ELSE [registry |-> [made.registry EXCEPT
                              !.services = Append(@, [id |-> want.id, system |-> made.got])],
             got |-> Len(reg.services) + 1]

ContextChanged(known, task) ==
    LET Ask(k, want) ==
            LET r == Service(k.registry, want)
            IN [registry |-> r.registry, held |-> [k.held EXCEPT ![task] = (want.id :> r.got) @@ @]]
    IN Seqs!FoldLeft(Ask, known, Wants[task])

-----------------------------------------------------------------------------
ContextInit ==
    /\ registry = [services |-> <<>>, systems |-> <<>>]
    /\ serviceOf = [t \in DOMAIN Wants |-> << >>]
    /\ wired = 0 /\ currState = NoState /\ taskAt = 0
    /\ entityCount = 0 /\ aliases = << >>

SetTaskFlow ==
    /\ wired < Len(Wiring) /\ wired' = wired + 1
    /\ LET known == ContextChanged([registry |-> registry, held |-> serviceOf], Wiring[wired + 1])
       IN registry' = known.registry /\ serviceOf' = known.held
    /\ UNCHANGED <<currState, taskAt, entityCount, aliases>>

EnterState(s) ==
    /\ currState' = s
    /\ taskAt' = IF s # NoState /\ Flows[s] # <<>> THEN 1 ELSE 0

(* changeStateTo(init), then Engine::run().                                *)
StartMachine ==
    /\ wired = Len(Wiring) /\ wired' = wired + 1
    /\ EnterState("init")
    /\ UNCHANGED <<registry, serviceOf, entityCount, aliases>>

CurrentTask == IF taskAt = 0 THEN "none" ELSE Flows[currState][taskAt]

(* runCurrentTask(): the routes of both programs take Success, so that any *)
(* other code ends the flow.                                               *)
EndTask(code) ==
    taskAt' = IF code = "Success" /\ taskAt < Len(Flows[currState]) THEN taskAt + 1 ELSE 0

(* AbstractState::operator() returns what exit() says, whatever the flow   *)
(* came to; runCurrentState() follows the transition for that code.        *)
LeaveState ==
    /\ currState # NoState /\ taskAt = 0
    /\ EnterState(Transitions[currState][ExitCode[currState]])
    /\ UNCHANGED <<registry, serviceOf, wired, entityCount, aliases>>

EntityByAlias(alias) == IF alias \in DOMAIN aliases THEN aliases[alias] ELSE 0

(* The system behind the service of this id that a task holds.             *)
SystemHeld(task, id) ==
    IF id \in DOMAIN serviceOf[task] /\ serviceOf[task][id] # 0
    THEN registry.services[serviceOf[task][id]].system ELSE 0
=============================================================================
