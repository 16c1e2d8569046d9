------------------------------- MODULE MCWorlds -----------------------------
(***************************************************************************)
(* The graph and what is built on it - traversals, entity world, state     *)
(* topology, task orchestrator - the legacy task flow, the payload         *)
(* registry and the database example in one run.  One of them moves in     *)
(* each behaviour and the others rest; the graph is that of the one that   *)
(* moves.  The task flow moves in two of them, once with routes and once   *)
(* with signals.                                                           *)
(***************************************************************************)
EXTENDS GraphWalk, EntityWorld, StateTopology, TaskOrchestrator, TaskFlow, PayloadRegistry,
        PostgreSQLSystem

CONSTANT Worlds        \* the components that move in this run

VARIABLE world

ecsVars == <<entities, call, handles, raced, dangling>>
transitionVars == <<carried, adding, currentTask, overlapped>>
worldsVars == <<graph, walk, ecsVars, current, transitionVars, flowVars,
                payloadVars, databaseVars, world>>

MCEngineRanges == <<<<0, 0>>, <<1, 2>>>>
(* Both edges hear "key"; the signal "s3" is of a type nobody hears.       *)
MCSignalTypes == [x \in SignalEdges \cup Signals |-> IF x = "s3" THEN "mouse" ELSE "key"]

Init ==
    /\ world \in Worlds
    /\ graph = CASE world = "topology" -> DefaultGraph
                 [] world = "orchestrator" -> DefaultTasks
                 [] OTHER -> EmptyGraph
    /\ WalkInit /\ EcsInit /\ CurrentInit /\ TransitionsInit
    /\ FlowInit(IF world = "signals" THEN Signals ELSE {}) /\ PayloadInit
    /\ DatabaseInit /\ (world # "database" => table = "absent")

Next ==
    /\ world' = world
    /\ \/ /\ world = "graph" /\ WalkNext
          /\ UNCHANGED <<ecsVars, current, transitionVars, flowVars, payloadVars, databaseVars>>
       \/ /\ world = "entities" /\ WorldNext
          /\ UNCHANGED <<walk, current, transitionVars, flowVars, payloadVars, databaseVars>>
       \/ /\ world = "topology" /\ TopologyNext
          /\ UNCHANGED <<walk, ecsVars, transitionVars, flowVars, payloadVars, databaseVars>>
       \/ /\ world = "orchestrator" /\ OrchestratorNext
          /\ UNCHANGED <<walk, ecsVars, current, flowVars, payloadVars, databaseVars>>
       \/ /\ world \in {"flow", "signals"} /\ FlowNext
          /\ world = "signals" => UNCHANGED <<routes, currTask>>
          /\ UNCHANGED <<graph, walk, ecsVars, current, transitionVars, payloadVars,
                         databaseVars>>
       \/ /\ world = "payload" /\ PayloadNext
          /\ UNCHANGED <<graph, walk, ecsVars, current, transitionVars, flowVars, databaseVars>>
       \/ /\ world = "database" /\ DatabaseNext
          /\ UNCHANGED <<graph, walk, ecsVars, current, transitionVars, flowVars, payloadVars>>

Spec == Init /\ [][Next]_worldsVars

-----------------------------------------------------------------------------
(* The graph is sound under every component that is built on it, and each  *)
(* component keeps what it is there for: a walk shows nothing twice, a     *)
(* state has one parent and is not above it as far as the check looks, a   *)
(* pair of task and result has one transition mode unless two callers were *)
(* adding to it at once, a flow and its signals are torn down in order,    *)
(* and the ranges of payload ids stay apart.                               *)
WorldsAreSound ==
    /\ GraphIsSound
    /\ CASE world = "graph" -> ShownOnce
         [] world = "topology" -> HierarchyHolds
         [] world = "orchestrator" -> ModesAgree
         [] world \in {"flow", "signals"} -> FlowIsSound
         [] world = "payload" -> RangesStayApart
         [] OTHER -> TRUE
=============================================================================
