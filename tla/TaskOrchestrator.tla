-------------------------- MODULE TaskOrchestrator --------------------------
(***************************************************************************)
(* vigine::taskflow::TaskOrchestrator and the AbstractTaskFlow over it:    *)
(* tasks are nodes of a graph and a transition is an edge that carries a   *)
(* result code and a route mode.  No task and no transition is removed.    *)
(* addTransition() looks the stored mode up in one critical section of the *)
(* graph and adds its edge in another.                                     *)
(***************************************************************************)
EXTENDS GraphCore

CONSTANTS
    FlowCallers, Codes, RouteModes,
    MaxTasks                        \* bound of the model: tasks of the flow

VARIABLES
    carried,       \* edge -> its TransitionData
    adding,        \* caller -> the transition it is about to add
    currentTask,   \* _current of the flow
    overlapped     \* history: the <<source, code>> two callers were adding to at once

orchestratorVars == <<graph, carried, adding, currentTask, overlapped>>

NoTransition == [pc |-> "idle"]
DefaultTasks == WithNode(EmptyGraph, "task")
TransitionsInit ==
    /\ carried = <<>>
    /\ adding = [c \in FlowCallers |-> NoTransition]
    /\ currentTask = NextNodeId(EmptyGraph)
    /\ overlapped = {}
OrchestratorInit == graph = DefaultTasks /\ TransitionsInit

AddTask ==
    /\ MayChange /\ NodeRoom(graph) /\ graph.nodesUsed < MaxTasks
    /\ graph' = WithNode(graph, "task")
    /\ UNCHANGED <<carried, adding, currentTask, overlapped>>

(* storedModeFor(): the mode of the first transition of the pair, if any.  *)
StoredModeFor(source, code, fallback) ==
    LET ofCode == Only(OutOfKind(graph, source, "transition"),
                       {e \in DOMAIN carried : carried[e].code = code})
    IN IF ofCode = <<>> THEN fallback ELSE carried[ofCode[1]].mode

(* Mutant: the mode is compared with that of the first transition of all.  *)
RefusedByFirst(source, code, mode) ==
    LET out == OutOfKind(graph, source, "transition")
    IN out # <<>> /\ carried[out[1]].mode # mode

Conflicts(source, code, mode) == StoredModeFor(source, code, mode) # mode

CheckTransition(c, source, code, next, mode) ==
    /\ adding[c].pc = "idle"
    /\ source # next /\ {source, next} \subseteq LiveNodes(graph)
    /\ ~Conflicts(source, code, mode)
    /\ adding' = [adding EXCEPT ![c] = [pc |-> "add", source |-> source, next |-> next,
                                        code |-> code, mode |-> mode]]
    /\ overlapped' = overlapped \cup
           {<<source, code>> : d \in {b \in FlowCallers :
               adding[b].pc = "add" /\ adding[b].source = source /\ adding[b].code = code}}
    /\ UNCHANGED <<graph, carried, currentTask>>

AddTransitionEdge(c) ==
    LET t == adding[c] IN
    /\ t.pc = "add" /\ MayChange /\ EdgeRoom(graph)
    /\ EdgeFits(graph, t.source, t.next)
    /\ graph' = WithEdge(graph, t.source, t.next, "transition")
    /\ carried' = [e \in DOMAIN carried \cup {NextEdgeId(graph)} |->
                      IF e \in DOMAIN carried THEN carried[e]
                      ELSE [code |-> t.code, mode |-> t.mode]]
    /\ adding' = [adding EXCEPT ![c] = NoTransition]
    /\ UNCHANGED <<currentTask, overlapped>>

Enqueue(n) ==
    /\ n \in LiveNodes(graph)
    /\ currentTask' = n
    /\ UNCHANGED <<graph, carried, adding, overlapped>>

OrchestratorNext ==
    \/ AddTask
    \/ \E c \in FlowCallers, m, n \in IssuedNodes(graph), code \in Codes, mode \in RouteModes :
            CheckTransition(c, m, code, n, mode)
    \/ \E c \in FlowCallers : AddTransitionEdge(c)
    \/ \E n \in IssuedNodes(graph) : Enqueue(n)

-----------------------------------------------------------------------------
SamePair(d, e) ==
    EdgeAt(graph, d).from = EdgeAt(graph, e).from /\ carried[d].code = carried[e].code

(* The transitions of one task and one code have one mode, unless two      *)
(* callers were adding to that pair at the same time.                      *)
ModesAgree ==
    \A d, e \in DOMAIN carried :
        SamePair(d, e) => \/ carried[d].mode = carried[e].mode
                          \/ <<EdgeAt(graph, d).from, carried[d].code>> \in overlapped

(* What the orchestrator's "one RouteMode per pair" says.                  *)
OneModePerPair ==
    \A d, e \in DOMAIN carried : SamePair(d, e) => carried[d].mode = carried[e].mode
=============================================================================
