---------------------------- MODULE StateTopology ---------------------------
(***************************************************************************)
(* vigine::statemachine::StateTopology and the AbstractStateMachine over   *)
(* it: states are nodes of a graph, an edge leads from a child to its      *)
(* parent, and no state is ever removed.  addChildEdge() runs as a whole   *)
(* under _hierarchyMutex.                                                  *)
(***************************************************************************)
EXTENDS GraphCore

CONSTANT MaxDepth      \* kMaxHierarchyDepth

ASSUME DepthAssumption == MaxDepth \in Nat

VARIABLE current       \* _current of the machine

topologyVars == <<graph, current>>

(* The constructor registers the default state and selects it.             *)
DefaultGraph == WithNode(EmptyGraph, "state")
CurrentInit == current = NextNodeId(EmptyGraph)
TopologyInit == graph = DefaultGraph /\ CurrentInit

AddState ==
    /\ MayChange /\ NodeRoom(graph)
    /\ graph' = WithNode(graph, "state")
    /\ UNCHANGED current

ParentOf(g, n) ==
    LET parents == OutOfKind(g, n, "childof")
    IN IF parents = <<>> THEN NoId ELSE EdgeAt(g, parents[1]).to

(* The states above n, one for each step of the walk; NoId once it has     *)
(* left the root behind.                                                   *)
Above(g, n) ==
    LET up[k \in 0 .. MaxDepth] == IF k = 0 THEN n ELSE ParentOf(g, up[k - 1])
    IN [k \in 1 .. MaxDepth |-> up[k]]
IsAncestorOf(g, ancestor, n) == \E k \in 1 .. MaxDepth : Above(g, n)[k] = ancestor

(* Mutant: the walk up does not begin at the new parent but above it.      *)
AllowedLate(g, parent, child) ==
    /\ parent # child /\ {parent, child} \subseteq LiveNodes(g)
    /\ ~IsAncestorOf(g, child, ParentOf(g, parent))
    /\ OutOfKind(g, child, "childof") = <<>>

ChildAllowed(g, parent, child) ==
    /\ parent # child /\ {parent, child} \subseteq LiveNodes(g)
    /\ ~IsAncestorOf(g, child, parent)
    /\ OutOfKind(g, child, "childof") = <<>>

AddChildEdge(parent, child) ==
    /\ ChildAllowed(graph, parent, child) /\ EdgeRoom(graph) /\ MayChange
    /\ graph' = WithEdge(graph, child, parent, "childof")
    /\ UNCHANGED current

(* setInitial(), transition()                                              *)
Transition(n) ==
    /\ n \in LiveNodes(graph)
    /\ current' = n
    /\ UNCHANGED graph

TopologyNext ==
    \/ AddState
    \/ \E m, n \in IssuedNodes(graph) : AddChildEdge(m, n)
    \/ \E n \in IssuedNodes(graph) : Transition(n)

-----------------------------------------------------------------------------
(* Every state has at most one parent, and whoever walks up meets no state *)
(* again within the depth the check looks at: a cycle can only be closed   *)
(* by a chain longer than kMaxHierarchyDepth.                              *)
HierarchyHolds ==
    \A n \in LiveNodes(graph) :
        /\ Len(OutOfKind(graph, n, "childof")) <= 1
        /\ ~IsAncestorOf(graph, n, ParentOf(graph, n))

(* What IStateMachine says of addChildState(): it refuses every edge that  *)
(* would close a cycle.                                                    *)
HierarchyIsATree ==
    \A n \in LiveNodes(graph) :
        LET up[k \in 0 .. MaxNodes] == IF k = 0 THEN n ELSE ParentOf(graph, up[k - 1])
        IN \A k \in 1 .. MaxNodes : up[k] # n
=============================================================================
