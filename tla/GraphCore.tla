------------------------------ MODULE GraphCore -----------------------------
(***************************************************************************)
(* vigine::graph::AbstractGraph: nodes and edges in slots with an index    *)
(* that is used again and a generation that tells its uses apart, and an   *)
(* adjacency that every edge is entered in twice.  The entity world, the   *)
(* state topology and the task orchestrator are graphs of this kind, so    *)
(* the graph is one value and its operations are functions of it; each is  *)
(* one critical section of the graph's mutex.                              *)
(*                                                                         *)
(* An id is <<index, generation>>; NoId is the one that valid() rejects.   *)
(***************************************************************************)
EXTENDS Lists

CONSTANTS
    MaxNodes, MaxEdges,   \* bounds of the model: slots ever in use at once
    MaxVersion            \* bound of the model: changes of one graph

ASSUME GraphAssumption == MaxNodes \in Nat \ {0} /\ MaxEdges \in Nat /\ MaxVersion \in Nat

VARIABLE graph

NodeIndices == 1 .. MaxNodes
EdgeIndices == 1 .. MaxEdges
NoId == <<0, 0>>
NoNode == [gen |-> 0, what |-> "none", out |-> <<>>, in |-> <<>>]
NoEdge == [gen |-> 0, from |-> NoId, to |-> NoId, what |-> "none"]

EmptyGraph ==
    [nodes     |-> [i \in NodeIndices |-> NoNode],
     edges     |-> [i \in EdgeIndices |-> NoEdge],
     freeNodes |-> <<>>,                            \* _freeNodeIndices, a stack
     freeEdges |-> <<>>,
     nodesUsed |-> 0,                               \* _nextNodeIndex - 1
     edgesUsed |-> 0,
     nodeNext  |-> [i \in NodeIndices |-> 1],       \* _nodeNextGeneration
     edgeNext  |-> [i \in EdgeIndices |-> 1],
     version   |-> 0]

LiveNodes(g) == {<<i, g.nodes[i].gen>> : i \in {j \in NodeIndices : g.nodes[j].gen # 0}}
LiveEdges(g) == {<<i, g.edges[i].gen>> : i \in {j \in EdgeIndices : g.edges[j].gen # 0}}
NodeAt(g, n) ==
    IF n[1] \in NodeIndices /\ g.nodes[n[1]].gen = n[2] THEN g.nodes[n[1]] ELSE NoNode
EdgeAt(g, e) ==
    IF e[1] \in EdgeIndices /\ g.edges[e[1]].gen = e[2] THEN g.edges[e[1]] ELSE NoEdge

-----------------------------------------------------------------------------
(* addNode()                                                               *)
NodeRoom(g) == g.freeNodes # <<>> \/ g.nodesUsed < MaxNodes
NextNodeId(g) ==
    IF g.freeNodes # <<>> THEN <<LastOf(g.freeNodes), g.nodeNext[LastOf(g.freeNodes)]>>
    ELSE <<g.nodesUsed + 1, 1>>
WithNode(g, what) ==
    LET id == NextNodeId(g)
        fresh == g.freeNodes = <<>>
    IN [g EXCEPT !.nodes[id[1]] = [gen |-> id[2], what |-> what, out |-> <<>>, in |-> <<>>],
                 !.freeNodes = IF fresh THEN @ ELSE ButLast(@),
                 !.nodesUsed = IF fresh THEN @ + 1 ELSE @,
                 !.version = @ + 1]

(* addEdge(): both ends must be there under their generations.             *)
EdgeRoom(g) == g.freeEdges # <<>> \/ g.edgesUsed < MaxEdges
NextEdgeId(g) ==
    IF g.freeEdges # <<>> THEN <<LastOf(g.freeEdges), g.edgeNext[LastOf(g.freeEdges)]>>
    ELSE <<g.edgesUsed + 1, 1>>
EdgeFits(g, from, to) == {from, to} \subseteq LiveNodes(g)
WithEdge(g, from, to, what) ==
    LET id == NextEdgeId(g)
        fresh == g.freeEdges = <<>>
        entered == [g EXCEPT !.nodes[from[1]].out = Append(@, id)]
    IN [entered EXCEPT
            !.nodes[to[1]].in = Append(@, id),
            !.edges[id[1]] = [gen |-> id[2], from |-> from, to |-> to, what |-> what],
            !.freeEdges = IF fresh THEN @ ELSE ButLast(@),
            !.edgesUsed = IF fresh THEN @ + 1 ELSE @,
            !.version = @ + 1]

-----------------------------------------------------------------------------
(* Mutant: the edge stays entered at the node it leads to.                 *)
EraseEdgeHalf(g, e) ==
    LET edge == EdgeAt(g, e)
    IN IF edge = NoEdge THEN g
       ELSE [g EXCEPT !.nodes[edge.from[1]].out = Without(@, e),
                      !.edges[e[1]] = NoEdge,
                      !.edgeNext[e[1]] = e[2] + 1,
                      !.freeEdges = Append(@, e[1])]

(* eraseEdgeLocked(): nothing happens to an edge that is not there, as the *)
(* second entry of a loop is when its node goes.                           *)
EraseEdge(g, e) ==
    LET edge == EdgeAt(g, e)
    IN IF edge = NoEdge THEN g
       ELSE LET left == [g EXCEPT !.nodes[edge.from[1]].out = Without(@, e)]
            IN [left EXCEPT !.nodes[edge.to[1]].in = Without(@, e),
                            !.edges[e[1]] = NoEdge,
                            !.edgeNext[e[1]] = e[2] + 1,
                            !.freeEdges = Append(@, e[1])]

(* removeEdge()                                                            *)
WithoutEdge(g, e) == [EraseEdge(g, e) EXCEPT !.version = @ + 1]

(* removeNode(): the edges out, then the edges in, then the slot.          *)
WithoutNode(g, n) ==
    LET doomed == g.nodes[n[1]].out \o g.nodes[n[1]].in
        erased[k \in 0 .. Len(doomed)] ==
            IF k = 0 THEN g ELSE EraseEdge(erased[k - 1], doomed[k])
    IN [erased[Len(doomed)] EXCEPT !.nodes[n[1]] = NoNode,
                                   !.nodeNext[n[1]] = n[2] + 1,
                                   !.freeNodes = Append(@, n[1]),
                                   !.version = @ + 1]

(* outEdges(), inEdges(), outEdgesOfKind(): the edges of a node in the     *)
(* order they were added, none of one that is gone.                        *)
OutEdges(g, n) == NodeAt(g, n).out
InEdges(g, n) == NodeAt(g, n).in
OutOfKind(g, n, kind) ==
    Only(OutEdges(g, n), {e \in LiveEdges(g) : EdgeAt(g, e).what = kind})

-----------------------------------------------------------------------------
(* A graph on its own, under any calls its user makes.                     *)

GraphInit == graph = EmptyGraph

(* Every id there has been a node under, dead or alive.                    *)
IssuedNodes(g) ==
    {n \in NodeIndices \X (1 .. MaxVersion) :
        n[2] < g.nodeNext[n[1]] \/ n[2] = g.nodes[n[1]].gen}
IssuedEdges(g) ==
    {e \in EdgeIndices \X (1 .. MaxVersion) :
        e[2] < g.edgeNext[e[1]] \/ e[2] = g.edges[e[1]].gen}

MayChange == graph.version < MaxVersion

AddNode == MayChange /\ NodeRoom(graph) /\ graph' = WithNode(graph, "plain")
AddEdge(m, n) ==
    /\ MayChange /\ EdgeRoom(graph)
    /\ EdgeFits(graph, m, n)
    /\ graph' = WithEdge(graph, m, n, "plain")
RemoveNode(n) ==
    /\ MayChange
    /\ n \in LiveNodes(graph)
    /\ graph' = WithoutNode(graph, n)
RemoveEdge(e) ==
    /\ MayChange
    /\ e \in LiveEdges(graph)
    /\ graph' = WithoutEdge(graph, e)

GraphNext ==
    \/ AddNode
    \/ \E m, n \in IssuedNodes(graph) : AddEdge(m, n)
    \/ \E n \in IssuedNodes(graph) : RemoveNode(n)
    \/ \E e \in IssuedEdges(graph) : RemoveEdge(e)

-----------------------------------------------------------------------------
(* The edges of every node are exactly those that lead from it and to it,  *)
(* each entered once, also after the cascades of nodes with parallel edges *)
(* and loops; so no edge leads to a node that is gone.                     *)
AdjacencyIsExact(g) ==
    \A n \in LiveNodes(g) :
        LET node == NodeAt(g, n) IN
        /\ NoRepeats(node.out) /\ NoRepeats(node.in)
        /\ Elems(node.out) = {e \in LiveEdges(g) : EdgeAt(g, e).from = n}
        /\ Elems(node.in) = {e \in LiveEdges(g) : EdgeAt(g, e).to = n}
EndsAreLive(g) ==
    \A e \in LiveEdges(g) : EdgeFits(g, EdgeAt(g, e).from, EdgeAt(g, e).to)

(* Every index that was used holds something or waits once to be used      *)
(* again: none is lost, none is given out twice.                           *)
IndicesAreKept(g) ==
    /\ NoRepeats(g.freeNodes) /\ NoRepeats(g.freeEdges)
    /\ Elems(g.freeNodes) = {i \in 1 .. g.nodesUsed : g.nodes[i].gen = 0}
    /\ Elems(g.freeEdges) = {i \in 1 .. g.edgesUsed : g.edges[i].gen = 0}

(* An id that was removed is never given out again.                        *)
DeadIdsStayDead(g) ==
    /\ \A i \in 1 .. g.nodesUsed : g.nodes[i].gen \in {0, g.nodeNext[i]}
    /\ \A i \in 1 .. g.edgesUsed : g.edges[i].gen \in {0, g.edgeNext[i]}

GraphIsSound ==
    /\ AdjacencyIsExact(graph) /\ EndsAreLive(graph)
    /\ IndicesAreKept(graph) /\ DeadIdsStayDead(graph)
=============================================================================
