----------------------------- MODULE GraphWalk ------------------------------
(***************************************************************************)
(* The structural queries of AbstractGraph, each of which works on one     *)
(* snapshot of the graph, beside what they are to answer, and traverse().  *)
(*                                                                         *)
(* traverse(): the walk looks at the live graph again at every node and at *)
(* every edge, and holds no lock while the visitor is called, so that the  *)
(* visitor itself or another thread may change the graph at any of these   *)
(* points.  The topological walks fix their order, and the edges they show,*)
(* on the graph they began with; the others follow the graph as it is.     *)
(***************************************************************************)
EXTENDS GraphCore, TLC

VARIABLE walk

-----------------------------------------------------------------------------
(* The queries.  The nodes of a snapshot come out of a hash table: where   *)
(* their order matters the operators take it as `seeds`.                   *)

Refused == <<NoId>>    \* std::nullopt, or an error

Targets(g, n) == LET out == OutEdges(g, n)
                 IN [k \in 1 .. Len(out) |-> EdgeAt(g, out[k]).to]
Sources(g, n) == LET in == InEdges(g, n)
                 IN [k \in 1 .. Len(in) |-> EdgeAt(g, in[k]).from]

-----------------------------------------------------------------------------
(* Each search goes in rounds, and has come to its end when as many rounds *)
(* are over as it can take; a round after the end changes nothing.         *)
Rounds == MaxNodes + MaxEdges

(* shortestPath(): a breadth-first search that remembers each parent.      *)
Search(g, from, to) ==
    LET after[k \in 0 .. Rounds] ==
            IF k = 0 THEN [queue |-> <<from>>, parent |-> from :> NoId]
            ELSE LET was == after[k - 1]
                     n == Head(was.queue)
                     Meet(acc, m) ==
                         IF m \in DOMAIN acc.parent THEN acc
                         ELSE [queue |-> Append(acc.queue, m), parent |-> acc.parent @@ (m :> n)]
                 IN IF was.queue = <<>> \/ n = to THEN was
                    ELSE Sequence!FoldLeft(Meet, [was EXCEPT !.queue = Tail(@)], Targets(g, n))
    IN after[Rounds].parent

Unwind(parent, to) ==
    LET path[k \in 0 .. Rounds] ==
            IF k = 0 THEN <<to>>
            ELSE LET was == path[k - 1]
                 IN IF parent[Head(was)] = NoId THEN was ELSE <<parent[Head(was)]>> \o was
    IN path[Rounds]

ShortestPath(g, from, to) ==
    LET parent == Search(g, from, to)
    IN IF to \in DOMAIN parent THEN Unwind(parent, to) ELSE Refused

(* connectedComponents(): floods over the edges in both directions.        *)
Flood(g, seed, seen) ==
    LET after[k \in 0 .. Rounds] ==
            IF k = 0 THEN [frontier |-> <<seed>>, seen |-> seen \cup {seed}]
            ELSE LET was == after[k - 1]
                     n == Head(was.frontier)
                     Meet(acc, m) ==
                         IF m \in acc.seen THEN acc
                         ELSE [frontier |-> Append(acc.frontier, m), seen |-> acc.seen \cup {m}]
                 IN IF was.frontier = <<>> THEN was
                    ELSE Sequence!FoldLeft(Meet, [was EXCEPT !.frontier = Tail(@)],
                                  Targets(g, n) \o Sources(g, n))
    IN after[Rounds].seen

ConnectedComponents(g, seeds) ==
    LET Grow(acc, seed) ==
            IF seed \in acc.seen THEN acc
            ELSE LET seen == Flood(g, seed, acc.seen)
                 IN [seen |-> seen, components |-> acc.components \cup {seen \ acc.seen}]
    IN Sequence!FoldLeft(Grow, [seen |-> {}, components |-> {}], seeds).components

(* hasCycle(): a depth-first search with colours; a frame of the stack is  *)
(* a node and the targets it has still to look at.                         *)
Frame(g, n) == [node |-> n, todo |-> Targets(g, n)]
Colour(g, was) ==
    LET top == LastOf(was.stack)
        rest == Append(ButLast(was.stack), [top EXCEPT !.todo = Tail(@)])
        target == Head(top.todo)
    IN CASE was.stack = <<>> \/ was.cycle -> was
         [] top.todo = <<>> -> [was EXCEPT !.stack = ButLast(@), !.grey = @ \ {top.node},
                                           !.black = @ \cup {top.node}]
         [] target \in was.grey -> [was EXCEPT !.cycle = TRUE]
         [] target \in was.black -> [was EXCEPT !.stack = rest]
         [] OTHER -> [was EXCEPT !.stack = Append(rest, Frame(g, target)),
                                 !.grey = @ \cup {target}]

HasCycle(g, seeds) ==
    LET Try(acc, seed) ==
            LET after[k \in 0 .. Rounds] ==
                    IF k = 0 THEN [acc EXCEPT !.stack = <<Frame(g, seed)>>, !.grey = {seed}]
                    ELSE Colour(g, after[k - 1])
            IN IF acc.cycle \/ seed \in acc.black THEN acc ELSE after[Rounds]
    IN Sequence!FoldLeft(Try, [stack |-> <<>>, grey |-> {}, black |-> {}, cycle |-> FALSE], seeds).cycle

(* Mutant: a target is ready when one of its edges has come, not the last. *)
ReadyAtOnce(acc, m) ==
    [acc EXCEPT !.indegree[m] = 0,
                !.ready = IF acc.indegree[m] > 0 THEN Append(@, m) ELSE @]

(* What Kahn's algorithm does with one edge.                               *)
Relax(acc, m) ==
    LET left == IF acc.indegree[m] > 0 THEN acc.indegree[m] - 1 ELSE 0
    IN [acc EXCEPT !.indegree[m] = left, !.ready = IF left = 0 THEN Append(@, m) ELSE @]

(* A node that is ready comes next, and its edges are dealt with.          *)
PopReady(g, was) ==
    LET n == Head(was.ready)
        targets == Targets(g, n)
        relaxed[j \in 0 .. Len(targets)] ==
            IF j = 0 THEN [was EXCEPT !.ready = Tail(@), !.order = Append(@, n)]
            ELSE Relax(relaxed[j - 1], targets[j])
    IN relaxed[Len(targets)]

Kahn(g, indegree, ready) ==
    LET after[k \in 0 .. Rounds] ==
            IF k = 0 THEN [indegree |-> indegree, ready |-> ready, order |-> <<>>]
            ELSE IF after[k - 1].ready = <<>> THEN after[k - 1] ELSE PopReady(g, after[k - 1])
    IN after[Rounds].order

(* topologicalOrder(), and what the topological traversals compute.        *)
TopologicalOrder(g, seeds) ==
    LET indegree == [n \in LiveNodes(g) |-> Len(InEdges(g, n))]
        order == Kahn(g, indegree, Only(seeds, {n \in LiveNodes(g) : indegree[n] = 0}))
    IN IF Len(order) < Cardinality(LiveNodes(g)) THEN Refused ELSE order

-----------------------------------------------------------------------------
(* What the answers should be.                                             *)

Successors(g, S) == UNION {Elems(Targets(g, n)) : n \in S}
After(g, n, k) == LET layer[j \in 0 .. k] ==
                          IF j = 0 THEN {n} ELSE Successors(g, layer[j - 1])
                  IN layer[k]
Reach(g, n) == UNION {After(g, n, k) : k \in 0 .. MaxNodes}
Distance(g, m, n) == CHOOSE k \in 0 .. MaxNodes :
                        n \in After(g, m, k) /\ \A j \in 0 .. k - 1 : n \notin After(g, m, j)
Cyclic(g) == \E n \in LiveNodes(g) : \E k \in 1 .. MaxNodes : n \in After(g, n, k)

IsPath(g, p) == \A k \in 1 .. Len(p) - 1 : p[k + 1] \in Elems(Targets(g, p[k]))
IsOrder(g, s) == /\ Elems(s) = LiveNodes(g) /\ NoRepeats(s)
                 /\ \A i, j \in 1 .. Len(s) : s[j] \in Elems(Targets(g, s[i])) => i < j

(* Two nodes are in one component when no union of other components and    *)
(* half of this one is closed under the edges.                             *)
IsPartition(g, parts) ==
    /\ UNION parts = LiveNodes(g)
    /\ \A p, q \in parts : p # q => p \cap q = {}
    /\ \A p \in parts : \A half \in (SUBSET p) \ {{}} :
          half = p <=> \A n \in half :
                          Elems(Targets(g, n)) \cup Elems(Sources(g, n)) \subseteq half

Preorder(g, from) ==
    LET order[todo \in Seq(LiveNodes(g)), seen \in SUBSET LiveNodes(g)] ==
            IF todo = <<>> THEN <<>>
            ELSE IF Head(todo) \in seen THEN order[Tail(todo), seen]
            ELSE LET n == Head(todo)
                     below == <<n>> \o order[Targets(g, n), seen \cup {n}]
                 IN below \o order[Tail(todo), seen \cup Elems(below)]
    IN order[<<from>>, {}]

SeedOrders(g) == {s \in [1 .. Cardinality(LiveNodes(g)) -> LiveNodes(g)] : NoRepeats(s)}

(* The queries answer what they are named for on every graph.              *)
QueriesAgree(g) ==
    /\ \A m, n \in LiveNodes(g) :
          LET p == ShortestPath(g, m, n) IN
          IF n \in Reach(g, m)
          THEN p[1] = m /\ LastOf(p) = n /\ IsPath(g, p) /\ Len(p) = Distance(g, m, n) + 1
          ELSE p = Refused
    /\ \A seeds \in SeedOrders(g) :
          /\ HasCycle(g, seeds) = Cyclic(g)
          /\ IsPartition(g, ConnectedComponents(g, seeds))
          /\ LET order == TopologicalOrder(g, seeds) IN
             IF Cyclic(g) THEN order = Refused ELSE IsOrder(g, order)

-----------------------------------------------------------------------------
(* The walks.                                                              *)

Modes == {"depth", "breadth", "topological", "reverse", "custom"}
Sorted == {"topological", "reverse"}
Answers == {"continue", "skip", "stop"}       \* VisitResult

NoWalk ==
    [mode |-> "none", pc |-> "idle", start |-> NoId,
     pending |-> <<>>,       \* the stack (top first), the queue, the order
     at |-> NoId, edges |-> <<>>, outs |-> <<>>, visited |-> {},
     shown |-> <<>>, crossed |-> <<>>,     \* history: what the visitor saw
     pure |-> TRUE]          \* history: no change of the graph, no answer but continue

WalkInit == walk = NoWalk

(* A walk from a node that is there.                                       *)
StartAt(mode, n) ==
    LET there == n \in LiveNodes(graph)
    IN /\ walk.pc = "idle"
       /\ walk' = [NoWalk EXCEPT
              !.mode = mode, !.start = n,
              !.pc = IF there THEN "node" ELSE "refused",
              !.pending = IF there THEN <<n>> ELSE <<>>,
              !.visited = IF mode = "breadth" THEN {n} ELSE {}]
       /\ UNCHANGED graph

(* A sorted walk needs no start; it computes its order, and keeps the      *)
(* edges as they are.                                                      *)
StartSorted(mode, seeds) ==
    LET order == TopologicalOrder(graph, seeds)
    IN /\ walk.pc = "idle"
       /\ walk' = IF order = Refused THEN [NoWalk EXCEPT !.mode = mode, !.pc = "refused"]
                  ELSE [NoWalk EXCEPT
                     !.mode = mode, !.pc = "node",
                     !.pending = IF mode = "reverse" THEN Sequence!Reverse(order) ELSE order,
                     !.outs = [m \in LiveNodes(graph) |-> OutEdges(graph, m)]]
       /\ UNCHANGED graph

(* visited.insert(current) fails: on pop, in the walks that look then.     *)
SeenBefore(n) == walk.mode \in {"depth", "custom"} /\ n \in walk.visited

(* visitNode(): a node that is gone by now is passed over.  A custom walk  *)
(* ends where the others go on with what is pending.                       *)
VisitNode(answer) ==
    LET n == Head(walk.pending)
        rest == [walk EXCEPT !.pending = Tail(@), !.visited = @ \cup {n}]
        onward == IF walk.mode = "custom" THEN "done" ELSE "node"
        shown == [rest EXCEPT !.shown = Append(@, n), !.at = n,
                              !.pure = @ /\ answer = "continue"]
    IN /\ walk.pc = "node" /\ walk.pending # <<>>
       /\ walk' = IF SeenBefore(n) \/ n \notin LiveNodes(graph)
                  THEN [rest EXCEPT !.pc = onward]
                  ELSE [shown EXCEPT !.pc = CASE answer = "continue" -> "outs"
                                              [] answer = "skip" -> onward
                                              [] answer = "stop" -> "done"]
       /\ UNCHANGED graph

(* The edges are taken after onNode() returned, of the graph as it is by   *)
(* then: the last on top of the stack; ...                                 *)
TakeEdges ==
    LET out == OutEdges(graph, walk.at)
    IN /\ walk.pc = "outs" /\ walk.mode \in {"depth", "breadth"}
       /\ walk' = [walk EXCEPT !.pc = "edge",
                               !.edges = IF walk.mode = "depth" THEN Sequence!Reverse(out) ELSE out]
       /\ UNCHANGED graph

(* ... or as they were at the beginning.                                   *)
TakeKeptEdges ==
    /\ walk.pc = "outs" /\ walk.mode \in Sorted
    /\ walk' = [walk EXCEPT !.pc = "edge", !.edges = walk.outs[walk.at]]
    /\ UNCHANGED graph

(* nextForCustom(): the visitor names any id, unless the node is gone.     *)
AskNext(n) ==
    /\ walk.pc = "outs" /\ walk.mode = "custom"
    /\ walk' = IF walk.at \notin LiveNodes(graph) \/ n = NoId
               THEN [walk EXCEPT !.pc = "done"]
               ELSE [walk EXCEPT !.pc = "node", !.pending = <<n>>]
    /\ UNCHANGED graph

VisitEdge(answer) ==
    LET e == Head(walk.edges)
        next == [walk EXCEPT !.edges = Tail(@)]
        crossed == [walk EXCEPT !.crossed = Append(@, e),
                                !.pure = @ /\ answer = "continue"]
    IN /\ walk.pc = "edge" /\ walk.edges # <<>>
       /\ walk' = IF EdgeAt(graph, e) = NoEdge THEN next
                  ELSE CASE answer = "continue" /\ walk.mode \notin Sorted ->
                                [crossed EXCEPT !.pc = "follow"]
                         [] answer = "stop" -> [crossed EXCEPT !.pc = "done"]
                         [] OTHER -> [crossed EXCEPT !.edges = Tail(@)]
       /\ UNCHANGED graph

(* A stack, whose nodes are marked when they are taken ...                 *)
DepthPush(w, n) == [w EXCEPT !.pending = <<n>> \o @]
(* ... and a queue, whose nodes are marked when they are put in.           *)
BreadthPush(w, n) == [w EXCEPT !.pending = Append(@, n), !.visited = @ \cup {n}]

(* The edge is looked up again after onEdge().                             *)
FollowEdge ==
    LET edge == EdgeAt(graph, Head(walk.edges))
        next == [walk EXCEPT !.pc = "edge", !.edges = Tail(@)]
    IN /\ walk.pc = "follow"
       /\ walk' = IF edge = NoEdge \/ edge.to \in walk.visited THEN next
                  ELSE IF walk.mode = "depth" THEN DepthPush(next, edge.to)
                  ELSE BreadthPush(next, edge.to)
       /\ UNCHANGED graph

LeaveNode ==
    /\ walk.pc = "edge" /\ walk.edges = <<>>
    /\ walk' = [walk EXCEPT !.pc = "node"]
    /\ UNCHANGED graph

EndWalk ==
    /\ walk.pc = "node" /\ walk.pending = <<>>
    /\ walk' = [walk EXCEPT !.pc = "done"]
    /\ UNCHANGED graph

(* Any change of the graph, by the visitor or by another thread.  Bound:   *)
(* one change during a walk, once the visitor has been called.             *)
ChangeGraph ==
    /\ GraphNext
    /\ walk.pc = "idle" \/ (walk.pure /\ walk.shown # <<>>)
    /\ walk' = [walk EXCEPT !.pure = walk.pc = "idle"]

WalkNext ==
    \/ \E mode \in Modes \ Sorted, n \in IssuedNodes(graph) : StartAt(mode, n)
    \/ \E mode \in Sorted, seeds \in SeedOrders(graph) : StartSorted(mode, seeds)
    \/ \E answer \in Answers : VisitNode(answer) \/ VisitEdge(answer)
    \/ \E n \in IssuedNodes(graph) \cup {NoId} : AskNext(n)
    \/ TakeEdges \/ TakeKeptEdges \/ FollowEdge \/ LeaveNode \/ EndWalk
    \/ ChangeGraph

-----------------------------------------------------------------------------
(* Whatever happens to the graph meanwhile: no node and no edge is shown   *)
(* twice, and an edge only after the node it leaves.                       *)
ShownOnce ==
    /\ NoRepeats(walk.shown) /\ NoRepeats(walk.crossed)
    /\ \A e \in Elems(walk.crossed) :
          EdgeAt(graph, e) # NoEdge => EdgeAt(graph, e).from \in Elems(walk.shown)

(* On a graph left alone, the nodes come in the order the mode is named    *)
(* for, and every edge of a node that is shown is shown.                   *)
ShownInOrder ==
    LET from(k) == Distance(graph, walk.start, walk.shown[k])
        shown == Elems(walk.shown)
    IN walk.pc = "done" /\ walk.pure =>
          /\ walk.mode # "custom" =>
                Elems(walk.crossed) = {e \in LiveEdges(graph) : EdgeAt(graph, e).from \in shown}
          /\ CASE walk.mode = "depth" -> walk.shown = Preorder(graph, walk.start)
               [] walk.mode = "breadth" ->
                    /\ shown = Reach(graph, walk.start)
                    /\ \A k \in 1 .. Len(walk.shown) - 1 : from(k) <= from(k + 1)
               [] walk.mode = "topological" -> IsOrder(graph, walk.shown)
               [] walk.mode = "reverse" -> IsOrder(graph, Sequence!Reverse(walk.shown))
               [] walk.mode = "custom" -> Head(walk.shown) = walk.start

(* The queries tell what is in the graph - on every graph a walk may begin *)
(* with - and the walks show it in their order.                            *)
GraphIsRight ==
    /\ walk.mode = "depth" /\ walk.pc = "node" /\ walk.shown = <<>> => QueriesAgree(graph)
    /\ ShownInOrder
=============================================================================
