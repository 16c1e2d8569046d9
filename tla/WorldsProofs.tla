---------------------------- MODULE WorldsProofs ----------------------------
(***************************************************************************)
(* Theorems about the components that MCWorlds puts side by side, for      *)
(* every value of their constants.                                         *)
(***************************************************************************)
EXTENDS MCWorlds, GraphProofs

-----------------------------------------------------------------------------
(* The payload registry: ranges that share an id are the same entry.       *)

RangeEntries == [min : Ids, max : Ids, owner : Owners \cup {EngineOwner}]
EngineEntry(k) == Entry(EngineRanges[k][1], EngineRanges[k][2], EngineOwner)
PayloadHolds == ranges \in Seq(RangeEntries) /\ RangesStayApart

LEMMA EntryFields ==
    \A min, max, owner : /\ Entry(min, max, owner).min = min
                         /\ Entry(min, max, owner).max = max
                         /\ Entry(min, max, owner).owner = owner
BY DEF Entry

LEMMA IdsAreNumbers == Ids \subseteq Nat /\ 0 .. ReservedEnd \subseteq Ids /\ ReservedEnd \in Nat
BY PayloadAssumption DEF Ids

LEMMA RangeFields ==
    ASSUME NEW r \in RangeEntries
    PROVE  r.min \in Nat /\ r.max \in Nat
BY IdsAreNumbers DEF RangeEntries

(* The engine's own ranges, as the constructor leaves them.                *)
LEMMA PayloadStarts == PayloadInit => PayloadHolds
<1> SUFFICES ASSUME PayloadInit PROVE PayloadHolds
  OBVIOUS
<1> DEFINE n == Len(EngineRanges)
<1>1. n \in Nat /\ \A k \in 1 .. n : /\ EngineRanges[k][1] \in 0 .. ReservedEnd
                                     /\ EngineRanges[k][2] \in 0 .. ReservedEnd
  BY PayloadAssumption
<1>2. ranges = [k \in 1 .. n |-> EngineEntry(k)] /\ ceded = FALSE
  BY DEF PayloadInit, EngineEntry
<1>3. \A k \in 1 .. n : EngineEntry(k) \in RangeEntries
  BY <1>1, IdsAreNumbers DEF EngineEntry, Entry, RangeEntries
<1>4. ranges \in Seq(RangeEntries) /\ Len(ranges) = n /\ \A k \in 1 .. n : ranges[k] = EngineEntry(k)
  <2>1. [k \in 1 .. n |-> EngineEntry(k)] \in [1 .. n -> RangeEntries]
    BY <1>3
  <2> QED BY <1>1, <1>2, <2>1
<1>5. ASSUME NEW id \in Ids, NEW j \in 1 .. n, NEW k \in 1 .. n,
             Contains(ranges[j], id), Contains(ranges[k], id)
      PROVE  j = k
  <2>1. /\ EngineRanges[j][1] <= id /\ id <= EngineRanges[j][2]
        /\ EngineRanges[k][1] <= id /\ id <= EngineRanges[k][2]
    BY <1>4, <1>5, EntryFields DEF EngineEntry, Contains
  <2>2. id \in Nat
    BY IdsAreNumbers
  <2>3. /\ EngineRanges[j][1] <= EngineRanges[k][2]
        /\ EngineRanges[k][1] <= EngineRanges[j][2]
    BY <1>1, <2>1, <2>2
  <2>4. ~(j < k) /\ ~(k < j)
    BY <2>3, PayloadAssumption
  <2> QED BY <1>1, <2>4
<1>6. ASSUME NEW r \in Entries PROVE OneHalf(r.min, r.max)
  <2>1. PICK k \in 1 .. n : r = EngineEntry(k)
    BY <1>4 DEF Entries, Elems
  <2>2. r.max = EngineRanges[k][2]
    BY <2>1, EntryFields DEF EngineEntry
  <2> QED BY <1>1, <2>2, IdsAreNumbers DEF OneHalf
<1>7. \A k \in 1 .. n : EngineEntry(k) \in Entries
  BY <1>4 DEF Entries, Elems
<1> QED BY <1>4, <1>5, <1>6, <1>7 DEF PayloadHolds, RangesStayApart, EngineEntry

LEMMA RegisterKeepsApart ==
    ASSUME PayloadHolds, NEW min \in Ids, NEW max \in Ids, NEW owner \in Owners,
           RegisterRange(min, max, owner)
    PROVE  PayloadHolds'
<1> DEFINE new == Entry(min, max, owner)
           n == Len(ranges)
<1>1. ranges \in Seq(RangeEntries) /\ RangesStayApart /\ n \in Nat
  BY DEF PayloadHolds
<1>2. new \in RangeEntries
  BY DEF Entry, RangeEntries
<1>3. /\ ranges' = Append(ranges, new) /\ ceded' = ceded
      /\ OneHalf(min, max) /\ \A r \in Entries : ~RangesOverlap(r, min, max)
  BY DEF RegisterRange
<1> HIDE DEF new
<1>4. /\ ranges' \in Seq(RangeEntries) /\ Len(ranges') = n + 1 /\ ranges'[n + 1] = new
      /\ \A k \in 1 .. n : ranges'[k] = ranges[k]
  BY <1>1, <1>2, <1>3
<1>5. Elems(ranges') = Entries \cup {new}
  BY <1>1, <1>2, <1>3, ElemsOfAppend DEF Entries
<1>6. ASSUME NEW id \in Ids, NEW j \in 1 .. n, Contains(ranges[j], id), Contains(new, id)
      PROVE  FALSE
  <2>1. ranges[j] \in Entries /\ ranges[j] \in RangeEntries
    BY <1>1 DEF Entries, Elems
  <2>2. /\ ranges[j].min <= id /\ id <= ranges[j].max
        /\ min <= id /\ id <= max
    BY <1>6, EntryFields DEF Contains, new
  <2>3. ranges[j].min <= max /\ min <= ranges[j].max
    BY <2>1, <2>2, RangeFields, IdsAreNumbers
  <2> QED BY <1>3, <2>1, <2>3 DEF RangesOverlap
<1>7. ASSUME NEW id \in Ids, NEW j \in 1 .. n + 1, NEW k \in 1 .. n + 1,
             Contains(ranges'[j], id), Contains(ranges'[k], id)
      PROVE  j = k
  <2>1. CASE j \in 1 .. n /\ k \in 1 .. n
    BY <1>1, <1>4, <1>7, <2>1 DEF RangesStayApart
  <2>2. CASE j \in 1 .. n /\ k = n + 1
    BY <1>4, <1>6, <1>7, <2>2
  <2>3. CASE j = n + 1 /\ k \in 1 .. n
    BY <1>4, <1>6, <1>7, <2>3
  <2> QED BY <1>1, <2>1, <2>2, <2>3
<1>8. \A r \in Entries \cup {new} : OneHalf(r.min, r.max)
  BY <1>1, <1>3, EntryFields DEF RangesStayApart, new
<1>9. RangesStayApart'
  BY <1>1, <1>3, <1>4, <1>5, <1>7, <1>8 DEF RangesStayApart, Entries
<1> QED BY <1>4, <1>9 DEF PayloadHolds

LEMMA UnregisterKeepsApart ==
    ASSUME PayloadHolds, NEW owner \in Owners, UnregisterOwner(owner)
    PROVE  PayloadHolds'
<1> DEFINE kept == {r \in Entries : r.owner # owner}
<1>1. ranges \in Seq(RangeEntries) /\ RangesStayApart
  BY DEF PayloadHolds
<1>2. ranges' = Only(ranges, kept) /\ ceded' = (ceded \/ owner = EngineOwner)
  BY DEF UnregisterOwner
<1>3. ranges' \in Seq(RangeEntries) /\ \E h : Picked(ranges, kept, ranges', Len(ranges), h)
  BY <1>1, <1>2, OnlyPicks
<1>4. PICK h : Picked(ranges, kept, ranges', Len(ranges), h)
  BY <1>3
<1>5. Elems(ranges') = kept
  BY <1>1, <1>2, ElemsOfOnly DEF Entries
<1>6. ASSUME NEW id \in Ids, NEW j \in 1 .. Len(ranges'), NEW k \in 1 .. Len(ranges'),
             Contains(ranges'[j], id), Contains(ranges'[k], id)
      PROVE  j = k
  <2>1. /\ h[j] \in 1 .. Len(ranges) /\ h[k] \in 1 .. Len(ranges)
        /\ ranges'[j] = ranges[h[j]] /\ ranges'[k] = ranges[h[k]]
    BY <1>4 DEF Picked
  <2>2. h[j] = h[k]
    BY <1>1, <1>6, <2>1 DEF RangesStayApart
  <2>3. ~(j < k) /\ ~(k < j)
    BY <1>4, <2>1, <2>2 DEF Picked
  <2> QED BY <1>3, <2>3
<1>7. \A r \in kept : OneHalf(r.min, r.max)
  BY <1>1 DEF RangesStayApart
<1>8. owner = EngineOwner \/ \A k \in 1 .. Len(EngineRanges) : EngineEntry(k) \in Entries => EngineEntry(k) \in kept
  BY EntryFields DEF EngineEntry
<1>9. RangesStayApart'
  BY <1>1, <1>2, <1>5, <1>6, <1>7, <1>8 DEF RangesStayApart, Entries, EngineEntry
<1> QED BY <1>3, <1>9 DEF PayloadHolds

LEMMA PayloadSteps ==
    ASSUME PayloadHolds, PayloadNext \/ UNCHANGED payloadVars
    PROVE  PayloadHolds'
<1>1. CASE PayloadNext
  BY <1>1, RegisterKeepsApart, UnregisterKeepsApart DEF PayloadNext
<1>2. CASE UNCHANGED payloadVars
  BY <1>2 DEF payloadVars, PayloadHolds, RangesStayApart, Entries
<1> QED BY <1>1, <1>2

-----------------------------------------------------------------------------
(* What the components read of the graph.                                  *)

Labels == {"none", "plain", "state", "task", "entity", "childof", "transition", "attached"}
              \cup Kinds
GraphHolds == IsGraph(graph, Labels)

(* The edges of one kind that leave a node, each once.                     *)
LEMMA OutOfKindIs ==
    ASSUME NEW W, NEW g, IsGraph(g, W), NEW n \in LiveNodes(g), NEW kind
    PROVE  LET out == OutOfKind(g, n, kind) IN
           /\ out \in Seq(SomeIds) /\ Distinct(out)
           /\ Elems(out) = {e \in LiveEdges(g) : EdgeAt(g, e).from = n /\ EdgeAt(g, e).what = kind}
<1> DEFINE all == NodeAt(g, n).out
           K == {e \in LiveEdges(g) : EdgeAt(g, e).what = kind}
<1>1. g \in GraphRecord(W) /\ NodeSlotsHold(g) /\ EntriesHold(g)
  BY DEF IsGraph
<1>2. NodeAt(g, n) = g.nodes[n[1]] /\ n \in NodeIndices \X Nat
  BY <1>1, LiveNode
<1>3. all \in Seq(SomeIds)
  BY <1>1, <1>2 DEF GraphRecord, NodeSlot
<1>4. Distinct(all) /\ Elems(all) = {e \in LiveEdges(g) : EdgeAt(g, e).from = n}
  BY <1>1 DEF EntriesHold
<1> HIDE DEF all, K
<1>5. OutOfKind(g, n, kind) = Only(all, K)
  BY DEF OutOfKind, OutEdges, all, K
<1>6. /\ Only(all, K) \in Seq(SomeIds) /\ Elems(Only(all, K)) = Elems(all) \cap K
      /\ Distinct(Only(all, K))
  BY <1>3, <1>4, ElemsOfOnly
<1>7. Elems(all) \cap K = {e \in LiveEdges(g) : EdgeAt(g, e).from = n /\ EdgeAt(g, e).what = kind}
  BY <1>4 DEF K
<1> QED BY <1>5, <1>6, <1>7

(* The graphs the components begin with.                                   *)
LEMMA OneNodeGraph ==
    ASSUME NEW what \in Labels
    PROVE  /\ IsGraph(WithNode(EmptyGraph, what), Labels)
           /\ LiveEdges(WithNode(EmptyGraph, what)) = {}
<1>1. IsGraph(EmptyGraph, Labels) /\ LiveEdges(EmptyGraph) = {}
  BY EmptyGraphIsSound DEF Labels
<1>2. NodeRoom(EmptyGraph)
  BY GraphAssumption DEF NodeRoom, EmptyGraph
<1> QED BY <1>1, <1>2, WithNodeIsSound DEF EdgesStay

-----------------------------------------------------------------------------
(* The task orchestrator.  What a caller has looked up stays true until it *)
(* adds its edge, unless somebody else adds to the same pair meanwhile.    *)

Pair(g, data, e) == <<EdgeAt(g, e).from, data[e].code>>
PairOf(callers, c) == <<callers[c].source, callers[c].code>>
Agree(g, data, apart) ==
    \A d, e \in DOMAIN data : Pair(g, data, d) = Pair(g, data, e) =>
        data[d].mode = data[e].mode \/ Pair(g, data, d) \in apart
EdgesAreCarried ==
    /\ DOMAIN carried = LiveEdges(graph)
    /\ \A e \in LiveEdges(graph) : EdgeAt(graph, e).what = "transition"
AddersAgree ==
    /\ adding = [c \in FlowCallers |-> adding[c]]
    /\ \A c \in FlowCallers : adding[c].pc = "add" =>
          \A e \in LiveEdges(graph) : Pair(graph, carried, e) = PairOf(adding, c) =>
             carried[e].mode = adding[c].mode \/ Pair(graph, carried, e) \in overlapped
    /\ \A b, c \in FlowCallers :
          b # c /\ adding[b].pc = "add" /\ adding[c].pc = "add" /\ PairOf(adding, b) = PairOf(adding, c) =>
             PairOf(adding, c) \in overlapped
OrchestratorHolds ==
    GraphHolds /\ EdgesAreCarried /\ AddersAgree /\ Agree(graph, carried, overlapped)

LEMMA OrchestratorStarts ==
    graph = DefaultTasks /\ TransitionsInit => OrchestratorHolds
<1> SUFFICES ASSUME graph = DefaultTasks, TransitionsInit PROVE OrchestratorHolds
  OBVIOUS
<1>1. GraphHolds /\ LiveEdges(graph) = {}
  BY OneNodeGraph DEF DefaultTasks, GraphHolds, Labels
<1>2. carried = <<>> /\ DOMAIN carried = {}
  BY DEF TransitionsInit
<1>3. adding = [c \in FlowCallers |-> NoTransition]
  BY DEF TransitionsInit
<1>4. \A c \in FlowCallers : adding[c].pc # "add"
  BY <1>3 DEF NoTransition
<1> QED BY <1>1, <1>2, <1>3, <1>4 DEF OrchestratorHolds, EdgesAreCarried, AddersAgree, Agree

LEMMA AgreeIs == ModesAgree <=> Agree(graph, carried, overlapped)
BY DEF ModesAgree, SamePair, Agree, Pair

(* A step that leaves the edges, what they carry and the callers alone.    *)
LEMMA OrchestratorRests ==
    ASSUME OrchestratorHolds, GraphHolds', EdgesStay(graph, graph'),
           UNCHANGED <<carried, adding, overlapped>>
    PROVE  OrchestratorHolds'
<1>1. /\ GraphHolds /\ EdgesAreCarried /\ AddersAgree /\ Agree(graph, carried, overlapped)
  BY DEF OrchestratorHolds
<1>2. \A e \in LiveEdges(graph) : e \in SomeIds
  BY <1>1, EdgesAreIds DEF GraphHolds
<1>3. /\ LiveEdges(graph') = LiveEdges(graph)
      /\ \A e \in LiveEdges(graph) : EdgeAt(graph', e) = EdgeAt(graph, e)
  BY <1>2 DEF EdgesStay
<1>4. /\ LiveEdges(graph)' = LiveEdges(graph)
      /\ \A e \in LiveEdges(graph) : EdgeAt(graph, e)' = EdgeAt(graph, e)
  BY <1>3
<1>5. \A e \in LiveEdges(graph) : Pair(graph', carried', e) = Pair(graph, carried, e)
  BY <1>4 DEF Pair
<1>6. \A c : PairOf(adding', c) = PairOf(adding, c)
  BY DEF PairOf
<1>7. EdgesAreCarried'
  BY <1>1, <1>4 DEF EdgesAreCarried
<1>8. AddersAgree'
  BY <1>1, <1>4, <1>5, <1>6 DEF AddersAgree
<1>9. Agree(graph', carried', overlapped')
  BY <1>1, <1>4, <1>5 DEF Agree, EdgesAreCarried
<1> QED BY <1>7, <1>8, <1>9 DEF OrchestratorHolds

LEMMA CheckKeepsModes ==
    ASSUME OrchestratorHolds, NEW c \in FlowCallers, NEW source, NEW next, NEW code, NEW mode,
           CheckTransition(c, source, code, next, mode)
    PROVE  OrchestratorHolds'
<1> DEFINE pair == <<source, code>>
           out == OutOfKind(graph, source, "transition")
           K == {e \in DOMAIN carried : carried[e].code = code}
           ofCode == Only(out, K)
           others == {b \in FlowCallers :
                         adding[b].pc = "add" /\ adding[b].source = source /\ adding[b].code = code}
<1>1. /\ GraphHolds /\ EdgesAreCarried /\ AddersAgree /\ Agree(graph, carried, overlapped)
  BY DEF OrchestratorHolds
<1>2. /\ adding[c].pc = "idle" /\ source \in LiveNodes(graph)
      /\ StoredModeFor(source, code, mode) = mode
      /\ adding' = [adding EXCEPT ![c] = [pc |-> "add", source |-> source, next |-> next,
                                          code |-> code, mode |-> mode]]
      /\ overlapped' = overlapped \cup {pair : d \in others}
      /\ UNCHANGED <<graph, carried, currentTask>>
  BY DEF CheckTransition, Conflicts
<1>3. /\ out \in Seq(SomeIds)
      /\ Elems(out) = {e \in LiveEdges(graph) :
                          EdgeAt(graph, e).from = source /\ EdgeAt(graph, e).what = "transition"}
  BY <1>1, <1>2, OutOfKindIs DEF GraphHolds
<1>4. ofCode \in Seq(SomeIds) /\ Elems(ofCode) = Elems(out) \cap K
  BY <1>3, ElemsOfOnly
<1>5. Elems(ofCode) = {e \in LiveEdges(graph) : Pair(graph, carried, e) = pair}
  BY <1>1, <1>3, <1>4 DEF EdgesAreCarried, Pair
<1>6. \A e \in LiveEdges(graph) : Pair(graph, carried, e) = pair => carried[e].mode = mode \/ pair \in overlapped
  <2>1. CASE ofCode = <<>>
    BY <1>4, <1>5, <2>1, FirstOf
  <2>2. CASE ofCode # <<>>
    <3>1. ofCode[1] \in LiveEdges(graph) /\ Pair(graph, carried, ofCode[1]) = pair
      BY <1>4, <1>5, <2>2, FirstOf
    <3>2. carried[ofCode[1]].mode = mode
      BY <1>2, <2>2 DEF StoredModeFor
    <3> HIDE DEF ofCode, pair
    <3> QED BY <1>1, <3>1, <3>2 DEF Agree, EdgesAreCarried
  <2> QED BY <2>1, <2>2
<1>7. /\ LiveEdges(graph)' = LiveEdges(graph) /\ overlapped \subseteq overlapped'
      /\ \A e : Pair(graph', carried', e) = Pair(graph, carried, e)
      /\ GraphHolds' /\ EdgesAreCarried'
  BY <1>1, <1>2 DEF Pair, GraphHolds, EdgesAreCarried
<1>8. adding = [b \in FlowCallers |-> adding[b]]
  BY <1>1 DEF AddersAgree
<1>9. /\ adding' = [b \in FlowCallers |-> adding'[b]]
      /\ \A b \in FlowCallers \ {c} : adding'[b] = adding[b] /\ PairOf(adding', b) = PairOf(adding, b)
      /\ adding'[c].pc = "add" /\ adding'[c].mode = mode /\ PairOf(adding', c) = pair
  BY <1>2, <1>8 DEF PairOf
<1>10. \A b \in FlowCallers \ {c} : adding[b].pc = "add" /\ PairOf(adding, b) = pair => pair \in overlapped'
  <2> SUFFICES ASSUME NEW b \in FlowCallers \ {c}, adding[b].pc = "add", PairOf(adding, b) = pair
               PROVE  pair \in overlapped'
    OBVIOUS
  <2>1. b \in others
    BY DEF PairOf
  <2> QED BY <1>2, <2>1
<1>11. AddersAgree'
  <2> HIDE DEF pair
  <2>1. ASSUME NEW b \in FlowCallers, adding'[b].pc = "add",
               NEW e \in LiveEdges(graph), Pair(graph', carried', e) = PairOf(adding', b)
        PROVE  carried'[e].mode = adding'[b].mode \/ Pair(graph', carried', e) \in overlapped'
    <3>1. CASE b = c
      BY <1>2, <1>6, <1>7, <1>9, <2>1, <3>1
    <3>2. CASE b # c
      BY <1>1, <1>2, <1>7, <1>9, <2>1, <3>2 DEF AddersAgree
    <3> QED BY <3>1, <3>2
  <2>2. ASSUME NEW a \in FlowCallers, NEW b \in FlowCallers, a # b,
               adding'[a].pc = "add", adding'[b].pc = "add", PairOf(adding', a) = PairOf(adding', b)
        PROVE  PairOf(adding', b) \in overlapped'
    <3>1. CASE a = c
      BY <1>9, <1>10, <2>2, <3>1
    <3>2. CASE b = c
      BY <1>9, <1>10, <2>2, <3>2
    <3>3. CASE a # c /\ b # c
      BY <1>1, <1>7, <1>9, <2>2, <3>3 DEF AddersAgree
    <3> QED BY <3>1, <3>2, <3>3
  <2> QED BY <1>7, <1>9, <2>1, <2>2 DEF AddersAgree
<1>12. Agree(graph', carried', overlapped')
  BY <1>1, <1>2, <1>7 DEF Agree
<1> QED BY <1>7, <1>11, <1>12 DEF OrchestratorHolds

LEMMA AddKeepsModes ==
    ASSUME OrchestratorHolds, NEW c \in FlowCallers, AddTransitionEdge(c)
    PROVE  OrchestratorHolds'
<1> DEFINE t == adding[c]
           id == NextEdgeId(graph)
<1>1. /\ GraphHolds /\ EdgesAreCarried /\ AddersAgree /\ Agree(graph, carried, overlapped)
  BY DEF OrchestratorHolds
<1>2. /\ t.pc = "add" /\ EdgeRoom(graph) /\ EdgeFits(graph, t.source, t.next)
      /\ graph' = WithEdge(graph, t.source, t.next, "transition")
      /\ carried' = [e \in DOMAIN carried \cup {id} |->
                        IF e \in DOMAIN carried THEN carried[e]
                        ELSE [code |-> t.code, mode |-> t.mode]]
      /\ adding' = [adding EXCEPT ![c] = NoTransition]
      /\ UNCHANGED <<currentTask, overlapped>>
  BY DEF AddTransitionEdge
<1>3. /\ IsGraph(graph', Labels) /\ id \in SomeIds /\ id \notin LiveEdges(graph)
      /\ LiveEdges(graph') = LiveEdges(graph) \cup {id}
      /\ EdgeAt(graph', id) = [gen |-> id[2], from |-> t.source, to |-> t.next,
                               what |-> "transition"]
      /\ \A e \in SomeIds \ {id} : EdgeAt(graph', e) = EdgeAt(graph, e)
  BY <1>1, <1>2, WithEdgeIsSound DEF GraphHolds, Labels
<1> HIDE DEF id
<1>4. /\ LiveEdges(graph)' = LiveEdges(graph) \cup {id} /\ DOMAIN carried = LiveEdges(graph)
      /\ \A e \in LiveEdges(graph) : e \in SomeIds \ {id}
  BY <1>1, <1>3, EdgesAreIds DEF GraphHolds, EdgesAreCarried
<1>5. /\ \A e \in LiveEdges(graph) : /\ EdgeAt(graph, e)' = EdgeAt(graph, e)
                                     /\ carried'[e] = carried[e] /\ Pair(graph', carried', e) = Pair(graph, carried, e)
      /\ DOMAIN carried' = LiveEdges(graph)'
  BY <1>2, <1>3, <1>4 DEF Pair
<1>6. /\ carried'[id].mode = t.mode /\ carried'[id].code = t.code
      /\ EdgeAt(graph', id).from = t.source /\ EdgeAt(graph', id).what = "transition"
  <2>1. id \notin DOMAIN carried
    BY <1>3, <1>4
  <2>2. carried'[id] = [code |-> t.code, mode |-> t.mode]
    BY <1>2, <2>1
  <2>3. /\ EdgeAt(graph', id).from = t.source /\ EdgeAt(graph', id).what = "transition"
    BY <1>3
  <2> QED BY <2>2, <2>3
<1>6a. Pair(graph', carried', id) = PairOf(adding, c)
  BY <1>6 DEF Pair, PairOf
<1>7. EdgesAreCarried'
  <2>1. \A e \in LiveEdges(graph) : EdgeAt(graph', e).what = "transition"
    BY <1>1, <1>5 DEF EdgesAreCarried
  <2>2. \A e \in LiveEdges(graph') : EdgeAt(graph', e).what = "transition"
    BY <1>3, <1>6, <2>1
  <2> QED BY <1>5, <2>2 DEF EdgesAreCarried
<1>8. adding = [b \in FlowCallers |-> adding[b]]
  BY <1>1 DEF AddersAgree
<1>9. /\ adding' = [b \in FlowCallers |-> adding'[b]]
      /\ \A b \in FlowCallers \ {c} : adding'[b] = adding[b] /\ PairOf(adding', b) = PairOf(adding, b)
      /\ adding'[c].pc # "add"
  BY <1>2, <1>8 DEF PairOf, NoTransition
<1>10. \A e \in LiveEdges(graph) : Pair(graph, carried, e) = PairOf(adding, c) =>
          carried[e].mode = t.mode \/ PairOf(adding, c) \in overlapped
  BY <1>1, <1>2 DEF AddersAgree
<1> HIDE DEF t
<1>11. AddersAgree'
  <2>1. ASSUME NEW b \in FlowCallers, adding'[b].pc = "add",
               NEW e \in LiveEdges(graph) \cup {id}, Pair(graph', carried', e) = PairOf(adding', b)
        PROVE  carried'[e].mode = adding'[b].mode \/ Pair(graph', carried', e) \in overlapped'
    <3>1. b # c
      BY <1>9, <2>1
    <3>2. CASE e \in LiveEdges(graph)
      <4>1. /\ adding[b].pc = "add" /\ adding'[b] = adding[b]
            /\ carried'[e] = carried[e] /\ Pair(graph', carried', e) = Pair(graph, carried, e)
            /\ PairOf(adding', b) = PairOf(adding, b)
        BY <1>5, <1>9, <2>1, <3>1, <3>2
      <4>2. carried[e].mode = adding[b].mode \/ Pair(graph, carried, e) \in overlapped
        BY <1>1, <2>1, <3>2, <4>1 DEF AddersAgree
      <4> QED BY <1>2, <4>1, <4>2
    <3>3. CASE e = id
      BY <1>1, <1>2, <1>6, <1>6a, <1>9, <2>1, <3>1, <3>3 DEF AddersAgree, t
    <3> QED BY <3>2, <3>3
  <2>2. ASSUME NEW a \in FlowCallers, NEW b \in FlowCallers, a # b,
               adding'[a].pc = "add", adding'[b].pc = "add", PairOf(adding', a) = PairOf(adding', b)
        PROVE  PairOf(adding', b) \in overlapped'
    <3>1. a # c /\ b # c
      BY <1>9, <2>2
    <3> QED BY <1>1, <1>2, <1>9, <2>2, <3>1 DEF AddersAgree
  <2> QED BY <1>4, <1>9, <2>1, <2>2 DEF AddersAgree
<1>12. Agree(graph', carried', overlapped')
  <2>1. ASSUME NEW d \in LiveEdges(graph) \cup {id}, NEW e \in LiveEdges(graph) \cup {id},
               Pair(graph', carried', d) = Pair(graph', carried', e)
        PROVE  carried'[d].mode = carried'[e].mode \/ Pair(graph', carried', d) \in overlapped'
    <3>1. CASE d \in LiveEdges(graph) /\ e \in LiveEdges(graph)
      BY <1>1, <1>2, <1>4, <1>5, <2>1, <3>1 DEF Agree
    <3>2. CASE d = id /\ e \in LiveEdges(graph)
      BY <1>2, <1>5, <1>6, <1>6a, <1>10, <2>1, <3>2
    <3>3. CASE d \in LiveEdges(graph) /\ e = id
      BY <1>2, <1>5, <1>6, <1>6a, <1>10, <2>1, <3>3
    <3>4. CASE d = id /\ e = id
      BY <3>4
    <3> QED BY <3>1, <3>2, <3>3, <3>4
  <2> QED BY <1>4, <1>5, <2>1 DEF Agree
<1> QED BY <1>3, <1>7, <1>11, <1>12 DEF OrchestratorHolds, GraphHolds

LEMMA OrchestratorSteps ==
    ASSUME OrchestratorHolds, OrchestratorNext \/ UNCHANGED orchestratorVars
    PROVE  OrchestratorHolds'
<1>1. GraphHolds
  BY DEF OrchestratorHolds
<1>2. ASSUME graph' = graph PROVE GraphHolds' /\ EdgesStay(graph, graph')
  BY <1>1, <1>2 DEF GraphHolds, EdgesStay
<1>3. CASE UNCHANGED orchestratorVars
  BY <1>2, <1>3, OrchestratorRests DEF orchestratorVars
<1>4. CASE AddTask
  <2>1. GraphHolds' /\ EdgesStay(graph, graph') /\ UNCHANGED <<carried, adding, overlapped>>
    BY <1>1, <1>4, WithNodeIsSound DEF AddTask, GraphHolds, Labels
  <2> QED BY <2>1, OrchestratorRests
<1>5. ASSUME NEW c \in FlowCallers, NEW m, NEW n, NEW code, NEW mode,
             CheckTransition(c, m, code, n, mode)
      PROVE  OrchestratorHolds'
  BY <1>5, CheckKeepsModes
<1>6. ASSUME NEW c \in FlowCallers, AddTransitionEdge(c) PROVE OrchestratorHolds'
  BY <1>6, AddKeepsModes
<1>7. ASSUME NEW n, Enqueue(n) PROVE OrchestratorHolds'
  BY <1>2, <1>7, OrchestratorRests DEF Enqueue
<1> QED BY <1>3, <1>4, <1>5, <1>6, <1>7 DEF OrchestratorNext

-----------------------------------------------------------------------------
(* The state topology.  A cycle that a new edge closes leads from its      *)
(* child over its parent back to the child, so the walk up from the parent *)
(* meets the child as soon as the walk from any state of the cycle would   *)
(* meet that state.                                                        *)

OneParentEach(g) ==
    /\ \A e \in LiveEdges(g) : EdgeAt(g, e).what = "childof"
    /\ \A d, e \in LiveEdges(g) : EdgeAt(g, d).from = EdgeAt(g, e).from => d = e
IsForest(g) == IsGraph(g, Labels) /\ OneParentEach(g)

LEMMA ParentIs ==
    ASSUME NEW g, IsForest(g), NEW n \in SomeIds
    PROVE  /\ ParentOf(g, n) \in SomeIds
           /\ \A e \in LiveEdges(g) : EdgeAt(g, e).from = n => ParentOf(g, n) = EdgeAt(g, e).to
           /\ (\A e \in LiveEdges(g) : EdgeAt(g, e).from # n) => ParentOf(g, n) = NoId
<1> DEFINE parents == OutOfKind(g, n, "childof")
<1>1. /\ IsGraph(g, Labels) /\ OneParentEach(g)
      /\ g \in GraphRecord(Labels) /\ NodeSlotsHold(g) /\ EndsAreLive(g)
  BY DEF IsForest, IsGraph
<1>2. NoId \in SomeIds
  BY DEF NoId, SomeIds
<1>3. CASE n \in LiveNodes(g)
  <2>1. /\ parents \in Seq(SomeIds)
        /\ Elems(parents) = {e \in LiveEdges(g) : EdgeAt(g, e).from = n}
    BY <1>1, <1>3, OutOfKindIs DEF OneParentEach
  <2>2. CASE parents = <<>>
    <3>1. \A e \in LiveEdges(g) : EdgeAt(g, e).from # n
      BY <2>1, <2>2, FirstOf
    <3>2. ParentOf(g, n) = NoId
      BY <2>2 DEF ParentOf
    <3> QED BY <1>2, <3>1, <3>2
  <2>3. CASE parents # <<>>
    <3>1. /\ parents[1] \in LiveEdges(g) /\ EdgeAt(g, parents[1]).from = n
          /\ ParentOf(g, n) = EdgeAt(g, parents[1]).to
      BY <2>1, <2>3, FirstOf DEF ParentOf
    <3>2. \A e \in LiveEdges(g) : EdgeAt(g, e).from = n => e = parents[1]
      BY <1>1, <3>1 DEF OneParentEach
    <3>3. EdgeAt(g, parents[1]).to \in SomeIds
      BY <1>1, <3>1, EdgesAreIds, LiveNode
    <3> HIDE DEF parents
    <3> QED BY <3>1, <3>2, <3>3
  <2> QED BY <2>2, <2>3
<1>4. CASE n \notin LiveNodes(g)
  <2>1. NodeAt(g, n) = NoNode
    BY <1>1, <1>4, LiveNode
  <2>2. OutEdges(g, n) = <<>>
    BY <2>1 DEF OutEdges, NoNode
  <2>3. parents = Only(<<>>, {e \in LiveEdges(g) : EdgeAt(g, e).what = "childof"})
    BY <2>2 DEF OutOfKind
  <2>4. <<>> \in Seq(SomeIds) /\ Elems(<<>>) = {}
    BY DEF Elems
  <2>5. parents \in Seq(SomeIds) /\ Elems(parents) = {}
    <3> DEFINE K == {e \in LiveEdges(g) : EdgeAt(g, e).what = "childof"}
               none == <<>>
    <3>1. none \in Seq(SomeIds) /\ Elems(none) = {} /\ parents = Only(none, K)
      BY <2>3, <2>4
    <3> HIDE DEF K, none, parents
    <3>2. Only(none, K) \in Seq(SomeIds) /\ Elems(Only(none, K)) = Elems(none) \cap K
      BY <3>1, ElemsOfOnly
    <3> QED BY <3>1, <3>2
  <2>6. parents = <<>>
    BY <2>5, FirstOf
  <2>7. ParentOf(g, n) = NoId
    BY <2>6 DEF ParentOf
  <2>8. \A e \in LiveEdges(g) : EdgeAt(g, e).from # n
    BY <1>1, <1>4, EdgesAreIds
  <2> QED BY <1>2, <2>7, <2>8
<1> QED BY <1>3, <1>4

(* The walk up, as the code takes it.                                      *)
Climb(g, n, f) ==
    /\ f \in [0 .. MaxDepth -> SomeIds] /\ f[0] = n
    /\ \A k \in 1 .. MaxDepth : f[k] = ParentOf(g, f[k - 1])

LEMMA ClimbIs ==
    ASSUME NEW g, IsForest(g), NEW n \in SomeIds
    PROVE  \E f : /\ Climb(g, n, f)
                  /\ \A a : IsAncestorOf(g, a, n) <=> \E k \in 1 .. MaxDepth : f[k] = a
<1> DEFINE IsUp(f) == f = [k \in 0 .. MaxDepth |-> IF k = 0 THEN n ELSE ParentOf(g, f[k - 1])]
           up == CHOOSE f : IsUp(f)
           step == [p \in (1 .. MaxDepth) \X SomeIds |-> ParentOf(g, p[2])]
<1>1. MaxDepth \in Nat
  BY DepthAssumption
<1>2. step \in [(1 .. MaxDepth) \X SomeIds -> SomeIds]
  BY ParentIs
<1>3. PICK f : Steps(f, MaxDepth, SomeIds, n, step)
  BY <1>1, <1>2, Recursion
<1>4. Climb(g, n, f)
  <2>1. /\ f \in [0 .. MaxDepth -> SomeIds] /\ f[0] = n
        /\ \A k \in 1 .. MaxDepth : f[k] = step[<<k, f[k - 1]>>]
    BY <1>3 DEF Steps
  <2>2. ASSUME NEW k \in 1 .. MaxDepth PROVE f[k] = ParentOf(g, f[k - 1])
    <3>1. k - 1 \in 0 .. MaxDepth /\ f[k - 1] \in SomeIds
      BY <1>1, <2>1
    <3> QED BY <2>1, <3>1
  <2> QED BY <2>1, <2>2 DEF Climb
<1> HIDE DEF step
<1>5. IsUp(f)
  <2>1. /\ f \in [0 .. MaxDepth -> SomeIds]
        /\ \A k \in 0 .. MaxDepth : f[k] = IF k = 0 THEN n ELSE ParentOf(g, f[k - 1])
    BY <1>1, <1>4 DEF Climb
  <2> QED BY <2>1
<1>6. IsUp(up)
  BY <1>5
<1>7. /\ \A k \in 0 .. MaxDepth : up[k] = IF k = 0 THEN n ELSE ParentOf(g, up[k - 1])
  BY <1>6
<1>8. \A k \in 0 .. MaxDepth : up[k] = f[k]
  <2> DEFINE T == {k \in 0 .. MaxDepth : up[k] = f[k]}
  <2>1. 0 \in T
    BY <1>1, <1>4, <1>7 DEF Climb
  <2>2. ASSUME NEW k \in 1 .. MaxDepth, k - 1 \in T PROVE k \in T
    BY <1>1, <1>4, <1>7, <2>2 DEF Climb
  <2> HIDE DEF T
  <2>3. \A k \in 0 .. MaxDepth : k \in T
    BY <1>1, <2>1, <2>2, Induction, Zenon
  <2> QED BY <2>3 DEF T
<1>9. \A a : IsAncestorOf(g, a, n) <=> \E k \in 1 .. MaxDepth : up[k] = a
  BY Zenon DEF IsAncestorOf, Above
<1> HIDE DEF up
<1>10. \A a : IsAncestorOf(g, a, n) <=> \E k \in 1 .. MaxDepth : f[k] = a
  BY <1>1, <1>8, <1>9
<1> QED BY <1>4, <1>10

LEMMA OneClimb ==
    ASSUME NEW g, NEW n, NEW f, Climb(g, n, f), NEW a, IsAncestorOf(g, a, n),
           IsForest(g), n \in SomeIds
    PROVE  \E k \in 1 .. MaxDepth : f[k] = a
<1>1. PICK u : /\ Climb(g, n, u)
               /\ \A b : IsAncestorOf(g, b, n) <=> \E k \in 1 .. MaxDepth : u[k] = b
  BY ClimbIs
<1> DEFINE T == {k \in 0 .. MaxDepth : u[k] = f[k]}
<1>2. MaxDepth \in Nat
  BY DepthAssumption
<1>3. 0 \in T
  BY <1>1, <1>2 DEF Climb
<1>4. ASSUME NEW k \in 1 .. MaxDepth, k - 1 \in T PROVE k \in T
  BY <1>1, <1>2, <1>4 DEF Climb
<1> HIDE DEF T
<1>5. \A k \in 0 .. MaxDepth : k \in T
  BY <1>2, <1>3, <1>4, Induction, Zenon
<1> QED BY <1>1, <1>2, <1>5 DEF T

(* What climbs along f without ever being at the child climbs so before    *)
(* and after the edge is added.                                            *)
Follows(g, w, m) == \A j \in 1 .. m : w[j] = ParentOf(g, w[j - 1])

LEMMA TwoWalks ==
    ASSUME NEW g, NEW m \in Nat, NEW v, NEW w, Follows(g, v, m), Follows(g, w, m), v[0] = w[0]
    PROVE  \A j \in 0 .. m : v[j] = w[j]
<1> DEFINE T == {j \in 0 .. m : v[j] = w[j]}
<1>1. 0 \in T
  OBVIOUS
<1>2. ASSUME NEW j \in 1 .. m, j - 1 \in T PROVE j \in T
  BY <1>2 DEF Follows
<1> HIDE DEF T
<1>3. \A j \in 0 .. m : j \in T
  BY <1>1, <1>2, Induction, Zenon
<1> QED BY <1>3 DEF T

NoneAbove(g) == \A n \in LiveNodes(g) : ~IsAncestorOf(g, n, ParentOf(g, n))

(* The heart of it: adding the edge closes no short cycle.                 *)
LEMMA NoCycleIsClosed ==
    ASSUME NEW g, NEW h, IsForest(g), IsForest(h), NoneAbove(g),
           LiveNodes(h) = LiveNodes(g),
           NEW parent \in LiveNodes(g), NEW child \in LiveNodes(g), parent # child,
           ~IsAncestorOf(g, child, parent),
           \A n \in SomeIds : ParentOf(h, n) = IF n = child THEN parent ELSE ParentOf(g, n)
    PROVE  NoneAbove(h)
<1>1. \A n \in LiveNodes(g) : n \in SomeIds
  BY LiveNode DEF IsForest, IsGraph
<1>2. PICK u : /\ Climb(g, parent, u)
               /\ \A a : IsAncestorOf(g, a, parent) <=> \E k \in 1 .. MaxDepth : u[k] = a
  BY <1>1, ClimbIs
<1>3. MaxDepth \in Nat
  BY DepthAssumption
<1>4. \A k \in 0 .. MaxDepth : u[k] \in SomeIds /\ u[k] # child
  BY <1>2, <1>3 DEF Climb
<1>5. /\ u[0] = parent
      /\ \A k \in 1 .. MaxDepth : u[k] = ParentOf(g, u[k - 1])
  BY <1>2 DEF Climb
<1>6. \A k \in 1 .. MaxDepth : u[k] = ParentOf(h, u[k - 1])
  BY <1>3, <1>4, <1>5
<1> SUFFICES ASSUME NEW n \in LiveNodes(g), IsAncestorOf(h, n, ParentOf(h, n)) PROVE FALSE
  BY DEF NoneAbove
<1>7. n \in SomeIds /\ ParentOf(h, n) \in SomeIds
  BY <1>1, ParentIs
<1>8. PICK v : /\ Climb(h, ParentOf(h, n), v)
               /\ \A a : IsAncestorOf(h, a, ParentOf(h, n)) <=> \E k \in 1 .. MaxDepth : v[k] = a
  BY <1>7, ClimbIs
<1>9. PICK k \in 1 .. MaxDepth : v[k] = n
  BY <1>8
<1> DEFINE w == [j \in 0 .. k + 1 |-> IF j = 0 THEN n ELSE v[j - 1]]
<1>10. /\ k \in Nat /\ w[0] = n /\ w[k + 1] = n
       /\ \A j \in 0 .. k + 1 : w[j] \in SomeIds
       /\ \A j \in 1 .. k + 1 : w[j] = ParentOf(h, w[j - 1])
  <2>1. /\ v \in [0 .. MaxDepth -> SomeIds] /\ v[0] = ParentOf(h, n)
        /\ \A j \in 1 .. MaxDepth : v[j] = ParentOf(h, v[j - 1])
    BY <1>8 DEF Climb
  <2>2. k \in Nat /\ w[0] = n /\ w[k + 1] = n
    BY <1>3, <1>9
  <2>3. ASSUME NEW j \in 0 .. k + 1 PROVE w[j] \in SomeIds
    <3>1. CASE j = 0
      BY <1>7, <3>1
    <3>2. CASE j # 0
      <4>1. j - 1 \in 0 .. MaxDepth /\ w[j] = v[j - 1]
        BY <1>3, <2>2, <3>2
      <4> QED BY <2>1, <4>1
    <3> QED BY <3>1, <3>2
  <2>4. ASSUME NEW j \in 1 .. k + 1 PROVE w[j] = ParentOf(h, w[j - 1])
    <3>1. CASE j = 1
      BY <2>1, <2>2, <3>1
    <3>2. CASE j # 1
      <4>1. j - 1 \in 1 .. MaxDepth /\ j - 1 \in 1 .. k + 1 /\ w[j] = v[j - 1] /\ w[j - 1] = v[(j - 1) - 1]
        BY <1>3, <2>2, <3>2
      <4> QED BY <2>1, <4>1
    <3> QED BY <3>1, <3>2
  <2> QED BY <2>2, <2>3, <2>4
<1> HIDE DEF w
<1>11. CASE \A j \in 0 .. k : w[j] # child
  <2>1. \A j \in 1 .. k + 1 : w[j] = ParentOf(g, w[j - 1])
    BY <1>10, <1>11
  <2>2. PICK f : /\ Climb(g, ParentOf(g, n), f)
                 /\ \A a : IsAncestorOf(g, a, ParentOf(g, n)) <=> \E i \in 1 .. MaxDepth : f[i] = a
    BY <1>7, ParentIs, ClimbIs
  <2> DEFINE x == [j \in 0 .. k |-> w[j + 1]]
  <2>3. Follows(g, x, k)
    <3> SUFFICES ASSUME NEW j \in 1 .. k PROVE x[j] = ParentOf(g, x[j - 1])
      BY DEF Follows
    <3>1. j + 1 \in 1 .. k + 1 /\ j \in 0 .. k /\ j - 1 \in 0 .. k /\ x[j] = w[j + 1] /\ x[j - 1] = w[(j + 1) - 1]
      BY <1>10
    <3> HIDE DEF x
    <3> QED BY <2>1, <3>1
  <2>4. Follows(g, f, k)
    BY <1>3, <1>9, <2>2 DEF Follows, Climb
  <2>5. x[0] = f[0] /\ x[k] = n
    BY <1>3, <1>10, <2>1, <2>2 DEF Climb
  <2> HIDE DEF x
  <2>6. \A j \in 0 .. k : x[j] = f[j]
    BY <1>10, <2>3, <2>4, <2>5, TwoWalks
  <2>7. f[k] = n
    BY <1>10, <2>5, <2>6
  <2>8. IsAncestorOf(g, n, ParentOf(g, n))
    BY <1>9, <2>2, <2>7
  <2> QED BY <2>8 DEF NoneAbove
<1>12. CASE \E j \in 0 .. k : w[j] = child
  <2>1. PICK j \in 0 .. k : w[j] = child
    BY <1>12
  <2> DEFINE m == k - j
             x == [i \in 0 .. m |-> w[(j + 1) + i]]
             y == [i \in 0 .. j |-> u[m + i]]
  <2>2. m \in Nat /\ j \in Nat /\ k <= MaxDepth /\ m <= MaxDepth /\ m + j = k
    BY <1>3, <1>10
  <2>3. Follows(h, x, m)
    <3> SUFFICES ASSUME NEW i \in 1 .. m PROVE x[i] = ParentOf(h, x[i - 1])
      BY DEF Follows
    <3>1. /\ (j + 1) + i \in 1 .. k + 1 /\ i \in 0 .. m /\ i - 1 \in 0 .. m
          /\ x[i] = w[(j + 1) + i] /\ x[i - 1] = w[((j + 1) + i) - 1]
      BY <1>10, <2>2
    <3> HIDE DEF x
    <3> QED BY <1>10, <3>1
  <2>4. Follows(h, u, m)
    BY <1>3, <1>6, <2>2 DEF Follows
  <2>5. x[0] = u[0] /\ x[m] = n
    <3>1. j + 1 \in 1 .. k + 1 /\ (j + 1) - 1 = j /\ (j + 1) + m = k + 1 /\ (j + 1) + 0 = j + 1
      BY <1>10, <2>2
    <3>2. x[0] = w[j + 1] /\ x[m] = w[k + 1]
      BY <2>2, <3>1
    <3>3. w[j + 1] = ParentOf(h, child)
      BY <1>10, <2>1, <3>1
    <3>4. ParentOf(h, child) = parent
      BY <1>1
    <3> HIDE DEF x
    <3> QED BY <1>5, <1>10, <3>2, <3>3, <3>4
  <2>6. u[m] = n
    <3> HIDE DEF x
    <3>1. \A i \in 0 .. m : x[i] = u[i]
      BY <2>2, <2>3, <2>4, <2>5, TwoWalks
    <3> QED BY <2>2, <2>5, <3>1
  <2>7. Follows(h, y, j)
    <3> SUFFICES ASSUME NEW i \in 1 .. j PROVE y[i] = ParentOf(h, y[i - 1])
      BY DEF Follows
    <3>1. /\ m + i \in 1 .. MaxDepth /\ i \in 0 .. j /\ i - 1 \in 0 .. j
          /\ y[i] = u[m + i] /\ y[i - 1] = u[(m + i) - 1]
      BY <1>3, <2>2
    <3> HIDE DEF y
    <3> QED BY <1>6, <3>1
  <2>8. Follows(h, w, j)
    BY <1>10, <2>2 DEF Follows
  <2>9. y[0] = w[0] /\ y[j] = u[k]
    <3>1. m + 0 = m
      BY <2>2
    <3> QED BY <1>10, <2>2, <2>6, <3>1
  <2>10. y[j] = w[j]
    <3> HIDE DEF y
    <3>1. \A i \in 0 .. j : y[i] = w[i]
      BY <2>2, <2>7, <2>8, <2>9, TwoWalks
    <3> QED BY <2>2, <3>1
  <2> HIDE DEF y
  <2>11. u[k] = child
    BY <2>1, <2>9, <2>10
  <2> QED BY <1>3, <1>4, <1>9, <2>11
<1> QED BY <1>11, <1>12

LEMMA SameWalks ==
    ASSUME NEW g, NEW h, IsForest(g), IsForest(h),
           \A n \in SomeIds : ParentOf(h, n) = ParentOf(g, n),
           NEW n \in SomeIds, NEW a, IsAncestorOf(h, a, n)
    PROVE  IsAncestorOf(g, a, n)
<1>1. PICK f : /\ Climb(h, n, f)
               /\ \A b : IsAncestorOf(h, b, n) <=> \E k \in 1 .. MaxDepth : f[k] = b
  BY ClimbIs
<1>2. PICK u : /\ Climb(g, n, u)
               /\ \A b : IsAncestorOf(g, b, n) <=> \E k \in 1 .. MaxDepth : u[k] = b
  BY ClimbIs
<1>3. MaxDepth \in Nat
  BY DepthAssumption
<1>4. Follows(g, u, MaxDepth) /\ u[0] = n /\ f[0] = n
  BY <1>1, <1>2 DEF Climb, Follows
<1>5. Follows(g, f, MaxDepth)
  <2>1. \A k \in 1 .. MaxDepth : f[k - 1] \in SomeIds /\ f[k] = ParentOf(h, f[k - 1])
    BY <1>1, <1>3 DEF Climb
  <2> QED BY <2>1 DEF Follows
<1>6. \A k \in 0 .. MaxDepth : f[k] = u[k]
  BY <1>3, <1>4, <1>5, TwoWalks
<1> QED BY <1>1, <1>2, <1>3, <1>6

LEMMA NothingAboveNothing ==
    ASSUME NEW g, IsForest(g), NEW a, IsAncestorOf(g, a, NoId)
    PROVE  a = NoId
<1>1. NoId \in SomeIds
  BY DEF NoId, SomeIds
<1>2. PICK f : /\ Climb(g, NoId, f)
               /\ \A b : IsAncestorOf(g, b, NoId) <=> \E k \in 1 .. MaxDepth : f[k] = b
  BY <1>1, ClimbIs
<1>3. MaxDepth \in Nat
  BY DepthAssumption
<1>4. NoId \notin LiveNodes(g)
  BY <1>1, LiveNode DEF IsForest, IsGraph, NoId
<1>5. \A e \in LiveEdges(g) : EdgeAt(g, e).from # NoId
  BY <1>4, EdgesAreIds DEF IsForest
<1>6. ParentOf(g, NoId) = NoId
  BY <1>1, <1>5, ParentIs
<1> DEFINE T == {k \in 0 .. MaxDepth : f[k] = NoId}
<1>7. 0 \in T
  BY <1>2, <1>3 DEF Climb
<1>8. ASSUME NEW k \in 1 .. MaxDepth, k - 1 \in T PROVE k \in T
  BY <1>2, <1>6, <1>8 DEF Climb
<1> HIDE DEF T
<1>9. \A k \in 0 .. MaxDepth : k \in T
  BY <1>3, <1>7, <1>8, Induction, Zenon
<1> QED BY <1>2, <1>3, <1>9 DEF T

TopologyHolds == IsForest(graph) /\ NoneAbove(graph)

LEMMA TopologyStarts == graph = DefaultGraph => TopologyHolds
<1> SUFFICES ASSUME graph = DefaultGraph PROVE TopologyHolds
  OBVIOUS
<1>1. IsGraph(graph, Labels) /\ LiveEdges(graph) = {}
  BY OneNodeGraph DEF DefaultGraph, Labels
<1>2. IsForest(graph)
  BY <1>1 DEF IsForest, OneParentEach
<1>3. ASSUME NEW n \in LiveNodes(graph), IsAncestorOf(graph, n, ParentOf(graph, n)) PROVE FALSE
  <2>1. n \in SomeIds
    BY <1>1, LiveNode DEF IsGraph
  <2>2. ParentOf(graph, n) = NoId
    BY <1>1, <1>2, <2>1, ParentIs
  <2>3. n = NoId
    BY <1>2, <1>3, <2>2, NothingAboveNothing
  <2> QED BY <1>1, <2>3, LiveNode DEF IsGraph, NoId
<1> QED BY <1>2, <1>3 DEF TopologyHolds, NoneAbove

LEMMA StateKeepsForest ==
    ASSUME TopologyHolds, AddState
    PROVE  TopologyHolds'
<1> DEFINE id == NextNodeId(graph)
<1>1. /\ IsForest(graph) /\ NoneAbove(graph) /\ IsGraph(graph, Labels) /\ OneParentEach(graph)
  BY DEF TopologyHolds, IsForest
<1>2. NodeRoom(graph) /\ graph' = WithNode(graph, "state") /\ "state" \in Labels
  BY DEF AddState, Labels
<1>3. /\ IsGraph(graph', Labels) /\ EdgesStay(graph, graph')
      /\ id \in NodeIndices \X Nat /\ id \notin LiveNodes(graph)
      /\ LiveNodes(graph') = LiveNodes(graph) \cup {id}
  BY <1>1, <1>2, WithNodeIsSound
<1> HIDE DEF id
<1>4. /\ LiveEdges(graph') = LiveEdges(graph)
      /\ \A e \in LiveEdges(graph) : EdgeAt(graph', e) = EdgeAt(graph, e)
  BY <1>1, <1>3, EdgesAreIds DEF EdgesStay
<1>5. IsForest(graph')
  BY <1>1, <1>3, <1>4 DEF IsForest, OneParentEach
<1>6. \A n \in SomeIds : ParentOf(graph', n) = ParentOf(graph, n)
  <2> TAKE n \in SomeIds
  <2>1. CASE \E e \in LiveEdges(graph) : EdgeAt(graph, e).from = n
    BY <1>1, <1>4, <1>5, <2>1, ParentIs
  <2>2. CASE \A e \in LiveEdges(graph) : EdgeAt(graph, e).from # n
    BY <1>1, <1>4, <1>5, <2>2, ParentIs
  <2> QED BY <2>1, <2>2
<1>7. id \in SomeIds /\ id # NoId
  BY <1>3, GraphAssumption DEF SomeIds, NodeIndices, NoId
<1>8. ParentOf(graph', id) = NoId
  BY <1>1, <1>3, <1>4, <1>5, <1>7, EdgesAreIds, ParentIs
<1>9. ASSUME NEW n \in LiveNodes(graph'), IsAncestorOf(graph', n, ParentOf(graph', n)) PROVE FALSE
  <2>1. n # id
    BY <1>5, <1>7, <1>8, <1>9, NothingAboveNothing
  <2>2. n \in LiveNodes(graph) /\ n \in SomeIds
    BY <1>1, <1>3, <2>1, LiveNode DEF IsGraph
  <2>3. ParentOf(graph', n) = ParentOf(graph, n) /\ ParentOf(graph, n) \in SomeIds
    BY <1>1, <1>6, <2>2, ParentIs
  <2>4. IsAncestorOf(graph, n, ParentOf(graph, n))
    BY <1>1, <1>5, <1>6, <1>9, <2>3, SameWalks
  <2> QED BY <1>1, <2>2, <2>4 DEF NoneAbove
<1> QED BY <1>5, <1>9 DEF TopologyHolds, NoneAbove

LEMMA ChildKeepsForest ==
    ASSUME TopologyHolds, NEW parent, NEW child, AddChildEdge(parent, child)
    PROVE  TopologyHolds'
<1> DEFINE id == NextEdgeId(graph)
<1>1. /\ IsForest(graph) /\ NoneAbove(graph) /\ IsGraph(graph, Labels) /\ OneParentEach(graph)
  BY DEF TopologyHolds, IsForest
<1>2. /\ parent # child /\ parent \in LiveNodes(graph) /\ child \in LiveNodes(graph)
      /\ ~IsAncestorOf(graph, child, parent) /\ OutOfKind(graph, child, "childof") = <<>>
      /\ EdgeRoom(graph) /\ graph' = WithEdge(graph, child, parent, "childof")
      /\ EdgeFits(graph, child, parent) /\ "childof" \in Labels
  BY DEF AddChildEdge, ChildAllowed, EdgeFits, Labels
<1>3. /\ IsGraph(graph', Labels) /\ NodesStay(graph, graph')
      /\ id \in SomeIds /\ id \notin LiveEdges(graph)
      /\ LiveEdges(graph') = LiveEdges(graph) \cup {id}
      /\ EdgeAt(graph', id) = [gen |-> id[2], from |-> child, to |-> parent, what |-> "childof"]
      /\ \A e \in SomeIds \ {id} : EdgeAt(graph', e) = EdgeAt(graph, e)
  BY <1>1, <1>2, WithEdgeIsSound
<1> HIDE DEF id
<1>4. \A e \in LiveEdges(graph) : e # id /\ EdgeAt(graph', e) = EdgeAt(graph, e)
  BY <1>1, <1>3, EdgesAreIds
<1>5. \A e \in LiveEdges(graph) : EdgeAt(graph, e).from # child
  <2> DEFINE out == OutOfKind(graph, child, "childof")
  <2>1. /\ out \in Seq(SomeIds) /\ out = <<>>
        /\ Elems(out) = {e \in LiveEdges(graph) :
                            EdgeAt(graph, e).from = child /\ EdgeAt(graph, e).what = "childof"}
    BY <1>1, <1>2, OutOfKindIs
  <2> HIDE DEF out
  <2>2. Elems(out) = {}
    BY <2>1, FirstOf
  <2> QED BY <1>1, <2>1, <2>2 DEF OneParentEach
<1>6. /\ EdgeAt(graph', id).from = child /\ EdgeAt(graph', id).to = parent
      /\ EdgeAt(graph', id).what = "childof"
  BY <1>3
<1>7. IsForest(graph')
  <2>1. \A e \in LiveEdges(graph') : EdgeAt(graph', e).what = "childof"
    BY <1>1, <1>3, <1>4, <1>6 DEF OneParentEach
  <2>2. ASSUME NEW d \in LiveEdges(graph'), NEW e \in LiveEdges(graph'),
               EdgeAt(graph', d).from = EdgeAt(graph', e).from
        PROVE  d = e
    BY <1>1, <1>3, <1>4, <1>5, <1>6, <2>2 DEF OneParentEach
  <2> QED BY <1>3, <2>1, <2>2 DEF IsForest, OneParentEach
<1>8. \A n \in SomeIds : ParentOf(graph', n) = IF n = child THEN parent ELSE ParentOf(graph, n)
  <2> TAKE n \in SomeIds
  <2>1. CASE n = child
    BY <1>3, <1>6, <1>7, <2>1, ParentIs
  <2>2. CASE n # child /\ \E e \in LiveEdges(graph) : EdgeAt(graph, e).from = n
    BY <1>1, <1>3, <1>4, <1>7, <2>2, ParentIs
  <2>3. CASE n # child /\ \A e \in LiveEdges(graph) : EdgeAt(graph, e).from # n
    BY <1>1, <1>3, <1>4, <1>6, <1>7, <2>3, ParentIs
  <2> QED BY <2>1, <2>2, <2>3
<1>9. LiveNodes(graph') = LiveNodes(graph)
  BY <1>3 DEF NodesStay
<1>10. NoneAbove(graph')
  BY <1>1, <1>2, <1>7, <1>8, <1>9, NoCycleIsClosed
<1> QED BY <1>7, <1>10 DEF TopologyHolds, NoneAbove

LEMMA TopologySteps ==
    ASSUME TopologyHolds, TopologyNext \/ UNCHANGED topologyVars
    PROVE  TopologyHolds'
<1>1. ASSUME graph' = graph PROVE TopologyHolds'
  BY <1>1 DEF TopologyHolds, NoneAbove
<1>2. CASE AddState
  BY <1>2, StateKeepsForest
<1>3. ASSUME NEW m, NEW n, AddChildEdge(m, n) PROVE TopologyHolds'
  BY <1>3, ChildKeepsForest
<1>4. ASSUME NEW n, Transition(n) PROVE TopologyHolds'
  BY <1>1, <1>4 DEF Transition
<1> QED BY <1>1, <1>2, <1>3, <1>4 DEF TopologyNext, topologyVars

LEMMA TopologyIsTree == TopologyHolds => HierarchyHolds
<1> SUFFICES ASSUME TopologyHolds, NEW n \in LiveNodes(graph)
             PROVE  /\ Len(OutOfKind(graph, n, "childof")) <= 1
                    /\ ~IsAncestorOf(graph, n, ParentOf(graph, n))
  BY DEF HierarchyHolds
<1> DEFINE out == OutOfKind(graph, n, "childof")
<1>1. IsGraph(graph, Labels) /\ OneParentEach(graph) /\ NoneAbove(graph)
  BY DEF TopologyHolds, IsForest
<1>2. /\ out \in Seq(SomeIds) /\ Distinct(out)
      /\ Elems(out) = {e \in LiveEdges(graph) :
                          EdgeAt(graph, e).from = n /\ EdgeAt(graph, e).what = "childof"}
  BY <1>1, OutOfKindIs
<1> HIDE DEF out
<1>3. ASSUME Len(out) > 1 PROVE FALSE
  <2>1. 1 \in 1 .. Len(out) /\ 2 \in 1 .. Len(out)
    BY <1>2, <1>3
  <2>2. out[1] \in Elems(out) /\ out[2] \in Elems(out)
    BY <2>1 DEF Elems
  <2>3. out[1] = out[2]
    BY <1>1, <1>2, <2>2 DEF OneParentEach
  <2> QED BY <1>2, <2>1, <2>3 DEF Distinct
<1>4. Len(out) <= 1
  BY <1>2, <1>3
<1> QED BY <1>1, <1>4 DEF NoneAbove, out

-----------------------------------------------------------------------------
(* The legacy task flow.                                                   *)

SignalEdge == [target : FlowTasks \cup {NoTask}, token : {"none", "live", "cancelled"},
               adapter : {"none", "alive", "dead"}, dispatch : Signals \cup {NoSignal}]
Emission == [at : {"new", "walking", "gone"}, heard : SUBSET SignalEdges,
             todo : SUBSET SignalEdges]
Delivery == [at : {"none", "queued", "checked", "done"}, signal : Signals \cup {NoSignal},
             payload : {"none", "clone"}, saw : {"none", "alive", "dead"}]
FlowRoute == [code : ResultCodes, to : FlowTasks]

RoutesHold ==
    /\ tasks \subseteq FlowTasks /\ currTask \in FlowTasks \cup {NoTask}
    /\ routes \in [FlowTasks -> Seq(FlowRoute)]
    /\ RoutesAreLive
SignalTypes ==
    /\ edges \in [SignalEdges -> SignalEdge]
    /\ emitted \in [Signals -> Emission]
    /\ deliveries \in [SignalEdges -> Delivery]
    /\ given \in [Signals -> SUBSET SignalEdges]
    /\ flowStage \in {"up", "tokens", "adapters", "tasks", "gone"}

(* A dispatch holds its token, so that the destructor has not come past    *)
(* the tokens, and its signal, so that its walk has not ended.             *)
DispatchesHold ==
    \A e \in SignalEdges : edges[e].dispatch # NoSignal =>
        /\ edges[e].token = "live" /\ TypeOf[e] = TypeOf[edges[e].dispatch]
        /\ emitted[edges[e].dispatch].at = "walking"
StagesHold ==
    /\ flowStage \in {"adapters", "tasks", "gone"} => \A e \in SignalEdges : edges[e].token # "live"
    /\ \A e \in SignalEdges : edges[e].adapter = "dead" => flowStage \in {"tasks", "gone"}
    /\ flowStage \in {"tasks", "gone"} => \A e \in SignalEdges : edges[e].adapter # "alive"
    /\ flowStage # "gone" => freed = removed

(* A runnable that passed the check found the adapter of its edge alive.   *)
ChecksHold ==
    \A e \in SignalEdges :
        /\ edges[e].adapter # "none" => e \notin Direct
        /\ deliveries[e].at = "checked" => deliveries[e].saw = "alive" /\ edges[e].adapter # "none"
LateHolds ==
    /\ \A e \in SignalEdges : <<"adapter", e>> \notin late
    /\ \A g \in Signals : <<"payload", g>> \notin late
    /\ \A t \in FlowTasks : <<"task", t>> \in late => t \in removed

(* Who has heard a signal and is still wired has it, or its turn comes.    *)
HeardHolds == \A g \in Signals :
    /\ emitted[g].at = "new" => given[g] = {}
    /\ emitted[g].todo \subseteq emitted[g].heard
    /\ \A e \in emitted[g].heard : TypeOf[e] = TypeOf[g] /\ edges[e].token # "none"
    /\ g \notin Targeted /\ emitted[g].at # "new" =>
          \A e \in emitted[g].heard \ Direct : edges[e].token = "live" =>
              \/ e \in given[g]
              \/ emitted[g].at = "walking" /\ (e \in emitted[g].todo \/ edges[e].dispatch = g)

(* The first edge that takes a signal with a target is its last.           *)
GivenHolds == \A g \in Signals :
    /\ \A e \in given[g] : TypeOf[e] = TypeOf[g]
    /\ \A d, e \in SignalEdges : edges[d].dispatch = g /\ edges[e].dispatch = g => d = e
    /\ g \in Targeted =>
          \/ given[g] = {}
          \/ \E e \in SignalEdges : given[g] = {e} /\ emitted[g].todo = {} /\ ~Inside(g)

SignalsHold ==
    /\ SignalTypes /\ DispatchesHold /\ StagesHold /\ ChecksHold /\ LateHolds
    /\ HeardHolds /\ GivenHolds
FlowHolds == RoutesHold /\ SignalsHold

LEMMA FlowStarts == ASSUME NEW asked, FlowInit(asked) PROVE FlowHolds
<1>1. RoutesHold
  BY DEF FlowInit, RoutesHold, RoutesAreLive
<1>2. /\ edges = [e \in SignalEdges |-> NoEdgeYet]
      /\ emitted = [g \in Signals |-> [at |-> IF g \in asked THEN "new" ELSE "gone",
                                       heard |-> {}, todo |-> {}]]
      /\ deliveries = [e \in SignalEdges |-> NoDelivery]
      /\ given = [g \in Signals |-> {}] /\ flowStage = "up"
      /\ freed = {} /\ removed = {} /\ late = {}
  BY DEF FlowInit
<1>3. SignalTypes
  BY <1>2 DEF SignalTypes, SignalEdge, Emission, Delivery, NoEdgeYet, NoDelivery
<1>4. \A e \in SignalEdges : /\ edges[e].dispatch = NoSignal /\ edges[e].adapter = "none"
                             /\ deliveries[e].at = "none"
  BY <1>2 DEF NoEdgeYet, NoDelivery
<1>5. \A g \in Signals : emitted[g].heard = {} /\ emitted[g].todo = {} /\ given[g] = {}
  BY <1>2
<1>6. DispatchesHold /\ StagesHold /\ ChecksHold /\ LateHolds
  BY <1>2, <1>4 DEF DispatchesHold, StagesHold, ChecksHold, LateHolds
<1>7. HeardHolds /\ GivenHolds
  BY <1>4, <1>5, NoSignalAssumption DEF HeardHolds, GivenHolds
<1> QED BY <1>1, <1>3, <1>6, <1>7 DEF FlowHolds, SignalsHold

-----------------------------------------------------------------------------
(* The routes.                                                             *)

LEMMA RemoveKeepsRoutes ==
    ASSUME RoutesHold, NEW t \in FlowTasks, RemoveTask(t)
    PROVE  RoutesHold'
<1> DEFINE K(u) == {r \in Elems(routes[u]) : r.to # t}
           kept(u) == Only(routes[u], K(u))
<1>1. /\ tasks \subseteq FlowTasks /\ currTask \in FlowTasks \cup {NoTask}
      /\ routes \in [FlowTasks -> Seq(FlowRoute)] /\ RoutesAreLive
  BY DEF RoutesHold
<1>2. /\ flowStage = "up" /\ tasks' = tasks \ {t} /\ flowStage' = flowStage
      /\ currTask' = IF currTask = t THEN NoTask ELSE currTask
      /\ routes' = [u \in FlowTasks |-> IF u = t THEN <<>> ELSE kept(u)]
  BY DEF RemoveTask, WithoutRoutesOf
<1>3. \A u \in FlowTasks : kept(u) \in Seq(FlowRoute) /\ Elems(kept(u)) = K(u)
  <2> TAKE u \in FlowTasks
  <2>1. routes[u] \in Seq(FlowRoute)
    BY <1>1
  <2>2. Only(routes[u], K(u)) \in Seq(FlowRoute) /\ Elems(Only(routes[u], K(u))) = Elems(routes[u]) \cap K(u)
    BY <2>1, ElemsOfOnly
  <2> QED BY <2>2
<1>4. \A u \in FlowTasks : Elems(routes[u]) = {routes[u][k] : k \in 1 .. Len(routes[u])}
  BY DEF Elems
<1>5. \A u \in FlowTasks : \A r \in Elems(routes[u]) : u \in tasks /\ r.to \in tasks
  <2> SUFFICES ASSUME NEW u \in FlowTasks, NEW r \in Elems(routes[u]) PROVE u \in tasks /\ r.to \in tasks
    OBVIOUS
  <2>1. routes[u] \in Seq(FlowRoute)
    BY <1>1
  <2>2. PICK k \in 1 .. Len(routes[u]) : r = routes[u][k]
    BY <1>4
  <2>3. routes[u] # <<>>
    BY <2>1, <2>2
  <2> QED BY <1>1, <1>2, <2>2, <2>3 DEF RoutesAreLive
<1> HIDE DEF kept
<1>6. ASSUME NEW u \in FlowTasks, NEW r \in Elems(routes'[u]) PROVE u \in tasks' /\ r.to \in tasks'
  <2>1. CASE u = t
    <3>1. routes'[u] = <<>>
      BY <1>2, <2>1
    <3> QED BY <1>6, <3>1 DEF Elems
  <2>2. CASE u # t
    <3>1. routes'[u] = kept(u)
      BY <1>2, <2>2
    <3>2. r \in K(u)
      BY <1>3, <1>6, <3>1
    <3> QED BY <1>2, <1>5, <2>2, <3>2
  <2> QED BY <2>1, <2>2
<1>7. routes' \in [FlowTasks -> Seq(FlowRoute)]
  BY <1>2, <1>3
<1>8. \A u \in FlowTasks : /\ routes'[u] # <<>> => u \in tasks'
                           /\ \A k \in 1 .. Len(routes'[u]) : routes'[u][k].to \in tasks'
  <2> TAKE u \in FlowTasks
  <2>1. routes'[u] \in Seq(FlowRoute)
    BY <1>7
  <2>2. \A k \in 1 .. Len(routes'[u]) : routes'[u][k] \in Elems(routes'[u])
    BY DEF Elems
  <2>3. routes'[u] # <<>> => routes'[u][1] \in Elems(routes'[u])
    BY <2>1, FirstOf
  <2> QED BY <1>6, <2>2, <2>3
<1>9. currTask' \in tasks' \cup {NoTask} /\ tasks' \subseteq FlowTasks
  BY <1>1, <1>2 DEF RoutesAreLive
<1> QED BY <1>7, <1>8, <1>9 DEF RoutesHold, RoutesAreLive

LEMMA RouteKeepsRoutes ==
    ASSUME RoutesHold, NEW from \in FlowTasks, NEW to \in FlowTasks, NEW code \in ResultCodes,
           Route(from, to, code)
    PROVE  RoutesHold'
<1> DEFINE r == [code |-> code, to |-> to]
           s == routes[from]
<1>1. /\ tasks \subseteq FlowTasks /\ currTask \in FlowTasks \cup {NoTask}
      /\ routes \in [FlowTasks -> Seq(FlowRoute)] /\ RoutesAreLive
  BY DEF RoutesHold
<1>2. /\ flowStage = "up" /\ from \in tasks /\ to \in tasks
      /\ routes' = [routes EXCEPT ![from] = Append(s, r)]
      /\ UNCHANGED <<tasks, currTask, flowStage>>
  BY DEF Route
<1>3. r \in FlowRoute /\ r.to = to /\ s \in Seq(FlowRoute)
  BY <1>1 DEF FlowRoute
<1> HIDE DEF r
<1>4. /\ Append(s, r) \in Seq(FlowRoute) /\ Len(Append(s, r)) = Len(s) + 1
      /\ Append(s, r)[Len(s) + 1] = r /\ \A k \in 1 .. Len(s) : Append(s, r)[k] = s[k]
  BY <1>3
<1>5. /\ routes' \in [FlowTasks -> Seq(FlowRoute)]
      /\ routes'[from] = Append(s, r) /\ \A u \in FlowTasks \ {from} : routes'[u] = routes[u]
  BY <1>1, <1>2, <1>4
<1>6. \A u \in FlowTasks : /\ routes[u] # <<>> => u \in tasks
                           /\ \A k \in 1 .. Len(routes[u]) : routes[u][k].to \in tasks
  BY <1>1, <1>2 DEF RoutesAreLive
<1>7. \A k \in 1 .. Len(routes'[from]) : routes'[from][k].to \in tasks
  <2> TAKE k \in 1 .. Len(routes'[from])
  <2>1. CASE k \in 1 .. Len(s)
    BY <1>4, <1>5, <1>6, <2>1
  <2>2. CASE k = Len(s) + 1
    BY <1>2, <1>3, <1>4, <1>5, <2>2
  <2> QED BY <1>3, <1>4, <1>5, <2>1, <2>2
<1>8. \A u \in FlowTasks : /\ routes'[u] # <<>> => u \in tasks
                           /\ \A k \in 1 .. Len(routes'[u]) : routes'[u][k].to \in tasks
  <2> TAKE u \in FlowTasks
  <2>1. CASE u = from
    BY <1>2, <1>7, <2>1
  <2>2. CASE u # from
    BY <1>5, <1>6, <2>2
  <2> QED BY <2>1, <2>2
<1>9. RoutesAreLive'
  BY <1>1, <1>2, <1>8 DEF RoutesAreLive
<1> QED BY <1>1, <1>2, <1>5, <1>9 DEF RoutesHold

LEMMA FinishKeepsRoutes ==
    ASSUME RoutesHold, NEW code, FinishTask(code)
    PROVE  RoutesHold'
<1> DEFINE K == {r \in Elems(routes[currTask]) : r.code = code}
           fitting == Only(routes[currTask], K)
<1>1. /\ tasks \subseteq FlowTasks /\ currTask \in FlowTasks \cup {NoTask}
      /\ routes \in [FlowTasks -> Seq(FlowRoute)] /\ RoutesAreLive
  BY DEF RoutesHold
<1>2. currTask' = NextTask(currTask, code) /\ UNCHANGED <<tasks, routes, flowStage>>
  BY DEF FinishTask
<1>3. /\ currTask' \in FlowTasks \cup {NoTask}
      /\ flowStage = "up" => currTask' \in tasks \cup {NoTask}
  <2>1. CASE currTask = NoTask
    BY <1>2, <2>1 DEF NextTask
  <2>2. CASE currTask # NoTask
    <3>1. currTask \in FlowTasks /\ routes[currTask] \in Seq(FlowRoute)
      BY <1>1, <2>2
    <3>2. fitting \in Seq(FlowRoute) /\ Elems(fitting) = Elems(routes[currTask]) \cap K
      BY <3>1, ElemsOfOnly
    <3>3. currTask' = IF fitting = <<>> THEN NoTask ELSE fitting[1].to
      BY <1>2, <2>2 DEF NextTask
    <3> HIDE DEF fitting
    <3>4. CASE fitting = <<>>
      BY <3>3, <3>4
    <3>5. CASE fitting # <<>>
      <4>1. fitting[1] \in Elems(routes[currTask])
        BY <3>2, <3>5, FirstOf
      <4>2. PICK k \in 1 .. Len(routes[currTask]) : fitting[1] = routes[currTask][k]
        BY <4>1 DEF Elems
      <4>3. routes[currTask][k] \in FlowRoute
        BY <3>1
      <4>4. fitting[1].to \in FlowTasks
        BY <4>2, <4>3 DEF FlowRoute
      <4>5. flowStage = "up" => fitting[1].to \in tasks
        BY <1>1, <3>1, <4>2 DEF RoutesAreLive
      <4> QED BY <3>3, <3>5, <4>4, <4>5
    <3> QED BY <3>4, <3>5
  <2> QED BY <2>1, <2>2
<1> QED BY <1>1, <1>2, <1>3 DEF RoutesHold, RoutesAreLive

LEMMA RoutesSteps ==
    ASSUME RoutesHold, flowStage \in {"up", "tokens", "adapters", "tasks", "gone"},
           FlowNext \/ UNCHANGED flowVars
    PROVE  RoutesHold'
<1>1. ASSUME NEW t \in FlowTasks, AddFlowTask(t) PROVE RoutesHold'
  BY <1>1 DEF AddFlowTask, RoutesHold, RoutesAreLive
<1>2. ASSUME NEW t \in FlowTasks, ChangeCurrentTaskTo(t) PROVE RoutesHold'
  BY <1>2 DEF ChangeCurrentTaskTo, RoutesHold, RoutesAreLive
<1>3. ASSUME UNCHANGED <<tasks, routes, currTask>>, flowStage' = "up" => flowStage = "up"
      PROVE  RoutesHold'
  BY <1>3 DEF RoutesHold, RoutesAreLive
<1>4. ASSUME Advance PROVE flowStage' # "up"
  BY <1>4 DEF Advance, Teardown
<1>5. CASE DropTasks
  <2>1. /\ tasks' = {} /\ flowStage' # "up" /\ UNCHANGED <<routes, currTask>>
    BY <1>4, <1>5 DEF DropTasks
  <2> QED BY <2>1 DEF RoutesHold, RoutesAreLive
<1>6. CASE BeginTeardown \/ EndTokens \/ DropAdapters
  BY <1>3, <1>4, <1>6 DEF BeginTeardown, EndTokens, DropAdapters
<1>7. ASSUME NEW e \in SignalEdges,
             \/ \E t, u \in FlowTasks : Signal(e, t, u)
             \/ \E g \in Signals : Walk(g, e)
             \/ \E handled \in BOOLEAN : DispatchDirect(e, handled)
             \/ DispatchScheduled(e) \/ CheckAlive(e) \/ Deliver(e) \/ DropToken(e)
      PROVE  RoutesHold'
  <2>1. UNCHANGED <<tasks, routes, currTask, flowStage>>
    BY <1>7 DEF Signal, Walk, DispatchDirect, DispatchScheduled, CheckAlive, Deliver, DropToken
  <2> QED BY <1>3, <2>1
<1>8. CASE Execute \/ \E g \in Signals : Emit(g) \/ EndEmit(g)
  BY <1>3, <1>8 DEF Execute, Emit, EndEmit
<1>9. CASE UNCHANGED flowVars
  BY <1>3, <1>9 DEF flowVars
<1> QED BY <1>1, <1>2, <1>5, <1>6, <1>7, <1>8, <1>9, RemoveKeepsRoutes, RouteKeepsRoutes,
           FinishKeepsRoutes DEF FlowNext

-----------------------------------------------------------------------------
(* The signals.                                                            *)

(* What a step does that moves no signal: only the freed tasks may change. *)
LEMMA SignalsRest ==
    ASSUME SignalsHold,
           UNCHANGED <<edges, emitted, deliveries, flowStage, given, late>>,
           \/ UNCHANGED <<freed, removed>>
           \/ \E t \in FlowTasks : freed' = freed \cup {t} /\ removed' = removed \cup {t}
    PROVE  SignalsHold'
<1>1. /\ SignalTypes /\ DispatchesHold /\ StagesHold /\ ChecksHold
      /\ LateHolds /\ HeardHolds /\ GivenHolds
  BY DEF SignalsHold
<1>2. removed \subseteq removed' /\ (freed = removed => freed' = removed')
  OBVIOUS
<1>3. SignalTypes' /\ DispatchesHold' /\ HeardHolds'
  BY <1>1 DEF SignalTypes, DispatchesHold, HeardHolds
<1>4. GivenHolds'
  BY <1>1 DEF GivenHolds, Inside
<1>5. StagesHold' /\ ChecksHold' /\ LateHolds'
  BY <1>1, <1>2 DEF StagesHold, ChecksHold, LateHolds
<1> QED BY <1>3, <1>4, <1>5 DEF SignalsHold

(* The stages of the destructor, none of which touches a signal.           *)
LEMMA NextStage ==
    ASSUME Advance
    PROVE  /\ flowStage = "up" => flowStage' = "tokens"
           /\ flowStage = "tokens" => flowStage' = "adapters"
           /\ flowStage = "adapters" => flowStage' = "tasks"
           /\ flowStage = "tasks" => flowStage' = "gone"
           /\ flowStage' \in {"tokens", "adapters", "tasks", "gone"}
<1>1. Len(Teardown) = 5 /\ Teardown = <<"up", "tokens", "adapters", "tasks", "gone">>
  BY DEF Teardown
<1>2. PICK k \in 1 .. 4 : flowStage = Teardown[k] /\ flowStage' = Teardown[k + 1]
  BY <1>1 DEF Advance
<1>3. k = 1 \/ k = 2 \/ k = 3 \/ k = 4
  OBVIOUS
<1> QED BY <1>1, <1>2, <1>3

LEMMA TeardownKeepsSignals ==
    ASSUME SignalsHold, BeginTeardown \/ EndTokens \/ DropAdapters \/ DropTasks
    PROVE  SignalsHold'
<1>1. /\ SignalTypes /\ DispatchesHold /\ StagesHold /\ ChecksHold
      /\ LateHolds /\ HeardHolds /\ GivenHolds
  BY DEF SignalsHold
<1>2. Advance /\ UNCHANGED <<emitted, deliveries, given, late, removed>>
  BY DEF BeginTeardown, EndTokens, DropAdapters, DropTasks
<1>3. /\ edges' \in [SignalEdges -> SignalEdge]
      /\ \A e \in SignalEdges : /\ edges'[e].dispatch = edges[e].dispatch
                                /\ edges'[e].token = edges[e].token
                                /\ edges'[e].adapter = edges[e].adapter \/ DropAdapters
                                /\ edges'[e].adapter = "none" <=> edges[e].adapter = "none"
                                /\ DropAdapters => edges'[e].adapter # "alive"
  <2>1. CASE UNCHANGED edges /\ ~DropAdapters
    BY <1>1, <2>1 DEF SignalTypes
  <2>2. CASE DropAdapters
    <3>1. edges' = [e \in SignalEdges |->
                       [edges[e] EXCEPT !.adapter = IF @ = "alive" THEN "dead" ELSE @]]
      BY <2>2 DEF DropAdapters
    <3> QED BY <1>1, <2>2, <3>1 DEF SignalTypes, SignalEdge
  <2> QED BY <2>1, <2>2 DEF BeginTeardown, EndTokens, DropTasks
<1>4. SignalTypes' /\ DispatchesHold' /\ HeardHolds'
  <2>1. SignalTypes'
    BY <1>1, <1>2, <1>3, NextStage DEF SignalTypes
  <2>2. DispatchesHold'
    BY <1>1, <1>2, <1>3 DEF DispatchesHold
  <2>3. HeardHolds'
    <3>1. \A g \in Signals : emitted[g].heard \subseteq SignalEdges
      BY <1>1 DEF SignalTypes, Emission
    <3> QED BY <1>1, <1>2, <1>3, <3>1 DEF HeardHolds
  <2> QED BY <2>1, <2>2, <2>3
<1>5. GivenHolds'
  BY <1>1, <1>2, <1>3 DEF GivenHolds, Inside
<1>6. LateHolds' /\ ChecksHold'
  BY <1>1, <1>2, <1>3 DEF LateHolds, ChecksHold
<1>7. StagesHold'
  <2>1. CASE BeginTeardown
    <3>1. flowStage' = "tokens" /\ flowStage = "up" /\ UNCHANGED <<freed, edges>>
      BY <1>2, <2>1, NextStage DEF BeginTeardown
    <3> QED BY <1>1, <1>2, <3>1 DEF StagesHold
  <2>2. CASE EndTokens
    <3>1. /\ flowStage' = "adapters" /\ flowStage = "tokens" /\ UNCHANGED <<freed, edges>>
          /\ \A e \in SignalEdges : edges[e].token # "live"
      BY <1>2, <2>2, NextStage DEF EndTokens
    <3> QED BY <1>1, <1>2, <3>1 DEF StagesHold
  <2>3. CASE DropAdapters
    <3>1. flowStage' = "tasks" /\ flowStage = "adapters" /\ UNCHANGED freed
      BY <1>2, <2>3, NextStage DEF DropAdapters
    <3>2. \A e \in SignalEdges : edges'[e].token = edges[e].token /\ edges'[e].adapter # "alive"
      BY <1>3, <2>3
    <3> QED BY <1>1, <1>2, <3>1, <3>2 DEF StagesHold
  <2>4. CASE DropTasks
    <3>1. flowStage' = "gone" /\ flowStage = "tasks" /\ UNCHANGED edges
      BY <1>2, <2>4, NextStage DEF DropTasks
    <3> QED BY <1>1, <1>2, <3>1 DEF StagesHold
  <2> QED BY <2>1, <2>2, <2>3, <2>4
<1> QED BY <1>4, <1>5, <1>6, <1>7 DEF SignalsHold

-----------------------------------------------------------------------------
LEMMA SignalKeepsSignals ==
    ASSUME SignalsHold, NEW e \in SignalEdges, NEW from \in FlowTasks, NEW to \in FlowTasks,
           Signal(e, from, to)
    PROVE  SignalsHold'
<1> DEFINE new == [target |-> to, token |-> "live", dispatch |-> NoSignal,
                   adapter |-> IF e \in Direct THEN "none" ELSE "alive"]
<1>1. /\ SignalTypes /\ DispatchesHold /\ StagesHold /\ ChecksHold
      /\ LateHolds /\ HeardHolds /\ GivenHolds
  BY DEF SignalsHold
<1>2. /\ flowStage = "up" /\ edges[e].token = "none"
      /\ edges' = [edges EXCEPT ![e] = new]
      /\ UNCHANGED <<freed, deliveries, flowStage, removed, late, emitted, given>>
  BY DEF Signal
<1>3. /\ new \in SignalEdge /\ new.token = "live" /\ new.dispatch = NoSignal
      /\ new.adapter = IF e \in Direct THEN "none" ELSE "alive"
  BY DEF SignalEdge
<1> HIDE DEF new
<1>4. /\ edges' \in [SignalEdges -> SignalEdge] /\ edges'[e] = new
      /\ \A d \in SignalEdges \ {e} : edges'[d] = edges[d]
  BY <1>1, <1>2, <1>3 DEF SignalTypes
<1>5. edges[e].dispatch = NoSignal
  BY <1>1, <1>2 DEF DispatchesHold
<1>6. \A d \in SignalEdges : edges'[d].dispatch = edges[d].dispatch
  BY <1>3, <1>4, <1>5
<1>7. SignalTypes'
  BY <1>1, <1>2, <1>4 DEF SignalTypes
<1>8. DispatchesHold'
  BY <1>1, <1>2, <1>3, <1>4, <1>6 DEF DispatchesHold
<1>9. StagesHold' /\ ChecksHold' /\ LateHolds'
  BY <1>1, <1>2, <1>3, <1>4 DEF StagesHold, ChecksHold, LateHolds
<1>10. \A g \in Signals : e \notin emitted[g].heard /\ emitted[g].heard \subseteq SignalEdges
  BY <1>1, <1>2 DEF HeardHolds, SignalTypes, Emission
<1>11. HeardHolds'
  BY <1>1, <1>2, <1>4, <1>10 DEF HeardHolds
<1>12. GivenHolds'
  BY <1>1, <1>2, <1>6 DEF GivenHolds, Inside
<1> QED BY <1>7, <1>8, <1>9, <1>11, <1>12 DEF SignalsHold

LEMMA DropTokenKeepsSignals ==
    ASSUME SignalsHold, NEW e \in SignalEdges, DropToken(e)
    PROVE  SignalsHold'
<1>1. /\ SignalTypes /\ DispatchesHold /\ StagesHold /\ ChecksHold
      /\ LateHolds /\ HeardHolds /\ GivenHolds
  BY DEF SignalsHold
<1>2. /\ edges[e].token = "live" /\ edges[e].dispatch = NoSignal
      /\ edges' = [edges EXCEPT ![e].token = "cancelled"]
      /\ UNCHANGED <<freed, deliveries, flowStage, removed, late, emitted, given>>
  BY DEF DropToken
<1>3. /\ edges' \in [SignalEdges -> SignalEdge]
      /\ edges'[e].token = "cancelled"
      /\ \A d \in SignalEdges \ {e} : edges'[d].token = edges[d].token
      /\ \A d \in SignalEdges : /\ edges'[d].dispatch = edges[d].dispatch
                                /\ edges'[d].adapter = edges[d].adapter
  BY <1>1, <1>2 DEF SignalTypes, SignalEdge
<1>4. SignalTypes'
  BY <1>1, <1>2, <1>3 DEF SignalTypes
<1>5. DispatchesHold'
  BY <1>1, <1>2, <1>3 DEF DispatchesHold
<1>6. StagesHold' /\ ChecksHold' /\ LateHolds'
  BY <1>1, <1>2, <1>3 DEF StagesHold, ChecksHold, LateHolds
<1>7. \A g \in Signals : emitted[g].heard \subseteq SignalEdges
  BY <1>1 DEF SignalTypes, Emission
<1>8. HeardHolds'
  BY <1>1, <1>2, <1>3, <1>7 DEF HeardHolds
<1>9. GivenHolds'
  BY <1>1, <1>2, <1>3 DEF GivenHolds, Inside
<1> QED BY <1>4, <1>5, <1>6, <1>8, <1>9 DEF SignalsHold

-----------------------------------------------------------------------------
LEMMA EmissionFields ==
    ASSUME SignalTypes, NEW g \in Signals
    PROVE  /\ emitted[g].at \in {"new", "walking", "gone"}
           /\ emitted[g].heard \subseteq SignalEdges /\ emitted[g].todo \subseteq SignalEdges
BY DEF SignalTypes, Emission

LEMMA EmitKeepsSignals ==
    ASSUME SignalsHold, NEW g \in Signals, Emit(g)
    PROVE  SignalsHold'
<1> DEFINE new == [at |-> "walking", heard |-> SubscribedTo(g), todo |-> SubscribedTo(g)]
<1>1. /\ SignalTypes /\ DispatchesHold /\ StagesHold /\ ChecksHold
      /\ LateHolds /\ HeardHolds /\ GivenHolds
  BY DEF SignalsHold
<1>2. /\ emitted[g].at = "new" /\ emitted' = [emitted EXCEPT ![g] = new]
      /\ UNCHANGED <<freed, edges, deliveries, flowStage, given, removed, late>>
  BY DEF Emit
<1>3. \A e \in SubscribedTo(g) : e \in SignalEdges /\ edges[e].token = "live" /\ TypeOf[e] = TypeOf[g]
  BY DEF SubscribedTo
<1>4. /\ new \in Emission /\ new.at = "walking"
      /\ new.heard = SubscribedTo(g) /\ new.todo = SubscribedTo(g)
  BY <1>3 DEF Emission
<1> HIDE DEF new
<1>5. /\ emitted' \in [Signals -> Emission] /\ emitted'[g] = new
      /\ \A f \in Signals \ {g} : emitted'[f] = emitted[f]
  BY <1>1, <1>2, <1>4 DEF SignalTypes
<1>6. given[g] = {}
  BY <1>1, <1>2 DEF HeardHolds
<1>7. SignalTypes'
  BY <1>1, <1>2, <1>5 DEF SignalTypes
<1>8. DispatchesHold'
  BY <1>1, <1>2, <1>4, <1>5 DEF DispatchesHold
<1>9. StagesHold' /\ ChecksHold' /\ LateHolds'
  BY <1>1, <1>2 DEF StagesHold, ChecksHold, LateHolds
<1>10. HeardHolds'
  <2> SUFFICES ASSUME NEW f \in Signals
      PROVE /\ emitted'[f].at = "new" => given'[f] = {}
            /\ emitted'[f].todo \subseteq emitted'[f].heard
            /\ \A e \in emitted'[f].heard : TypeOf[e] = TypeOf[f] /\ edges'[e].token # "none"
            /\ f \notin Targeted /\ emitted'[f].at # "new" =>
                  \A e \in emitted'[f].heard \ Direct : edges'[e].token = "live" =>
                      \/ e \in given'[f]
                      \/ emitted'[f].at = "walking" /\ (e \in emitted'[f].todo \/ edges'[e].dispatch = f)
    BY DEF HeardHolds
  <2>1. CASE f = g
    BY <1>2, <1>3, <1>4, <1>5, <2>1
  <2>2. CASE f # g
    BY <1>1, <1>2, <1>5, <2>2 DEF HeardHolds
  <2> QED BY <2>1, <2>2
<1>11. GivenHolds'
  <2> SUFFICES ASSUME NEW f \in Signals
      PROVE /\ \A e \in given'[f] : TypeOf[e] = TypeOf[f]
            /\ \A d, e \in SignalEdges : edges'[d].dispatch = f /\ edges'[e].dispatch = f => d = e
            /\ f \in Targeted =>
                  \/ given'[f] = {}
                  \/ \E e \in SignalEdges : given'[f] = {e} /\ emitted'[f].todo = {} /\ ~Inside(f)'
    BY DEF GivenHolds
  <2>1. CASE f = g
    BY <1>1, <1>2, <1>6, <2>1 DEF GivenHolds
  <2>2. CASE f # g
    BY <1>1, <1>2, <1>5, <2>2 DEF GivenHolds, Inside
  <2> QED BY <2>1, <2>2
<1> QED BY <1>7, <1>8, <1>9, <1>10, <1>11 DEF SignalsHold

LEMMA WalkKeepsSignals ==
    ASSUME SignalsHold, NEW g \in Signals, NEW e \in SignalEdges, Walk(g, e)
    PROVE  SignalsHold'
<1>1. /\ SignalTypes /\ DispatchesHold /\ StagesHold /\ ChecksHold
      /\ LateHolds /\ HeardHolds /\ GivenHolds
  BY DEF SignalsHold
<1>2. /\ emitted[g].at = "walking" /\ e \in emitted[g].todo /\ ~Inside(g)
      /\ emitted' = [emitted EXCEPT ![g].todo = @ \ {e}]
      /\ IF edges[e].token = "live"
         THEN edges[e].dispatch = NoSignal /\ edges' = [edges EXCEPT ![e].dispatch = g]
         ELSE UNCHANGED edges
      /\ UNCHANGED <<freed, deliveries, flowStage, given, removed, late>>
  BY DEF Walk
<1>3. /\ emitted' \in [Signals -> Emission]
      /\ emitted'[g].todo = emitted[g].todo \ {e}
      /\ emitted'[g].at = "walking" /\ emitted'[g].heard = emitted[g].heard
      /\ \A f \in Signals \ {g} : emitted'[f] = emitted[f]
  BY <1>1, <1>2 DEF SignalTypes, Emission
<1>4. /\ \A f \in Signals : emitted'[f].at = emitted[f].at /\ emitted'[f].heard = emitted[f].heard
      /\ \A f \in Signals : emitted'[f].todo \subseteq emitted[f].todo
  BY <1>2, <1>3
<1>5. /\ edges' \in [SignalEdges -> SignalEdge]
      /\ \A d \in SignalEdges \ {e} : edges'[d] = edges[d]
      /\ \A d \in SignalEdges : edges'[d].token = edges[d].token /\ edges'[d].adapter = edges[d].adapter
      /\ edges[e].token = "live" => edges[e].dispatch = NoSignal /\ edges'[e].dispatch = g
      /\ edges[e].token # "live" => edges'[e].dispatch = edges[e].dispatch
  <2>1. edges \in [SignalEdges -> SignalEdge]
    BY <1>1 DEF SignalTypes
  <2>2. CASE edges[e].token = "live"
    BY <1>2, <2>1, <2>2 DEF SignalEdge
  <2>3. CASE edges[e].token # "live"
    BY <1>2, <2>1, <2>3
  <2> QED BY <2>2, <2>3
<1>6. TypeOf[e] = TypeOf[g] /\ e \in emitted[g].heard
  BY <1>1, <1>2 DEF HeardHolds
<1>7. g # NoSignal
  BY NoSignalAssumption
<1>8. SignalTypes'
  BY <1>1, <1>2, <1>3, <1>5 DEF SignalTypes
<1>9. DispatchesHold'
  <2> SUFFICES ASSUME NEW d \in SignalEdges, edges'[d].dispatch # NoSignal
               PROVE  /\ edges'[d].token = "live" /\ TypeOf[d] = TypeOf[edges'[d].dispatch]
                      /\ emitted'[edges'[d].dispatch].at = "walking"
    BY DEF DispatchesHold
  <2>1. CASE d = e /\ edges[e].token = "live"
    BY <1>3, <1>5, <1>6, <2>1
  <2>2. CASE d # e \/ edges[e].token # "live"
    <3>1. /\ edges'[d].dispatch = edges[d].dispatch /\ edges'[d].token = edges[d].token
          /\ edges[d].dispatch \in Signals
      BY <1>1, <1>5, <2>2 DEF SignalTypes, SignalEdge
    <3> QED BY <1>1, <1>4, <3>1 DEF DispatchesHold
  <2> QED BY <2>1, <2>2
<1>10. StagesHold' /\ ChecksHold' /\ LateHolds'
  BY <1>1, <1>2, <1>5 DEF StagesHold, ChecksHold, LateHolds
<1>11. HeardHolds'
  <2> SUFFICES ASSUME NEW f \in Signals
      PROVE /\ emitted'[f].at = "new" => given'[f] = {}
            /\ emitted'[f].todo \subseteq emitted'[f].heard
            /\ \A d \in emitted'[f].heard : TypeOf[d] = TypeOf[f] /\ edges'[d].token # "none"
            /\ f \notin Targeted /\ emitted'[f].at # "new" =>
                  \A d \in emitted'[f].heard \ Direct : edges'[d].token = "live" =>
                      \/ d \in given'[f]
                      \/ emitted'[f].at = "walking" /\ (d \in emitted'[f].todo \/ edges'[d].dispatch = f)
    BY DEF HeardHolds
  <2>1. emitted[f].heard \subseteq SignalEdges
    BY <1>1, EmissionFields
  <2>2. /\ emitted'[f].at = "new" => given'[f] = {}
        /\ emitted'[f].todo \subseteq emitted'[f].heard
        /\ \A d \in emitted'[f].heard : TypeOf[d] = TypeOf[f] /\ edges'[d].token # "none"
    BY <1>1, <1>2, <1>4, <1>5, <2>1 DEF HeardHolds
  <2>3. ASSUME f \notin Targeted, emitted'[f].at # "new",
               NEW d \in emitted'[f].heard \ Direct, edges'[d].token = "live"
        PROVE  \/ d \in given'[f]
               \/ emitted'[f].at = "walking" /\ (d \in emitted'[f].todo \/ edges'[d].dispatch = f)
    <3>1. d \in SignalEdges /\ d \in emitted[f].heard \ Direct /\ edges[d].token = "live"
      BY <1>4, <1>5, <2>1, <2>3
    <3>2. \/ d \in given[f]
          \/ emitted[f].at = "walking" /\ (d \in emitted[f].todo \/ edges[d].dispatch = f)
      BY <1>1, <1>4, <2>3, <3>1 DEF HeardHolds
    <3>3. edges[d].dispatch = f => edges'[d].dispatch = f
      BY <1>5, <1>7, <3>1, NoSignalAssumption
    <3>4. CASE f = g
      BY <1>2, <1>3, <1>5, <3>1, <3>2, <3>3, <3>4
    <3>5. CASE f # g
      BY <1>2, <1>3, <3>2, <3>3, <3>5
    <3> QED BY <3>4, <3>5
  <2> QED BY <2>2, <2>3
<1>12. GivenHolds'
  <2> SUFFICES ASSUME NEW f \in Signals
      PROVE /\ \A d \in given'[f] : TypeOf[d] = TypeOf[f]
            /\ \A c, d \in SignalEdges : edges'[c].dispatch = f /\ edges'[d].dispatch = f => c = d
            /\ f \in Targeted =>
                  \/ given'[f] = {}
                  \/ \E d \in SignalEdges : given'[f] = {d} /\ emitted'[f].todo = {} /\ ~Inside(f)'
    BY DEF GivenHolds
  <2>1. CASE f = g
    <3>1. \A d \in SignalEdges : edges[d].dispatch # g
      BY <1>2 DEF Inside
    <3>2. \A d \in SignalEdges : edges'[d].dispatch = g => d = e
      BY <1>5, <3>1
    <3>3. g \in Targeted => given[g] = {}
      BY <1>1, <1>2 DEF GivenHolds
    <3> QED BY <1>1, <1>2, <2>1, <3>2, <3>3 DEF GivenHolds
  <2>2. CASE f # g
    <3>1. \A d \in SignalEdges : edges'[d].dispatch = f => edges[d].dispatch = f
      BY <1>5, <2>2
    <3> QED BY <1>1, <1>2, <1>3, <2>2, <3>1 DEF GivenHolds, Inside
  <2> QED BY <2>1, <2>2
<1> QED BY <1>8, <1>9, <1>10, <1>11, <1>12 DEF SignalsHold

LEMMA EndEmitKeepsSignals ==
    ASSUME SignalsHold, NEW g \in Signals, EndEmit(g)
    PROVE  SignalsHold'
<1>1. /\ SignalTypes /\ DispatchesHold /\ StagesHold /\ ChecksHold
      /\ LateHolds /\ HeardHolds /\ GivenHolds
  BY DEF SignalsHold
<1>2. /\ emitted[g].at = "walking" /\ emitted[g].todo = {} /\ ~Inside(g)
      /\ emitted' = [emitted EXCEPT ![g].at = "gone"]
      /\ UNCHANGED <<freed, edges, deliveries, flowStage, given, removed, late>>
  BY DEF EndEmit
<1>3. /\ emitted' \in [Signals -> Emission] /\ emitted'[g].at = "gone"
      /\ \A f \in Signals : emitted'[f].todo = emitted[f].todo /\ emitted'[f].heard = emitted[f].heard
      /\ \A f \in Signals \ {g} : emitted'[f] = emitted[f]
  BY <1>1, <1>2 DEF SignalTypes, Emission
<1>4. \A d \in SignalEdges : edges[d].dispatch # g
  BY <1>2 DEF Inside
<1>5. SignalTypes'
  BY <1>1, <1>2, <1>3 DEF SignalTypes
<1>6. DispatchesHold'
  <2>1. \A d \in SignalEdges : edges[d].dispatch # NoSignal => edges[d].dispatch \in Signals \ {g}
    BY <1>1, <1>4 DEF SignalTypes, SignalEdge
  <2> QED BY <1>1, <1>2, <1>3, <2>1 DEF DispatchesHold
<1>7. StagesHold' /\ ChecksHold' /\ LateHolds'
  BY <1>1, <1>2 DEF StagesHold, ChecksHold, LateHolds
<1>8. HeardHolds'
  <2> SUFFICES ASSUME NEW f \in Signals
      PROVE /\ emitted'[f].at = "new" => given'[f] = {}
            /\ emitted'[f].todo \subseteq emitted'[f].heard
            /\ \A d \in emitted'[f].heard : TypeOf[d] = TypeOf[f] /\ edges'[d].token # "none"
            /\ f \notin Targeted /\ emitted'[f].at # "new" =>
                  \A d \in emitted'[f].heard \ Direct : edges'[d].token = "live" =>
                      \/ d \in given'[f]
                      \/ emitted'[f].at = "walking" /\ (d \in emitted'[f].todo \/ edges'[d].dispatch = f)
    BY DEF HeardHolds
  <2>1. CASE f = g
    <3>1. emitted[g].heard \subseteq SignalEdges
      BY <1>1, EmissionFields
    <3> QED BY <1>1, <1>2, <1>3, <1>4, <2>1, <3>1 DEF HeardHolds
  <2>2. CASE f # g
    BY <1>1, <1>2, <1>3, <2>2 DEF HeardHolds
  <2> QED BY <2>1, <2>2
<1>9. GivenHolds'
  BY <1>1, <1>2, <1>3 DEF GivenHolds, Inside
<1> QED BY <1>5, <1>6, <1>7, <1>8, <1>9 DEF SignalsHold

-----------------------------------------------------------------------------
(* A dispatch ends: handled, unless a task called directly declines.       *)
LEMMA DispatchEnds ==
    ASSUME SignalsHold, NEW e \in SignalEdges, NEW handled \in BOOLEAN,
           NEW g \in Signals, g = edges[e].dispatch, handled \/ e \in Direct,
           edges' = [edges EXCEPT ![e].dispatch = NoSignal],
           given' = [given EXCEPT ![g] = IF handled THEN @ \cup {e} ELSE @],
           Answered(g, handled), UNCHANGED <<flowStage, removed, freed>>
    PROVE  /\ edges' \in [SignalEdges -> SignalEdge] /\ emitted' \in [Signals -> Emission]
           /\ given' \in [Signals -> SUBSET SignalEdges]
           /\ \A d \in SignalEdges : edges'[d].adapter = edges[d].adapter
           /\ DispatchesHold' /\ StagesHold' /\ HeardHolds' /\ GivenHolds'
<1>1. /\ SignalTypes /\ DispatchesHold /\ StagesHold /\ ChecksHold
      /\ LateHolds /\ HeardHolds /\ GivenHolds
  BY DEF SignalsHold
<1>2. g # NoSignal /\ emitted[g].at = "walking" /\ TypeOf[e] = TypeOf[g]
  BY <1>1, NoSignalAssumption DEF DispatchesHold
<1>3. /\ edges' \in [SignalEdges -> SignalEdge] /\ edges'[e].dispatch = NoSignal
      /\ \A d \in SignalEdges \ {e} : edges'[d] = edges[d]
      /\ \A d \in SignalEdges : edges'[d].token = edges[d].token /\ edges'[d].adapter = edges[d].adapter
  BY <1>1 DEF SignalTypes, SignalEdge
<1>4. /\ given' \in [Signals -> SUBSET SignalEdges]
      /\ given'[g] = IF handled THEN given[g] \cup {e} ELSE given[g]
      /\ \A f \in Signals \ {g} : given'[f] = given[f]
  BY <1>1, <1>2 DEF SignalTypes
<1>5. /\ emitted' \in [Signals -> Emission]
      /\ \A f \in Signals : emitted'[f].at = emitted[f].at /\ emitted'[f].heard = emitted[f].heard
      /\ emitted'[g].todo = IF g \in Targeted /\ handled THEN {} ELSE emitted[g].todo
      /\ \A f \in Signals \ {g} : emitted'[f].todo = emitted[f].todo
  <2>1. emitted \in [Signals -> Emission]
    BY <1>1 DEF SignalTypes
  <2>2. CASE g \in Targeted /\ handled
    <3>1. emitted' = [emitted EXCEPT ![g].todo = {}]
      BY <2>2 DEF Answered
    <3> QED BY <1>2, <2>1, <2>2, <3>1 DEF Emission
  <2>3. CASE ~(g \in Targeted /\ handled)
    <3>1. emitted' = emitted
      BY <2>3 DEF Answered
    <3> QED BY <2>1, <2>3, <3>1
  <2> QED BY <2>2, <2>3
<1>6. \A d \in SignalEdges : edges[d].dispatch = g => d = e
  BY <1>1, <1>2 DEF GivenHolds
<1>7. \A d \in SignalEdges : edges'[d].dispatch # g
  BY <1>2, <1>3, <1>6
<1>8. \A f \in Signals \ {g}, d \in SignalEdges : edges'[d].dispatch = f <=> edges[d].dispatch = f
  BY <1>2, <1>3, NoSignalAssumption
<1>9. DispatchesHold'
  <2> SUFFICES ASSUME NEW d \in SignalEdges, edges'[d].dispatch # NoSignal
               PROVE  /\ edges'[d].token = "live" /\ TypeOf[d] = TypeOf[edges'[d].dispatch]
                      /\ emitted'[edges'[d].dispatch].at = "walking"
    BY DEF DispatchesHold
  <2>1. d # e /\ edges'[d] = edges[d] /\ edges[d].dispatch \in Signals
    BY <1>1, <1>3 DEF SignalTypes, SignalEdge
  <2> QED BY <1>1, <1>5, <2>1 DEF DispatchesHold
<1>10. StagesHold'
  BY <1>1, <1>3 DEF StagesHold
<1>11. HeardHolds'
  <2> SUFFICES ASSUME NEW f \in Signals
      PROVE /\ emitted'[f].at = "new" => given'[f] = {}
            /\ emitted'[f].todo \subseteq emitted'[f].heard
            /\ \A d \in emitted'[f].heard : TypeOf[d] = TypeOf[f] /\ edges'[d].token # "none"
            /\ f \notin Targeted /\ emitted'[f].at # "new" =>
                  \A d \in emitted'[f].heard \ Direct : edges'[d].token = "live" =>
                      \/ d \in given'[f]
                      \/ emitted'[f].at = "walking" /\ (d \in emitted'[f].todo \/ edges'[d].dispatch = f)
    BY DEF HeardHolds
  <2>1. emitted[f].heard \subseteq SignalEdges
    BY <1>1, EmissionFields
  <2>2. /\ emitted'[f].todo \subseteq emitted'[f].heard
        /\ \A d \in emitted'[f].heard : TypeOf[d] = TypeOf[f] /\ edges'[d].token # "none"
    BY <1>1, <1>3, <1>5, <2>1 DEF HeardHolds
  <2>3. emitted'[f].at = "new" => given'[f] = {}
    BY <1>1, <1>2, <1>4, <1>5 DEF HeardHolds
  <2>4. ASSUME f \notin Targeted, emitted'[f].at # "new",
               NEW d \in emitted'[f].heard \ Direct, edges'[d].token = "live"
        PROVE  \/ d \in given'[f]
               \/ emitted'[f].at = "walking" /\ (d \in emitted'[f].todo \/ edges'[d].dispatch = f)
    <3>1. d \in SignalEdges /\ d \in emitted[f].heard \ Direct /\ edges[d].token = "live"
      BY <1>3, <1>5, <2>1, <2>4
    <3>2. \/ d \in given[f]
          \/ emitted[f].at = "walking" /\ (d \in emitted[f].todo \/ edges[d].dispatch = f)
      BY <1>1, <1>5, <2>4, <3>1 DEF HeardHolds
    <3>3. CASE f = g
      <4>1. edges[d].dispatch = f => d \in given'[f]
        BY <1>4, <1>6, <3>1, <3>3
      <4> QED BY <1>4, <1>5, <2>4, <3>2, <3>3, <4>1
    <3>4. CASE f # g
      BY <1>4, <1>5, <1>8, <3>1, <3>2, <3>4
    <3> QED BY <3>3, <3>4
  <2> QED BY <2>2, <2>3, <2>4
<1>12. GivenHolds'
  <2> SUFFICES ASSUME NEW f \in Signals
      PROVE /\ \A d \in given'[f] : TypeOf[d] = TypeOf[f]
            /\ \A c, d \in SignalEdges : edges'[c].dispatch = f /\ edges'[d].dispatch = f => c = d
            /\ f \in Targeted =>
                  \/ given'[f] = {}
                  \/ \E d \in SignalEdges : given'[f] = {d} /\ emitted'[f].todo = {} /\ ~Inside(f)'
    BY DEF GivenHolds
  <2>1. CASE f = g
    <3>1. \A d \in given'[g] : TypeOf[d] = TypeOf[g]
      BY <1>1, <1>2, <1>4 DEF GivenHolds
    <3>2. ~Inside(g)'
      BY <1>7 DEF Inside
    <3>3. Inside(g)
      BY DEF Inside
    <3>4. g \in Targeted => given[g] = {}
      BY <1>1, <1>2, <3>3 DEF GivenHolds
    <3>5. g \in Targeted => given'[g] = {} \/ (given'[g] = {e} /\ emitted'[g].todo = {})
      BY <1>4, <1>5, <3>4
    <3> QED BY <1>7, <2>1, <3>1, <3>2, <3>5
  <2>2. CASE f # g
    <3>1. \A d \in given'[f] : TypeOf[d] = TypeOf[f]
      BY <1>1, <1>4, <2>2 DEF GivenHolds
    <3>2. Inside(f)' <=> Inside(f)
      BY <1>8, <2>2 DEF Inside
    <3>3. \A c, d \in SignalEdges : edges'[c].dispatch = f /\ edges'[d].dispatch = f => c = d
      BY <1>1, <1>8, <2>2 DEF GivenHolds
    <3>4. given'[f] = given[f] /\ emitted'[f].todo = emitted[f].todo
      BY <1>4, <1>5, <2>2
    <3> QED BY <1>1, <3>1, <3>2, <3>3, <3>4 DEF GivenHolds
  <2> QED BY <2>1, <2>2
<1> QED BY <1>3, <1>4, <1>5, <1>9, <1>10, <1>11, <1>12

LEMMA DirectKeepsSignals ==
    ASSUME SignalsHold, NEW e \in SignalEdges, NEW handled \in BOOLEAN, DispatchDirect(e, handled)
    PROVE  SignalsHold'
<1>1. SignalTypes /\ DispatchesHold /\ StagesHold /\ ChecksHold /\ LateHolds
  BY DEF SignalsHold
<1>2. /\ edges[e].dispatch # NoSignal /\ e \in Direct
      /\ edges' = [edges EXCEPT ![e].dispatch = NoSignal]
      /\ given' = [given EXCEPT ![edges[e].dispatch] = IF handled THEN @ \cup {e} ELSE @]
      /\ Answered(edges[e].dispatch, handled) /\ late' = late \cup TaskOf(e)
      /\ UNCHANGED <<freed, deliveries, flowStage, removed>>
  BY DEF DispatchDirect, Touched
<1>2a. PICK g \in Signals : g = edges[e].dispatch
  BY <1>1, <1>2 DEF SignalTypes, SignalEdge
<1>3. /\ edges' \in [SignalEdges -> SignalEdge] /\ emitted' \in [Signals -> Emission]
      /\ given' \in [Signals -> SUBSET SignalEdges]
      /\ \A d \in SignalEdges : edges'[d].adapter = edges[d].adapter
      /\ DispatchesHold' /\ StagesHold' /\ HeardHolds' /\ GivenHolds'
  BY <1>2, <1>2a, DispatchEnds
<1>4. SignalTypes'
  BY <1>1, <1>2, <1>3 DEF SignalTypes
<1>5. freed = removed
  BY <1>1, <1>2 DEF DispatchesHold, StagesHold
<1>6. TaskOf(e) \subseteq {<<"task", t>> : t \in removed}
  BY <1>5 DEF TaskOf
<1>7. LateHolds'
  BY <1>1, <1>2, <1>6 DEF LateHolds
<1>8. ChecksHold'
  BY <1>1, <1>2, <1>3 DEF ChecksHold
<1> QED BY <1>3, <1>4, <1>7, <1>8 DEF SignalsHold

LEMMA ScheduledKeepsSignals ==
    ASSUME SignalsHold, NEW e \in SignalEdges, DispatchScheduled(e)
    PROVE  SignalsHold'
<1>1. SignalTypes /\ DispatchesHold /\ StagesHold /\ ChecksHold /\ LateHolds
  BY DEF SignalsHold
<1>2. /\ edges[e].dispatch # NoSignal
      /\ edges' = [edges EXCEPT ![e].dispatch = NoSignal]
      /\ given' = [given EXCEPT ![edges[e].dispatch] = @ \cup {e}]
      /\ Answered(edges[e].dispatch, TRUE)
      /\ late' = late \cup (IF edges[e].adapter = "dead" THEN {<<"adapter", e>>} ELSE {})
      /\ deliveries' = [deliveries EXCEPT ![e] = Envelope(edges[e].dispatch)]
      /\ UNCHANGED <<freed, flowStage, removed>>
  BY DEF DispatchScheduled, Touched
<1>3. PICK g \in Signals : g = edges[e].dispatch
  BY <1>1, <1>2 DEF SignalTypes, SignalEdge
<1>4. /\ edges' \in [SignalEdges -> SignalEdge] /\ emitted' \in [Signals -> Emission]
      /\ given' \in [Signals -> SUBSET SignalEdges]
      /\ \A d \in SignalEdges : edges'[d].adapter = edges[d].adapter
      /\ DispatchesHold' /\ StagesHold' /\ HeardHolds' /\ GivenHolds'
  BY <1>2, <1>3, DispatchEnds
<1>5. edges[e].dispatch \in Signals
  BY <1>1, <1>2 DEF SignalTypes, SignalEdge
<1>6. deliveries' \in [SignalEdges -> Delivery]
  BY <1>1, <1>2, <1>5 DEF SignalTypes, Delivery, Envelope
<1>7. SignalTypes'
  BY <1>1, <1>2, <1>4, <1>6 DEF SignalTypes
<1>8. edges[e].adapter # "dead"
  BY <1>1, <1>2 DEF DispatchesHold, StagesHold
<1>9. LateHolds'
  BY <1>1, <1>2, <1>8 DEF LateHolds
<1>10. ChecksHold'
  <2>1. \A d \in SignalEdges : deliveries'[d].at = "checked" => deliveries'[d] = deliveries[d]
    BY <1>1, <1>2 DEF SignalTypes, Envelope
  <2> QED BY <1>1, <1>4, <2>1 DEF ChecksHold
<1> QED BY <1>4, <1>7, <1>9, <1>10 DEF SignalsHold

LEMMA DeliveryKeepsSignals ==
    ASSUME SignalsHold, NEW e \in SignalEdges, CheckAlive(e) \/ Deliver(e)
    PROVE  SignalsHold'
<1>1. /\ SignalTypes /\ DispatchesHold /\ StagesHold /\ ChecksHold
      /\ LateHolds /\ HeardHolds /\ GivenHolds
  BY DEF SignalsHold
<1>2. UNCHANGED <<edges, emitted, flowStage, given, freed, removed>>
  BY DEF CheckAlive, Deliver
<1>3. /\ deliveries \in [SignalEdges -> Delivery] /\ edges[e] \in SignalEdge
  BY <1>1 DEF SignalTypes
<1>4. deliveries' \in [SignalEdges -> Delivery] /\ ChecksHold'
  <2>1. CASE CheckAlive(e)
    <3>1. deliveries' = [deliveries EXCEPT ![e].at = FlagCheck(e), ![e].saw = edges[e].adapter]
      BY <2>1 DEF CheckAlive
    <3>2. FlagCheck(e) \in {"checked", "done"} /\ (FlagCheck(e) = "checked" => edges[e].adapter = "alive")
      BY DEF FlagCheck
    <3>3. edges[e].adapter \in {"none", "alive", "dead"}
      BY <1>3 DEF SignalEdge
    <3>4. deliveries' \in [SignalEdges -> Delivery]
      BY <1>3, <3>1, <3>2, <3>3 DEF Delivery
    <3>5. /\ deliveries'[e].at = FlagCheck(e) /\ deliveries'[e].saw = edges[e].adapter
          /\ \A d \in SignalEdges \ {e} : deliveries'[d] = deliveries[d]
      BY <1>3, <3>1 DEF Delivery
    <3> QED BY <1>1, <1>2, <3>2, <3>4, <3>5 DEF ChecksHold
  <2>2. CASE Deliver(e)
    <3>1. deliveries' = [deliveries EXCEPT ![e].at = "done"]
      BY <2>2 DEF Deliver
    <3>2. deliveries' \in [SignalEdges -> Delivery]
      BY <1>3, <3>1 DEF Delivery
    <3>3. /\ deliveries'[e].at = "done"
          /\ \A d \in SignalEdges \ {e} : deliveries'[d] = deliveries[d]
      BY <1>3, <3>1 DEF Delivery
    <3> QED BY <1>1, <1>2, <3>2, <3>3 DEF ChecksHold
  <2> QED BY <2>1, <2>2
<1>5. LateHolds'
  <2>1. CASE CheckAlive(e)
    BY <1>1, <2>1 DEF CheckAlive, LateHolds
  <2>2. CASE Deliver(e)
    <3>1. deliveries[e].payload # "message"
      BY <1>3 DEF Delivery
    <3>2. late' = late \cup {<<IF InWindow(e) THEN "window" ELSE "task", t[2]>> : t \in TaskOf(e)}
      BY <2>2, <3>1 DEF Deliver, Touched
    <3>3. \A t \in TaskOf(e) : t[2] \in freed
      BY DEF TaskOf
    (* Outside the window the adapter still lives, and so do the tasks that *)
    (* nobody removed.                                                      *)
    <3>4. ~InWindow(e) => freed = removed
      <4>1. deliveries[e].saw = "alive" /\ edges[e].adapter \in {"alive", "dead"}
        BY <1>1, <1>3, <2>2 DEF Deliver, ChecksHold, SignalEdge
      <4>2. ~InWindow(e) => flowStage # "gone"
        BY <1>1, <4>1 DEF InWindow, StagesHold
      <4> QED BY <1>1, <4>2 DEF StagesHold
    <3>5. \A x \in late' : \/ x \in late
                           \/ \E t \in freed : x = <<"window", t>>
                           \/ \E t \in removed : x = <<"task", t>>
      BY <3>2, <3>3, <3>4
    <3> QED BY <1>1, <1>2, <3>5 DEF LateHolds
  <2> QED BY <2>1, <2>2
<1>6. SignalTypes' /\ DispatchesHold' /\ StagesHold' /\ HeardHolds'
  BY <1>1, <1>2, <1>4 DEF SignalTypes, DispatchesHold, StagesHold, HeardHolds
<1>7. GivenHolds'
  BY <1>1, <1>2 DEF GivenHolds, Inside
<1> QED BY <1>4, <1>5, <1>6, <1>7 DEF SignalsHold

LEMMA SignalSteps ==
    ASSUME SignalsHold, FlowNext \/ UNCHANGED flowVars
    PROVE  SignalsHold'
<1>1. ASSUME NEW t \in FlowTasks, AddFlowTask(t) \/ ChangeCurrentTaskTo(t) PROVE SignalsHold'
  BY <1>1, SignalsRest DEF AddFlowTask, ChangeCurrentTaskTo
<1>2. ASSUME NEW t \in FlowTasks, RemoveTask(t) PROVE SignalsHold'
  BY <1>2, SignalsRest DEF RemoveTask
<1>3. ASSUME NEW t \in FlowTasks, NEW u \in FlowTasks, NEW code, Route(t, u, code) PROVE SignalsHold'
  BY <1>3, SignalsRest DEF Route
<1>4. ASSUME NEW code, Execute \/ FinishTask(code) PROVE SignalsHold'
  BY <1>4, SignalsRest DEF Execute, FinishTask
<1>5. CASE UNCHANGED flowVars
  BY <1>5, SignalsRest DEF flowVars
<1>6. ASSUME NEW e \in SignalEdges,
             \/ \E t, u \in FlowTasks : Signal(e, t, u)
             \/ \E g \in Signals : Walk(g, e)
             \/ \E handled \in BOOLEAN : DispatchDirect(e, handled)
             \/ DispatchScheduled(e) \/ CheckAlive(e) \/ Deliver(e) \/ DropToken(e)
      PROVE  SignalsHold'
  BY <1>6, SignalKeepsSignals, WalkKeepsSignals, DirectKeepsSignals, ScheduledKeepsSignals,
     DeliveryKeepsSignals, DropTokenKeepsSignals
<1>7. ASSUME NEW g \in Signals, Emit(g) \/ EndEmit(g) PROVE SignalsHold'
  BY <1>7, EmitKeepsSignals, EndEmitKeepsSignals
<1>8. CASE BeginTeardown \/ EndTokens \/ DropAdapters \/ DropTasks
  BY <1>8, TeardownKeepsSignals
<1> QED BY <1>1, <1>2, <1>3, <1>4, <1>5, <1>6, <1>7, <1>8 DEF FlowNext

LEMMA FlowSteps ==
    ASSUME FlowHolds, FlowNext \/ UNCHANGED flowVars
    PROVE  FlowHolds'
<1>1. RoutesHold /\ SignalsHold /\ flowStage \in {"up", "tokens", "adapters", "tasks", "gone"}
  BY DEF FlowHolds, SignalsHold, SignalTypes
<1>2. RoutesHold'
  BY <1>1, RoutesSteps
<1>3. SignalsHold'
  BY <1>1, SignalSteps
<1> QED BY <1>2, <1>3 DEF FlowHolds

LEMMA FlowsAreSound == FlowHolds => FlowIsSound
<1> SUFFICES ASSUME FlowHolds PROVE FlowIsSound
  OBVIOUS
<1>1. /\ RoutesAreLive /\ SignalTypes /\ DispatchesHold /\ StagesHold /\ LateHolds
      /\ HeardHolds /\ GivenHolds
  BY DEF FlowHolds, RoutesHold, SignalsHold
<1>2. TeardownIsOrderly
  <2>1. flowStage = "gone" => \A e \in SignalEdges : edges[e].dispatch = NoSignal
    BY <1>1 DEF DispatchesHold, StagesHold
  <2> QED BY <1>1, <2>1 DEF LateHolds, TeardownIsOrderly
<1>3. ASSUME NEW g \in Signals
      PROVE  /\ g \in Targeted => Cardinality(given[g]) <= 1
             /\ emitted[g].at = "gone" /\ g \notin Targeted =>
                   \A e \in emitted[g].heard \ Direct : edges[e].token = "live" => e \in given[g]
             /\ \A e \in given[g] : TypeOf[e] = TypeOf[g]
  <2>1. ASSUME g \in Targeted PROVE Cardinality(given[g]) <= 1
    <3>1. CASE given[g] = {}
      BY <3>1, FS_EmptySet
    <3>2. CASE \E e \in SignalEdges : given[g] = {e}
      <4>1. PICK e \in SignalEdges : given[g] = {e}
        BY <3>2
      <4>2. Cardinality({e}) = 1
        BY FS_Singleton
      <4> QED BY <4>1, <4>2
    <3> QED BY <1>1, <2>1, <3>1, <3>2 DEF GivenHolds
  <2>2. emitted[g].at = "gone" /\ g \notin Targeted =>
           \A e \in emitted[g].heard \ Direct : edges[e].token = "live" => e \in given[g]
    BY <1>1 DEF HeardHolds
  <2> QED BY <1>1, <2>1, <2>2 DEF GivenHolds
<1>4. SignalsArrive
  BY <1>3 DEF SignalsArrive
<1> QED BY <1>1, <1>2, <1>4 DEF FlowIsSound

-----------------------------------------------------------------------------
(* The entity world.                                                       *)

Operations == {"none", "create", "attach", "detach", "find", "all", "remove", "with"}
Places == {"idle", "record", "add", "edge", "next", "list", "scan", "held", "drop", "unlist"}
EcsCall == [op : Operations, pc : Places, entity : SomeIds, kind : Kinds \cup {"none"},
            todo : Seq(SomeIds), target : SomeIds, rest : Seq(SomeIds)]
IsComponent(g, n) == NodeAt(g, n).what \in Kinds

(* The edges a removal has still to deal with: they are ahead of it, or    *)
(* were added behind its back.                                             *)
RemovalIsAhead(g, behind, r) ==
    \A e \in LiveEdges(g) : EdgeAt(g, e).from = r.entity =>
        \/ r.pc \in {"scan", "held"} /\ e \in Elems(r.todo)
        \/ r.pc = "held" /\ EdgeAt(g, e).to = r.target
        \/ EdgeAt(g, e).to \in behind

(* What each call relies on of graph g, when `given` are the ids given out *)
(* and `behind` the components attached behind a removal.                  *)
CallFits(g, issued, behind, r) ==
    /\ r \in EcsCall
    /\ r.pc = "record" => r.op = "create"
    /\ r.pc \in {"add", "edge"} => r.op = "attach" /\ r.kind \in Kinds
    /\ r.pc \in {"drop", "unlist"} => r.op = "remove"
    /\ r.pc = "next" => r.op = "with"
    /\ r.op \in {"attach", "remove"} => r.entity \in issued
    /\ r.pc = "unlist" => r.entity \notin LiveNodes(g)
    /\ r.pc = "held" => Issued(g, r.target) /\ (r.target \in LiveNodes(g) => IsComponent(g, r.target))
    /\ r.op = "remove" /\ r.pc \in {"scan", "held", "drop"} => RemovalIsAhead(g, behind, r)

TableHolds ==
    /\ entities \in Seq(SomeIds) /\ Distinct(entities) /\ Elems(entities) \subseteq handles
    /\ \A n \in LiveNodes(graph) : HasEntity(graph, n) =>
          \/ n \in Elems(entities)
          \/ \E c \in EcsCallers : call[c].pc = "record" /\ call[c].entity = n
    /\ \A n \in Elems(entities) : n \notin LiveNodes(graph) =>
          \E c \in EcsCallers : call[c].pc = "unlist" /\ call[c].entity = n
HandlesHold == \A n \in handles : Issued(graph, n) /\ (n \in LiveNodes(graph) => HasEntity(graph, n))
CreationsHold == \A c \in EcsCallers : call[c].pc = "record" =>
    /\ HasEntity(graph, call[c].entity) /\ call[c].entity \notin handles
    /\ \A d \in EcsCallers \ {c} : call[d].pc = "record" => call[d].entity # call[c].entity
AttachmentsHold ==
    /\ \A n \in LiveNodes(graph) : HasEntity(graph, n) \/ IsComponent(graph, n)
    /\ \A e \in LiveEdges(graph) :
          /\ EdgeAt(graph, e).what = "attached"
          /\ HasEntity(graph, EdgeAt(graph, e).from) /\ IsComponent(graph, EdgeAt(graph, e).to)
    /\ \A d, e \in LiveEdges(graph) : EdgeAt(graph, d).to = EdgeAt(graph, e).to => d = e
AttachersHold == \A c \in EcsCallers : call[c].pc = "edge" =>
    /\ call[c].target \in LiveNodes(graph) /\ IsComponent(graph, call[c].target)
    /\ \A e \in LiveEdges(graph) : EdgeAt(graph, e).to # call[c].target
    /\ \A d \in EcsCallers \ {c} : call[d].pc \in {"edge", "held"} => call[d].target # call[c].target
ComponentsHold == \A n \in LiveNodes(graph) : IsComponent(graph, n) =>
    \/ \E e \in LiveEdges(graph) : EdgeAt(graph, e).to = n
    \/ n \in raced
    \/ \E c \in EcsCallers : call[c].pc = "edge" /\ call[c].target = n
CallsHold ==
    /\ call \in [EcsCallers -> EcsCall]
    /\ \A c \in EcsCallers : CallFits(graph, handles, raced, call[c])
EcsHolds ==
    /\ GraphHolds /\ CallsHold /\ TableHolds /\ HandlesHold /\ CreationsHold
    /\ AttachmentsHold /\ AttachersHold /\ ComponentsHold

(* What happens to the ids of a graph as it goes on.                       *)
Older(g, h) == \A n : Issued(g, n) =>
    /\ Issued(h, n)
    /\ n \in LiveNodes(h) => n \in LiveNodes(g) /\ NodeAt(h, n).what = NodeAt(g, n).what
NoNewEdge(g, h) == \A e \in LiveEdges(h) : e \in LiveEdges(g) /\ EdgeAt(h, e) = EdgeAt(g, e)

LEMMA LiveIsIssued ==
    ASSUME NEW g, IsGraph(g, Labels), NEW n \in LiveNodes(g)
    PROVE  Issued(g, n) /\ n \in SomeIds
<1>1. n \in NodeIndices \X Nat /\ n \in SomeIds
  BY LiveNode DEF IsGraph
<1> QED BY <1>1 DEF Issued

LEMMA SameIsOlder == \A g : Older(g, g) /\ NoNewEdge(g, g)
BY DEF Older, NoNewEdge

LEMMA NodeAdded ==
    ASSUME NEW g, IsGraph(g, Labels), NodeRoom(g), NEW what \in Labels
    PROVE  LET h == WithNode(g, what)
               id == NextNodeId(g)
           IN /\ IsGraph(h, Labels) /\ Older(g, h) /\ NoNewEdge(g, h)
              /\ LiveEdges(h) = LiveEdges(g)
              /\ id \in SomeIds /\ id \notin LiveNodes(g) /\ ~Issued(g, id) /\ Issued(h, id)
              /\ LiveNodes(h) = LiveNodes(g) \cup {id} /\ NodeAt(h, id).what = what
              /\ \A n \in LiveNodes(g) : NodeAt(h, n).what = NodeAt(g, n).what
<1> DEFINE h == WithNode(g, what)
           id == NextNodeId(g)
<1>1. /\ IsGraph(h, Labels) /\ EdgesStay(g, h)
      /\ id \in NodeIndices \X Nat /\ id \notin LiveNodes(g) /\ ~Issued(g, id)
      /\ LiveNodes(h) = LiveNodes(g) \cup {id} /\ NodeAt(h, id).what = what
      /\ \A n \in SomeIds \ {id} : NodeAt(h, n) = NodeAt(g, n)
      /\ \A n : Issued(h, n) <=> Issued(g, n) \/ n = id
  BY WithNodeIsSound
<1>2. id \in SomeIds
  BY <1>1, GraphAssumption DEF SomeIds, NodeIndices
<1> HIDE DEF h, id
<1>3. NoNewEdge(g, h) /\ LiveEdges(h) = LiveEdges(g)
  BY <1>1, EdgesAreIds DEF NoNewEdge, EdgesStay
<1>4. \A n \in LiveNodes(g) : n \in SomeIds /\ n # id
  BY <1>1, LiveIsIssued
<1>5. Older(g, h)
  BY <1>1, <1>4 DEF Older
<1> QED BY <1>1, <1>2, <1>3, <1>4, <1>5 DEF h, id

LEMMA NodeDropped ==
    ASSUME NEW g, IsGraph(g, Labels), NEW n \in LiveNodes(g)
    PROVE  LET h == WithoutNode(g, n)
           IN /\ IsGraph(h, Labels) /\ Older(g, h) /\ NoNewEdge(g, h)
              /\ LiveNodes(h) = LiveNodes(g) \ {n}
              /\ \A m \in LiveNodes(h) : NodeAt(h, m).what = NodeAt(g, m).what
              /\ LiveEdges(h) = {e \in LiveEdges(g) : EdgeAt(g, e).from # n /\ EdgeAt(g, e).to # n}
<1> DEFINE h == WithoutNode(g, n)
<1>1. /\ IsGraph(h, Labels) /\ LiveNodes(h) = LiveNodes(g) \ {n}
      /\ \A m \in LiveNodes(h) : NodeAt(h, m).what = NodeAt(g, m).what
      /\ LiveEdges(h) = {e \in LiveEdges(g) : EdgeAt(g, e).from # n /\ EdgeAt(g, e).to # n}
      /\ \A e \in LiveEdges(h) : EdgeAt(h, e) = EdgeAt(g, e)
      /\ \A m : Issued(h, m) <=> Issued(g, m)
  BY WithoutNodeIsSound
<1> HIDE DEF h
<1>2. Older(g, h) /\ NoNewEdge(g, h)
  BY <1>1 DEF Older, NoNewEdge
<1> QED BY <1>1, <1>2 DEF h

LEMMA EdgeAdded ==
    ASSUME NEW g, IsGraph(g, Labels), EdgeRoom(g), NEW what \in Labels,
           NEW from, NEW to, EdgeFits(g, from, to)
    PROVE  LET h == WithEdge(g, from, to, what)
               id == NextEdgeId(g)
           IN /\ IsGraph(h, Labels) /\ Older(g, h)
              /\ LiveNodes(h) = LiveNodes(g)
              /\ \A n \in LiveNodes(g) : NodeAt(h, n).what = NodeAt(g, n).what
              /\ id \notin LiveEdges(g) /\ LiveEdges(h) = LiveEdges(g) \cup {id}
              /\ EdgeAt(h, id).from = from /\ EdgeAt(h, id).to = to /\ EdgeAt(h, id).what = what
              /\ \A e \in LiveEdges(g) : EdgeAt(h, e) = EdgeAt(g, e)
<1> DEFINE h == WithEdge(g, from, to, what)
           id == NextEdgeId(g)
<1>1. /\ IsGraph(h, Labels) /\ NodesStay(g, h)
      /\ id \in SomeIds /\ id \notin LiveEdges(g)
      /\ LiveEdges(h) = LiveEdges(g) \cup {id}
      /\ EdgeAt(h, id) = [gen |-> id[2], from |-> from, to |-> to, what |-> what]
      /\ \A e \in SomeIds \ {id} : EdgeAt(h, e) = EdgeAt(g, e)
      /\ \A n : Issued(h, n) <=> Issued(g, n)
  BY WithEdgeIsSound
<1> HIDE DEF h, id
<1>2. \A n \in LiveNodes(g) : n \in SomeIds
  BY LiveIsIssued
<1>3. \A e \in LiveEdges(g) : e \in SomeIds
  BY EdgesAreIds
<1>4. /\ LiveNodes(h) = LiveNodes(g)
      /\ \A n \in LiveNodes(g) : NodeAt(h, n).what = NodeAt(g, n).what
  BY <1>1, <1>2 DEF NodesStay
<1>5. Older(g, h)
  BY <1>1, <1>4 DEF Older
<1>6. EdgeAt(h, id).from = from /\ EdgeAt(h, id).to = to /\ EdgeAt(h, id).what = what
  BY <1>1
<1> QED BY <1>1, <1>3, <1>4, <1>5, <1>6 DEF h, id

(* Whoever is not the caller of a step keeps what it relies on.            *)
LEMMA FitStays ==
    ASSUME NEW g, NEW h, Older(g, h), NEW issued, NEW more, issued \subseteq more,
           NEW behind, NEW raised, behind \subseteq raised, \A n \in issued : Issued(g, n),
           NEW r, CallFits(g, issued, behind, r),
           \A e \in LiveEdges(h) :
              \/ e \in LiveEdges(g) /\ EdgeAt(h, e) = EdgeAt(g, e)
              \/ r.op = "remove" /\ r.pc \in {"scan", "held", "drop"}
                    /\ EdgeAt(h, e).from = r.entity => EdgeAt(h, e).to \in raised
    PROVE  CallFits(h, more, raised, r)
<1>1. /\ r \in EcsCall
      /\ r.pc = "record" => r.op = "create"
      /\ r.pc \in {"add", "edge"} => r.op = "attach" /\ r.kind \in Kinds
      /\ r.pc \in {"drop", "unlist"} => r.op = "remove"
      /\ r.pc = "next" => r.op = "with"
      /\ r.op \in {"attach", "remove"} => r.entity \in issued
  BY DEF CallFits
<1>2. r.pc = "unlist" => r.entity \notin LiveNodes(h)
  BY <1>1 DEF CallFits, Older
<1>3. r.pc = "held" => Issued(h, r.target) /\ (r.target \in LiveNodes(h) => IsComponent(h, r.target))
  BY DEF CallFits, Older, IsComponent
<1>4. ASSUME r.op = "remove", r.pc \in {"scan", "held", "drop"} PROVE RemovalIsAhead(h, raised, r)
  <2>1. RemovalIsAhead(g, behind, r)
    BY <1>4 DEF CallFits
  <2> QED BY <1>4, <2>1 DEF RemovalIsAhead
<1> QED BY <1>1, <1>2, <1>3, <1>4 DEF CallFits

LEMMA CallsStay ==
    ASSUME CallsHold, HandlesHold, Older(graph, graph'),
           handles \subseteq handles', raced \subseteq raced', NEW c \in EcsCallers, NEW r,
           call' = [call EXCEPT ![c] = r], CallFits(graph', handles', raced', r),
           \A d \in EcsCallers \ {c} : \A e \in LiveEdges(graph') :
              \/ e \in LiveEdges(graph) /\ EdgeAt(graph', e) = EdgeAt(graph, e)
              \/ call[d].op = "remove" /\ call[d].pc \in {"scan", "held", "drop"}
                    /\ EdgeAt(graph', e).from = call[d].entity => EdgeAt(graph', e).to \in raced'
    PROVE  CallsHold' /\ call'[c] = r /\ \A d \in EcsCallers \ {c} : call'[d] = call[d]
<1>1. /\ call \in [EcsCallers -> EcsCall]
      /\ \A d \in EcsCallers : CallFits(graph, handles, raced, call[d])
  BY DEF CallsHold
<1>2. r \in EcsCall
  BY DEF CallFits
<1>3. /\ call' \in [EcsCallers -> EcsCall] /\ call'[c] = r
      /\ \A d \in EcsCallers \ {c} : call'[d] = call[d]
  BY <1>1, <1>2
<1>4. ASSUME NEW d \in EcsCallers \ {c} PROVE CallFits(graph', handles', raced', call[d])
  <2>1. CallFits(graph, handles, raced, call[d]) /\ \A n \in handles : Issued(graph, n)
    BY <1>1 DEF HandlesHold
  <2> QED BY <2>1, FitStays
<1>5. \A d \in EcsCallers : CallFits(graph', handles', raced', call'[d])
  BY <1>3, <1>4
<1> QED BY <1>3, <1>5 DEF CallsHold

-----------------------------------------------------------------------------
(* A caller moves on and nothing else does.                                *)
Settled == {"record", "edge", "unlist"}    \* what the tables depend on

LEMMA CallMoves ==
    ASSUME EcsHolds, NEW c \in EcsCallers, NEW r, call' = [call EXCEPT ![c] = r],
           UNCHANGED <<graph, entities, handles, raced>>,
           CallFits(graph, handles, raced, r),
           call[c].pc \notin Settled, r.pc \notin Settled,
           r.pc = "held" => \A d \in EcsCallers : call[d].pc = "edge" => call[d].target # r.target
    PROVE  EcsHolds'
<1>1. /\ GraphHolds /\ CallsHold /\ TableHolds /\ HandlesHold /\ CreationsHold
      /\ AttachmentsHold /\ AttachersHold /\ ComponentsHold
  BY DEF EcsHolds
<1>2. CallsHold' /\ call'[c] = r /\ \A d \in EcsCallers \ {c} : call'[d] = call[d]
  <2>1. Older(graph, graph') /\ NoNewEdge(graph, graph')
    BY SameIsOlder
  <2>2. CallFits(graph', handles', raced', r) /\ handles \subseteq handles' /\ raced \subseteq raced'
    OBVIOUS
  <2> QED BY <1>1, <2>1, <2>2, CallsStay DEF NoNewEdge
<1>3. \A d \in EcsCallers : call[d].pc \in Settled \/ call'[d].pc \in Settled =>
         d # c /\ call'[d] = call[d]
  BY <1>2
<1>4. GraphHolds' /\ HandlesHold' /\ AttachmentsHold'
  BY <1>1 DEF GraphHolds, HandlesHold, AttachmentsHold, HasEntity, IsComponent
<1>5. TableHolds'
  BY <1>1, <1>3 DEF TableHolds, HasEntity, Settled
<1>6. CreationsHold'
  BY <1>1, <1>3 DEF CreationsHold, HasEntity, Settled
<1>7. AttachersHold'
  <2> SUFFICES ASSUME NEW b \in EcsCallers, call'[b].pc = "edge"
      PROVE /\ call'[b].target \in LiveNodes(graph) /\ IsComponent(graph, call'[b].target)
            /\ \A e \in LiveEdges(graph) : EdgeAt(graph, e).to # call'[b].target
            /\ \A d \in EcsCallers \ {b} : call'[d].pc \in {"edge", "held"} => call'[d].target # call'[b].target
    BY DEF AttachersHold, IsComponent
  <2>1. b # c /\ call'[b] = call[b] /\ call[b].pc = "edge"
    BY <1>3 DEF Settled
  <2>2. ASSUME NEW d \in EcsCallers \ {b}, call'[d].pc \in {"edge", "held"}
        PROVE  call'[d].target # call'[b].target
    <3>1. CASE d = c
      BY <1>2, <1>3, <2>1, <2>2, <3>1 DEF Settled
    <3>2. CASE d # c
      BY <1>1, <1>2, <2>1, <2>2, <3>2 DEF AttachersHold
    <3> QED BY <3>1, <3>2
  <2> QED BY <1>1, <2>1, <2>2 DEF AttachersHold
<1>8. ComponentsHold'
  BY <1>1, <1>3 DEF ComponentsHold, IsComponent, Settled
<1> QED BY <1>2, <1>4, <1>5, <1>6, <1>7, <1>8 DEF EcsHolds

(* What a call may do that depends on little.                              *)
LEMMA LightCall ==
    ASSUME NEW g, NEW issued, NEW behind, NEW r \in EcsCall,
           \/ r.pc \in {"idle", "list"}
           \/ r.pc = "next" /\ r.op = "with"
           \/ r.pc = "scan" /\ r.op # "remove"
           \/ r.pc = "add" /\ r.op = "attach" /\ r.kind \in Kinds,
           r.op \in {"attach", "remove"} => r.entity \in issued
    PROVE  CallFits(g, issued, behind, r)
BY DEF CallFits

LEMMA IdleCall ==
    /\ NoCall \in EcsCall /\ NoCall.pc = "idle" /\ NoCall.op = "none"
    /\ \A g, issued, behind : CallFits(g, issued, behind, NoCall)
<1>1. NoId \in SomeIds
  BY DEF NoId, SomeIds
<1>2. NoCall \in EcsCall /\ NoCall.pc = "idle" /\ NoCall.op = "none"
  BY <1>1 DEF NoCall, EcsCall, Operations, Places
<1> QED BY <1>2, LightCall

LEMMA CallType ==
    ASSUME CallsHold, NEW c \in EcsCallers
    PROVE  /\ call[c] \in EcsCall /\ CallFits(graph, handles, raced, call[c])
           /\ call[c].todo \in Seq(SomeIds) /\ call[c].rest \in Seq(SomeIds)
           /\ call[c].entity \in SomeIds /\ call[c].target \in SomeIds
BY DEF CallsHold, EcsCall

LEMMA BeginKeeps ==
    ASSUME EcsHolds, NEW c \in EcsCallers, NEW op \in Operations, NEW pc \in {"add", "list"},
           NEW n \in handles, NEW kind \in Kinds \cup {"none"},
           pc = "add" => op = "attach" /\ kind \in Kinds,
           Begin(c, op, pc, n, kind)
    PROVE  EcsHolds'
<1>1. PICK r : r = [NoCall EXCEPT !.op = op, !.pc = pc, !.entity = n, !.kind = kind]
  OBVIOUS
<1>2. /\ n \in LiveNodes(graph) /\ call[c].pc = "idle" /\ call' = [call EXCEPT ![c] = r]
      /\ UNCHANGED <<graph, entities, handles, raced>>
  BY <1>1 DEF Begin
<1>3. n \in SomeIds
  BY <1>2, LiveIsIssued DEF EcsHolds, GraphHolds
<1>4. r \in EcsCall /\ r.op = op /\ r.pc = pc /\ r.entity = n /\ r.kind = kind
  BY <1>1, <1>3, IdleCall DEF EcsCall, Places
<1>5. CallFits(graph, handles, raced, r)
  BY <1>4, LightCall
<1> QED BY <1>2, <1>4, <1>5, CallMoves DEF Settled

LEMMA WithKeeps ==
    ASSUME EcsHolds, NEW c \in EcsCallers,
           NextEntity(c) \/ \E kind \in Kinds : EntitiesWith(c, kind)
    PROVE  EcsHolds'
<1>1. CallsHold /\ entities \in Seq(SomeIds)
  BY DEF EcsHolds, TableHolds
<1>2. ASSUME NEW kind \in Kinds, EntitiesWith(c, kind) PROVE EcsHolds'
  <2>1. PICK r : r = [NoCall EXCEPT !.op = "with", !.pc = "next", !.kind = kind, !.rest = entities]
    OBVIOUS
  <2>2. /\ call[c].pc = "idle" /\ call' = [call EXCEPT ![c] = r]
        /\ UNCHANGED <<graph, entities, handles, raced>>
    BY <1>2, <2>1 DEF EntitiesWith
  <2>3. r \in EcsCall /\ r.pc = "next" /\ r.op = "with"
    BY <1>1, <2>1, IdleCall DEF EcsCall, Operations, Places
  <2>4. CallFits(graph, handles, raced, r)
    BY <2>3, LightCall
  <2> QED BY <2>2, <2>3, <2>4, CallMoves DEF Settled
<1>3. CASE NextEntity(c)
  <2> DEFINE rest == call[c].rest
  <2>1. /\ call[c].pc = "next" /\ UNCHANGED <<graph, entities, handles, raced>>
    BY <1>3 DEF NextEntity
  <2>2. CASE rest = <<>>
    <3>1. call' = [call EXCEPT ![c] = NoCall]
      BY <1>3, <2>2 DEF NextEntity, Return
    <3> QED BY <2>1, <3>1, IdleCall, CallMoves DEF Settled
  <2>3. CASE rest # <<>>
    <3>1. PICK r : r = [call[c] EXCEPT !.rest = Tail(rest), !.entity = Head(rest),
                           !.pc = IF Head(rest) \in LiveNodes(graph) THEN "list" ELSE "next"]
      OBVIOUS
    <3>2. rest \in Seq(SomeIds) /\ call[c] \in EcsCall
      BY <1>1, CallType
    <3>3. Tail(rest) \in Seq(SomeIds) /\ Head(rest) \in SomeIds
      BY <2>3, <3>2
    <3>4. call' = [call EXCEPT ![c] = r]
      BY <1>3, <2>3, <3>1 DEF NextEntity
    <3> HIDE DEF rest
    <3>5. r \in EcsCall /\ r.pc \in {"list", "next"} /\ r.op = call[c].op
      BY <3>1, <3>2, <3>3 DEF EcsCall, Places
    <3>6. r.op = "with"
      BY <1>1, <2>1, <3>5, CallType DEF CallFits
    <3>7. CallFits(graph, handles, raced, r)
      BY <3>5, <3>6, LightCall
    <3> QED BY <2>1, <3>4, <3>5, <3>7, CallMoves DEF Settled
  <2> QED BY <2>2, <2>3
<1> QED BY <1>2, <1>3

(* The edges of one kind of a node that may be gone.                       *)
LEMMA OutOfKindAnywhere ==
    ASSUME NEW g, IsGraph(g, Labels), NEW n \in SomeIds, NEW kind
    PROVE  LET out == OutOfKind(g, n, kind) IN
           /\ out \in Seq(SomeIds)
           /\ Elems(out) = {e \in LiveEdges(g) : EdgeAt(g, e).from = n /\ EdgeAt(g, e).what = kind}
<1>1. CASE n \in LiveNodes(g)
  BY <1>1, OutOfKindIs
<1>2. CASE n \notin LiveNodes(g)
  <2> DEFINE K == {e \in LiveEdges(g) : EdgeAt(g, e).what = kind}
             none == <<>>
  <2>1. NodeAt(g, n) = NoNode
    BY <1>2, LiveNode DEF IsGraph
  <2>2. none \in Seq(SomeIds) /\ Elems(none) = {}
    BY DEF Elems
  <2>3. OutOfKind(g, n, kind) = Only(none, K)
    BY <2>1 DEF OutOfKind, OutEdges, NoNode
  <2>4. \A e \in LiveEdges(g) : EdgeAt(g, e).from # n
    BY <1>2, EdgesAreIds
  <2> HIDE DEF K, none
  <2>5. Only(none, K) \in Seq(SomeIds) /\ Elems(Only(none, K)) = Elems(none) \cap K
    BY <2>2, ElemsOfOnly
  <2> QED BY <2>2, <2>3, <2>4, <2>5
<1> QED BY <1>1, <1>2

LEMMA ListKeeps ==
    ASSUME EcsHolds, NEW c \in EcsCallers, ListAttachments(c)
    PROVE  EcsHolds'
<1> DEFINE edgesOf == OutOfKind(graph, call[c].entity, "attached")
<1>1. CallsHold /\ GraphHolds /\ AttachmentsHold
  BY DEF EcsHolds
<1>2. /\ call[c] \in EcsCall /\ CallFits(graph, handles, raced, call[c])
      /\ call[c].entity \in SomeIds
  BY <1>1, CallType
<1>3. /\ edgesOf \in Seq(SomeIds)
      /\ Elems(edgesOf) = {e \in LiveEdges(graph) :
            EdgeAt(graph, e).from = call[c].entity /\ EdgeAt(graph, e).what = "attached"}
  BY <1>1, <1>2, OutOfKindAnywhere DEF GraphHolds
<1>4. /\ Sequence!Reverse(edgesOf) \in Seq(SomeIds)
      /\ Elems(Sequence!Reverse(edgesOf)) = Elems(edgesOf)
  BY <1>3, ElemsOfReverse
<1>5. PICK todo : todo = IF call[c].op = "remove" THEN Sequence!Reverse(edgesOf) ELSE edgesOf
  OBVIOUS
<1>6. PICK r : r = [call[c] EXCEPT !.pc = "scan", !.todo = todo]
  OBVIOUS
<1>7. /\ call[c].pc = "list" /\ call' = [call EXCEPT ![c] = r]
      /\ UNCHANGED <<graph, entities, handles, raced>>
  BY <1>5, <1>6 DEF ListAttachments
<1> HIDE DEF edgesOf
<1>8. /\ todo \in Seq(SomeIds)
      /\ \A e \in LiveEdges(graph) : EdgeAt(graph, e).from = call[c].entity => e \in Elems(todo)
  BY <1>1, <1>3, <1>4, <1>5 DEF AttachmentsHold
<1>9. /\ r \in EcsCall /\ r.pc = "scan" /\ r.todo = todo
      /\ r.op = call[c].op /\ r.entity = call[c].entity
  BY <1>2, <1>6, <1>8 DEF EcsCall, Places
<1>10. CallFits(graph, handles, raced, r)
  <2>1. r.op \in {"attach", "remove"} => r.entity \in handles
    BY <1>2, <1>9 DEF CallFits
  <2>2. RemovalIsAhead(graph, raced, r)
    BY <1>8, <1>9 DEF RemovalIsAhead
  <2> QED BY <1>9, <2>1, <2>2 DEF CallFits
<1> QED BY <1>7, <1>9, <1>10, CallMoves DEF Settled

(* The end of a walk, from wherever it is.                                 *)
LEMMA AfterWalkIs ==
    ASSUME EcsHolds, NEW c \in EcsCallers, AfterWalk(c), call[c].pc \in {"scan", "held"},
           call[c].op = "remove" => \A e \in LiveEdges(graph) :
               EdgeAt(graph, e).from = call[c].entity => EdgeAt(graph, e).to \in raced
    PROVE  \E r \in EcsCall : /\ call' = [call EXCEPT ![c] = r] /\ r.pc \in {"drop", "next", "idle"}
                              /\ CallFits(graph, handles, raced, r)
                              /\ r.pc = "drop" => call[c].op = "remove"
<1>1. call[c] \in EcsCall /\ CallFits(graph, handles, raced, call[c])
  BY CallType DEF EcsHolds
<1>2. CASE call[c].op = "remove"
  <2>1. PICK r : r = [call[c] EXCEPT !.pc = "drop"]
    OBVIOUS
  <2>2. call' = [call EXCEPT ![c] = r]
    BY <1>2, <2>1 DEF AfterWalk, Do
  <2>3. r \in EcsCall /\ r.pc = "drop" /\ r.op = "remove" /\ r.entity = call[c].entity
    BY <1>1, <1>2, <2>1 DEF EcsCall, Places
  <2>4. r.entity \in handles /\ RemovalIsAhead(graph, raced, r)
    BY <1>1, <1>2, <2>3 DEF CallFits, RemovalIsAhead
  <2>5. CallFits(graph, handles, raced, r)
    BY <2>3, <2>4 DEF CallFits
  <2> QED BY <1>2, <2>2, <2>3, <2>5
<1>3. CASE call[c].op = "with"
  <2>1. PICK r : r = [call[c] EXCEPT !.pc = "next"]
    OBVIOUS
  <2>2. call' = [call EXCEPT ![c] = r]
    BY <1>3, <2>1 DEF AfterWalk, Do
  <2>3. r \in EcsCall /\ r.pc = "next" /\ r.op = "with"
    BY <1>1, <1>3, <2>1 DEF EcsCall, Places
  <2>4. CallFits(graph, handles, raced, r)
    BY <2>3, LightCall
  <2> QED BY <2>2, <2>3, <2>4
<1>4. CASE call[c].op \notin {"remove", "with"}
  <2>1. call' = [call EXCEPT ![c] = NoCall]
    BY <1>4 DEF AfterWalk, Return
  <2> QED BY <2>1, IdleCall
<1> QED BY <1>2, <1>3, <1>4

LEMMA ResolveKeeps ==
    ASSUME EcsHolds, NEW c \in EcsCallers, Resolve(c)
    PROVE  EcsHolds'
<1> DEFINE todo == call[c].todo
           edge == EdgeAt(graph, Head(todo))
<1>1. CallsHold /\ GraphHolds /\ AttachmentsHold /\ AttachersHold
  BY DEF EcsHolds
<1>2. /\ call[c] \in EcsCall /\ CallFits(graph, handles, raced, call[c])
      /\ todo \in Seq(SomeIds)
  BY <1>1, CallType
<1>3. call[c].pc = "scan" /\ UNCHANGED <<graph, entities, handles, raced>>
  BY DEF Resolve
<1>4. call[c].op = "remove" => RemovalIsAhead(graph, raced, call[c])
  BY <1>2, <1>3 DEF CallFits
<1>5. CASE todo = <<>>
  <2>1. Elems(todo) = {}
    BY <1>2, <1>5, FirstOf
  <2>2. call[c].op = "remove" => \A e \in LiveEdges(graph) :
           EdgeAt(graph, e).from = call[c].entity => EdgeAt(graph, e).to \in raced
    BY <1>3, <1>4, <2>1 DEF RemovalIsAhead
  <2>3. AfterWalk(c)
    BY <1>5 DEF Resolve
  <2>4. PICK r \in EcsCall : /\ call' = [call EXCEPT ![c] = r] /\ r.pc \in {"drop", "next", "idle"}
                             /\ CallFits(graph, handles, raced, r)
    BY <1>3, <2>2, <2>3, AfterWalkIs
  <2> QED BY <1>3, <2>4, CallMoves DEF Settled
<1>6. CASE todo # <<>>
  <2>1. /\ Tail(todo) \in Seq(SomeIds) /\ Head(todo) \in SomeIds
        /\ Elems(todo) = {Head(todo)} \cup Elems(Tail(todo))
    BY <1>2, <1>6, ElemsOfTail
  <2>2. edge = NoEdge <=> Head(todo) \notin LiveEdges(graph)
    BY <1>1, <2>1, LiveEdge DEF GraphHolds, IsGraph
  <2>3. edge.to \in SomeIds
    <3>1. CASE edge = NoEdge
      BY <3>1 DEF NoEdge, NoId, SomeIds
    <3>2. CASE edge # NoEdge
      BY <1>1, <2>2, <3>2, EdgesAreIds, LiveIsIssued DEF GraphHolds
    <3> QED BY <3>1, <3>2
  <2>4. PICK r : r = [call[c] EXCEPT !.todo = Tail(todo), !.target = edge.to,
                                     !.pc = IF edge = NoEdge THEN "scan" ELSE "held"]
    OBVIOUS
  <2>5. call' = [call EXCEPT ![c] = r]
    BY <1>6, <2>4 DEF Resolve
  <2> HIDE DEF todo, edge
  <2>6. /\ r \in EcsCall /\ r.todo = Tail(todo) /\ r.target = edge.to
        /\ r.pc = IF edge = NoEdge THEN "scan" ELSE "held"
        /\ r.op = call[c].op /\ r.entity = call[c].entity
    BY <1>2, <2>1, <2>3, <2>4 DEF EcsCall, Places
  <2>7. r.pc = "held" => edge # NoEdge /\ Head(todo) \in LiveEdges(graph)
    BY <2>2, <2>6
  <2>8. r.pc = "held" => Issued(graph, r.target) /\ r.target \in LiveNodes(graph) /\ IsComponent(graph, r.target)
    <3> SUFFICES ASSUME r.pc = "held"
                 PROVE  Issued(graph, r.target) /\ r.target \in LiveNodes(graph) /\ IsComponent(graph, r.target)
      OBVIOUS
    <3>1. edge.to \in LiveNodes(graph) /\ IsComponent(graph, edge.to)
      BY <1>1, <2>7, EdgesAreIds DEF AttachmentsHold, GraphHolds, edge
    <3> QED BY <1>1, <2>6, <3>1, LiveIsIssued DEF GraphHolds
  <2>9. ASSUME r.op = "remove" PROVE RemovalIsAhead(graph, raced, r)
    <3> SUFFICES ASSUME NEW e \in LiveEdges(graph), EdgeAt(graph, e).from = r.entity
                 PROVE  \/ r.pc \in {"scan", "held"} /\ e \in Elems(r.todo)
                        \/ r.pc = "held" /\ EdgeAt(graph, e).to = r.target
                        \/ EdgeAt(graph, e).to \in raced
      BY DEF RemovalIsAhead
    <3>1. e \in Elems(todo) \/ EdgeAt(graph, e).to \in raced
      BY <1>3, <1>4, <2>6, <2>9 DEF RemovalIsAhead, todo
    <3>2. CASE e = Head(todo)
      BY <2>2, <2>6, <3>2 DEF edge
    <3>3. CASE e # Head(todo)
      BY <2>1, <2>6, <3>1, <3>3
    <3> QED BY <3>2, <3>3
  <2>10. r.op \in {"attach", "remove"} => r.entity \in handles
    BY <1>2, <2>6 DEF CallFits
  <2>11. CallFits(graph, handles, raced, r)
    BY <2>6, <2>8, <2>9, <2>10 DEF CallFits
  <2>12. r.pc = "held" => \A d \in EcsCallers : call[d].pc = "edge" => call[d].target # r.target
    BY <1>1, <2>6, <2>7 DEF AttachersHold, edge
  <2> QED BY <1>3, <2>5, <2>6, <2>11, <2>12, CallMoves DEF Settled
<1> QED BY <1>5, <1>6

(* What is read through a pointer to an edge.                              *)
LEMMA HeldIs ==
    ASSUME EcsHolds, NEW c \in EcsCallers, call[c].pc = "held", NEW target,
           target = call[c].target \/ (Erased(call[c].target) /\ target = NoId)
    PROVE  /\ target \in LiveNodes(graph) => target = call[c].target
           /\ target \notin LiveNodes(graph) => \A e \in LiveEdges(graph) : EdgeAt(graph, e).to # call[c].target
<1>1. GraphHolds /\ CallsHold
  BY DEF EcsHolds
<1>2. NoId \notin LiveNodes(graph)
  BY <1>1, LiveNode DEF GraphHolds, IsGraph, NoId, NodeIndices
<1>3. \A e \in LiveEdges(graph) : EdgeAt(graph, e).to \in LiveNodes(graph)
  BY <1>1, EdgesAreIds DEF GraphHolds
<1> QED BY <1>2, <1>3 DEF Erased

(* A component goes, by whoever holds it: the walk of a removal or of a    *)
(* detachment that has read its edge, or the attachment that brought it.   *)
LEMMA KillKeeps ==
    ASSUME EcsHolds, NEW c \in EcsCallers, NEW r, NEW n \in LiveNodes(graph), IsComponent(graph, n),
           call[c].pc \in {"held", "edge"}, call[c].target = n,
           graph' = WithoutNode(graph, n), UNCHANGED <<entities, handles>>, raced \subseteq raced',
           call' = [call EXCEPT ![c] = r], CallFits(graph', handles', raced', r),
           r.pc \notin Settled \cup {"held"}
    PROVE  EcsHolds'
<1> DEFINE h == graph'
<1>1. /\ GraphHolds /\ CallsHold /\ TableHolds /\ HandlesHold /\ CreationsHold
      /\ AttachmentsHold /\ AttachersHold /\ ComponentsHold
  BY DEF EcsHolds
<1>2. /\ IsGraph(h, Labels) /\ Older(graph, h) /\ NoNewEdge(graph, h)
      /\ LiveNodes(h) = LiveNodes(graph) \ {n}
      /\ \A m \in LiveNodes(h) : NodeAt(h, m).what = NodeAt(graph, m).what
      /\ LiveEdges(h) = {e \in LiveEdges(graph) : EdgeAt(graph, e).from # n /\ EdgeAt(graph, e).to # n}
  BY <1>1, NodeDropped DEF GraphHolds
<1> HIDE DEF h
<1>3. /\ CallsHold' /\ call'[c] = r
      /\ \A d \in EcsCallers \ {c} : call'[d] = call[d]
  BY <1>1, <1>2, CallsStay DEF NoNewEdge, h
<1>4. /\ ~HasEntity(graph, n)
      /\ \A m \in LiveNodes(h) : m \in LiveNodes(graph) /\ m # n
      /\ \A m \in LiveNodes(graph) : m # n => m \in LiveNodes(h)
      /\ \A m \in LiveNodes(h) : /\ HasEntity(h, m) <=> HasEntity(graph, m)
                                 /\ IsComponent(h, m) <=> IsComponent(graph, m)
      /\ \A m : HasEntity(graph, m) => HasEntity(h, m)
  BY <1>2, KindsAssumption DEF HasEntity, IsComponent
<1>5. \A e \in LiveEdges(h) : /\ e \in LiveEdges(graph) /\ EdgeAt(h, e) = EdgeAt(graph, e)
                              /\ EdgeAt(graph, e).from # n /\ EdgeAt(graph, e).to # n
  BY <1>2 DEF NoNewEdge
<1>6. \A d \in EcsCallers :
        /\ call[d].pc \in {"record", "unlist"} => d # c
        /\ call'[d].pc \in Settled \cup {"held"} => d # c /\ call'[d] = call[d]
        /\ call[d].pc \in {"record", "unlist"} => call'[d] = call[d]
  BY <1>3 DEF Settled
<1>7. GraphHolds'
  BY <1>2 DEF GraphHolds, h
<1>8. TableHolds'
  <2>1. ASSUME NEW m \in LiveNodes(h), HasEntity(h, m)
        PROVE  m \in Elems(entities) \/ \E d \in EcsCallers : call'[d].pc = "record" /\ call'[d].entity = m
    BY <1>1, <1>4, <1>6, <2>1 DEF TableHolds
  <2>2. ASSUME NEW m \in Elems(entities), m \notin LiveNodes(h)
        PROVE  \E d \in EcsCallers : call'[d].pc = "unlist" /\ call'[d].entity = m
    <3>1. m \in handles
      BY <1>1 DEF TableHolds
    <3>2. m \notin LiveNodes(graph)
      BY <1>1, <1>4, <2>2, <3>1 DEF HandlesHold
    <3>3. PICK d \in EcsCallers : call[d].pc = "unlist" /\ call[d].entity = m
      BY <1>1, <3>2 DEF TableHolds
    <3> QED BY <1>6, <3>3
  <2>3. entities \in Seq(SomeIds) /\ Distinct(entities) /\ Elems(entities) \subseteq handles
    BY <1>1 DEF TableHolds
  <2> QED BY <2>1, <2>2, <2>3 DEF TableHolds, h
<1>9. HandlesHold'
  <2>1. ASSUME NEW m \in handles PROVE Issued(h, m) /\ (m \in LiveNodes(h) => HasEntity(h, m))
    BY <1>1, <1>2, <1>4 DEF HandlesHold, Older
  <2> QED BY <2>1 DEF HandlesHold, h
<1>10. CreationsHold'
  <2>1. ASSUME NEW b \in EcsCallers, call'[b].pc = "record"
        PROVE /\ HasEntity(h, call'[b].entity) /\ call'[b].entity \notin handles
              /\ \A d \in EcsCallers \ {b} : call'[d].pc = "record" => call'[d].entity # call'[b].entity
    BY <1>1, <1>4, <1>6, <2>1 DEF CreationsHold, Settled
  <2> QED BY <2>1 DEF CreationsHold, h
<1>11. AttachmentsHold'
  <2>1. \A m \in LiveNodes(h) : HasEntity(h, m) \/ IsComponent(h, m)
    BY <1>1, <1>4 DEF AttachmentsHold
  <2>2. ASSUME NEW e \in LiveEdges(h)
        PROVE  /\ EdgeAt(h, e).what = "attached"
               /\ HasEntity(h, EdgeAt(h, e).from) /\ IsComponent(h, EdgeAt(h, e).to)
    <3>1. /\ EdgeAt(graph, e).what = "attached" /\ HasEntity(graph, EdgeAt(graph, e).from)
          /\ IsComponent(graph, EdgeAt(graph, e).to)
      BY <1>1, <1>5 DEF AttachmentsHold
    <3>2. EdgeAt(graph, e).to \in LiveNodes(h)
      BY <1>1, <1>4, <1>5, EdgesAreIds DEF GraphHolds
    <3> QED BY <1>4, <1>5, <3>1, <3>2
  <2>3. \A d, e \in LiveEdges(h) : EdgeAt(h, d).to = EdgeAt(h, e).to => d = e
    BY <1>1, <1>5 DEF AttachmentsHold
  <2> QED BY <2>1, <2>2, <2>3 DEF AttachmentsHold, h
<1>12. AttachersHold'
  <2>1. ASSUME NEW b \in EcsCallers, call'[b].pc = "edge"
        PROVE /\ call'[b].target \in LiveNodes(h) /\ IsComponent(h, call'[b].target)
              /\ \A e \in LiveEdges(h) : EdgeAt(h, e).to # call'[b].target
              /\ \A d \in EcsCallers \ {b} : call'[d].pc \in {"edge", "held"} => call'[d].target # call'[b].target
    <3>1. b # c /\ call'[b] = call[b] /\ call[b].pc = "edge"
      BY <1>6, <2>1 DEF Settled
    <3>2. /\ call[b].target \in LiveNodes(graph) /\ IsComponent(graph, call[b].target)
          /\ \A e \in LiveEdges(graph) : EdgeAt(graph, e).to # call[b].target
          /\ \A d \in EcsCallers \ {b} : call[d].pc \in {"edge", "held"} => call[d].target # call[b].target
      BY <1>1, <3>1 DEF AttachersHold
    <3>3. call[b].target # n
      BY <3>1, <3>2
    <3>4. \A d \in EcsCallers \ {b} : call'[d].pc \in {"edge", "held"} => call'[d].target # call[b].target
      BY <1>6, <3>2 DEF Settled
    <3> QED BY <1>4, <1>5, <3>1, <3>2, <3>3, <3>4
  <2> QED BY <2>1 DEF AttachersHold, h, IsComponent
<1>13. ComponentsHold'
  <2>1. ASSUME NEW m \in LiveNodes(h), IsComponent(h, m)
        PROVE \/ \E e \in LiveEdges(h) : EdgeAt(h, e).to = m
              \/ m \in raced'
              \/ \E d \in EcsCallers : call'[d].pc = "edge" /\ call'[d].target = m
    <3>1. m \in LiveNodes(graph) /\ m # n /\ IsComponent(graph, m)
      BY <1>4, <2>1
    <3>2. ASSUME NEW e \in LiveEdges(graph), EdgeAt(graph, e).to = m
          PROVE  e \in LiveEdges(h) /\ EdgeAt(h, e).to = m
      <4>1. EdgeAt(graph, e).from # n
        BY <1>1, <1>4 DEF AttachmentsHold
      <4> QED BY <1>2, <1>5, <3>1, <3>2, <4>1
    <3>3. ASSUME NEW d \in EcsCallers, call[d].pc = "edge", call[d].target = m
          PROVE  call'[d] = call[d]
      BY <1>3, <3>1, <3>3
    <3> QED BY <1>1, <3>1, <3>2, <3>3 DEF ComponentsHold
  <2> QED BY <2>1 DEF ComponentsHold, h, IsComponent
<1> QED BY <1>3, <1>7, <1>8, <1>9, <1>10, <1>11, <1>12, <1>13 DEF EcsHolds

LEMMA UseKeeps ==
    ASSUME EcsHolds, NEW c \in EcsCallers, NEW target, Use(c, target)
    PROVE  EcsHolds'
<1> DEFINE remove == call[c].op = "remove"
           wanted == remove \/ NodeAt(graph, target).what = call[c].kind
           kill == wanted /\ call[c].op \in {"remove", "detach"} /\ target \in LiveNodes(graph)
<1>1. GraphHolds /\ CallsHold
  BY DEF EcsHolds
<1>2. /\ call[c] \in EcsCall /\ CallFits(graph, handles, raced, call[c])
  BY <1>1, CallType
<1>3. /\ call[c].pc = "held" /\ UNCHANGED <<entities, handles, raced>>
      /\ target = call[c].target \/ (Erased(call[c].target) /\ target = NoId)
      /\ graph' = IF kill THEN WithoutNode(graph, target) ELSE graph
      /\ IF wanted /\ ~remove THEN AfterWalk(c) ELSE Do(c, "scan")
  BY DEF Use
<1>4. /\ target \in LiveNodes(graph) => target = call[c].target
      /\ target \notin LiveNodes(graph) => \A e \in LiveEdges(graph) : EdgeAt(graph, e).to # call[c].target
  BY <1>3, HeldIs
<1>5. remove => RemovalIsAhead(graph, raced, call[c])
  BY <1>2, <1>3 DEF CallFits
<1> HIDE DEF wanted, remove, kill
<1>6. PICK s : s = [call[c] EXCEPT !.pc = "scan"]
  OBVIOUS
<1>7. /\ s \in EcsCall /\ s.pc = "scan" /\ s.op = call[c].op /\ s.entity = call[c].entity
      /\ s.todo = call[c].todo
      /\ Do(c, "scan") => call' = [call EXCEPT ![c] = s]
  BY <1>2, <1>6 DEF EcsCall, Places, Do
<1>8. s.op \in {"attach", "remove"} => s.entity \in handles
  BY <1>2, <1>7 DEF CallFits
<1>9. CASE kill
  <2>1. target \in LiveNodes(graph) /\ target = call[c].target /\ call[c].op \in {"remove", "detach"}
    BY <1>4, <1>9 DEF kill
  <2>2. IsComponent(graph, target)
    BY <1>2, <1>3, <2>1 DEF CallFits
  <2>3. graph' = WithoutNode(graph, target)
    BY <1>3, <1>9
  <2>4. CASE remove
    <3>1. call' = [call EXCEPT ![c] = s]
      BY <1>3, <1>7, <2>4
    <3>2. RemovalIsAhead(graph', raced, s)
      <4>1. /\ NoNewEdge(graph, graph')
            /\ LiveEdges(graph') = {e \in LiveEdges(graph) : EdgeAt(graph, e).from # target /\ EdgeAt(graph, e).to # target}
        BY <1>1, <2>1, <2>3, NodeDropped DEF GraphHolds
      <4>2. \A e \in LiveEdges(graph') : EdgeAt(graph', e) = EdgeAt(graph, e) /\ EdgeAt(graph, e).to # target
        BY <4>1 DEF NoNewEdge
      <4> QED BY <1>5, <1>7, <2>1, <2>4, <4>1, <4>2 DEF RemovalIsAhead
    <3>3. CallFits(graph', handles', raced', s)
      BY <1>3, <1>7, <1>8, <3>2 DEF CallFits
    <3> QED BY <1>3, <1>7, <2>1, <2>2, <2>3, <3>1, <3>3, KillKeeps DEF Settled
  <2>5. CASE ~remove
    <3>1. AfterWalk(c) /\ call[c].op = "detach"
      BY <1>3, <1>9, <2>1, <2>5 DEF kill, remove
    <3>2. call' = [call EXCEPT ![c] = NoCall]
      BY <3>1 DEF AfterWalk, Return
    <3> QED BY <1>3, <2>1, <2>2, <2>3, <3>2, IdleCall, KillKeeps DEF Settled
  <2> QED BY <2>4, <2>5
<1>10. CASE ~kill
  <2>1. graph' = graph
    BY <1>3, <1>10
  <2>2. CASE wanted /\ ~remove
    <3>1. AfterWalk(c) /\ call[c].op # "remove"
      BY <1>3, <2>2 DEF remove
    <3>2. PICK r \in EcsCall : /\ call' = [call EXCEPT ![c] = r] /\ r.pc \in {"drop", "next", "idle"}
                               /\ CallFits(graph, handles, raced, r)
      BY <1>3, <3>1, AfterWalkIs
    <3> QED BY <1>3, <2>1, <3>2, CallMoves DEF Settled
  <2>3. CASE ~(wanted /\ ~remove)
    <3>1. call' = [call EXCEPT ![c] = s]
      BY <1>3, <1>7, <2>3
    <3>2. ASSUME remove PROVE RemovalIsAhead(graph, raced, s)
      <4>1. target \notin LiveNodes(graph)
        BY <1>10, <3>2 DEF kill, wanted, remove
      <4> QED BY <1>4, <1>5, <1>7, <3>2, <4>1 DEF RemovalIsAhead
    <3>3. CallFits(graph, handles, raced, s)
      BY <1>7, <1>8, <3>2 DEF CallFits, remove
    <3> QED BY <1>3, <1>7, <2>1, <3>1, <3>3, CallMoves DEF Settled
  <2> QED BY <2>2, <2>3
<1> QED BY <1>9, <1>10

LEMMA CreateKeeps ==
    ASSUME EcsHolds, NEW c \in EcsCallers, CreateEntity(c)
    PROVE  EcsHolds'
<1> DEFINE h == graph'
           id == NextNodeId(graph)
<1>1. /\ GraphHolds /\ CallsHold /\ TableHolds /\ HandlesHold /\ CreationsHold
      /\ AttachmentsHold /\ AttachersHold /\ ComponentsHold
  BY DEF EcsHolds
<1>2. PICK r : r = [NoCall EXCEPT !.op = "create", !.pc = "record", !.entity = id]
  OBVIOUS
<1>3. /\ call[c].pc = "idle" /\ NodeRoom(graph) /\ h = WithNode(graph, EntityNode)
      /\ call' = [call EXCEPT ![c] = r] /\ UNCHANGED <<entities, handles, raced>>
  BY <1>2 DEF CreateEntity
<1>4. EntityNode \in Labels
  BY DEF EntityNode, Labels
<1> HIDE DEF id, h
<1>5. /\ IsGraph(h, Labels) /\ Older(graph, h) /\ NoNewEdge(graph, h)
      /\ LiveEdges(h) = LiveEdges(graph)
      /\ id \in SomeIds /\ id \notin LiveNodes(graph) /\ ~Issued(graph, id) /\ Issued(h, id)
      /\ LiveNodes(h) = LiveNodes(graph) \cup {id} /\ NodeAt(h, id).what = EntityNode
      /\ \A n \in LiveNodes(graph) : NodeAt(h, n).what = NodeAt(graph, n).what
  BY <1>1, <1>3, <1>4, NodeAdded DEF GraphHolds, id, h
<1>6. r \in EcsCall /\ r.op = "create" /\ r.pc = "record" /\ r.entity = id
  BY <1>2, <1>5, IdleCall DEF EcsCall, Operations, Places
<1>7. CallFits(graph', handles', raced', r)
  BY <1>6 DEF CallFits
<1>8. /\ CallsHold' /\ call'[c] = r
      /\ \A d \in EcsCallers \ {c} : call'[d] = call[d]
  BY <1>1, <1>3, <1>5, <1>7, CallsStay DEF NoNewEdge, h
<1>9. /\ HasEntity(h, id) /\ ~IsComponent(h, id)
      /\ \A n \in LiveNodes(graph) : n \in LiveNodes(h)
             /\ (HasEntity(h, n) <=> HasEntity(graph, n)) /\ (IsComponent(h, n) <=> IsComponent(graph, n))
      /\ \A n \in LiveNodes(h) : n = id \/ n \in LiveNodes(graph)
      /\ \A n : HasEntity(graph, n) => n \in LiveNodes(graph)
  BY <1>5, KindsAssumption DEF HasEntity, IsComponent
<1>10. \A d \in EcsCallers : /\ call[d].pc \in Settled => d # c /\ call'[d] = call[d]
                             /\ call'[d].pc \in {"edge", "held", "unlist"} => d # c /\ call'[d] = call[d]
  BY <1>3, <1>6, <1>8 DEF Settled
<1>11. \A e \in LiveEdges(h) : e \in LiveEdges(graph) /\ EdgeAt(h, e) = EdgeAt(graph, e)
  BY <1>5 DEF NoNewEdge
<1>12. GraphHolds'
  BY <1>5 DEF GraphHolds, h
<1>13. TableHolds'
  <2>1. ASSUME NEW m \in LiveNodes(h), HasEntity(h, m)
        PROVE  m \in Elems(entities) \/ \E d \in EcsCallers : call'[d].pc = "record" /\ call'[d].entity = m
    <3>1. CASE m = id
      BY <1>6, <1>8, <3>1
    <3>2. CASE m # id
      BY <1>1, <1>9, <1>10, <2>1, <3>2 DEF TableHolds, Settled
    <3> QED BY <3>1, <3>2
  <2>2. ASSUME NEW m \in Elems(entities), m \notin LiveNodes(h)
        PROVE  \E d \in EcsCallers : call'[d].pc = "unlist" /\ call'[d].entity = m
    BY <1>1, <1>9, <1>10, <2>2 DEF TableHolds, Settled
  <2>3. entities \in Seq(SomeIds) /\ Distinct(entities) /\ Elems(entities) \subseteq handles
    BY <1>1 DEF TableHolds
  <2> QED BY <1>3, <2>1, <2>2, <2>3 DEF TableHolds, h
<1>14. HandlesHold'
  <2>1. ASSUME NEW m \in handles PROVE Issued(h, m) /\ (m \in LiveNodes(h) => HasEntity(h, m))
    BY <1>1, <1>5, <1>9 DEF HandlesHold, Older
  <2> QED BY <1>3, <2>1 DEF HandlesHold, h
<1>15. CreationsHold'
  <2>1. id \notin handles
    BY <1>1, <1>5 DEF HandlesHold
  <2>2. ASSUME NEW b \in EcsCallers \ {c}, call'[b].pc = "record"
        PROVE  /\ HasEntity(h, call'[b].entity) /\ call'[b].entity \notin handles
               /\ call'[b].entity # id
               /\ \A d \in EcsCallers \ {b, c} : call'[d].pc = "record" => call'[d].entity # call'[b].entity
    <3>1. call'[b] = call[b] /\ call[b].pc = "record"
      BY <1>8, <2>2
    <3>2. /\ HasEntity(graph, call[b].entity) /\ call[b].entity \notin handles
          /\ \A d \in EcsCallers \ {b} : call[d].pc = "record" => call[d].entity # call[b].entity
      BY <1>1, <3>1 DEF CreationsHold
    <3> QED BY <1>5, <1>8, <1>9, <3>1, <3>2
  <2>3. ASSUME NEW b \in EcsCallers, call'[b].pc = "record"
        PROVE /\ HasEntity(h, call'[b].entity) /\ call'[b].entity \notin handles
              /\ \A d \in EcsCallers \ {b} : call'[d].pc = "record" => call'[d].entity # call'[b].entity
    <3>1. CASE b = c
      BY <1>6, <1>8, <1>9, <2>1, <2>2, <3>1
    <3>2. CASE b # c
      BY <1>6, <1>8, <2>2, <2>3, <3>2
    <3> QED BY <3>1, <3>2
  <2> QED BY <1>3, <2>3 DEF CreationsHold, h
<1>16. AttachmentsHold'
  <2>1. \A m \in LiveNodes(h) : HasEntity(h, m) \/ IsComponent(h, m)
    BY <1>1, <1>9 DEF AttachmentsHold
  <2>2. ASSUME NEW e \in LiveEdges(h)
        PROVE  /\ EdgeAt(h, e).what = "attached"
               /\ HasEntity(h, EdgeAt(h, e).from) /\ IsComponent(h, EdgeAt(h, e).to)
    <3>1. EdgeAt(graph, e).from \in LiveNodes(graph) /\ EdgeAt(graph, e).to \in LiveNodes(graph)
      BY <1>1, <1>11, EdgesAreIds DEF GraphHolds
    <3> QED BY <1>1, <1>9, <1>11, <3>1 DEF AttachmentsHold
  <2>3. \A d, e \in LiveEdges(h) : EdgeAt(h, d).to = EdgeAt(h, e).to => d = e
    BY <1>1, <1>11 DEF AttachmentsHold
  <2> QED BY <2>1, <2>2, <2>3 DEF AttachmentsHold, h
<1>17. AttachersHold'
  <2>1. ASSUME NEW b \in EcsCallers, call'[b].pc = "edge"
        PROVE /\ call'[b].target \in LiveNodes(h) /\ IsComponent(h, call'[b].target)
              /\ \A e \in LiveEdges(h) : EdgeAt(h, e).to # call'[b].target
              /\ \A d \in EcsCallers \ {b} : call'[d].pc \in {"edge", "held"} => call'[d].target # call'[b].target
    BY <1>1, <1>9, <1>10, <1>11, <2>1 DEF AttachersHold
  <2> QED BY <2>1 DEF AttachersHold, h, IsComponent
<1>18. ComponentsHold'
  <2>1. ASSUME NEW m \in LiveNodes(h), IsComponent(h, m)
        PROVE \/ \E e \in LiveEdges(h) : EdgeAt(h, e).to = m
              \/ m \in raced
              \/ \E d \in EcsCallers : call'[d].pc = "edge" /\ call'[d].target = m
    <3>1. m \in LiveNodes(graph) /\ IsComponent(graph, m)
      BY <1>9, <2>1
    <3> QED BY <1>1, <1>5, <1>10, <1>11, <3>1 DEF ComponentsHold, Settled
  <2> QED BY <1>3, <2>1 DEF ComponentsHold, h, IsComponent
<1> QED BY <1>8, <1>12, <1>13, <1>14, <1>15, <1>16, <1>17, <1>18 DEF EcsHolds

LEMMA RecordKeeps ==
    ASSUME EcsHolds, NEW c \in EcsCallers, Record(c)
    PROVE  EcsHolds'
<1> DEFINE entity == call[c].entity
<1>1. /\ GraphHolds /\ CallsHold /\ TableHolds /\ HandlesHold /\ CreationsHold
      /\ AttachmentsHold /\ AttachersHold /\ ComponentsHold
  BY DEF EcsHolds
<1>2. /\ call[c].pc = "record" /\ entities' = Append(entities, entity)
      /\ handles' = handles \cup {entity}
      /\ call' = [call EXCEPT ![c] = NoCall] /\ UNCHANGED <<graph, raced>>
  BY DEF Record, Return
<1>3. CallFits(graph', handles', raced', NoCall) /\ NoCall.pc = "idle"
  BY IdleCall
<1>4. Older(graph, graph') /\ NoNewEdge(graph, graph')
  BY <1>2, SameIsOlder
<1>5. /\ CallsHold' /\ call'[c] = NoCall
      /\ \A d \in EcsCallers \ {c} : call'[d] = call[d]
  BY <1>1, <1>2, <1>3, <1>4, CallsStay DEF NoNewEdge
<1>6. entity \in SomeIds /\ HasEntity(graph, entity) /\ entity \notin handles
  BY <1>1, <1>2, CallType DEF CreationsHold
<1>7. \A d \in EcsCallers : /\ call[d].pc \in {"edge", "unlist"} => d # c /\ call'[d] = call[d]
                            /\ call'[d].pc # "idle" => d # c /\ call'[d] = call[d]
  BY <1>2, <1>3, <1>5
<1> HIDE DEF entity
<1>8. /\ entities' \in Seq(SomeIds) /\ Distinct(entities') /\ Elems(entities') \subseteq handles'
      /\ Elems(entities') = Elems(entities) \cup {entity}
  <2>1. entities \in Seq(SomeIds) /\ Distinct(entities) /\ Elems(entities) \subseteq handles
    BY <1>1 DEF TableHolds
  <2>2. /\ Elems(Append(entities, entity)) = Elems(entities) \cup {entity}
        /\ Distinct(Append(entities, entity))
    BY <1>6, <2>1, ElemsOfAppend
  <2>3. Append(entities, entity) \in Seq(SomeIds)
    BY <1>6, <2>1
  <2> QED BY <1>2, <2>1, <2>2, <2>3
<1>9. GraphHolds'
  BY <1>1, <1>2 DEF GraphHolds
<1>10. TableHolds'
  <2>1. ASSUME NEW m \in LiveNodes(graph), HasEntity(graph, m)
        PROVE  m \in Elems(entities') \/ \E d \in EcsCallers : call'[d].pc = "record" /\ call'[d].entity = m
    <3>1. CASE m \in Elems(entities) \cup {entity}
      BY <1>8, <3>1
    <3>2. CASE m \notin Elems(entities) \cup {entity}
      <4>1. PICK d \in EcsCallers : call[d].pc = "record" /\ call[d].entity = m
        BY <1>1, <2>1, <3>2 DEF TableHolds
      <4>2. call'[d] = call[d]
        BY <1>5, <3>2, <4>1 DEF entity
      <4> QED BY <4>1, <4>2
    <3> QED BY <3>1, <3>2
  <2>2. ASSUME NEW m \in Elems(entities'), m \notin LiveNodes(graph)
        PROVE  \E d \in EcsCallers : call'[d].pc = "unlist" /\ call'[d].entity = m
    <3>1. m \in Elems(entities)
      BY <1>6, <1>8, <2>2 DEF HasEntity
    <3> QED BY <1>1, <1>7, <2>2, <3>1 DEF TableHolds
  <2> QED BY <1>2, <1>8, <2>1, <2>2 DEF TableHolds, HasEntity
<1>11. HandlesHold'
  <2>1. Issued(graph, entity)
    BY <1>1, <1>6, LiveIsIssued DEF HasEntity, GraphHolds
  <2> QED BY <1>1, <1>2, <1>6, <2>1 DEF HandlesHold, HasEntity
<1>12. CreationsHold'
  <2>1. ASSUME NEW b \in EcsCallers, call'[b].pc = "record"
        PROVE /\ HasEntity(graph, call'[b].entity) /\ call'[b].entity \notin handles'
              /\ \A d \in EcsCallers \ {b} : call'[d].pc = "record" => call'[d].entity # call'[b].entity
    <3>1. b # c /\ call'[b] = call[b] /\ call[b].pc = "record"
      BY <1>7, <2>1
    <3>2. call[b].entity # entity
      BY <1>1, <1>2, <3>1 DEF CreationsHold, entity
    <3> QED BY <1>1, <1>2, <1>7, <3>1, <3>2 DEF CreationsHold
  <2> QED BY <1>2, <2>1 DEF CreationsHold, HasEntity
<1>13. AttachmentsHold'
  BY <1>1, <1>2 DEF AttachmentsHold, HasEntity, IsComponent
<1>14. AttachersHold'
  BY <1>1, <1>2, <1>7 DEF AttachersHold, IsComponent
<1>15. ComponentsHold'
  BY <1>1, <1>2, <1>7 DEF ComponentsHold, IsComponent
<1> QED BY <1>5, <1>9, <1>10, <1>11, <1>12, <1>13, <1>14, <1>15 DEF EcsHolds

LEMMA AddComponentKeeps ==
    ASSUME EcsHolds, NEW c \in EcsCallers, AddComponent(c)
    PROVE  EcsHolds'
<1> DEFINE h == graph'
           id == NextNodeId(graph)
           kind == call[c].kind
<1>1. /\ GraphHolds /\ CallsHold /\ TableHolds /\ HandlesHold /\ CreationsHold
      /\ AttachmentsHold /\ AttachersHold /\ ComponentsHold
  BY DEF EcsHolds
<1>2. PICK r : r = [call[c] EXCEPT !.pc = "edge", !.target = id]
  OBVIOUS
<1>3. /\ call[c].pc = "add" /\ NodeRoom(graph) /\ h = WithNode(graph, kind)
      /\ call' = [call EXCEPT ![c] = r] /\ UNCHANGED <<entities, handles, raced>>
  BY <1>2 DEF AddComponent, ComponentNode
<1>4. /\ call[c] \in EcsCall /\ call[c].op = "attach" /\ kind \in Kinds /\ call[c].entity \in handles
      /\ kind \in Labels
  BY <1>1, <1>3, CallType DEF CallFits, Labels
<1> HIDE DEF id, h, kind
<1>5. /\ IsGraph(h, Labels) /\ Older(graph, h) /\ NoNewEdge(graph, h)
      /\ LiveEdges(h) = LiveEdges(graph)
      /\ id \in SomeIds /\ id \notin LiveNodes(graph) /\ ~Issued(graph, id) /\ Issued(h, id)
      /\ LiveNodes(h) = LiveNodes(graph) \cup {id} /\ NodeAt(h, id).what = kind
      /\ \A n \in LiveNodes(graph) : NodeAt(h, n).what = NodeAt(graph, n).what
  BY <1>1, <1>3, <1>4, NodeAdded DEF GraphHolds, id, h
<1>6. r \in EcsCall /\ r.op = "attach" /\ r.pc = "edge" /\ r.target = id /\ r.entity \in handles
      /\ r.kind \in Kinds
  BY <1>2, <1>4, <1>5 DEF EcsCall, Places, kind
<1>7. CallFits(graph', handles', raced', r)
  BY <1>3, <1>6 DEF CallFits
<1>8. /\ CallsHold' /\ call'[c] = r
      /\ \A d \in EcsCallers \ {c} : call'[d] = call[d]
  BY <1>1, <1>3, <1>5, <1>7, CallsStay DEF NoNewEdge, h
<1>9. /\ ~HasEntity(h, id) /\ IsComponent(h, id)
      /\ \A n \in LiveNodes(graph) : n \in LiveNodes(h)
             /\ (HasEntity(h, n) <=> HasEntity(graph, n)) /\ (IsComponent(h, n) <=> IsComponent(graph, n))
      /\ \A n \in LiveNodes(h) : n = id \/ n \in LiveNodes(graph)
      /\ \A n : HasEntity(graph, n) => n \in LiveNodes(graph)
  BY <1>4, <1>5, KindsAssumption DEF HasEntity, IsComponent
<1>10. \A d \in EcsCallers : /\ call[d].pc \in Settled => d # c /\ call'[d] = call[d]
                             /\ call'[d].pc \in {"record", "held", "unlist"} => d # c /\ call'[d] = call[d]
  BY <1>3, <1>6, <1>8 DEF Settled
<1>11. \A e \in LiveEdges(h) : e \in LiveEdges(graph) /\ EdgeAt(h, e) = EdgeAt(graph, e)
  BY <1>5 DEF NoNewEdge
<1>12. \A e \in LiveEdges(graph) : EdgeAt(graph, e).from \in LiveNodes(graph) /\ EdgeAt(graph, e).to \in LiveNodes(graph)
  BY <1>1, EdgesAreIds DEF GraphHolds
<1>13. GraphHolds'
  BY <1>5 DEF GraphHolds, h
<1>14. TableHolds'
  <2>1. ASSUME NEW m \in LiveNodes(h), HasEntity(h, m)
        PROVE  m \in Elems(entities) \/ \E d \in EcsCallers : call'[d].pc = "record" /\ call'[d].entity = m
    BY <1>1, <1>9, <1>10, <2>1 DEF TableHolds, Settled
  <2>2. ASSUME NEW m \in Elems(entities), m \notin LiveNodes(h)
        PROVE  \E d \in EcsCallers : call'[d].pc = "unlist" /\ call'[d].entity = m
    BY <1>1, <1>9, <1>10, <2>2 DEF TableHolds, Settled
  <2>3. entities \in Seq(SomeIds) /\ Distinct(entities) /\ Elems(entities) \subseteq handles
    BY <1>1 DEF TableHolds
  <2> QED BY <1>3, <2>1, <2>2, <2>3 DEF TableHolds, h
<1>15. HandlesHold'
  <2>1. ASSUME NEW m \in handles PROVE Issued(h, m) /\ (m \in LiveNodes(h) => HasEntity(h, m))
    BY <1>1, <1>5, <1>9 DEF HandlesHold, Older
  <2> QED BY <1>3, <2>1 DEF HandlesHold, h
<1>16. CreationsHold'
  <2>1. ASSUME NEW b \in EcsCallers, call'[b].pc = "record"
        PROVE /\ HasEntity(h, call'[b].entity) /\ call'[b].entity \notin handles
              /\ \A d \in EcsCallers \ {b} : call'[d].pc = "record" => call'[d].entity # call'[b].entity
    BY <1>1, <1>9, <1>10, <2>1 DEF CreationsHold
  <2> QED BY <1>3, <2>1 DEF CreationsHold, h
<1>17. AttachmentsHold'
  <2>1. \A m \in LiveNodes(h) : HasEntity(h, m) \/ IsComponent(h, m)
    BY <1>1, <1>9 DEF AttachmentsHold
  <2>2. ASSUME NEW e \in LiveEdges(h)
        PROVE  /\ EdgeAt(h, e).what = "attached"
               /\ HasEntity(h, EdgeAt(h, e).from) /\ IsComponent(h, EdgeAt(h, e).to)
    BY <1>1, <1>9, <1>11, <1>12 DEF AttachmentsHold
  <2>3. \A d, e \in LiveEdges(h) : EdgeAt(h, d).to = EdgeAt(h, e).to => d = e
    BY <1>1, <1>11 DEF AttachmentsHold
  <2> QED BY <2>1, <2>2, <2>3 DEF AttachmentsHold, h
<1>18. AttachersHold'
  <2>1. ASSUME NEW b \in EcsCallers \ {c}, call'[b].pc \in {"edge", "held"}
        PROVE  call'[b].target # id
    <3>1. call'[b] = call[b]
      BY <1>8
    <3>2. CASE call[b].pc = "edge"
      BY <1>1, <1>5, <3>1, <3>2 DEF AttachersHold
    <3>3. CASE call[b].pc = "held"
      BY <1>1, <1>5, <3>1, <3>3, CallType DEF CallFits
    <3> QED BY <2>1, <3>1, <3>2, <3>3
  <2>2. ASSUME NEW b \in EcsCallers, call'[b].pc = "edge"
        PROVE /\ call'[b].target \in LiveNodes(h) /\ IsComponent(h, call'[b].target)
              /\ \A e \in LiveEdges(h) : EdgeAt(h, e).to # call'[b].target
              /\ \A d \in EcsCallers \ {b} : call'[d].pc \in {"edge", "held"} => call'[d].target # call'[b].target
    <3>1. CASE b = c
      <4>1. call'[b].target = id
        BY <1>6, <1>8, <3>1
      <4>2. \A e \in LiveEdges(h) : EdgeAt(h, e).to # id
        BY <1>5, <1>11, <1>12
      <4> QED BY <1>5, <1>9, <2>1, <3>1, <4>1, <4>2
    <3>2. CASE b # c
      <4>1. call'[b] = call[b] /\ call[b].pc = "edge"
        BY <1>8, <2>2, <3>2
      <4>2. /\ call[b].target \in LiveNodes(graph) /\ IsComponent(graph, call[b].target)
            /\ \A e \in LiveEdges(graph) : EdgeAt(graph, e).to # call[b].target
            /\ \A d \in EcsCallers \ {b} : call[d].pc \in {"edge", "held"} => call[d].target # call[b].target
        BY <1>1, <4>1 DEF AttachersHold
      <4>3. call[b].target # id
        BY <1>5, <4>2
      <4> QED BY <1>6, <1>8, <1>9, <1>11, <4>1, <4>2, <4>3
    <3> QED BY <3>1, <3>2
  <2> QED BY <2>2 DEF AttachersHold, h, IsComponent
<1>19. ComponentsHold'
  <2>1. ASSUME NEW m \in LiveNodes(h), IsComponent(h, m)
        PROVE \/ \E e \in LiveEdges(h) : EdgeAt(h, e).to = m
              \/ m \in raced
              \/ \E d \in EcsCallers : call'[d].pc = "edge" /\ call'[d].target = m
    <3>1. CASE m = id
      BY <1>6, <1>8, <3>1
    <3>2. CASE m # id
      <4>1. m \in LiveNodes(graph) /\ IsComponent(graph, m)
        BY <1>9, <2>1, <3>2
      <4> QED BY <1>1, <1>5, <1>10, <1>11, <4>1 DEF ComponentsHold, Settled
    <3> QED BY <3>1, <3>2
  <2> QED BY <1>3, <2>1 DEF ComponentsHold, h, IsComponent
<1> QED BY <1>8, <1>13, <1>14, <1>15, <1>16, <1>17, <1>18, <1>19 DEF EcsHolds

(* The attachment: the edge, or the component taken back.                  *)
LEMMA AddAttachmentKeeps ==
    ASSUME EcsHolds, NEW c \in EcsCallers, AddAttachment(c)
    PROVE  EcsHolds'
<1> DEFINE h == graph'
           entity == call[c].entity
           component == call[c].target
           id == NextEdgeId(graph)
<1>1. /\ GraphHolds /\ CallsHold /\ TableHolds /\ HandlesHold /\ CreationsHold
      /\ AttachmentsHold /\ AttachersHold /\ ComponentsHold
  BY DEF EcsHolds
<1>2. /\ call[c].pc = "edge" /\ EdgeRoom(graph) /\ UNCHANGED <<entities, handles>>
      /\ IF EdgeFits(graph, entity, component)
         THEN h = WithEdge(graph, entity, component, "attached")
         ELSE h = WithoutNode(graph, component)
      /\ raced' = IF BeingRemoved(entity) THEN raced \cup {component} ELSE raced
      /\ call' = [call EXCEPT ![c] = NoCall]
  BY DEF AddAttachment, Return, WithAttachedEdge, RollBack
<1>3. CallFits(graph', handles', raced', NoCall) /\ NoCall.pc = "idle"
  BY IdleCall
<1>4. /\ component \in LiveNodes(graph) /\ IsComponent(graph, component)
      /\ \A e \in LiveEdges(graph) : EdgeAt(graph, e).to # component
      /\ \A d \in EcsCallers \ {c} : call[d].pc \in {"edge", "held"} => call[d].target # component
  BY <1>1, <1>2 DEF AttachersHold
<1>5. entity \in handles
  BY <1>1, <1>2, CallType DEF CallFits
<1>6. raced \subseteq raced' /\ (BeingRemoved(entity) => component \in raced')
  BY <1>2
<1>7. CASE ~EdgeFits(graph, entity, component)
  BY <1>2, <1>3, <1>4, <1>6, <1>7, KillKeeps DEF Settled
<1>8. CASE EdgeFits(graph, entity, component)
  <2>1. HasEntity(graph, entity)
    BY <1>1, <1>5, <1>8 DEF EdgeFits, HandlesHold
  <2>2. "attached" \in Labels
    BY DEF Labels
  <2> HIDE DEF h, entity, component, id
  <2>3. /\ IsGraph(h, Labels) /\ Older(graph, h)
        /\ LiveNodes(h) = LiveNodes(graph)
        /\ \A n \in LiveNodes(graph) : NodeAt(h, n).what = NodeAt(graph, n).what
        /\ id \notin LiveEdges(graph) /\ LiveEdges(h) = LiveEdges(graph) \cup {id}
        /\ EdgeAt(h, id).from = entity /\ EdgeAt(h, id).to = component /\ EdgeAt(h, id).what = "attached"
        /\ \A e \in LiveEdges(graph) : EdgeAt(h, e) = EdgeAt(graph, e)
    BY <1>1, <1>2, <1>8, <2>2, EdgeAdded DEF GraphHolds, id
  <2>4. \A d \in EcsCallers \ {c} : \A e \in LiveEdges(h) :
              \/ e \in LiveEdges(graph) /\ EdgeAt(h, e) = EdgeAt(graph, e)
              \/ call[d].op = "remove" /\ call[d].pc \in {"scan", "held", "drop"}
                    /\ EdgeAt(h, e).from = call[d].entity => EdgeAt(h, e).to \in raced'
    BY <1>6, <2>3 DEF BeingRemoved
  <2>5. /\ CallsHold' /\ call'[c] = NoCall
        /\ \A d \in EcsCallers \ {c} : call'[d] = call[d]
    BY <1>1, <1>2, <1>3, <1>6, <2>3, <2>4, CallsStay DEF h
  <2>6. \A n : /\ HasEntity(h, n) <=> HasEntity(graph, n)
               /\ n \in LiveNodes(graph) => (IsComponent(h, n) <=> IsComponent(graph, n))
    BY <2>3 DEF HasEntity, IsComponent
  <2>7. \A d \in EcsCallers :
           /\ call[d].pc \in {"record", "unlist"} => d # c /\ call'[d] = call[d]
           /\ call'[d].pc # "idle" => d # c /\ call'[d] = call[d]
    BY <1>2, <1>3, <2>5
  <2>8. GraphHolds'
    BY <2>3 DEF GraphHolds, h
  <2>9. TableHolds'
    <3>1. ASSUME NEW m \in LiveNodes(h), HasEntity(h, m)
          PROVE  m \in Elems(entities) \/ \E d \in EcsCallers : call'[d].pc = "record" /\ call'[d].entity = m
      BY <1>1, <2>3, <2>6, <2>7, <3>1 DEF TableHolds
    <3>2. ASSUME NEW m \in Elems(entities), m \notin LiveNodes(h)
          PROVE  \E d \in EcsCallers : call'[d].pc = "unlist" /\ call'[d].entity = m
      BY <1>1, <2>3, <2>7, <3>2 DEF TableHolds
    <3>3. entities \in Seq(SomeIds) /\ Distinct(entities) /\ Elems(entities) \subseteq handles
      BY <1>1 DEF TableHolds
    <3> QED BY <1>2, <3>1, <3>2, <3>3 DEF TableHolds, h
  <2>10. HandlesHold'
    <3>1. ASSUME NEW m \in handles PROVE Issued(h, m) /\ (m \in LiveNodes(h) => HasEntity(h, m))
      BY <1>1, <2>3, <2>6 DEF HandlesHold, Older
    <3> QED BY <1>2, <3>1 DEF HandlesHold, h
  <2>11. CreationsHold'
    <3>1. ASSUME NEW b \in EcsCallers, call'[b].pc = "record"
          PROVE /\ HasEntity(h, call'[b].entity) /\ call'[b].entity \notin handles
                /\ \A d \in EcsCallers \ {b} : call'[d].pc = "record" => call'[d].entity # call'[b].entity
      BY <1>1, <2>6, <2>7, <3>1 DEF CreationsHold
    <3> QED BY <1>2, <3>1 DEF CreationsHold, h
  <2>12. AttachmentsHold'
    <3>1. \A m \in LiveNodes(h) : HasEntity(h, m) \/ IsComponent(h, m)
      BY <1>1, <2>3, <2>6 DEF AttachmentsHold
    <3>2. ASSUME NEW e \in LiveEdges(h)
          PROVE  /\ EdgeAt(h, e).what = "attached"
                 /\ HasEntity(h, EdgeAt(h, e).from) /\ IsComponent(h, EdgeAt(h, e).to)
      <4>1. CASE e = id
        BY <1>4, <2>1, <2>3, <2>6, <4>1 DEF component
      <4>2. CASE e \in LiveEdges(graph)
        <5>1. EdgeAt(graph, e).to \in LiveNodes(graph)
          BY <1>1, <4>2, EdgesAreIds DEF GraphHolds
        <5> QED BY <1>1, <2>3, <2>6, <4>2, <5>1 DEF AttachmentsHold
      <4> QED BY <2>3, <4>1, <4>2
    <3>3. ASSUME NEW d \in LiveEdges(h), NEW e \in LiveEdges(h), EdgeAt(h, d).to = EdgeAt(h, e).to
          PROVE  d = e
      <4>1. \A b \in LiveEdges(graph) : EdgeAt(h, b).to # component
        BY <1>4, <2>3 DEF component
      <4>2. CASE d = id \/ e = id
        BY <2>3, <3>3, <4>1, <4>2
      <4>3. CASE d \in LiveEdges(graph) /\ e \in LiveEdges(graph)
        BY <1>1, <2>3, <3>3, <4>3 DEF AttachmentsHold
      <4> QED BY <2>3, <4>2, <4>3
    <3> QED BY <3>1, <3>2, <3>3 DEF AttachmentsHold, h
  <2>13. AttachersHold'
    <3>1. ASSUME NEW b \in EcsCallers, call'[b].pc = "edge"
          PROVE /\ call'[b].target \in LiveNodes(h) /\ IsComponent(h, call'[b].target)
                /\ \A e \in LiveEdges(h) : EdgeAt(h, e).to # call'[b].target
                /\ \A d \in EcsCallers \ {b} : call'[d].pc \in {"edge", "held"} => call'[d].target # call'[b].target
      <4>1. b # c /\ call'[b] = call[b] /\ call[b].pc = "edge"
        BY <2>7, <3>1
      <4>2. /\ call[b].target \in LiveNodes(graph) /\ IsComponent(graph, call[b].target)
            /\ \A e \in LiveEdges(graph) : EdgeAt(graph, e).to # call[b].target
            /\ \A d \in EcsCallers \ {b} : call[d].pc \in {"edge", "held"} => call[d].target # call[b].target
        BY <1>1, <4>1 DEF AttachersHold
      <4>3. call[b].target # component
        BY <1>4, <4>1 DEF component
      <4> QED BY <2>3, <2>6, <2>7, <4>1, <4>2, <4>3
    <3> QED BY <3>1 DEF AttachersHold, h, IsComponent
  <2>14. ComponentsHold'
    <3>1. ASSUME NEW m \in LiveNodes(h), IsComponent(h, m)
          PROVE \/ \E e \in LiveEdges(h) : EdgeAt(h, e).to = m
                \/ m \in raced'
                \/ \E d \in EcsCallers : call'[d].pc = "edge" /\ call'[d].target = m
      <4>1. CASE m = component
        BY <2>3, <4>1
      <4>2. CASE m # component
        <5>1. m \in LiveNodes(graph) /\ IsComponent(graph, m)
          BY <2>3, <2>6, <3>1
        <5>2. ASSUME NEW d \in EcsCallers, call[d].pc = "edge", call[d].target = m
              PROVE  call'[d] = call[d]
          BY <2>5, <4>2, <5>2 DEF component
        <5> QED BY <1>1, <1>6, <2>3, <5>1, <5>2 DEF ComponentsHold
      <4> QED BY <4>1, <4>2
    <3> QED BY <3>1 DEF ComponentsHold, h, IsComponent
  <2> QED BY <2>5, <2>8, <2>9, <2>10, <2>11, <2>12, <2>13, <2>14 DEF EcsHolds
<1> QED BY <1>7, <1>8

(* The entity goes after its attachments: what is left of them was added   *)
(* behind the back of the removal.                                         *)
LEMMA DropKeeps ==
    ASSUME EcsHolds, NEW c \in EcsCallers, DropEntity(c)
    PROVE  EcsHolds'
<1> DEFINE h == graph'
           entity == call[c].entity
<1>1. /\ GraphHolds /\ CallsHold /\ TableHolds /\ HandlesHold /\ CreationsHold
      /\ AttachmentsHold /\ AttachersHold /\ ComponentsHold
  BY DEF EcsHolds
<1>2. call[c].pc = "drop" /\ UNCHANGED <<entities, handles, raced>>
  BY DEF DropEntity
<1>3. /\ call[c] \in EcsCall /\ call[c].op = "remove" /\ entity \in handles
      /\ RemovalIsAhead(graph, raced, call[c])
  BY <1>1, <1>2, CallType DEF CallFits
<1>4. CASE entity \notin LiveNodes(graph)
  <2>1. graph' = graph /\ call' = [call EXCEPT ![c] = NoCall]
    BY <1>4 DEF DropEntity, Return
  <2> QED BY <1>2, <2>1, IdleCall, CallMoves DEF Settled
<1>5. CASE entity \in LiveNodes(graph)
  <2>1. PICK r : r = [call[c] EXCEPT !.pc = "unlist"]
    OBVIOUS
  <2>2. h = WithoutNode(graph, entity) /\ call' = [call EXCEPT ![c] = r]
    BY <1>5, <2>1 DEF DropEntity, Do
  <2>3. HasEntity(graph, entity)
    BY <1>1, <1>3, <1>5 DEF HandlesHold
  <2>4. ASSUME NEW e \in LiveEdges(graph), EdgeAt(graph, e).from = entity
        PROVE  EdgeAt(graph, e).to \in raced
    BY <1>2, <1>3, <2>4 DEF RemovalIsAhead
  <2>5. r \in EcsCall /\ r.op = "remove" /\ r.pc = "unlist" /\ r.entity = entity
    BY <1>3, <2>1 DEF EcsCall, Places
  <2> HIDE DEF h, entity
  <2>6. /\ IsGraph(h, Labels) /\ Older(graph, h) /\ NoNewEdge(graph, h)
        /\ LiveNodes(h) = LiveNodes(graph) \ {entity}
        /\ \A m \in LiveNodes(h) : NodeAt(h, m).what = NodeAt(graph, m).what
        /\ LiveEdges(h) = {e \in LiveEdges(graph) : EdgeAt(graph, e).from # entity /\ EdgeAt(graph, e).to # entity}
    BY <1>1, <1>5, <2>2, NodeDropped DEF GraphHolds
  <2>7. CallFits(graph', handles', raced', r)
    BY <1>2, <1>3, <2>5, <2>6 DEF CallFits, h
  <2>8. /\ CallsHold' /\ call'[c] = r
        /\ \A d \in EcsCallers \ {c} : call'[d] = call[d]
    BY <1>1, <1>2, <2>2, <2>6, <2>7, CallsStay DEF NoNewEdge, h
  <2>9. /\ ~IsComponent(graph, entity)
        /\ \A m \in LiveNodes(h) : m \in LiveNodes(graph) /\ m # entity
        /\ \A m \in LiveNodes(graph) : m # entity => m \in LiveNodes(h)
        /\ \A m \in LiveNodes(h) : /\ HasEntity(h, m) <=> HasEntity(graph, m)
                                   /\ IsComponent(h, m) <=> IsComponent(graph, m)
        /\ \A m : HasEntity(graph, m) => m \in LiveNodes(graph)
    BY <2>3, <2>6, KindsAssumption DEF HasEntity, IsComponent
  <2>10. \A e \in LiveEdges(h) : /\ e \in LiveEdges(graph) /\ EdgeAt(h, e) = EdgeAt(graph, e)
                                 /\ EdgeAt(graph, e).from # entity /\ EdgeAt(graph, e).to # entity
    BY <2>6 DEF NoNewEdge
  <2>11. \A d \in EcsCallers :
           /\ call[d].pc \in Settled => d # c /\ call'[d] = call[d]
           /\ call'[d].pc \in {"record", "edge", "held"} => d # c /\ call'[d] = call[d]
    BY <1>2, <2>5, <2>8 DEF Settled
  <2>12. GraphHolds'
    BY <2>6 DEF GraphHolds, h
  <2>13. TableHolds'
    <3>1. ASSUME NEW m \in LiveNodes(h), HasEntity(h, m)
          PROVE  m \in Elems(entities) \/ \E d \in EcsCallers : call'[d].pc = "record" /\ call'[d].entity = m
      BY <1>1, <2>9, <2>11, <3>1 DEF TableHolds, Settled
    <3>2. ASSUME NEW m \in Elems(entities), m \notin LiveNodes(h)
          PROVE  \E d \in EcsCallers : call'[d].pc = "unlist" /\ call'[d].entity = m
      <4>1. CASE m = entity
        BY <2>5, <2>8, <4>1
      <4>2. CASE m # entity
        BY <1>1, <2>9, <2>11, <3>2, <4>2 DEF TableHolds, Settled
      <4> QED BY <4>1, <4>2
    <3>3. entities \in Seq(SomeIds) /\ Distinct(entities) /\ Elems(entities) \subseteq handles
      BY <1>1 DEF TableHolds
    <3> QED BY <1>2, <3>1, <3>2, <3>3 DEF TableHolds, h
  <2>14. HandlesHold'
    <3>1. ASSUME NEW m \in handles PROVE Issued(h, m) /\ (m \in LiveNodes(h) => HasEntity(h, m))
      BY <1>1, <2>6, <2>9 DEF HandlesHold, Older
    <3> QED BY <1>2, <3>1 DEF HandlesHold, h
  <2>15. CreationsHold'
    <3>1. ASSUME NEW b \in EcsCallers, call'[b].pc = "record"
          PROVE /\ HasEntity(h, call'[b].entity) /\ call'[b].entity \notin handles
                /\ \A d \in EcsCallers \ {b} : call'[d].pc = "record" => call'[d].entity # call'[b].entity
      BY <1>1, <1>3, <2>9, <2>11, <3>1 DEF CreationsHold, entity
    <3> QED BY <1>2, <3>1 DEF CreationsHold, h
  <2>16. AttachmentsHold'
    <3>1. \A m \in LiveNodes(h) : HasEntity(h, m) \/ IsComponent(h, m)
      BY <1>1, <2>9 DEF AttachmentsHold
    <3>2. ASSUME NEW e \in LiveEdges(h)
          PROVE  /\ EdgeAt(h, e).what = "attached"
                 /\ HasEntity(h, EdgeAt(h, e).from) /\ IsComponent(h, EdgeAt(h, e).to)
      <4>1. EdgeAt(h, e).from \in LiveNodes(h) /\ EdgeAt(h, e).to \in LiveNodes(h)
        BY <2>6, EdgesAreIds
      <4> QED BY <1>1, <2>9, <2>10, <4>1 DEF AttachmentsHold
    <3>3. \A d, e \in LiveEdges(h) : EdgeAt(h, d).to = EdgeAt(h, e).to => d = e
      BY <1>1, <2>10 DEF AttachmentsHold
    <3> QED BY <3>1, <3>2, <3>3 DEF AttachmentsHold, h
  <2>17. AttachersHold'
    <3>1. ASSUME NEW b \in EcsCallers, call'[b].pc = "edge"
          PROVE /\ call'[b].target \in LiveNodes(h) /\ IsComponent(h, call'[b].target)
                /\ \A e \in LiveEdges(h) : EdgeAt(h, e).to # call'[b].target
                /\ \A d \in EcsCallers \ {b} : call'[d].pc \in {"edge", "held"} => call'[d].target # call'[b].target
      <4>1. b # c /\ call'[b] = call[b] /\ call[b].pc = "edge"
        BY <2>11, <3>1
      <4>2. /\ call[b].target \in LiveNodes(graph) /\ IsComponent(graph, call[b].target)
            /\ \A e \in LiveEdges(graph) : EdgeAt(graph, e).to # call[b].target
            /\ \A d \in EcsCallers \ {b} : call[d].pc \in {"edge", "held"} => call[d].target # call[b].target
        BY <1>1, <4>1 DEF AttachersHold
      <4>3. call[b].target # entity
        BY <2>9, <4>2
      <4> QED BY <2>9, <2>10, <2>11, <4>1, <4>2, <4>3
    <3> QED BY <3>1 DEF AttachersHold, h, IsComponent
  <2>18. ComponentsHold'
    <3>1. ASSUME NEW m \in LiveNodes(h), IsComponent(h, m)
          PROVE \/ \E e \in LiveEdges(h) : EdgeAt(h, e).to = m
                \/ m \in raced
                \/ \E d \in EcsCallers : call'[d].pc = "edge" /\ call'[d].target = m
      <4>1. m \in LiveNodes(graph) /\ m # entity /\ IsComponent(graph, m)
        BY <2>9, <3>1
      <4>2. ASSUME NEW e \in LiveEdges(graph), EdgeAt(graph, e).to = m
            PROVE  m \in raced \/ (e \in LiveEdges(h) /\ EdgeAt(h, e).to = m)
        <5>1. CASE EdgeAt(graph, e).from = entity
          BY <2>4, <4>2, <5>1
        <5>2. CASE EdgeAt(graph, e).from # entity
          BY <2>6, <2>10, <4>1, <4>2, <5>2
        <5> QED BY <5>1, <5>2
      <4> QED BY <1>1, <2>11, <4>1, <4>2 DEF ComponentsHold, Settled
    <3> QED BY <1>2, <3>1 DEF ComponentsHold, h, IsComponent
  <2> QED BY <2>8, <2>12, <2>13, <2>14, <2>15, <2>16, <2>17, <2>18 DEF EcsHolds
<1> QED BY <1>4, <1>5

LEMMA UnlistKeeps ==
    ASSUME EcsHolds, NEW c \in EcsCallers, Unlist(c)
    PROVE  EcsHolds'
<1> DEFINE entity == call[c].entity
<1>1. /\ GraphHolds /\ CallsHold /\ TableHolds /\ HandlesHold /\ CreationsHold
      /\ AttachmentsHold /\ AttachersHold /\ ComponentsHold
  BY DEF EcsHolds
<1>2. /\ call[c].pc = "unlist" /\ entities' = Without(entities, entity)
      /\ call' = [call EXCEPT ![c] = NoCall] /\ UNCHANGED <<graph, handles, raced>>
  BY DEF Unlist, Return
<1>3. CallFits(graph', handles', raced', NoCall) /\ NoCall.pc = "idle"
  BY IdleCall
<1>4. Older(graph, graph') /\ NoNewEdge(graph, graph')
  BY <1>2, SameIsOlder
<1>5. /\ CallsHold' /\ call'[c] = NoCall
      /\ \A d \in EcsCallers \ {c} : call'[d] = call[d]
  BY <1>1, <1>2, <1>3, <1>4, CallsStay DEF NoNewEdge
<1>6. entity \notin LiveNodes(graph)
  BY <1>1, <1>2, CallType DEF CallFits
<1>7. \A d \in EcsCallers : /\ call[d].pc \in {"record", "edge"} => d # c /\ call'[d] = call[d]
                            /\ call'[d].pc # "idle" => d # c /\ call'[d] = call[d]
  BY <1>2, <1>3, <1>5
<1> HIDE DEF entity
<1>8. /\ entities' \in Seq(SomeIds) /\ Distinct(entities') /\ Elems(entities') \subseteq handles'
      /\ Elems(entities') = Elems(entities) \ {entity}
  <2>1. entities \in Seq(SomeIds) /\ Distinct(entities) /\ Elems(entities) \subseteq handles
    BY <1>1 DEF TableHolds
  <2>2. /\ Without(entities, entity) \in Seq(SomeIds) /\ Distinct(Without(entities, entity))
        /\ Elems(Without(entities, entity)) = Elems(entities) \ {entity}
    BY <2>1, ElemsOfWithout
  <2> QED BY <1>2, <2>1, <2>2
<1>9. GraphHolds'
  BY <1>1, <1>2 DEF GraphHolds
<1>10. TableHolds'
  <2>1. ASSUME NEW m \in LiveNodes(graph), HasEntity(graph, m)
        PROVE  m \in Elems(entities') \/ \E d \in EcsCallers : call'[d].pc = "record" /\ call'[d].entity = m
    BY <1>1, <1>6, <1>7, <1>8, <2>1 DEF TableHolds
  <2>2. ASSUME NEW m \in Elems(entities'), m \notin LiveNodes(graph)
        PROVE  \E d \in EcsCallers : call'[d].pc = "unlist" /\ call'[d].entity = m
    <3>1. PICK d \in EcsCallers : call[d].pc = "unlist" /\ call[d].entity = m
      BY <1>1, <1>8, <2>2 DEF TableHolds
    <3>2. m # entity
      BY <1>8
    <3>3. d # c
      BY <3>1, <3>2 DEF entity
    <3> QED BY <1>5, <3>1, <3>3
  <2> QED BY <1>2, <1>8, <2>1, <2>2 DEF TableHolds, HasEntity
<1>11. HandlesHold'
  BY <1>1, <1>2 DEF HandlesHold, HasEntity
<1>12. CreationsHold'
  BY <1>1, <1>2, <1>7 DEF CreationsHold, HasEntity
<1>13. AttachmentsHold'
  BY <1>1, <1>2 DEF AttachmentsHold, HasEntity, IsComponent
<1>14. AttachersHold'
  BY <1>1, <1>2, <1>7 DEF AttachersHold, IsComponent
<1>15. ComponentsHold'
  BY <1>1, <1>2, <1>7 DEF ComponentsHold, IsComponent
<1> QED BY <1>5, <1>9, <1>10, <1>11, <1>12, <1>13, <1>14, <1>15 DEF EcsHolds

LEMMA EcsStarts == graph = EmptyGraph /\ EcsInit => EcsHolds
<1> SUFFICES ASSUME graph = EmptyGraph, EcsInit PROVE EcsHolds
  OBVIOUS
<1>1. /\ IsGraph(graph, Labels) /\ LiveNodes(graph) = {} /\ LiveEdges(graph) = {}
  BY EmptyGraphIsSound DEF Labels
<1>2. /\ entities = <<>> /\ handles = {} /\ call = [c \in EcsCallers |-> NoCall]
  BY DEF EcsInit
<1>3. CallsHold /\ \A c \in EcsCallers : call[c].pc = "idle"
  BY <1>2, IdleCall DEF CallsHold
<1>4. entities \in Seq(SomeIds) /\ Elems(entities) = {} /\ Distinct(entities)
  BY <1>2 DEF Elems, Distinct
<1> QED BY <1>1, <1>2, <1>3, <1>4
        DEF EcsHolds, GraphHolds, TableHolds, HandlesHold, CreationsHold, AttachmentsHold,
            AttachersHold, ComponentsHold

LEMMA EcsSteps ==
    ASSUME EcsHolds, WorldNext \/ UNCHANGED worldVars
    PROVE  EcsHolds'
<1>1. CASE UNCHANGED worldVars
  BY <1>1 DEF worldVars, EcsHolds, GraphHolds, CallsHold, TableHolds, HandlesHold, CreationsHold,
              AttachmentsHold, AttachersHold, ComponentsHold, HasEntity, IsComponent
<1>2. ASSUME WorldNext PROVE EcsHolds'
  <2>1. PICK c \in EcsCallers :
          \/ CreateEntity(c) \/ Record(c)
          \/ \E n \in handles, kind \in Kinds :
                AttachComponent(c, n, kind) \/ DetachComponent(c, n, kind)
          \/ \E n \in handles : RemoveEntity(c, n)
          \/ /\ c \in EcsReaders
             /\ \/ \E n \in handles, kind \in Kinds : FindComponent(c, n, kind)
                \/ \E n \in handles : ComponentsOf(c, n)
                \/ \E kind \in Kinds : EntitiesWith(c, kind)
          \/ NextEntity(c)
          \/ AddComponent(c) \/ AddAttachment(c)
          \/ ListAttachments(c) \/ Resolve(c)
          \/ Use(c, call[c].target) \/ Use(c, NoId)
          \/ DropEntity(c) \/ Unlist(c)
    BY <1>2 DEF WorldNext
  <2>2. ASSUME NEW n \in handles, NEW kind \in Kinds,
               AttachComponent(c, n, kind) \/ DetachComponent(c, n, kind) \/ FindComponent(c, n, kind)
        PROVE  EcsHolds'
    <3>1. PICK op \in Operations, pc \in {"add", "list"} :
             (pc = "add" => op = "attach") /\ Begin(c, op, pc, n, kind)
      BY <2>2 DEF AttachComponent, DetachComponent, FindComponent, Operations
    <3> QED BY <3>1, BeginKeeps
  <2>3. ASSUME NEW n \in handles, ComponentsOf(c, n) \/ RemoveEntity(c, n) PROVE EcsHolds'
    <3>1. Begin(c, "all", "list", n, "none") \/ Begin(c, "remove", "list", n, "none")
      BY <2>3 DEF ComponentsOf, RemoveEntity
    <3>2. "all" \in Operations /\ "remove" \in Operations
      BY DEF Operations
    <3>3. PICK op \in Operations : Begin(c, op, "list", n, "none")
      BY <3>1, <3>2
    <3> QED BY <3>3, BeginKeeps
  <2>4. ASSUME NextEntity(c) \/ \E kind \in Kinds : EntitiesWith(c, kind) PROVE EcsHolds'
    BY <2>4, WithKeeps
  <2>5. ASSUME Use(c, call[c].target) \/ Use(c, NoId) PROVE EcsHolds'
    BY <2>5, UseKeeps
  <2> QED BY <2>1, <2>2, <2>3, <2>4, <2>5, CreateKeeps, RecordKeeps, AddComponentKeeps,
             AddAttachmentKeeps, ListKeeps, ResolveKeeps, DropKeeps, UnlistKeeps
<1> QED BY <1>1, <1>2

LEMMA TableIsExact == EcsHolds => EntityTableIsExact
<1> SUFFICES ASSUME EcsHolds PROVE EntityTableIsExact
  OBVIOUS
<1>1. /\ GraphHolds /\ CallsHold /\ TableHolds /\ HandlesHold
      /\ AttachmentsHold /\ AttachersHold /\ ComponentsHold
  BY DEF EcsHolds
<1>2. NoRepeats(entities)
  BY <1>1, NoRepeatsIsDistinct DEF TableHolds
<1>3. ASSUME NEW c \in EcsCallers
      PROVE  /\ call[c].pc = "record" => call[c].op = "create"
             /\ call[c].pc = "unlist" => call[c].op = "remove"
             /\ call[c].pc = "edge" => call[c].op = "attach"
  BY <1>1, CallType DEF CallFits
<1>4. ASSUME NEW n \in EntitiesIn(graph) \cup Elems(entities)
      PROVE  n \in EntitiesIn(graph) \cap Elems(entities) \/ Underway(n)
  <2>1. CASE n \in EntitiesIn(graph)
    <3>1. n \in LiveNodes(graph) /\ HasEntity(graph, n)
      BY <2>1 DEF EntitiesIn
    <3> QED BY <1>1, <1>3, <2>1, <3>1 DEF TableHolds, Underway
  <2>2. CASE n \in Elems(entities)
    <3>1. CASE n \in LiveNodes(graph)
      BY <1>1, <2>2, <3>1 DEF TableHolds, HandlesHold, EntitiesIn
    <3>2. CASE n \notin LiveNodes(graph)
      BY <1>1, <1>3, <2>2, <3>2 DEF TableHolds, Underway
    <3> QED BY <3>1, <3>2
  <2> QED BY <2>1, <2>2
<1>5. ASSUME NEW n \in ComponentsIn(graph)
      PROVE  \/ \E entity \in EntitiesIn(graph) : Holders(graph, n) = {entity}
             \/ n \in raced \/ Underway(n)
  <2>1. n \in LiveNodes(graph) /\ IsComponent(graph, n)
    BY DEF ComponentsIn, ComponentNode, IsComponent
  <2>2. ASSUME NEW e \in LiveEdges(graph), EdgeAt(graph, e).to = n
        PROVE  \E entity \in EntitiesIn(graph) : Holders(graph, n) = {entity}
    <3>1. PICK entity : entity = EdgeAt(graph, e).from
      OBVIOUS
    <3>2. entity \in EntitiesIn(graph)
      BY <1>1, <3>1 DEF AttachmentsHold, EntitiesIn, HasEntity
    <3>3. \A d \in LiveEdges(graph) : EdgeAt(graph, d).to = n => d = e
      BY <1>1, <2>2 DEF AttachmentsHold
    <3>4. {d \in LiveEdges(graph) : EdgeAt(graph, d).to = n} = {e}
      BY <2>2, <3>3
    <3>5. Holders(graph, n) = {entity}
      BY <3>1, <3>4 DEF Holders
    <3> QED BY <3>2, <3>5
  <2> QED BY <1>1, <1>3, <2>1, <2>2 DEF ComponentsHold, Underway
<1> QED BY <1>2, <1>4, <1>5 DEF EntityTableIsExact

(* The table of the entity world lists the live entities, each once, but   *)
(* for those a call has still to enter or to strike out; a component has   *)
(* one entity, or was attached behind the back of a removal - however many *)
(* callers interleave.                                                     *)
THEOREM EntityTableStaysExact == WorldInit /\ [][WorldNext]_worldVars => []EntityTableIsExact
<1>1. WorldInit => EcsHolds
  BY EcsStarts DEF WorldInit, GraphInit
<1>2. EcsHolds /\ [WorldNext]_worldVars => EcsHolds'
  BY EcsSteps
<1> QED BY <1>1, <1>2, TableIsExact, PTL

-----------------------------------------------------------------------------
(* All of them in one specification.                                       *)

WorldsHold ==
    /\ PayloadHolds /\ FlowHolds
    /\ world = "topology" => TopologyHolds
    /\ world = "orchestrator" => OrchestratorHolds
    /\ world = "entities" => EcsHolds
    /\ world \notin {"topology", "orchestrator", "entities"} => IsGraph(graph, Plain)
    /\ world = "graph" => WalkHolds(graph, walk)

LEMMA WorldsStart == Init => WorldsHold
<1> SUFFICES ASSUME Init PROVE WorldsHold
  OBVIOUS
<1>1. /\ world = "topology" => graph = DefaultGraph
      /\ world = "orchestrator" => graph = DefaultTasks
      /\ world \notin {"topology", "orchestrator"} => graph = EmptyGraph
      /\ EcsInit /\ TransitionsInit /\ PayloadInit
  BY DEF Init
<1>2. PICK asked : asked = IF world = "signals" THEN Signals ELSE {}
  OBVIOUS
<1>3. FlowInit(asked)
  BY <1>2 DEF Init
<1>4. IsGraph(EmptyGraph, Plain)
  BY EmptyGraphIsSound DEF Plain
<1>5. WalkHolds(graph, walk)
  BY WalkStarts DEF Init, WalkInit
<1> QED BY <1>1, <1>3, <1>4, <1>5, PayloadStarts, FlowStarts, TopologyStarts, OrchestratorStarts, EcsStarts
        DEF WorldsHold

LEMMA WorldsStep ==
    ASSUME WorldsHold, [Next]_worldsVars
    PROVE  WorldsHold'
<1>1. world' = world
  BY DEF Next, worldsVars
<1>2. PayloadHolds'
  <2>1. PayloadNext \/ UNCHANGED payloadVars
    BY DEF Next, worldsVars
  <2> QED BY <2>1, PayloadSteps DEF WorldsHold
<1>3. FlowHolds'
  <2>1. FlowNext \/ UNCHANGED flowVars
    BY DEF Next, worldsVars
  <2> QED BY <2>1, FlowSteps DEF WorldsHold
<1>4. world = "topology" => TopologyHolds'
  <2>1. world = "topology" => TopologyNext \/ UNCHANGED topologyVars
    BY DEF Next, worldsVars, topologyVars
  <2> QED BY <2>1, TopologySteps DEF WorldsHold
<1>5. world = "orchestrator" => OrchestratorHolds'
  <2>1. world = "orchestrator" => OrchestratorNext \/ UNCHANGED orchestratorVars
    BY DEF Next, worldsVars, orchestratorVars, transitionVars
  <2> QED BY <2>1, OrchestratorSteps DEF WorldsHold
<1>6. world = "entities" => EcsHolds'
  <2>1. world = "entities" => WorldNext \/ UNCHANGED worldVars
    BY DEF Next, worldsVars, worldVars, ecsVars
  <2> QED BY <2>1, EcsSteps DEF WorldsHold
<1>7. world \notin {"topology", "orchestrator", "entities"} => IsGraph(graph, Plain)'
  <2>1. WalkNext => [GraphNext]_graph
    BY DEF WalkNext, StartAt, StartSorted, VisitNode, VisitEdge, AskNext, TakeEdges,
           TakeKeptEdges, FollowEdge, LeaveNode, EndWalk, ChangeGraph
  <2>2. CASE UNCHANGED worldsVars
    BY <2>2 DEF worldsVars, WorldsHold
  <2>3. CASE Next
    <3>1. world \notin {"topology", "orchestrator", "entities"} => WalkNext \/ graph' = graph
      BY <2>3 DEF Next
    <3> QED BY <2>1, <3>1, GraphSteps DEF WorldsHold
  <2> QED BY <2>2, <2>3
<1>8. world = "graph" => WalkHolds(graph, walk)'
  <2>1. world = "graph" => WalkNext \/ UNCHANGED <<graph, walk>>
    BY DEF Next, worldsVars
  <2> QED BY <2>1, WalkSteps DEF WorldsHold
<1> QED BY <1>1, <1>2, <1>3, <1>4, <1>5, <1>6, <1>7, <1>8 DEF WorldsHold

LEMMA WorldsKeep == Spec => []WorldsHold
<1>1. WorldsHold /\ [Next]_worldsVars => WorldsHold'
  BY WorldsStep
<1> QED BY <1>1, WorldsStart, PTL DEF Spec

(* The graph keeps its adjacency, its ends, its slots and its ids under    *)
(* every component that is built on it, and each component what it is      *)
(* there for: hierarchy, transition modes, teardown of flows, id ranges.   *)
THEOREM WorldsStaySound == Spec => []WorldsAreSound
<1>1. ASSUME WorldsHold PROVE WorldsAreSound
  <2>1. \E W : IsGraph(graph, W)
    BY <1>1 DEF WorldsHold, TopologyHolds, IsForest, OrchestratorHolds, EcsHolds, GraphHolds
  <2>2. GraphIsSound
    BY <2>1, GraphsAreSound DEF GraphIsSound
  <2>3. PayloadHolds => RangesStayApart
    BY DEF PayloadHolds
  <2>4. OrchestratorHolds => ModesAgree
    BY AgreeIs DEF OrchestratorHolds
  <2>5. world = "graph" => ShownOnce
    BY <1>1, WalksShowOnce DEF WorldsHold
  <2>6. /\ world = "topology" => HierarchyHolds
        /\ world = "orchestrator" => ModesAgree
        /\ FlowIsSound /\ RangesStayApart
    BY <1>1, <2>3, <2>4, TopologyIsTree, FlowsAreSound DEF WorldsHold
  <2> QED BY <2>2, <2>5, <2>6 DEF WorldsAreSound
<1> QED BY <1>1, WorldsKeep, PTL
=============================================================================
