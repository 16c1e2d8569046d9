---------------------------- MODULE EntityWorld -----------------------------
(***************************************************************************)
(* vigine::ecs::EntityWorld, which AbstractECS forwards to: entities and   *)
(* components are nodes of a graph, an attachment is an edge, and a side   *)
(* table lists the live entities.  Every call is a row of critical         *)
(* sections of the graph's mutex (and one of the table's), so the calls    *)
(* of several threads interleave between them.                             *)
(***************************************************************************)
EXTENDS GraphCore

CONSTANTS
    EcsCallers,        \* threads that use the world, one call at a time
    EcsReaders,        \* bound of the model: those of them that query
    Kinds              \* component type ids

EntityNode == "entity"
ASSUME KindsAssumption == EntityNode \notin Kinds

VARIABLES
    entities,          \* _entities
    call,              \* caller -> where its call is
    handles,           \* history: the entity ids given out
    raced,             \* history: components attached to an entity being removed
    dangling           \* history: an edge was read after it had been erased

worldVars == <<graph, entities, call, handles, raced, dangling>>

NoCall == [op |-> "none", pc |-> "idle", entity |-> NoId, kind |-> "none",
           todo |-> <<>>, target |-> NoId, rest |-> <<>>]

EcsInit ==
    /\ entities = <<>>
    /\ call = [c \in EcsCallers |-> NoCall]
    /\ handles = {} /\ raced = {} /\ dangling = FALSE
WorldInit == GraphInit /\ EcsInit

Do(c, pc) == call' = [call EXCEPT ![c].pc = pc]
Return(c) == call' = [call EXCEPT ![c] = NoCall]

(* What the graph holds: an entity's node bears no more than its kind, a   *)
(* component's node the type of its component, an edge the attachment.     *)
ComponentNode(kind) == kind
WithAttachedEdge(g, entity, component) == WithEdge(g, entity, component, "attached")

-----------------------------------------------------------------------------
(* createEntity(): the node first, its row of the table after it.          *)
CreateEntity(c) ==
    /\ call[c].pc = "idle" /\ MayChange /\ NodeRoom(graph)
    /\ graph' = WithNode(graph, EntityNode)
    /\ call' = [call EXCEPT ![c] = [NoCall EXCEPT !.op = "create", !.pc = "record",
                                                  !.entity = NextNodeId(graph)]]
    /\ UNCHANGED <<entities, handles, raced, dangling>>

Record(c) ==
    /\ call[c].pc = "record"
    /\ entities' = Append(entities, call[c].entity)
    /\ handles' = handles \cup {call[c].entity}
    /\ Return(c)
    /\ UNCHANGED <<graph, raced, dangling>>

(* The other calls begin with query().hasNode(), but for the one that asks *)
(* for all entities with a component and goes through a copy of the table. *)
Begin(c, op, pc, entity, kind) ==
    /\ call[c].pc = "idle"
    /\ entity \in LiveNodes(graph)
    /\ call' = [call EXCEPT ![c] =
           [NoCall EXCEPT !.op = op, !.pc = pc, !.entity = entity, !.kind = kind]]
    /\ UNCHANGED <<graph, entities, handles, raced, dangling>>

AttachComponent(c, n, kind) == Begin(c, "attach", "add", n, kind)
DetachComponent(c, n, kind) == Begin(c, "detach", "list", n, kind)
FindComponent(c, n, kind) == Begin(c, "find", "list", n, kind)
ComponentsOf(c, n) == Begin(c, "all", "list", n, "none")
RemoveEntity(c, n) == Begin(c, "remove", "list", n, "none")

EntitiesWith(c, kind) ==
    /\ call[c].pc = "idle"
    /\ call' = [call EXCEPT ![c] =
           [NoCall EXCEPT !.op = "with", !.pc = "next", !.kind = kind, !.rest = entities]]
    /\ UNCHANGED <<graph, entities, handles, raced, dangling>>

NextEntity(c) ==
    LET rest == call[c].rest IN
    /\ call[c].pc = "next"
    /\ IF rest = <<>> THEN Return(c)
       ELSE call' = [call EXCEPT
                ![c].rest = Tail(rest), ![c].entity = Head(rest),
                ![c].pc = IF Head(rest) \in LiveNodes(graph) THEN "list" ELSE "next"]
    /\ UNCHANGED <<graph, entities, handles, raced, dangling>>

-----------------------------------------------------------------------------
(* attachComponent(): the component, the edge, and the component taken     *)
(* back when there is no entity to lead the edge from.                     *)
AddComponent(c) ==
    /\ call[c].pc = "add" /\ MayChange /\ NodeRoom(graph) /\ EdgeRoom(graph)
    /\ graph' = WithNode(graph, ComponentNode(call[c].kind))
    /\ call' = [call EXCEPT ![c].pc = "edge", ![c].target = NextNodeId(graph)]
    /\ UNCHANGED <<entities, handles, raced, dangling>>

BeingRemoved(n) ==
    \E c \in EcsCallers : call[c].op = "remove" /\ call[c].entity = n /\ call[c].pc # "list"

(* Mutant: the component stays when the edge could not be added.           *)
RollBackNot(n) == graph' = graph

RollBack(n) == graph' = WithoutNode(graph, n)

AddAttachment(c) ==
    LET entity == call[c].entity
        component == call[c].target
    IN /\ call[c].pc = "edge" /\ EdgeRoom(graph)
       /\ IF EdgeFits(graph, entity, component)
          THEN graph' = WithAttachedEdge(graph, entity, component)
          ELSE RollBack(component)
       /\ raced' = IF BeingRemoved(entity) THEN raced \cup {component} ELSE raced
       /\ Return(c)
       /\ UNCHANGED <<entities, handles, dangling>>

-----------------------------------------------------------------------------
(* The walk over the attachments that all but attachComponent() take: the  *)
(* list, then edge(), then what is read through the pointer it returned,   *)
(* no lock being held.                                                     *)
ListAttachments(c) ==
    LET edges == OutOfKind(graph, call[c].entity, "attached")
    IN /\ call[c].pc = "list"
       /\ call' = [call EXCEPT ![c].pc = "scan",
                               ![c].todo = IF call[c].op = "remove"
                                           THEN Sequence!Reverse(edges) ELSE edges]
       /\ UNCHANGED <<graph, entities, handles, raced, dangling>>

(* After the last edge removeEntity() goes on to the entity itself, and    *)
(* entitiesWith() to the next one.                                         *)
AfterWalk(c) == CASE call[c].op = "remove" -> Do(c, "drop")
                  [] call[c].op = "with" -> Do(c, "next")
                  [] OTHER -> Return(c)

Resolve(c) ==
    LET todo == call[c].todo
        edge == EdgeAt(graph, Head(todo))
    IN /\ call[c].pc = "scan"
       /\ IF todo = <<>> THEN AfterWalk(c)
          ELSE call' = [call EXCEPT ![c].todo = Tail(@),
                                    ![c].pc = IF edge = NoEdge THEN "scan" ELSE "held",
                                    ![c].target = edge.to]
       /\ UNCHANGED <<graph, entities, handles, raced, dangling>>

(* The edge may be gone by the time its target is read: what is read then  *)
(* is what the memory holds, the old target or no id at all.               *)
Erased(target) == \A e \in LiveEdges(graph) : EdgeAt(graph, e).to # target

Use(c, target) ==
    LET remove == call[c].op = "remove"
        wanted == remove \/ NodeAt(graph, target).what = call[c].kind
    IN /\ call[c].pc = "held"
       /\ target = call[c].target \/ (Erased(call[c].target) /\ target = NoId)
       /\ dangling' = (dangling \/ Erased(call[c].target))
       /\ graph' = IF wanted /\ call[c].op \in {"remove", "detach"} /\ target \in LiveNodes(graph)
                   THEN WithoutNode(graph, target) ELSE graph
       /\ IF wanted /\ ~remove THEN AfterWalk(c) ELSE Do(c, "scan")
       /\ UNCHANGED <<entities, handles, raced>>

DropEntity(c) ==
    LET there == call[c].entity \in LiveNodes(graph)
    IN /\ call[c].pc = "drop"
       /\ graph' = IF there THEN WithoutNode(graph, call[c].entity) ELSE graph
       /\ IF there THEN Do(c, "unlist") ELSE Return(c)
       /\ UNCHANGED <<entities, handles, raced, dangling>>

Unlist(c) ==
    /\ call[c].pc = "unlist"
    /\ entities' = Without(entities, call[c].entity)
    /\ Return(c)
    /\ UNCHANGED <<graph, handles, raced, dangling>>

WorldNext == \E c \in EcsCallers :
    \/ CreateEntity(c) \/ Record(c)
    \/ \E n \in handles, kind \in Kinds :
          AttachComponent(c, n, kind) \/ DetachComponent(c, n, kind)
    \/ \E n \in handles : RemoveEntity(c, n)
    \/ /\ c \in EcsReaders
       /\ \/ \E n \in handles, kind \in Kinds : FindComponent(c, n, kind)
          \/ \E n \in handles : ComponentsOf(c, n)
          \/ \E kind \in Kinds : EntitiesWith(c, kind)
    \/ NextEntity(c)
    \/ AddComponent(c) \/ AddAttachment(c)
    \/ ListAttachments(c) \/ Resolve(c)
    \/ Use(c, call[c].target) \/ Use(c, NoId)
    \/ DropEntity(c) \/ Unlist(c)

-----------------------------------------------------------------------------
ComponentsIn(g) == {n \in LiveNodes(g) : NodeAt(g, n).what \in {ComponentNode(k) : k \in Kinds}}
HasEntity(g, n) == n \in LiveNodes(g) /\ NodeAt(g, n).what = EntityNode
EntitiesIn(g) == {n \in LiveNodes(g) : HasEntity(g, n)}
Holders(g, n) == {EdgeAt(g, e).from : e \in {d \in LiveEdges(g) : EdgeAt(g, d).to = n}}
Underway(n) == \E c \in EcsCallers :
    \/ call[c].op = "attach" /\ call[c].target = n
    \/ call[c].op \in {"create", "remove"} /\ call[c].entity = n

(* The table lists the live entities, each once, but for those that a call *)
(* has still to enter or to strike out; a component belongs to exactly one *)
(* entity, and to none only if it was attached while that entity was being *)
(* removed.                                                                *)
EntityTableIsExact ==
    /\ NoRepeats(entities)
    /\ \A n \in EntitiesIn(graph) \cup Elems(entities) :
          n \in EntitiesIn(graph) \cap Elems(entities) \/ Underway(n)
    /\ \A n \in ComponentsIn(graph) :
          \/ \E entity \in EntitiesIn(graph) : Holders(graph, n) = {entity}
          \/ n \in raced \/ Underway(n)

(* What the ECS promises: removing an entity removes every component that  *)
(* is attached to it.                                                      *)
NoOrphans ==
    (\A c \in EcsCallers : call[c].pc = "idle") =>
        \A n \in ComponentsIn(graph) : Holders(graph, n) # {}

(* What concurrent queries and changes need: nothing is read through the   *)
(* pointer to an edge that another thread has erased.                      *)
NoDanglingRead == ~dangling
=============================================================================
