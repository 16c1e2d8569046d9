---------------------- MODULE AbstractMessageBusProofs ----------------------
(***************************************************************************)
(* The message bus, for any number of posting threads, subscriptions and   *)
(* configurations: its types, the strong unsubscribe, that no message that *)
(* is due is left without a thread to serve it, and whom a message reaches.*)
(***************************************************************************)
EXTENDS AbstractMessageBus, SequenceTheorems, TLAPS

Busy == {"tell", "drain", "snapshot", "deliver", "entered", "running"}

(* What the properties need beyond themselves.  A slot that was drained is *)
(* marked, so that whoever still holds a snapshot of it passes it over;    *)
(* messages without a delay are due from the start; and a bus that         *)
(* dispatches inline has no queue.                                         *)
QuietInv == \A s \in Slots : token[s] = "drained" => s \in cancelled
PromptInv == \A m \in Posters : ~Message[m].later => m \in due
InlineInv == config.threading = "InlineOnly" =>
    /\ queue = <<>>
    /\ \A t \in Threads : stage[t] \notin {"checked", "blocked", "woken", "tell"}

BusInv == BusTypeOK /\ QuietInv /\ CancelledStaysQuiet
              /\ PromptInv /\ InlineInv /\ ReadyIsServed

-----------------------------------------------------------------------------
LEMMA CapIsPositive == config \in Configs => Cap \in Nat \ {0}
  BY BusAssumption DEF Cap

LEMMA BusStarts == BusInit => BusInv
<1> SUFFICES ASSUME BusInit PROVE BusInv
  OBVIOUS
<1> USE DEF BusInit
<1>1. BusTypeOK
  <2>1. queue \in Seq(Posters) /\ Len(queue) <= Cap
    BY CapIsPositive
  <2>2. /\ stage \in [Threads -> {"idle"}]
        /\ registered \subseteq Slots /\ due \subseteq Posters
    BY BusAssumption
  <2>3. token \in [Slots -> {"live", "none"}]
    OBVIOUS
  <2>4. /\ present \in [Posters -> SUBSET Slots]
        /\ todo \in [Threads -> SUBSET Slots]
        /\ hits \in [Posters -> [Slots -> Nat]]
    OBVIOUS
  <2>5. QED BY <2>1, <2>2, <2>3, <2>4 DEF BusTypeOK
<1>2. QuietInv /\ CancelledStaysQuiet
  BY DEF QuietInv, CancelledStaysQuiet, Inside
<1>3. PromptInv /\ InlineInv /\ ReadyIsServed
  BY DEF PromptInv, InlineInv, ReadyIsServed
<1>4. QED BY <1>1, <1>2, <1>3 DEF BusInv

(* The queue after a message was taken out of it.                          *)
LEMMA RemovedAt ==
    ASSUME NEW S, NEW q \in Seq(S), NEW i \in 1..Len(q)
    PROVE  /\ Len(RemoveAt(q, i)) = Len(q) - 1
           /\ \A j \in 1..Len(RemoveAt(q, i)) :
                 RemoveAt(q, i)[j] = q[IF j < i THEN j ELSE j + 1]
<1> DEFINE a == SubSeq(q, 1, i - 1)
           b == SubSeq(q, i + 1, Len(q))
<1>1. a \in Seq(S) /\ Len(a) = i - 1 /\ \A j \in 1..Len(a) : a[j] = q[j]
  BY SubSeqProperties
<1>2. b \in Seq(S) /\ Len(b) = Len(q) - i /\ \A j \in 1..Len(b) : b[j] = q[i + j]
  BY SubSeqProperties
<1>3. RemoveAt(q, i) = a \o b
  BY DEF RemoveAt
<1> HIDE DEF a, b
<1>4. a \o b \in Seq(S) /\ Len(a \o b) = Len(a) + Len(b)
  BY <1>1, <1>2, ConcatProperties
<1>5. \A j \in 1..Len(a \o b) : (a \o b)[j] = IF j <= Len(a) THEN a[j] ELSE b[j - Len(a)]
  BY <1>1, <1>2, ConcatProperties
<1>6. ASSUME NEW j \in 1..Len(a \o b) PROVE (a \o b)[j] = q[IF j < i THEN j ELSE j + 1]
  <2>1. CASE j < i
    BY <1>1, <1>5, <2>1
  <2>2. CASE ~(j < i)
    <3>1. j - Len(a) \in 1..Len(b) /\ i + (j - Len(a)) = j + 1
      BY <1>1, <1>2, <1>4, <2>2
    <3>2. QED BY <1>1, <1>2, <1>5, <2>2, <3>1
  <2>3. QED BY <2>1, <2>2
<1>7. QED BY <1>1, <1>2, <1>3, <1>4, <1>6

LEMMA TakingShortens ==
    ASSUME NEW S, NEW q \in Seq(S), NEW i \in 1..Len(q)
    PROVE  /\ RemoveAt(q, i) \in Seq(S)
           /\ Len(RemoveAt(q, i)) = Len(q) - 1
           /\ \A j \in 1..Len(RemoveAt(q, i)) : \E k \in 1..Len(q) : RemoveAt(q, i)[j] = q[k]
<1>1. SubSeq(q, 1, i - 1) \in Seq(S) /\ SubSeq(q, i + 1, Len(q)) \in Seq(S)
  BY SubSeqProperties
<1>2. RemoveAt(q, i) \in Seq(S)
  BY <1>1, ConcatProperties DEF RemoveAt
<1>3. ASSUME NEW j \in 1..Len(RemoveAt(q, i)) PROVE \E k \in 1..Len(q) : RemoveAt(q, i)[j] = q[k]
  <2>1. (IF j < i THEN j ELSE j + 1) \in 1..Len(q)
    BY RemovedAt
  <2>2. QED BY <2>1, RemovedAt
<1>4. QED BY <1>2, <1>3, RemovedAt

-----------------------------------------------------------------------------
(* Every step keeps the types.                                             *)
Stages == {"idle", "checked", "blocked", "woken", "refused", "tell", "drain",
           "snapshot", "deliver", "entered", "running", "wake", "kill", "done"}

LEMMA PostKeepsTypes ==
    ASSUME BusTypeOK, NEW p \in Posters, Post(p) \/ PostStep(p) \/ WakeUp(p) \/ Elapse(p)
    PROVE  BusTypeOK'
<1> USE DEF BusTypeOK, Goes, Threads, dispatchVars, slotVars
<1>1. CASE Post(p)
  <2>1. present' \in [Posters -> SUBSET Slots]
    BY <1>1 DEF Post
  <2>2. stage' \in [Threads -> Stages] /\ current' \in [Threads -> Posters \cup {None}]
    BY <1>1 DEF Post, Stages
  <2>3. QED BY <1>1, <2>1, <2>2 DEF Post, Stages, Cap
<1>2. CASE Enqueue(p)
  <2>1. queue' \in Seq(Posters) /\ Len(queue') = Len(queue) + 1
    BY <1>2 DEF Enqueue
  <2>2. config.bounded => Len(queue') <= Cap
    BY <1>2, <2>1, CapIsPositive DEF Enqueue, Full
  <2>3. QED BY <1>2, <2>1, <2>2 DEF Enqueue, Cap
<1>3. CASE DropOldest(p)
  <2>1. Len(queue) >= 1
    BY <1>3, CapIsPositive DEF DropOldest, Full
  <2>2. queue # <<>>
    BY <2>1
  <2>3. Tail(queue) \in Seq(Posters) /\ Len(Tail(queue)) = Len(queue) - 1
    BY <2>2
  <2>4. queue' \in Seq(Posters) /\ Len(queue') = Len(queue)
    BY <1>3, <2>1, <2>3 DEF DropOldest
  <2>5. QED BY <1>3, <2>4 DEF DropOldest, Cap
<1>4. CASE WaitForRoom(p) \/ RefuseFull(p) \/ WakeUp(p) \/ Elapse(p)
  BY <1>4 DEF WaitForRoom, RefuseFull, WakeUp, Elapse, Cap
<1>5. QED BY <1>1, <1>2, <1>3, <1>4 DEF PostStep

LEMMA ServeKeepsTypes ==
    ASSUME BusTypeOK, NEW t \in Threads, ServeStep(t)
    PROVE  BusTypeOK'
<1> USE DEF BusTypeOK, Goes, dispatchVars, slotVars
<1>1. CASE Tell(t)
  <2>1. PICK p \in Posters \cup {t} :
            \E next \in {"drain", "snapshot"} :
               /\ next = "snapshot" => current[t] # None
               /\ stage' \in {[stage EXCEPT ![t] = next], [stage EXCEPT ![t] = next, ![p] = "woken"]}
    BY <1>1 DEF Tell
  <2>2. stage' \in [Threads -> Stages]
    BY <2>1 DEF Threads, Stages
  <2>3. \A u \in Threads : stage'[u] \in {stage[u], "drain", "snapshot", "woken"}
    BY <2>1 DEF Threads
  <2>4. \A u \in Threads : stage'[u] = "snapshot" => u = t \/ stage[u] = "snapshot"
    BY <2>1 DEF Threads
  <2>5. stage'[t] = "snapshot" => current[t] # None
    BY <1>1 DEF Tell, Threads
  <2>6. QED BY <1>1, <2>2, <2>3, <2>4, <2>5 DEF Tell, Stages, Cap
<1>2. CASE TakeDue(t)
  <2>1. PICK i \in Due : current' = [current EXCEPT ![t] = queue[i]] /\ queue' = RemoveAt(queue, i)
    BY <1>2 DEF TakeDue
  <2>2. i \in 1..Len(queue) /\ queue[i] \in Posters
    BY <2>1 DEF Due
  <2>3. queue' \in Seq(Posters) /\ Len(queue') = Len(queue) - 1
    BY <2>1, <2>2, TakingShortens
  <2>4. Cap \in Nat
    BY CapIsPositive
  <2>5. QED BY <1>2, <2>1, <2>2, <2>3, <2>4 DEF TakeDue, Cap
<1>3. CASE FindNoneDue(t) \/ Snapshot(t) \/ Return(t)
  BY <1>3 DEF FindNoneDue, Snapshot, Return, Cap
<1>4. CASE Enter(t)
  <2>1. PICK s \in todo[t] :
            /\ todo' = [todo EXCEPT ![t] = @ \ {s}]
            /\ \/ UNCHANGED <<slot, stage>>
               \/ slot' = [slot EXCEPT ![t] = s] /\ stage' = [stage EXCEPT ![t] = "entered"]
    BY <1>4 DEF Enter
  <2>2. s \in Slots /\ stage[t] = "deliver"
    BY <1>4, <2>1 DEF Enter
  <2>3. todo' \in [Threads -> SUBSET Slots]
    BY <2>1
  <2>4. CASE UNCHANGED <<slot, stage>>
    BY <1>4, <2>3, <2>4 DEF Enter, Cap
  <2>5. CASE slot' = [slot EXCEPT ![t] = s] /\ stage' = [stage EXCEPT ![t] = "entered"]
    <3>1. slot' \in [Threads -> Slots \cup {None}] /\ stage' \in [Threads -> Stages]
      BY <2>2, <2>5 DEF Stages
    <3>2. current[t] \in Posters
      BY <2>2
    <3>3. QED BY <1>4, <2>2, <2>3, <2>5, <3>1, <3>2 DEF Enter, Cap, Stages
  <2>6. QED BY <2>1, <2>4, <2>5
<1>5. CASE Run(t)
  <2>1. stage[t] = "entered" /\ current[t] \in Posters /\ slot[t] \in Slots
    BY <1>5 DEF Run
  <2>2. hits' \in [Posters -> [Slots -> Nat]]
    BY <1>5, <2>1 DEF Run
  <2>3. QED BY <1>5, <2>1, <2>2 DEF Run, Cap
<1>6. CASE EndDispatch(t)
  BY <1>6 DEF EndDispatch, Cap
<1>7. QED BY <1>1, <1>2, <1>3, <1>4, <1>5, <1>6 DEF ServeStep

LEMMA CloseKeepsTypes ==
    ASSUME BusTypeOK, Shutdown \/ CloseStep
    PROVE  BusTypeOK'
<1> USE DEF BusTypeOK, Goes, dispatchVars, slotVars
<1>1. CASE Shutdown \/ MarkDead
  BY <1>1 DEF Shutdown, MarkDead, Cap
<1>2. CASE WakeAll
  <2>1. stage' \in [Threads -> Stages]
    BY <1>2 DEF WakeAll, Stages
  <2>2. \A u \in Threads : stage'[u] \in {stage[u], "drain", "woken"}
    BY <1>2 DEF WakeAll
  <2>3. QED BY <1>2, <2>1, <2>2 DEF WakeAll, Stages, Cap
<1>3. QED BY <1>1, <1>2 DEF CloseStep

LEMMA TokensKeepTypes ==
    ASSUME BusTypeOK, NEW s \in Slots, Subscribe(s) \/ Cancel(s) \/ TokenStep(s)
    PROVE  BusTypeOK'
<1>1. /\ token' \in [Slots -> {"none", "inert", "subscribing", "live", "cancelling", "draining",
                              "drained", "skipped"}]
      /\ registered' \subseteq Slots /\ cancelled' \subseteq Slots
  BY DEF BusTypeOK, Subscribe, Cancel, TokenStep, Register, Erase, Drain, SetToken
<1>2. UNCHANGED <<config, down, alive, queue, due, stage, current, todo, slot, hits, served, present>>
  BY DEF Subscribe, Cancel, TokenStep, Register, Erase, Drain, dispatchVars
<1>3. QED BY <1>1, <1>2 DEF BusTypeOK, Cap

LEMMA TypesAreKept == BusTypeOK /\ [BusNext]_busVars => BusTypeOK'
<1> SUFFICES ASSUME BusTypeOK, [BusNext]_busVars PROVE BusTypeOK'
  OBVIOUS
<1>1. CASE UNCHANGED busVars
  BY <1>1 DEF busVars, BusTypeOK, Cap
<1>2. CASE BusNext
  BY <1>2, PostKeepsTypes, ServeKeepsTypes, CloseKeepsTypes, TokensKeepTypes DEF BusNext
<1>3. QED BY <1>1, <1>2

-----------------------------------------------------------------------------
(* The strong unsubscribe.  A thread gets inside a slot in Enter only, and *)
(* there it looks at the mark that a drained slot carries.                 *)
LEMMA DrainedStaysMarked ==
    ASSUME BusTypeOK, QuietInv, CancelledStaysQuiet, [BusNext]_busVars
    PROVE  QuietInv' /\ CancelledStaysQuiet'
<1> USE DEF QuietInv, CancelledStaysQuiet, Inside, BusTypeOK
<1>1. ASSUME UNCHANGED <<token, cancelled, slot>>,
             \A t \in Threads : stage'[t] \in {"entered", "running"} => stage[t] \in {"entered", "running"}
      PROVE  QuietInv' /\ CancelledStaysQuiet'
  BY <1>1
<1>2. ASSUME NEW p \in Posters, Post(p) \/ PostStep(p) \/ WakeUp(p) \/ Elapse(p)
      PROVE  QuietInv' /\ CancelledStaysQuiet'
  <2>1. /\ UNCHANGED <<token, cancelled, slot>>
        /\ stage' = stage \/ \E x \in {"refused", "snapshot", "checked", "tell", "blocked", "woken"} :
                                 stage' = [stage EXCEPT ![p] = x]
    BY <1>2 DEF Post, PostStep, Enqueue, WaitForRoom, DropOldest, RefuseFull, WakeUp, Elapse,
                Goes, dispatchVars, slotVars
  <2>2. QED BY <1>1, <2>1
<1>3. ASSUME NEW t \in Threads, ServeStep(t)
      PROVE  QuietInv' /\ CancelledStaysQuiet'
  <2>1. CASE Tell(t)
    <3>1. /\ UNCHANGED <<token, cancelled, slot>>
          /\ \A u \in Threads : stage'[u] \in {stage[u], "drain", "snapshot", "woken"}
      BY <2>1 DEF Tell, Goes, dispatchVars, slotVars
    <3>2. QED BY <1>1, <3>1
  <2>2. CASE TakeDue(t) \/ FindNoneDue(t) \/ Snapshot(t) \/ Run(t) \/ EndDispatch(t)
    BY <1>1, <2>2 DEF TakeDue, FindNoneDue, Snapshot, Run, EndDispatch, Goes, dispatchVars, slotVars
  <2>3. CASE Enter(t)
    <3>1. PICK s \in todo[t] :
              IF s \in cancelled THEN UNCHANGED <<slot, stage>>
              ELSE slot' = [slot EXCEPT ![t] = s] /\ stage' = [stage EXCEPT ![t] = "entered"]
      BY <2>3 DEF Enter, Goes
    <3>2. UNCHANGED <<token, cancelled>>
      BY <2>3 DEF Enter, slotVars
    <3>3. CASE s \in cancelled
      BY <1>1, <3>1, <3>2, <3>3
    <3>4. CASE s \notin cancelled
      <4>1. token[s] # "drained"
        BY <3>4
      <4>2. /\ slot'[t] = s
            /\ \A u \in Threads : u # t => slot'[u] = slot[u] /\ stage'[u] = stage[u]
        BY <3>1, <3>4
      <4>3. ASSUME NEW r \in Slots, token'[r] = "drained", NEW u \in Threads,
                   stage'[u] \in {"entered", "running"}, slot'[u] = r
            PROVE  FALSE
        <5>1. u # t
          BY <3>2, <4>1, <4>2, <4>3
        <5>2. slot[u] = r /\ stage[u] \in {"entered", "running"} /\ token[r] = "drained"
          BY <3>2, <4>2, <4>3, <5>1
        <5>3. QED BY <5>2
      <4>4. QED BY <3>2, <4>3
    <3>5. QED BY <3>3, <3>4
  <2>4. CASE Return(t)
    BY <2>4 DEF Return, Goes, slotVars
  <2>5. QED BY <1>3, <2>1, <2>2, <2>3, <2>4 DEF ServeStep
<1>4. ASSUME Shutdown \/ CloseStep
      PROVE  QuietInv' /\ CancelledStaysQuiet'
  BY <1>1, <1>4 DEF Shutdown, CloseStep, WakeAll, MarkDead, Goes, dispatchVars, slotVars
<1>5. ASSUME NEW s \in Slots, Subscribe(s) \/ Cancel(s) \/ TokenStep(s)
      PROVE  QuietInv' /\ CancelledStaysQuiet'
  <2>1. UNCHANGED <<stage, slot>>
    BY <1>5 DEF Subscribe, Cancel, TokenStep, Register, Erase, Drain, dispatchVars
  <2>2. CASE Drain(s)
    BY <2>1, <2>2 DEF Drain, SetToken
  <2>3. CASE Subscribe(s) \/ Cancel(s) \/ Register(s) \/ Erase(s)
    <3>1. /\ UNCHANGED cancelled
          /\ \A r \in Slots : token'[r] = "drained" => token[r] = "drained"
      BY <2>3 DEF Subscribe, Cancel, Register, Erase, SetToken
    <3>2. QED BY <2>1, <3>1
  <2>4. QED BY <1>5, <2>2, <2>3 DEF TokenStep
<1>6. CASE UNCHANGED busVars
  BY <1>6 DEF busVars
<1>7. QED BY <1>2, <1>3, <1>4, <1>5, <1>6 DEF BusNext

(* Once cancel() of a subscription of a living bus has returned, no thread *)
(* is or will be in its onMessage: ISubscriptionToken's promise, for any   *)
(* number of threads that post and of subscriptions.                       *)
THEOREM CancelIsFinal == BusSpec => []CancelledStaysQuiet
<1> DEFINE Inv == BusTypeOK /\ QuietInv /\ CancelledStaysQuiet
<1>1. BusInit => Inv
  BY BusStarts DEF BusInv
<1>2. Inv /\ [BusNext]_busVars => Inv'
  BY TypesAreKept, DrainedStaysMarked
<1>3. Inv => CancelledStaysQuiet
  OBVIOUS
<1>4. QED BY <1>1, <1>2, <1>3, PTL DEF BusSpec

-----------------------------------------------------------------------------
(* Whoever queues a message serves the queue afterwards, and stops only    *)
(* when nothing in it is due.                                              *)
LEMMA PromptStaysInline ==
    ASSUME BusTypeOK, PromptInv, InlineInv, [BusNext]_busVars
    PROVE  PromptInv' /\ InlineInv'
<1>1. config' = config /\ PromptInv'
  BY DEF PromptInv, BusNext, Post, PostStep, Enqueue, WaitForRoom, DropOldest, RefuseFull, WakeUp,
         Elapse, ServeStep, Tell, TakeDue, FindNoneDue, Snapshot, Enter, Run, Return, EndDispatch,
         Shutdown, CloseStep, WakeAll, MarkDead, Subscribe, Cancel, TokenStep, Register, Erase,
         Drain, busVars
<1>2. SUFFICES ASSUME config.threading = "InlineOnly" PROVE InlineInv'
  BY <1>1 DEF InlineInv
<1>3. queue = <<>> /\ \A t \in Threads : stage[t] \notin {"checked", "blocked", "woken", "tell"}
  BY <1>2 DEF InlineInv
<1> USE DEF BusTypeOK, Goes, dispatchVars, slotVars
<1>4. ASSUME NEW p \in Posters, Post(p) \/ PostStep(p) \/ WakeUp(p) \/ Elapse(p)
      PROVE  InlineInv'
  <2>1. queue' = <<>> /\ (stage' = stage \/ \E x \in {"refused", "snapshot"} : stage' = [stage EXCEPT ![p] = x])
    BY <1>2, <1>3, <1>4 DEF Threads, Post, PostStep, Enqueue, WaitForRoom, DropOldest, RefuseFull, WakeUp, Elapse
  <2>2. QED BY <1>3, <2>1 DEF InlineInv
<1>5. ASSUME NEW t \in Threads, ServeStep(t)
      PROVE  InlineInv'
  <2>1. Due = {}
    BY <1>3 DEF Due
  <2>2. /\ queue' = <<>>
        /\ stage' = stage \/ \E x \in {"drain", "kill", "done", "deliver", "entered", "running"} :
                                 stage' = [stage EXCEPT ![t] = x]
    BY <1>3, <1>5, <2>1 DEF ServeStep, Tell, TakeDue, FindNoneDue, Snapshot, Enter, Run, Return, EndDispatch
  <2>3. QED BY <1>3, <2>2 DEF InlineInv
<1>6. ASSUME Shutdown \/ CloseStep
      PROVE  InlineInv'
  <2>1. queue' = <<>> /\ \A u \in Threads : stage'[u] \in {stage[u], "wake", "drain", "done"}
    BY <1>3, <1>6 DEF Shutdown, CloseStep, WakeAll, MarkDead
  <2>2. QED BY <1>3, <2>1 DEF InlineInv
<1>7. ASSUME NEW s \in Slots, Subscribe(s) \/ Cancel(s) \/ TokenStep(s)
      PROVE  InlineInv'
  <2>1. UNCHANGED <<queue, stage>>
    BY <1>7 DEF Subscribe, Cancel, TokenStep, Register, Erase, Drain
  <2>2. QED BY <1>3, <2>1 DEF InlineInv
<1>8. CASE UNCHANGED busVars
  BY <1>3, <1>8 DEF InlineInv, busVars
<1>9. QED BY <1>4, <1>5, <1>6, <1>7, <1>8 DEF BusNext

LEMMA ReadyStaysServed ==
    ASSUME BusTypeOK, PromptInv, InlineInv, ReadyIsServed, [BusNext]_busVars
    PROVE  ReadyIsServed'
<1> USE DEF Goes, dispatchVars, slotVars
<1>1. ASSUME NEW t \in Threads, stage'[t] \in Busy
      PROVE  ReadyIsServed'
  BY <1>1 DEF ReadyIsServed, Busy
(* The messages of the queue come from the queue, and the busy stay busy.  *)
<1>2. ASSUME \A j \in 1..Len(queue') : \E k \in 1..Len(queue) : queue'[j] = queue[k],
             \A u \in Threads : stage[u] \in Busy => \E v \in Threads : stage'[v] \in Busy
      PROVE  ReadyIsServed'
  BY <1>2 DEF ReadyIsServed, Busy
<1> USE DEF BusTypeOK
<1>3. ASSUME NEW p \in Posters, Post(p) \/ PostStep(p) \/ WakeUp(p) \/ Elapse(p)
      PROVE  ReadyIsServed'
  <2>1. CASE Enqueue(p) \/ DropOldest(p)
    <3>1. p \in Threads /\ stage'[p] = "tell"
      BY <2>1 DEF Enqueue, DropOldest, Threads
    <3>2. QED BY <1>1, <3>1 DEF Busy
  <2>2. CASE Post(p) \/ WaitForRoom(p) \/ RefuseFull(p) \/ WakeUp(p) \/ Elapse(p)
    <3>1. queue' = queue /\ \A u \in Threads : stage[u] \in Busy => stage'[u] = stage[u]
      BY <2>2 DEF Post, WaitForRoom, RefuseFull, WakeUp, Elapse, Busy
    <3>2. QED BY <1>2, <3>1
  <2>3. QED BY <1>3, <2>1, <2>2 DEF PostStep
<1>4. ASSUME NEW t \in Threads, ServeStep(t)
      PROVE  ReadyIsServed'
  <2>1. CASE FindNoneDue(t)
    <3>1. ASSUME NEW i \in 1..Len(queue) PROVE Message[queue[i]].later
      <4>1. queue[i] \in Posters /\ queue[i] \notin due
        BY <2>1 DEF FindNoneDue, Due
      <4>2. QED BY <4>1 DEF PromptInv
    <3>2. queue' = queue
      BY <2>1 DEF FindNoneDue
    <3>3. QED BY <3>1, <3>2 DEF ReadyIsServed
  <2>2. CASE EndDispatch(t) /\ config.threading = "InlineOnly"
    <3>1. queue' = <<>>
      BY <2>2 DEF EndDispatch, InlineInv
    <3>2. QED BY <3>1 DEF ReadyIsServed
  <2>3. CASE Tell(t)
    <3>1. stage[t] = "tell" /\ stage'[t] \in {"drain", "snapshot"}
      BY <2>3 DEF Tell
    <3>2. QED BY <1>1, <3>1 DEF Busy
  <2>4. CASE TakeDue(t) \/ Snapshot(t) \/ Enter(t) \/ Run(t) \/ Return(t)
    <3>1. stage'[t] \in Busy
      BY <2>4 DEF TakeDue, Snapshot, Enter, Run, Return, Busy
    <3>2. QED BY <1>1, <3>1
  <2>5. CASE EndDispatch(t) /\ config.threading # "InlineOnly"
    <3>1. stage'[t] \in Busy
      BY <2>5 DEF EndDispatch, Busy
    <3>2. QED BY <1>1, <3>1
  <2>6. QED BY <1>4, <2>1, <2>2, <2>3, <2>4, <2>5 DEF ServeStep
<1>5. ASSUME Shutdown \/ CloseStep
      PROVE  ReadyIsServed'
  <2>1. queue' = queue /\ \A u \in Threads : stage[u] \in Busy => stage'[u] \in Busy
    BY <1>5 DEF Shutdown, CloseStep, WakeAll, MarkDead, Busy, Threads
  <2>2. QED BY <1>2, <2>1
<1>6. ASSUME NEW s \in Slots, Subscribe(s) \/ Cancel(s) \/ TokenStep(s)
      PROVE  ReadyIsServed'
  <2>1. UNCHANGED <<queue, stage>>
    BY <1>6 DEF Subscribe, Cancel, TokenStep, Register, Erase, Drain
  <2>2. QED BY <1>2, <2>1
<1>7. CASE UNCHANGED busVars
  BY <1>2, <1>7 DEF busVars
<1>8. QED BY <1>3, <1>4, <1>5, <1>6, <1>7 DEF BusNext

(* A message that was due when it was posted is never left in the queue    *)
(* without a thread that will look at the queue again: post() and          *)
(* drainQueue(), for any number of threads.                                *)
THEOREM ReadyHasAServer == BusSpec => []ReadyIsServed
<1> DEFINE Inv == BusTypeOK /\ PromptInv /\ InlineInv /\ ReadyIsServed
<1>1. BusInit => Inv
  BY BusStarts DEF BusInv
<1>2. Inv /\ [BusNext]_busVars => Inv'
  BY TypesAreKept, PromptStaysInline, ReadyStaysServed
<1>3. Inv => ReadyIsServed
  OBVIOUS
<1>4. QED BY <1>1, <1>2, <1>3, PTL DEF BusSpec

(* The types of the bus, and the bound of its queue under every            *)
(* configuration.                                                          *)
THEOREM BusTypesHold == BusSpec => []BusTypeOK
<1>1. BusInit => BusTypeOK
  BY BusStarts DEF BusInv
<1>2. QED BY <1>1, TypesAreKept, PTL DEF BusSpec

-----------------------------------------------------------------------------
(* A message and whom it reaches: ReachesAllOnce                           *)

NotQueued == {"idle", "checked", "blocked", "woken", "refused"}
Carrying  == {"tell", "snapshot", "deliver", "entered", "running"}
Walking   == {"deliver", "entered", "running"}

InQueue(m)   == \E i \in 1..Len(queue) : queue[i] = m
InHand(m)    == \E t \in Threads : current[t] = m
Untouched(m) == \A s \in Slots : hits[m][s] = 0

(* A message is with the call that posts it, once in the queue, with one   *)
(* thread, or served: in one of these places at a time.                    *)
OnePlace ==
    /\ \A i, j \in 1..Len(queue) : queue[i] = queue[j] => i = j
    /\ \A t, u \in Threads : current[t] = current[u] /\ current[t] # None => t = u
    /\ \A t \in Threads : current[t] # None => stage[t] \in Carrying
    /\ \A m \in Posters : InQueue(m) => m \notin served /\ ~InHand(m) /\ Untouched(m)
    /\ \A m \in Posters : InHand(m) => m \notin served
    /\ \A p \in Posters : stage[p] \in NotQueued =>
          p \notin served /\ ~InHand(p) /\ ~InQueue(p) /\ Untouched(p)

(* The slots a thread has yet to visit, and the one it is about to call,   *)
(* want its message and did not have it; and whoever was there when it was *)
(* posted, and is, is among them or had it.                                *)
WalkInv ==
    \A t \in Threads :
        LET m == current[t] IN
        /\ stage[t] = "snapshot" \/ (stage[t] = "tell" /\ m # None) => Untouched(m)
        /\ stage[t] \in Walking => \A s \in Slots :
              /\ s \in todo[t] => Wanted(s, m) /\ hits[m][s] = 0
              /\ stage[t] = "entered" /\ slot[t] = s =>
                    Wanted(s, m) /\ hits[m][s] = 0 /\ s \notin todo[t]
              /\ s \in present[m] /\ token[s] = "live" =>
                    s \in todo[t] \/ (stage[t] = "entered" /\ slot[t] = s) \/ hits[m][s] = 1

(* Who was there is not in the middle of its subscription any more, and    *)
(* who has not begun to cancel is in the registry.                         *)
GuestInv ==
    /\ \A m \in Posters : \A s \in present[m] :
          ForAll(m) /\ Wanted(s, m) /\ token[s] \notin {"none", "inert", "subscribing"}
    /\ \A s \in Slots : token[s] = "live" => s \in registered
    /\ \A s \in cancelled : token[s] = "drained"

ReachInv == OnePlace /\ WalkInv /\ GuestInv /\ DeliveredOnce /\ NobodyMissed

-----------------------------------------------------------------------------
LEMMA ReachStarts == BusInit => ReachInv
<1> SUFFICES ASSUME BusInit PROVE ReachInv
  OBVIOUS
<1> USE DEF BusInit
<1>0. None \notin Posters /\ Posters \subseteq Threads
  BY BusAssumption DEF Threads
<1>1. OnePlace
  BY <1>0 DEF OnePlace, InQueue, InHand, Untouched
<1>2. WalkInv
  BY DEF WalkInv, Walking
<1>3. GuestInv
  BY DEF GuestInv
<1>4. DeliveredOnce /\ NobodyMissed
  BY DEF DeliveredOnce, NobodyMissed
<1>5. QED BY <1>1, <1>2, <1>3, <1>4 DEF ReachInv

-----------------------------------------------------------------------------
LEMMA KeepPlace ==
    ASSUME OnePlace, UNCHANGED <<queue, current, served, hits>>,
           \A p \in Posters : stage'[p] \in NotQueued => stage[p] \in NotQueued,
           \A t \in Threads : current[t] # None => stage'[t] \in Carrying
    PROVE  OnePlace'
BY DEF OnePlace, InQueue, InHand, Untouched

LEMMA KeepWalk ==
    ASSUME WalkInv, GuestInv, BusTypeOK, UNCHANGED <<current, hits, present>>,
           \A t \in Threads : stage'[t] = "snapshot" \/ (stage'[t] = "tell" /\ current[t] # None) =>
               stage[t] = "snapshot" \/ (stage[t] = "tell" /\ current[t] # None),
           \A t \in Threads : stage'[t] \in Walking =>
               stage'[t] = stage[t] /\ todo'[t] = todo[t] /\ slot'[t] = slot[t],
           \A s \in Slots : token'[s] = "live" => token[s] \in {"live", "subscribing"}
    PROVE  WalkInv'
<1>1. \A t \in Threads : stage'[t] \in Walking => current[t] \in Posters
  BY DEF BusTypeOK, Walking
<1>2. \A m \in Posters : \A s \in present[m] : token'[s] = "live" => token[s] = "live"
  BY DEF GuestInv, BusTypeOK
<1>3. QED BY <1>1, <1>2 DEF WalkInv, Untouched

LEMMA KeepGuests ==
    ASSUME GuestInv, DeliveredOnce, NobodyMissed,
           UNCHANGED <<present, hits, served, registered, cancelled, token>>
    PROVE  GuestInv' /\ DeliveredOnce' /\ NobodyMissed'
BY DEF GuestInv, DeliveredOnce, NobodyMissed, ForAll, Wanted, AnyTarget

-----------------------------------------------------------------------------
LEMMA PostReaches ==
    ASSUME BusTypeOK, ReachInv, NEW p \in Posters, Post(p)
    PROVE  ReachInv'
<1> USE DEF ReachInv
<1>0. /\ UNCHANGED <<queue, served, hits, todo, slot, registered, cancelled, token>>
      /\ stage[p] = "idle" /\ stage'[p] \in {"refused", "snapshot", "checked"}
      /\ \A t \in Threads \ {p} : stage'[t] = stage[t] /\ current'[t] = current[t]
      /\ current'[p] = current[p] \/ (current'[p] = p /\ stage'[p] = "snapshot")
      /\ stage'[p] = "snapshot" => current'[p] = p
      /\ \A m \in Posters \ {p} : present'[m] = present[m]
      /\ p \in Threads /\ None \notin Posters
  BY BusAssumption DEF Post, Goes, slotVars, BusTypeOK, Threads
<1>1. /\ p \notin served /\ ~InHand(p) /\ ~InQueue(p) /\ Untouched(p) /\ current[p] = None
  BY <1>0 DEF OnePlace, NotQueued, Carrying
<1>2. OnePlace'
  <2>1. \A m : InQueue(m)' <=> InQueue(m)
    BY <1>0 DEF InQueue
  <2>2. \A m : Untouched(m)' <=> Untouched(m)
    BY <1>0 DEF Untouched
  <2>3. \A m \in Posters \ {p} : InHand(m)' <=> InHand(m)
    BY <1>0, <1>1 DEF InHand
  <2>4. stage'[p] \in NotQueued => ~InHand(p)'
    BY <1>0, <1>1 DEF InHand, NotQueued
  <2>5. \A t, u \in Threads : current'[t] = current'[u] /\ current'[t] # None => t = u
    BY <1>0, <1>1 DEF OnePlace, InHand
  <2>6. \A t \in Threads : current'[t] # None => stage'[t] \in Carrying
    BY <1>0, <1>1 DEF OnePlace, Carrying
  <2>7. Posters \subseteq Threads
    BY DEF Threads
  <2>8. QED BY <1>0, <1>1, <2>1, <2>2, <2>3, <2>4, <2>5, <2>6, <2>7 DEF OnePlace
<1>3. WalkInv'
  <2>1. \A t \in Threads \ {p} : current[t] # p
    BY <1>1 DEF InHand
  <2>2. \A t \in Threads : stage'[t] \in Walking => t # p /\ current[t] \in Posters \ {p}
    BY <1>0, <2>1 DEF Walking, BusTypeOK
  <2>3. \A t \in Threads : stage'[t] \in Walking => present'[current[t]] = present[current[t]]
    BY <1>0, <2>2
  <2>4. QED BY <1>0, <1>1, <2>2, <2>3 DEF WalkInv, Untouched
<1>4. GuestInv'
  <2>1. \A s \in present'[p] : ForAll(p) /\ Wanted(s, p) /\ token[s] \notin {"none", "inert", "subscribing"}
    BY DEF Post, BusTypeOK, GuestInv
  <2>2. QED BY <1>0, <2>1 DEF GuestInv, ForAll, Wanted, AnyTarget
<1>5. DeliveredOnce' /\ NobodyMissed'
  BY <1>0, <1>1 DEF DeliveredOnce, NobodyMissed, Wanted, AnyTarget, BusTypeOK
<1>6. QED BY <1>2, <1>3, <1>4, <1>5

LEMMA QueueReaches ==
    ASSUME BusTypeOK, ReachInv, NEW p \in Posters, Enqueue(p) \/ DropOldest(p)
    PROVE  ReachInv'
<1> USE DEF ReachInv
<1>0. /\ UNCHANGED <<current, served, hits, todo, slot, present, registered, cancelled, token>>
      /\ stage[p] \in {"checked", "woken"} /\ stage' = [stage EXCEPT ![p] = "tell"]
      /\ p \in Threads /\ stage \in [Threads -> Stages]
  BY DEF Enqueue, DropOldest, Goes, dispatchVars, slotVars, BusTypeOK, Threads, Stages
<1>1. /\ p \notin served /\ ~InHand(p) /\ ~InQueue(p) /\ Untouched(p) /\ current[p] = None
  BY <1>0 DEF OnePlace, NotQueued, Carrying
<1>2. PICK k \in {0, 1} :
          /\ Len(queue') = Len(queue) - k + 1
          /\ \A i \in 1..Len(queue) - k : queue'[i] = queue[i + k] /\ i + k \in 1..Len(queue)
          /\ queue'[Len(queue) - k + 1] = p
  <2>1. CASE Enqueue(p)
    <3>1. queue \in Seq(Posters) /\ queue' = Append(queue, p)
      BY <2>1 DEF Enqueue, BusTypeOK
    <3>2. /\ Len(queue') = Len(queue) - 0 + 1
          /\ \A i \in 1..Len(queue) - 0 : queue'[i] = queue[i + 0] /\ i + 0 \in 1..Len(queue)
          /\ queue'[Len(queue) - 0 + 1] = p
      BY <3>1
    <3>3. QED BY <3>2
  <2>2. CASE DropOldest(p)
    <3>0. config \in Configs
      BY DEF BusTypeOK
    <3>1. Len(queue) >= 1 /\ queue \in Seq(Posters) /\ queue' = Append(Tail(queue), p)
      BY <2>2, <3>0, CapIsPositive DEF DropOldest, Full, BusTypeOK
    <3>2. queue # <<>>
      BY <3>1
    <3>3. /\ Tail(queue) \in Seq(Posters) /\ Len(Tail(queue)) = Len(queue) - 1
          /\ \A i \in 1..Len(queue) - 1 : Tail(queue)[i] = queue[i + 1]
      BY <3>1, <3>2
    <3>4. /\ Len(queue') = Len(queue) - 1 + 1
          /\ \A i \in 1..Len(queue) - 1 : queue'[i] = queue[i + 1] /\ i + 1 \in 1..Len(queue)
          /\ queue'[Len(queue) - 1 + 1] = p
      BY <3>1, <3>3
    <3>5. QED BY <3>4
  <2>3. QED BY <2>1, <2>2
<1>3. OnePlace'
  <2>0. queue \in Seq(Posters) /\ Len(queue) \in Nat
    BY DEF BusTypeOK
  <2>1. \A i \in 1..Len(queue') : \/ i \in 1..Len(queue) - k
                                  \/ i = Len(queue) - k + 1
    BY <1>2, <2>0
  <2>2. \A i, j \in 1..Len(queue') : queue'[i] = queue'[j] => i = j
    <3> SUFFICES ASSUME NEW i \in 1..Len(queue'), NEW j \in 1..Len(queue'), queue'[i] = queue'[j]
                 PROVE  i = j
      OBVIOUS
    <3>1. CASE i \in 1..Len(queue) - k /\ j \in 1..Len(queue) - k
      <4>1. i + k = j + k
        BY <1>2, <3>1 DEF OnePlace
      <4>2. QED BY <1>2, <3>1, <4>1
    <3>2. CASE i = Len(queue) - k + 1 /\ j = Len(queue) - k + 1
      BY <3>2
    <3>3. CASE ~(i \in 1..Len(queue) - k) /\ j \in 1..Len(queue) - k
      BY <1>1, <1>2, <2>1, <3>3 DEF InQueue
    <3>4. CASE i \in 1..Len(queue) - k /\ ~(j \in 1..Len(queue) - k)
      BY <1>1, <1>2, <2>1, <3>4 DEF InQueue
    <3>5. QED BY <2>1, <3>1, <3>2, <3>3, <3>4
  <2>3. \A m \in Posters : InQueue(m)' => InQueue(m) \/ m = p
    <3> SUFFICES ASSUME NEW m \in Posters, NEW i \in 1..Len(queue'), queue'[i] = m
                 PROVE  InQueue(m) \/ m = p
      BY DEF InQueue
    <3>1. CASE i \in 1..Len(queue) - k
      <4>1. i + k \in 1..Len(queue) /\ queue[i + k] = m
        BY <1>2, <3>1
      <4>2. QED BY <4>1 DEF InQueue
    <3>2. CASE i = Len(queue) - k + 1
      <4>1. queue'[Len(queue) - k + 1] = p
        BY <1>2
      <4>2. queue'[i] = p
        BY <3>2, <4>1
      <4>3. QED BY <4>2
    <3>3. QED BY <2>1, <3>1, <3>2
  <2>4. \A m : (InHand(m)' <=> InHand(m)) /\ (Untouched(m)' <=> Untouched(m))
    BY <1>0 DEF InHand, Untouched
  <2>5. \A u \in Threads : stage'[u] = IF u = p THEN "tell" ELSE stage[u]
    BY <1>0
  <2>6. /\ \A t, u \in Threads : current'[t] = current'[u] /\ current'[t] # None => t = u
        /\ \A t \in Threads : current'[t] # None => stage'[t] \in Carrying
    BY <1>0, <1>1, <2>5 DEF OnePlace
  <2>7. \A m \in Posters : InQueue(m)' => m \notin served' /\ ~InHand(m)' /\ Untouched(m)'
    BY <1>0, <1>1, <2>3, <2>4 DEF OnePlace
  <2>8. \A q \in Posters : stage'[q] \in NotQueued =>
            q \notin served' /\ ~InHand(q)' /\ ~InQueue(q)' /\ Untouched(q)'
    BY <1>0, <1>1, <2>3, <2>4, <2>5 DEF OnePlace, NotQueued, Threads
  <2>9. \A m \in Posters : InHand(m)' => m \notin served'
    <3>1. \A m \in Posters : InHand(m) => m \notin served
      BY DEF OnePlace
    <3>2. served' = served
      BY <1>0
    <3>3. \A m \in Posters : InHand(m)' => InHand(m)
      BY <2>4
    <3>4. QED BY <3>1, <3>2, <3>3
  <2>10. QED BY <2>2, <2>6, <2>7, <2>8, <2>9 DEF OnePlace
<1>4. WalkInv'
  BY <1>0, <1>1, KeepWalk DEF Walking
<1>5. GuestInv' /\ DeliveredOnce' /\ NobodyMissed'
  BY <1>0, KeepGuests
<1>6. QED BY <1>3, <1>4, <1>5

LEMMA WaitReaches ==
    ASSUME BusTypeOK, ReachInv, NEW p \in Posters, WaitForRoom(p) \/ RefuseFull(p) \/ WakeUp(p) \/ Elapse(p)
    PROVE  ReachInv'
<1> USE DEF ReachInv
<1>1. /\ UNCHANGED <<queue, current, served, hits, todo, slot, present, registered, cancelled, token>>
      /\ \/ stage' = stage
         \/ stage[p] \in NotQueued /\ \E x \in {"blocked", "refused", "woken"} : stage' = [stage EXCEPT ![p] = x]
  BY DEF WaitForRoom, RefuseFull, WakeUp, Elapse, Goes, dispatchVars, slotVars, NotQueued
<1>2. \A t \in Threads : stage'[t] = stage[t] \/ (stage[t] \in NotQueued /\ stage'[t] \in {"blocked", "refused", "woken"})
  BY <1>1 DEF BusTypeOK
<1>3. Posters \subseteq Threads
  BY DEF Threads
<1>4. OnePlace'
  BY <1>1, <1>2, <1>3, KeepPlace DEF OnePlace, NotQueued, Carrying
<1>5. WalkInv'
  BY <1>1, <1>2, KeepWalk DEF Walking
<1>6. QED BY <1>1, <1>4, <1>5, KeepGuests

LEMMA CloseReaches ==
    ASSUME BusTypeOK, ReachInv, Shutdown \/ CloseStep
    PROVE  ReachInv'
<1> USE DEF ReachInv
<1>1. /\ UNCHANGED <<queue, current, served, hits, todo, slot, present, registered, cancelled, token>>
      /\ \A t \in Threads : \/ stage'[t] = stage[t]
                            \/ t = Closer /\ stage[t] \notin Carrying /\ stage'[t] \in {"wake", "drain", "done"}
                            \/ stage[t] = "blocked" /\ stage'[t] = "woken"
  BY DEF Shutdown, CloseStep, WakeAll, MarkDead, Goes, dispatchVars, slotVars, BusTypeOK, Carrying
<1>2. Closer \notin Posters /\ Posters \subseteq Threads
  BY BusAssumption DEF Threads
<1>3. OnePlace'
  BY <1>1, <1>2, KeepPlace DEF OnePlace, NotQueued, Carrying
<1>4. WalkInv'
  BY <1>1, KeepWalk DEF Walking
<1>5. QED BY <1>1, <1>3, <1>4, KeepGuests

LEMMA TokensReach ==
    ASSUME BusTypeOK, ReachInv, NEW s \in Slots, Subscribe(s) \/ Cancel(s) \/ TokenStep(s)
    PROVE  ReachInv'
<1> USE DEF ReachInv
<1>1. /\ UNCHANGED <<queue, stage, current, served, hits, todo, slot, present>>
      /\ \A r \in Slots \ {s} : token'[r] = token[r] /\ (r \in registered' <=> r \in registered)
      /\ token'[s] = "live" => token[s] = "subscribing" /\ s \in registered'
      /\ token[s] # "drained" /\ (cancelled' = cancelled \/ (cancelled' = cancelled \cup {s} /\ token'[s] = "drained"))
      /\ token'[s] \in {"none", "inert", "subscribing"} => token[s] \in {"none", "subscribing"}
  BY DEF Subscribe, Cancel, TokenStep, Register, Erase, Drain, SetToken, dispatchVars, BusTypeOK
<1>2. OnePlace'
  BY <1>1, KeepPlace DEF OnePlace, Threads
<1>3. WalkInv'
  BY <1>1, KeepWalk DEF Walking
<1>4. GuestInv'
  BY <1>1 DEF GuestInv, ForAll, Wanted, AnyTarget, BusTypeOK
<1>5. DeliveredOnce' /\ NobodyMissed'
  BY <1>1 DEF DeliveredOnce, NobodyMissed, GuestInv, Wanted, AnyTarget, BusTypeOK
<1>6. QED BY <1>2, <1>3, <1>4, <1>5

-----------------------------------------------------------------------------
LEMMA TakeReaches ==
    ASSUME BusTypeOK, ReachInv, NEW t \in Threads, TakeDue(t)
    PROVE  ReachInv'
<1> USE DEF ReachInv
<1>1. PICK i \in Due : current' = [current EXCEPT ![t] = queue[i]] /\ queue' = RemoveAt(queue, i)
  BY DEF TakeDue
<1>2. /\ i \in 1..Len(queue) /\ queue[i] \in Posters /\ queue \in Seq(Posters) /\ Len(queue) \in Nat
      /\ stage[t] = "drain" /\ current[t] = None /\ None \notin Posters
  <2>1. queue \in Seq(Posters) /\ i \in 1..Len(queue) /\ stage[t] = "drain"
    BY DEF Due, BusTypeOK, TakeDue
  <2>2. current[t] = None /\ None \notin Posters
    BY <2>1, BusAssumption DEF OnePlace, Carrying
  <2>3. QED BY <2>1, <2>2
<1>3. PICK m \in Posters : m = queue[i]
  BY <1>2
<1>4. /\ UNCHANGED <<served, hits, todo, slot, present, registered, cancelled, token>>
      /\ \A u \in Threads : stage'[u] = IF u = t THEN "tell" ELSE stage[u]
      /\ \A u \in Threads : current'[u] = IF u = t THEN m ELSE current[u]
  BY <1>1, <1>3 DEF TakeDue, Goes, slotVars, BusTypeOK
<1>5. InQueue(m) /\ m \notin served /\ ~InHand(m) /\ Untouched(m)
  BY <1>2, <1>3 DEF OnePlace, InQueue
<1>6. /\ Len(queue') = Len(queue) - 1
      /\ \A j \in 1..Len(queue') : queue'[j] = queue[IF j < i THEN j ELSE j + 1]
  BY <1>1, <1>2, RemovedAt
<1>7. OnePlace'
  <2>1. \A j, l \in 1..Len(queue') : queue'[j] = queue'[l] => j = l
    <3> SUFFICES ASSUME NEW j \in 1..Len(queue'), NEW l \in 1..Len(queue'), queue'[j] = queue'[l]
                 PROVE  j = l
      OBVIOUS
    <3>1. (IF j < i THEN j ELSE j + 1) \in 1..Len(queue) /\ (IF l < i THEN l ELSE l + 1) \in 1..Len(queue)
      BY <1>2, <1>6
    <3>2. (IF j < i THEN j ELSE j + 1) = (IF l < i THEN l ELSE l + 1)
      BY <1>6, <3>1 DEF OnePlace
    <3>3. QED BY <1>2, <1>6, <3>2
  <2>2. \A x : InQueue(x)' => InQueue(x) /\ x # m
    <3> SUFFICES ASSUME NEW x, NEW j \in 1..Len(queue'), queue'[j] = x
                 PROVE  InQueue(x) /\ x # m
      BY DEF InQueue
    <3> DEFINE k == IF j < i THEN j ELSE j + 1
    <3>1. k \in 1..Len(queue) /\ k # i
      BY <1>2, <1>6
    <3>2. queue[k] = x
      BY <1>6
    <3> HIDE DEF k
    <3>3. QED BY <1>2, <1>3, <3>1, <3>2 DEF InQueue, OnePlace
  <2>3. /\ \A x : Untouched(x)' <=> Untouched(x)
        /\ \A x \in Posters : InHand(x)' => InHand(x) \/ x = m
    BY <1>4 DEF InHand, Untouched
  <2>4. /\ \A u, v \in Threads : current'[u] = current'[v] /\ current'[u] # None => u = v
        /\ \A u \in Threads : current'[u] # None => stage'[u] \in Carrying
    BY <1>4, <1>5 DEF OnePlace, InHand, Carrying
  <2>5. \A x \in Posters : InQueue(x)' => x \notin served' /\ ~InHand(x)' /\ Untouched(x)'
    BY <1>4, <2>2, <2>3 DEF OnePlace
  <2>6. \A x \in Posters : InHand(x)' => x \notin served'
    BY <1>4, <1>5, <2>3 DEF OnePlace
  <2>7. \A p \in Posters : stage'[p] \in NotQueued =>
            p \notin served' /\ ~InHand(p)' /\ ~InQueue(p)' /\ Untouched(p)'
    BY <1>4, <1>5, <2>2, <2>3 DEF OnePlace, NotQueued, Threads
  <2>8. QED BY <2>1, <2>4, <2>5, <2>6, <2>7 DEF OnePlace
<1>8. WalkInv'
  BY <1>4, <1>5 DEF WalkInv, Untouched, Walking
<1>9. QED BY <1>4, <1>7, <1>8, KeepGuests

LEMMA TellReaches ==
    ASSUME BusTypeOK, ReachInv, NEW t \in Threads, Tell(t) \/ FindNoneDue(t)
    PROVE  ReachInv'
<1> USE DEF ReachInv
<1>1. /\ UNCHANGED <<queue, current, served, hits, todo, slot, present, registered, cancelled, token>>
      /\ \A u \in Threads : \/ stage'[u] = stage[u]
                            \/ stage[u] = "blocked" /\ stage'[u] = "woken"
                            \/ stage[u] = "tell" /\ current[u] = None /\ stage'[u] = "drain"
                            \/ stage[u] = "tell" /\ current[u] # None /\ stage'[u] = "snapshot"
                            \/ stage[u] = "drain" /\ stage'[u] \in {"kill", "done"}
  <2>1. CASE Tell(t)
    <3>1. PICK next \in {"drain", "snapshot"} :
            /\ next = IF current[t] = None THEN "drain" ELSE "snapshot"
            /\ \/ stage' = [stage EXCEPT ![t] = next]
               \/ \E p \in Posters : stage[p] = "blocked" /\ stage' = [stage EXCEPT ![t] = next, ![p] = "woken"]
      BY <2>1 DEF Tell, Goes
    <3>2. stage[t] = "tell" /\ stage \in [Threads -> Stages]
      BY <2>1 DEF Tell, BusTypeOK, Stages
    <3>3. QED BY <2>1, <3>1, <3>2 DEF Tell, dispatchVars, slotVars
  <2>2. CASE FindNoneDue(t)
    BY <2>2 DEF FindNoneDue, Goes, dispatchVars, slotVars, BusTypeOK
  <2>3. QED BY <2>1, <2>2
<1>2. Posters \subseteq Threads
  BY DEF Threads
<1>3. OnePlace'
  BY <1>1, <1>2, KeepPlace DEF OnePlace, NotQueued, Carrying
<1>4. WalkInv'
  BY <1>1, KeepWalk DEF Walking
<1>5. QED BY <1>1, <1>3, <1>4, KeepGuests

(* The steps of a walk: only the thread's own place in it changes.         *)
LEMMA WalkPlace ==
    ASSUME OnePlace, UNCHANGED <<queue, current, served, hits>>, NEW t \in Threads,
           stage[t] \in Carrying, stage'[t] \in Carrying,
           \A u \in Threads \ {t} : stage'[u] = stage[u]
    PROVE  OnePlace'
<1>1. \A p \in Posters : stage'[p] \in NotQueued => stage[p] \in NotQueued
  BY DEF NotQueued, Carrying, Threads
<1>2. \A u \in Threads : current[u] # None => stage'[u] \in Carrying
  BY DEF OnePlace
<1>3. QED BY <1>1, <1>2, KeepPlace

LEMMA StepOfWalk ==
    ASSUME BusTypeOK, ReachInv, NEW t \in Threads, Snapshot(t) \/ Enter(t) \/ Return(t)
    PROVE  ReachInv'
<1> USE DEF ReachInv
<1>1. /\ UNCHANGED <<queue, current, served, hits, present, registered, cancelled, token>>
      /\ stage[t] \in Carrying /\ stage'[t] \in Walking
      /\ \A u \in Threads \ {t} : stage'[u] = stage[u] /\ todo'[u] = todo[u] /\ slot'[u] = slot[u]
      /\ current[t] \in Posters
  BY DEF Snapshot, Enter, Return, Goes, slotVars, BusTypeOK, Carrying, Walking
<1>2. PICK m \in Posters : m = current[t]
  BY <1>1
<1>3. OnePlace'
  BY <1>1, WalkPlace DEF Walking, Carrying
<1>4. ASSUME \A s \in Slots :
                /\ s \in todo'[t] => Wanted(s, m) /\ hits[m][s] = 0
                /\ stage'[t] = "entered" /\ slot'[t] = s =>
                      Wanted(s, m) /\ hits[m][s] = 0 /\ s \notin todo'[t]
                /\ s \in present[m] /\ token[s] = "live" =>
                      s \in todo'[t] \/ (stage'[t] = "entered" /\ slot'[t] = s) \/ hits[m][s] = 1
      PROVE  ReachInv'
  <2>1. WalkInv'
    BY <1>1, <1>2, <1>4 DEF WalkInv, Walking, Untouched, Wanted, AnyTarget
  <2>2. QED BY <1>1, <1>3, <2>1, KeepGuests
<1>5. CASE Snapshot(t)
  <2>1. Untouched(m) /\ stage'[t] = "deliver" /\ todo'[t] = {s \in registered : Wanted(s, m)}
    BY <1>2, <1>5 DEF Snapshot, Goes, WalkInv, BusTypeOK
  <2>2. \A s \in Slots : s \in present[m] /\ token[s] = "live" => s \in todo'[t]
    BY <2>1 DEF GuestInv
  <2>3. QED BY <1>4, <2>1, <2>2 DEF Untouched
<1>6. CASE Enter(t)
  <2>1. PICK s \in todo[t] :
            /\ todo'[t] = todo[t] \ {s}
            /\ \/ s \in cancelled /\ UNCHANGED <<slot, stage>>
               \/ slot'[t] = s /\ stage'[t] = "entered"
    BY <1>6 DEF Enter, Goes, BusTypeOK
  <2>2. stage[t] = "deliver"
    BY <1>6 DEF Enter
  <2>3. s \in cancelled => token[s] # "live"
    BY DEF GuestInv
  <2>4. \A r \in Slots :
            /\ r \in todo[t] => Wanted(r, m) /\ hits[m][r] = 0
            /\ r \in present[m] /\ token[r] = "live" => r \in todo[t] \/ hits[m][r] = 1
    BY <1>2, <2>2 DEF WalkInv, Walking
  <2>5. QED BY <1>4, <2>1, <2>2, <2>3, <2>4
<1>7. CASE Return(t)
  <2>1. /\ stage[t] = "running" /\ stage'[t] = "deliver"
        /\ todo'[t] = todo[t] \/ (EndsWithAnswer(m) /\ todo'[t] = {})
    BY <1>2, <1>7 DEF Return, Goes, BusTypeOK
  <2>2. EndsWithAnswer(m) => present[m] = {}
    BY DEF GuestInv, EndsWithAnswer, ForAll, AtRoot, BusTypeOK
  <2>3. \A r \in Slots :
            /\ r \in todo[t] => Wanted(r, m) /\ hits[m][r] = 0
            /\ r \in present[m] /\ token[r] = "live" => r \in todo[t] \/ hits[m][r] = 1
    BY <1>2, <2>1 DEF WalkInv, Walking
  <2>4. QED BY <1>4, <2>1, <2>2, <2>3
<1>8. QED BY <1>5, <1>6, <1>7

LEMMA RunReaches ==
    ASSUME BusTypeOK, ReachInv, NEW t \in Threads, Run(t)
    PROVE  ReachInv'
<1> USE DEF ReachInv
<1>1. /\ UNCHANGED <<queue, current, served, todo, slot, present, registered, cancelled, token>>
      /\ stage[t] = "entered" /\ stage'[t] = "running"
      /\ \A u \in Threads \ {t} : stage'[u] = stage[u]
      /\ current[t] \in Posters /\ slot[t] \in Slots
  BY DEF Run, Goes, slotVars, BusTypeOK
<1>2. PICK m \in Posters, s \in Slots : m = current[t] /\ s = slot[t]
  BY <1>1
<1>3. /\ \A n \in Posters, r \in Slots : n # m \/ r # s => hits'[n][r] = hits[n][r]
      /\ hits'[m][s] = hits[m][s] + 1
  BY <1>2 DEF Run, BusTypeOK
<1>4. hits[m][s] = 0 /\ Wanted(s, m) /\ s \notin todo[t]
  BY <1>1, <1>2 DEF WalkInv, Walking
<1>5. InHand(m) /\ m \notin served /\ ~InQueue(m) /\ stage[m] \notin NotQueued
  BY <1>1, <1>2 DEF OnePlace, InHand
<1>6. \A u \in Threads \ {t} : current[u] # m
  BY <1>2, BusAssumption DEF OnePlace
<1>7. \A n \in Posters \ {m} : Untouched(n)' <=> Untouched(n)
  BY <1>3 DEF Untouched
<1>8. OnePlace'
  <2>1. \A n : (InQueue(n)' <=> InQueue(n)) /\ (InHand(n)' <=> InHand(n))
    BY <1>1 DEF InQueue, InHand
  <2>2. \A p \in Posters : stage'[p] \in NotQueued => stage[p] \in NotQueued /\ p # m
    BY <1>1, <1>5 DEF NotQueued, Threads
  <2>3. /\ \A i, j \in 1..Len(queue') : queue'[i] = queue'[j] => i = j
        /\ \A u, v \in Threads : current'[u] = current'[v] /\ current'[u] # None => u = v
        /\ \A u \in Threads : current'[u] # None => stage'[u] \in Carrying
    BY <1>1 DEF OnePlace, Carrying
  <2>4. \A n \in Posters : InQueue(n)' => n \notin served' /\ ~InHand(n)' /\ Untouched(n)'
    BY <1>1, <1>5, <1>7, <2>1 DEF OnePlace
  <2>5. \A n \in Posters : InHand(n)' => n \notin served'
    BY <1>1, <2>1 DEF OnePlace
  <2>6. \A p \in Posters : stage'[p] \in NotQueued =>
            p \notin served' /\ ~InHand(p)' /\ ~InQueue(p)' /\ Untouched(p)'
    BY <1>1, <1>7, <2>1, <2>2 DEF OnePlace
  <2>7. QED BY <2>3, <2>4, <2>5, <2>6 DEF OnePlace
<1>9. WalkInv'
  <2> SUFFICES ASSUME NEW u \in Threads
      PROVE  /\ stage'[u] = "snapshot" \/ (stage'[u] = "tell" /\ current[u] # None) => Untouched(current[u])'
             /\ stage'[u] \in Walking => \A r \in Slots :
                   /\ r \in todo[u] => Wanted(r, current[u]) /\ hits'[current[u]][r] = 0
                   /\ stage'[u] = "entered" /\ slot[u] = r =>
                         Wanted(r, current[u]) /\ hits'[current[u]][r] = 0 /\ r \notin todo[u]
                   /\ r \in present[current[u]] /\ token[r] = "live" =>
                         r \in todo[u] \/ (stage'[u] = "entered" /\ slot[u] = r) \/ hits'[current[u]][r] = 1
    BY <1>1 DEF WalkInv, Untouched, Wanted, AnyTarget
  <2>1. CASE u = t
    BY <1>1, <1>2, <1>3, <1>4, <2>1 DEF WalkInv, Walking
  <2>2. CASE u # t
    <3>1. stage'[u] \in Walking \/ stage'[u] = "snapshot" \/ (stage'[u] = "tell" /\ current[u] # None) =>
              current[u] \in Posters \ {m}
      BY <1>1, <1>6, <2>2 DEF BusTypeOK, Walking
    <3>2. current[u] \in Posters \ {m} => \A r \in Slots : hits'[current[u]][r] = hits[current[u]][r]
      BY <1>3
    <3>3. current[u] \in Posters \ {m} => (Untouched(current[u])' <=> Untouched(current[u]))
      BY <1>1, <3>2 DEF Untouched
    <3>4. QED BY <1>1, <2>2, <3>1, <3>2, <3>3 DEF WalkInv
  <2>3. QED BY <2>1, <2>2
<1>10. GuestInv' /\ DeliveredOnce' /\ NobodyMissed'
  <2>1. DeliveredOnce'
    BY <1>3, <1>4 DEF DeliveredOnce, Wanted, AnyTarget
  <2>2. NobodyMissed'
    <3>1. \A n \in served : n \in Posters \ {m} /\ present[n] \subseteq Slots
      BY <1>5 DEF BusTypeOK
    <3>2. \A n \in served : \A r \in present[n] : hits'[n][r] = hits[n][r]
      BY <1>3, <3>1
    <3>3. QED BY <1>1, <3>2 DEF NobodyMissed
  <2>3. GuestInv'
    BY <1>1 DEF GuestInv, ForAll, Wanted, AnyTarget
  <2>4. QED BY <2>1, <2>2, <2>3
<1>11. QED BY <1>8, <1>9, <1>10

LEMMA EndReaches ==
    ASSUME BusTypeOK, ReachInv, NEW t \in Threads, EndDispatch(t)
    PROVE  ReachInv'
<1> USE DEF ReachInv
<1>1. /\ UNCHANGED <<queue, todo, slot, hits, present, registered, cancelled, token>>
      /\ stage[t] = "deliver" /\ todo[t] = {} /\ stage'[t] \in {"done", "drain"}
      /\ \A u \in Threads \ {t} : stage'[u] = stage[u] /\ current'[u] = current[u]
      /\ current[t] \in Posters /\ current'[t] = None
  BY DEF EndDispatch, Goes, slotVars, BusTypeOK
<1>2. PICK m \in Posters : m = current[t]
  BY <1>1
<1>3. served' = served \cup {m} /\ None \notin Posters
  BY <1>2, BusAssumption DEF EndDispatch
<1>4. InHand(m) /\ ~InQueue(m) /\ stage[m] \notin NotQueued
  BY <1>2 DEF OnePlace, InHand
<1>5. \A n \in Posters : InHand(n)' => InHand(n) /\ n # m
  BY <1>1, <1>2, <1>3 DEF InHand, OnePlace
<1>6. OnePlace'
  <2>1. \A n : (InQueue(n)' <=> InQueue(n)) /\ (Untouched(n)' <=> Untouched(n))
    BY <1>1 DEF InQueue, Untouched
  <2>2. \A p \in Posters : stage'[p] \in NotQueued => stage[p] \in NotQueued /\ p # m
    BY <1>1, <1>4 DEF NotQueued, Threads
  <2>3. /\ \A i, j \in 1..Len(queue') : queue'[i] = queue'[j] => i = j
        /\ \A u, v \in Threads : current'[u] = current'[v] /\ current'[u] # None => u = v
        /\ \A u \in Threads : current'[u] # None => stage'[u] \in Carrying
    BY <1>1 DEF OnePlace
  <2>4. \A n \in Posters : InQueue(n)' => n \notin served' /\ ~InHand(n)' /\ Untouched(n)'
    BY <1>3, <1>4, <1>5, <2>1 DEF OnePlace
  <2>5. \A n \in Posters : InHand(n)' => n \notin served'
    BY <1>3, <1>5 DEF OnePlace
  <2>6. \A p \in Posters : stage'[p] \in NotQueued =>
            p \notin served' /\ ~InHand(p)' /\ ~InQueue(p)' /\ Untouched(p)'
    BY <1>3, <1>5, <2>1, <2>2 DEF OnePlace
  <2>7. QED BY <2>3, <2>4, <2>5, <2>6 DEF OnePlace
<1>7. WalkInv'
  BY <1>1 DEF WalkInv, Walking, Untouched, Wanted, AnyTarget
<1>8. \A s \in present[m] : token[s] = "live" => hits[m][s] = 1
  BY <1>1, <1>2 DEF WalkInv, Walking, BusTypeOK
<1>9. GuestInv' /\ DeliveredOnce' /\ NobodyMissed'
  BY <1>1, <1>3, <1>8 DEF GuestInv, DeliveredOnce, NobodyMissed, ForAll, Wanted, AnyTarget
<1>10. QED BY <1>6, <1>7, <1>9

LEMMA ReachStep == BusTypeOK /\ ReachInv /\ [BusNext]_busVars => ReachInv'
<1> SUFFICES ASSUME BusTypeOK, ReachInv, [BusNext]_busVars PROVE ReachInv'
  OBVIOUS
<1>1. CASE UNCHANGED busVars
  BY <1>1 DEF busVars, ReachInv, OnePlace, WalkInv, GuestInv, DeliveredOnce, NobodyMissed, InQueue,
              InHand, Untouched, ForAll, Wanted, AnyTarget
<1>2. CASE BusNext
  BY <1>2, PostReaches, QueueReaches, WaitReaches, CloseReaches, TokensReach, TakeReaches, TellReaches,
     StepOfWalk, RunReaches, EndReaches DEF BusNext, PostStep, ServeStep
<1>3. QED BY <1>1, <1>2

(* A message reaches each subscription at most once and only those that    *)
(* want it, and a message to everybody reaches all who were subscribed     *)
(* when it was posted and still are when its dispatch ends: for any number *)
(* of threads, messages and subscriptions, under every configuration.      *)
THEOREM MessagesReachAllOnce == BusSpec => []ReachesAllOnce
<1>1. BusInit => BusTypeOK /\ ReachInv
  BY BusStarts, ReachStarts DEF BusInv
<1>2. BusTypeOK /\ ReachInv /\ [BusNext]_busVars => (BusTypeOK /\ ReachInv)'
  BY TypesAreKept, ReachStep
<1>3. ReachInv => ReachesAllOnce
  BY DEF ReachInv, ReachesAllOnce
<1>4. QED BY <1>1, <1>2, <1>3, PTL DEF BusSpec
=============================================================================
