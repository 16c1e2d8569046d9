------------------------------ MODULE MCFacades -----------------------------
(***************************************************************************)
(* The facades over the bus and the threads in one run: request bus, actor *)
(* host, reactive stream, pipelines and channels, bus targets, topic bus.  *)
(* They share nothing but what their modules abstract, so one of them      *)
(* moves in each behaviour and the others rest in their initial states, in *)
(* which no action that is fair is enabled.                                *)
(***************************************************************************)
EXTENDS RequestBus, ActorHost, ReactiveStream, PipelineBuilder, BusTargets, TopicBus, TLC

CONSTANTS
    Foci,                       \* the components that move in this run
    bus1, r1, r2, d1, d2, a1, c1, c2, ch1, out, feed, send, send2, odd, longwait, poll

VARIABLE focus

facadeVars == <<requestVars, actorVars, streamVars, pipelineVars, targetVars, topicVars,
                focus>>

MCCarrier == [b \in RequestBuses |-> b]
MCTopic == [x \in Requests \cup Responders |-> IF x \in {r1, d2} THEN "A" ELSE "B"]
MCIssuer == [r \in Requests |-> bus1]
MCAddressee == [m \in Mail |-> a1]
MCTarget == [s \in Stoppers |-> a1]
MCCapacity == [c \in Channels |-> IF c = ch1 THEN 1 ELSE 0]
MCOn == [k \in ChannelCalls |-> IF k \in {send, send2, odd, longwait} THEN ch1 ELSE out]
MCTimeoutMs == [k \in ChannelCalls |-> IF k = send2 THEN 1 ELSE -1]
MCHash == [n \in Topics |-> CASE n = "a" -> 0 [] n = "b" -> 1 [] n = "c" -> 3]

Init ==
    /\ RequestInit /\ ActorInit /\ StreamInit /\ PipelineInit /\ TargetInit /\ TopicInit
    /\ focus \in Foci
    /\ standing = IF focus = "request" THEN <<d1, d2>> ELSE <<>>

Next ==
    /\ focus' = focus
    /\ \/ /\ focus = "request" /\ RequestNext
          /\ UNCHANGED <<actorVars, streamVars, pipelineVars, targetVars, topicVars>>
       \/ /\ focus = "respond" /\ RespondNext
          /\ UNCHANGED <<actorVars, streamVars, pipelineVars, targetVars, topicVars>>
       \/ /\ focus = "actor" /\ ActorNext
          /\ UNCHANGED <<requestVars, streamVars, pipelineVars, targetVars, topicVars>>
       \/ /\ focus = "stream" /\ StreamNext
          /\ UNCHANGED <<requestVars, actorVars, pipelineVars, targetVars, topicVars>>
       \/ /\ focus = "channel" /\ PipelineNext
          /\ UNCHANGED <<requestVars, actorVars, streamVars, targetVars, topicVars>>
       \/ /\ focus = "target" /\ TargetNext
          /\ UNCHANGED <<requestVars, actorVars, streamVars, pipelineVars, topicVars>>
       \/ /\ focus = "topic" /\ TopicNext
          /\ UNCHANGED <<requestVars, actorVars, streamVars, pipelineVars, targetVars>>

Spec == Init /\ [][Next]_facadeVars /\ RequestFairness

-----------------------------------------------------------------------------
(* What is put in comes out once, in its order and to whom it was meant:   *)
(* of a reactive stream and of a channel (DefaultSubscription, Channel).   *)
StreamsAndChannelsAreExact == StreamIsExact /\ ChannelsAreSound

(* What an id was issued for is what it finds: a bus target and its slot,  *)
(* a topic and its name (AbstractMessageTarget, TopicRegistry).            *)
IdsAreExact == IdFindsItsTarget /\ TopicsStayApart
=============================================================================
