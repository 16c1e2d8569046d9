--------------------------- MODULE PipelineBuilder --------------------------
(***************************************************************************)
(* vigine::pipelinebuilder: a builder that collects stages and makes them  *)
(* a pipeline once, with an unbounded channel from the channel factory as  *)
(* its drain.  feed() runs the stages on the calling thread and sends what *)
(* is left, without a time limit; the channel is the one ChannelFactory    *)
(* describes, so a shutdown of the factory closes the drain as well.       *)
(***************************************************************************)
EXTENDS ChannelFactory

CONSTANTS
    Drain,       \* the call of create() that build() makes
    Feeders,     \* the calls of feed(); the last thing each does is a send
    MaxStages    \* bound of the model

ASSUME PipelineAssumption ==
    /\ Drain \in Channels \ Bounded /\ Capacity[Drain] = 0
    /\ Feeders \subseteq Sends \ (Tries \cup Mistyped)
    /\ \A f \in Feeders : On[f] = Drain /\ TimeoutMs[f] = -1

VARIABLES
    stages,      \* how many stages the builder, or the pipeline, has
    builder,     \* "open", "building" (inside create()), "built"
    pipeDown,    \* DefaultPipeline::_shutdown
    passed       \* the stages each feed has passed; -1 before and after it

pipelineVars == <<factoryVars, stages, builder, pipeDown, passed>>

PipelineInit ==
    /\ FactoryInit
    /\ stages = 0 /\ builder = "open" /\ pipeDown = FALSE
    /\ passed = [f \in Feeders |-> -1]

AddStage ==
    /\ builder = "open"
    /\ stages < MaxStages
    /\ stages' = stages + 1
    /\ UNCHANGED <<factoryVars, builder, pipeDown, passed>>

(* build(): refused without stages, and the builder stays as it was when   *)
(* the factory refuses the channel.                                        *)
Build ==
    /\ builder = "open"
    /\ stages > 0
    /\ CheckCreate(Drain)
    /\ builder' = IF channel'[Drain] = "checked" THEN "building" ELSE "open"
    /\ UNCHANGED <<stages, pipeDown, passed>>

FinishBuild ==
    /\ builder = "building"
    /\ RegisterChannel(Drain)
    /\ builder' = "built"
    /\ UNCHANGED <<stages, pipeDown, passed>>

StartFeed(f) ==
    /\ builder = "built" /\ channel[Drain] = "open"
    /\ outcome[f] = "new" /\ passed[f] = -1
    /\ ~pipeDown
    /\ passed' = [passed EXCEPT ![f] = 0]
    /\ UNCHANGED <<factoryVars, stages, builder, pipeDown>>

(* A stage may drop the item.                                              *)
PassStage(f) ==
    /\ passed[f] \in 0 .. stages - 1
    /\ \/ /\ passed' = [passed EXCEPT ![f] = @ + 1]
          /\ UNCHANGED factoryVars
       \/ /\ passed' = [passed EXCEPT ![f] = -1]
          /\ outcome' = [outcome EXCEPT ![f] = "done"]
          /\ UNCHANGED <<channel, liveChannels, shutChannels, items, sent, taken,
                         factory, toClose>>
    /\ UNCHANGED <<stages, builder, pipeDown>>

SendOut(f) ==
    /\ passed[f] = stages
    /\ CallChannel(f)
    /\ passed' = [passed EXCEPT ![f] = -1]
    /\ UNCHANGED <<stages, builder, pipeDown>>

(* shutdown(): the flag, then the channel.                                 *)
RaisePipeDown ==
    /\ builder = "built"
    /\ ~pipeDown
    /\ pipeDown' = TRUE
    /\ UNCHANGED <<factoryVars, stages, builder, passed>>

CloseDrain ==
    /\ pipeDown
    /\ CloseChannel(Drain)
    /\ UNCHANGED <<stages, builder, pipeDown, passed>>

(* ~DefaultPipeline() after shutdown(), with no feed() in progress.        *)
DropPipeline ==
    /\ pipeDown /\ Drain \in shutChannels
    /\ \A f \in Feeders : passed[f] = -1
    /\ BeginDestroy(Drain)
    /\ UNCHANGED <<stages, builder, pipeDown, passed>>

OthersOfFactory ==
    \/ FactoryStep
    \/ \E c \in Channels \ {Drain} : OwnerStep(c)
    \/ \E k \in ChannelCalls \ Feeders : CallChannel(k)

PipelineNext ==
    \/ AddStage \/ Build \/ FinishBuild
    \/ RaisePipeDown \/ CloseDrain \/ DropPipeline
    \/ \E f \in Feeders : StartFeed(f) \/ PassStage(f) \/ SendOut(f)
    \/ OthersOfFactory /\ UNCHANGED <<stages, builder, pipeDown, passed>>
=============================================================================
