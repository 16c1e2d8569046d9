-------------------------- MODULE MCEventScheduler --------------------------
(***************************************************************************)
(* What threads wait in: the event scheduler with its timer source and its *)
(* signal source, the engine with its pump and the context's registries,   *)
(* the barrier, the semaphore and the message channel.  They share         *)
(* nothing, so one of them moves in each behaviour and the others rest: of *)
(* what is fair only the timer thread could make a step where it rests.    *)
(*                                                                         *)
(* The timers are an unlimited periodic one, one of two fires and a        *)
(* one-shot; the watchers are two of one signal.  A behaviour asks for the *)
(* events of one of the sets of Askable: timers and watchers share nothing *)
(* but the shutdown.                                                       *)
(***************************************************************************)
EXTENDS EventScheduler, Engine, DefaultBarrier, DefaultSemaphore, DefaultMessageChannel,
        TLC

CONSTANTS
    Movers,                     \* the components that move in this run
    every, twice, once, w1, w2, term, Askable,
    p1, p2, p3, p4, u1, u2, u3, u4, s1, s2, r1, r2

VARIABLE moving

syncVars == <<barrierVars, semaphoreVars, channelVars>>

MCPeriod == (every :> 1) @@ (twice :> 2) @@ (once :> 0)
MCDelay  == (every :> 1) @@ (twice :> 2) @@ (once :> 2)
MCCount  == (every :> 0) @@ (twice :> 2) @@ (once :> 1)
MCSignal == [w \in {w1, w2} |-> term]

Init ==
    /\ moving \in Movers
    /\ \E events \in IF moving = "scheduler" THEN Askable ELSE {{}} : SchedulerInit(events)
    /\ EngineInit /\ BarrierInit /\ SemaphoreInit /\ ChannelInit

Next ==
    /\ moving' = moving
    /\ \/ moving = "scheduler" /\ SchedulerNext /\ UNCHANGED <<engineVars, syncVars>>
       \/ moving = "engine" /\ EngineNext /\ UNCHANGED <<schedulerVars, syncVars>>
       \/ moving = "buses" /\ BusesNext /\ UNCHANGED <<schedulerVars, syncVars>>
       \/ /\ moving = "barrier" /\ BarrierNext
          /\ UNCHANGED <<schedulerVars, engineVars, semaphoreVars, channelVars>>
       \/ /\ moving = "semaphore" /\ SemaphoreNext
          /\ UNCHANGED <<schedulerVars, engineVars, barrierVars, channelVars>>
       \/ /\ moving = "channel" /\ ChannelNext
          /\ UNCHANGED <<schedulerVars, engineVars, barrierVars, semaphoreVars>>

(* The operating system runs every thread that is in the middle of a call; *)
(* nothing says that any thread makes another call.                        *)
CallGoesOn(t) ==
    thread[t] # "idle" /\ IF t \in Senders THEN SenderStep(t) ELSE ReceiverStep(t)
CloseGoesOn == WakeSenders \/ WakeReceivers
ChannelFairness ==
    /\ \A t \in Threads : WF_channelVars(CallGoesOn(t))
    /\ WF_channelVars(CloseGoesOn)

Spec ==
    /\ Init /\ [][Next]_<<schedulerVars, engineVars, syncVars, moving>>
    /\ moving = "scheduler" => SchedulerFairness
    /\ EngineFairness /\ ChannelFairness

-----------------------------------------------------------------------------
(* An event that is cancelled, or whose scheduler is shut down, goes quiet *)
(* in its table and in both sources (DefaultEventScheduler).               *)
QuietMeansQuiet == CancelledGoesQuiet /\ NothingArmedAtTheEnd

(* What time brings comes: a timer that an unlimited periodic one keeps    *)
(* company fires (timerLoop), the signal source's destructor gets its      *)
(* reader back (readerLoop), and run() returns once shutdown() was called  *)
(* (AbstractEngine::run).                                                  *)
WaitsEnd == TimerInCompanyFires /\ ReaderIsJoined /\ EngineStops

(* "waiting senders and receivers wake up": no call that waits when the    *)
(* channel is closed waits for ever, and none puts anything in.            *)
ClosedReleasesAll ==
    \A t \in Threads :
        closed /\ thread[t] \in {"asleep", "awake", "late"} ~> thread[t] = "idle"
CloseIsFinal == NothingEntersAfterClose /\ ClosedReleasesAll
=============================================================================
