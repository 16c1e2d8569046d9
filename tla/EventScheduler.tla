--------------------------- MODULE EventScheduler ---------------------------
(***************************************************************************)
(* vigine::eventscheduler::DefaultEventScheduler over its two sources.     *)
(* An event is named by its call of schedule(): a timer or a watcher of a  *)
(* signal.  schedule() looks at the shut-down flag, arms the source and    *)
(* files the event, in that order and without a lock around them; the      *)
(* handle it returns only lowers a flag and disarms; callbacks look their  *)
(* event up under the lock and call the raw target without it.             *)
(***************************************************************************)
EXTENDS EventSources

CONSTANT Reentrant   \* the events with rescheduleWhileRunning

Events == Timers \cup Watchers

ASSUME SchedulerAssumption == Timers \cap Watchers = {} /\ Reentrant \subseteq Timers

VARIABLES
    call,        \* where the call of schedule() is
    active,      \* ScheduledEvent::active
    filed,       \* the events in byTimer and byOsSignal
    fireCount,   \* ScheduledEvent::fireCount
    inFlight,    \* the events with ScheduledEvent::inFlight
    handle,      \* "none", "held", "lowered" inside cancel(), "cancelled"
    shutting,    \* shutdown(): "open", "flagged", "closed"
    stage,       \* where the timer thread is in onTimerFired
    matches,     \* the events the reader still calls in this onOsSignal
    late,        \* history: deliveries begun after cancel() had returned
    called       \* history: the timers whose callback ran

schedulerVars == <<sourceVars, signalVars, call, active, filed, fireCount, inFlight,
                   handle, shutting, stage, matches, late, called>>

(* `asked`: the events somebody may schedule in a behaviour.  One without  *)
(* watchers has a signal source without a pipe.                            *)
SchedulerInit(asked) ==
    /\ SourceInit /\ SignalsInit(asked \cap Watchers # {})
    /\ call = [e \in Events |-> IF e \in asked THEN "new" ELSE "refused"]
    /\ active = [e \in Events |-> TRUE]
    /\ filed = {}
    /\ fireCount = [t \in Timers |-> 0]
    /\ inFlight = {}
    /\ handle = [e \in Events |-> "none"]
    /\ shutting = "open"
    /\ stage = "lookup"
    /\ matches = {}
    /\ late = [e \in Events |-> 0]
    /\ called = {}

-----------------------------------------------------------------------------
(* schedule()                                                              *)

LookAtFlag(e) ==
    /\ call[e] = "new"
    /\ shutting = "open"
    /\ call' = [call EXCEPT ![e] = "checked"]
    /\ UNCHANGED <<sourceVars, signalVars, active, filed, fireCount, inFlight, handle,
                   shutting, stage, matches, late, called>>

ArmSource(e) ==
    /\ call[e] = "checked"
    /\ IF e \in Timers
       THEN /\ Arm(e)
            /\ call' = [call EXCEPT ![e] = "armed"]
            /\ UNCHANGED signalVars
       ELSE /\ AddPair(e)
            /\ call' = [call EXCEPT ![e] = IF Supported(e) THEN "armed" ELSE "refused"]
            /\ UNCHANGED <<sourceVars, pipe, heard, rounds, reader>>
    /\ UNCHANGED <<active, filed, fireCount, inFlight, handle, shutting, stage,
                   matches, late, called>>

File(e) ==
    /\ call[e] = "armed"
    /\ filed' = filed \cup {e}
    /\ call' = [call EXCEPT ![e] = "returned"]
    /\ handle' = [handle EXCEPT ![e] = "held"]
    /\ UNCHANGED <<sourceVars, signalVars, active, fireCount, inFlight, shutting,
                   stage, matches, late, called>>

-----------------------------------------------------------------------------
(* The handle: cancel(), or its destructor.                                *)

LowerFlag(e) ==
    /\ handle[e] = "held"
    /\ handle' = [handle EXCEPT ![e] = "lowered"]
    /\ active' = [active EXCEPT ![e] = FALSE]
    /\ UNCHANGED <<sourceVars, signalVars, call, filed, fireCount, inFlight, shutting,
                   stage, matches, late, called>>

(* Mutant: the flag-only cancellation a comment of the code remembers.     *)
LeaveArmed(e) ==
    /\ handle[e] = "lowered"
    /\ handle' = [handle EXCEPT ![e] = "cancelled"]
    /\ UNCHANGED <<sourceVars, signalVars, call, active, filed, fireCount, inFlight,
                   shutting, stage, matches, late, called>>

(* Events that wait for a signal have no timer id and stay subscribed.     *)
DisarmHandle(e) ==
    /\ handle[e] = "lowered"
    /\ handle' = [handle EXCEPT ![e] = "cancelled"]
    /\ IF e \in Timers THEN Disarm({e}) ELSE UNCHANGED sourceVars
    /\ UNCHANGED <<signalVars, call, active, filed, fireCount, inFlight, shutting,
                   stage, matches, late, called>>

-----------------------------------------------------------------------------
(* shutdown(): the flag, then all events that are filed, under the lock.   *)

RaiseShutdown ==
    /\ shutting = "open"
    /\ shutting' = "flagged"
    /\ UNCHANGED <<sourceVars, signalVars, call, active, filed, fireCount, inFlight,
                   handle, stage, matches, late, called>>

Sweep ==
    /\ shutting = "flagged"
    /\ shutting' = "closed"
    /\ active' = [e \in Events |-> active[e] /\ e \notin filed]
    /\ Disarm(filed \cap Timers)
    /\ listeners' = WithoutPairs({SignalOf[w] : w \in filed \cap Watchers})
    /\ filed' = {}
    /\ UNCHANGED <<pipe, heard, rounds, reader, call, fireCount, inFlight, handle,
                   stage, matches, late, called>>

-----------------------------------------------------------------------------
(* onTimerFired(), on the timer thread.                                    *)

BeginCallback(t) ==
    /\ CallBack(t)
    /\ called' = called \cup {t}
    /\ UNCHANGED <<signalVars, call, active, filed, fireCount, inFlight, handle,
                   shutting, stage, matches, late>>

Return == calling' = None /\ stage' = "lookup"

Lookup ==
    /\ calling # None /\ stage = "lookup"
    /\ IF calling \in filed THEN stage' = "gate" /\ UNCHANGED calling ELSE Return
    /\ UNCHANGED <<timer, left, fired, stop, loop, wake, toFire, signalVars, call,
                   active, filed, fireCount, inFlight, handle, shutting, matches, late,
                   called>>

(* The event is active, not in flight unless it may be, and below its      *)
(* count: the callback goes on to deliver.                                 *)
PassGate ==
    LET t == calling IN
    /\ t # None /\ stage = "gate"
    /\ active[t]
    /\ t \in Reentrant \/ t \notin inFlight
    /\ Count[t] # 0 => fireCount[t] < Count[t]
    /\ inFlight' = IF t \in Reentrant THEN inFlight ELSE inFlight \cup {t}
    /\ fireCount' = [fireCount EXCEPT ![t] = IF Count[t] = 0 THEN @ ELSE @ + 1]
    /\ stage' = "deliver"
    /\ UNCHANGED <<sourceVars, signalVars, call, active, filed, handle, shutting,
                   matches, late, called>>

StopAtGate ==
    LET t == calling
        busy == t \notin Reentrant /\ t \in inFlight
    IN
    /\ t # None /\ stage = "gate"
    /\ \/ ~active[t] /\ UNCHANGED <<active, inFlight, fireCount>>
       \/ active[t] /\ busy /\ UNCHANGED <<active, inFlight, fireCount>>
       \/ /\ active[t] /\ ~busy
          /\ Count[t] # 0 /\ fireCount[t] >= Count[t]
          /\ active' = [active EXCEPT ![t] = FALSE]
          /\ inFlight' = inFlight \ {t}
          /\ UNCHANGED fireCount
    /\ Return
    /\ UNCHANGED <<timer, left, fired, stop, loop, wake, toFire, signalVars, call,
                   filed, handle, shutting, matches, late, called>>

Counted(e) ==
    late' = [late EXCEPT ![e] = IF handle[e] = "cancelled" /\ @ < 2 THEN @ + 1 ELSE @]

(* target->onMessage, and what follows it.                                 *)
Deliver ==
    LET t == calling IN
    /\ t # None /\ stage = "deliver"
    /\ Counted(t)
    /\ inFlight' = inFlight \ {t}
    /\ active' = [active EXCEPT ![t] = @ /\ Period[t] # 0]
    /\ Return
    /\ UNCHANGED <<timer, left, fired, stop, loop, wake, toFire, signalVars, call,
                   filed, fireCount, handle, shutting, matches, called>>

-----------------------------------------------------------------------------
(* onOsSignal(), on the reader's thread.                                   *)

(* Mutant: a cancelled event matches as long as it is filed.               *)
MatchingFiled == {w \in filed \cap Watchers : SignalOf[w] = heard}

Matching == {w \in filed \cap Watchers : SignalOf[w] = heard /\ active[w]}

EnterOnSignal ==
    /\ heard # NoSignal
    /\ matches = {}
    /\ rounds > 0
    /\ matches' = Matching
    /\ rounds' = rounds - 1
    /\ heard' = IF rounds' = 0 /\ matches' = {} THEN NoSignal ELSE heard
    /\ UNCHANGED <<sourceVars, listeners, pipe, reader, call, active, filed, fireCount,
                   inFlight, handle, shutting, stage, late, called>>

DeliverSignal(w) ==
    /\ w \in matches
    /\ Counted(w)
    /\ matches' = matches \ {w}
    /\ heard' = IF rounds = 0 /\ matches' = {} THEN NoSignal ELSE heard
    /\ UNCHANGED <<sourceVars, listeners, pipe, rounds, reader, call, active, filed,
                   fireCount, inFlight, handle, shutting, stage, called>>

-----------------------------------------------------------------------------
OthersOfSource == <<signalVars, call, active, filed, fireCount, inFlight, handle,
                    shutting, stage, matches, late, called>>
OthersOfSignals == <<sourceVars, call, active, filed, fireCount, inFlight, handle,
                     shutting, stage, matches, late, called>>

ThreadStep ==
    \/ (Scan \/ Unpark \/ WakeUp \/ NextPass) /\ UNCHANGED OthersOfSource
    \/ \E t \in Timers : BeginCallback(t)
    \/ Lookup \/ PassGate \/ StopAtGate \/ Deliver

ReaderStep ==
    \/ (ReadSignal \/ ReadSentinel) /\ UNCHANGED OthersOfSignals
    \/ EnterOnSignal
    \/ \E w \in Watchers : DeliverSignal(w)

ClockStep == Tick /\ UNCHANGED OthersOfSource

SchedulerNext ==
    \/ \E e \in Events : \/ LookAtFlag(e) \/ ArmSource(e) \/ File(e)
                         \/ LowerFlag(e) \/ DisarmHandle(e)
    \/ RaiseShutdown \/ Sweep
    \/ ThreadStep \/ ReaderStep \/ ClockStep
    \/ Stop /\ UNCHANGED OthersOfSource
    \/ shutting = "closed" /\ StopReader /\ UNCHANGED OthersOfSignals
    \/ \E sig \in Signals : Raise(sig) /\ UNCHANGED OthersOfSignals

(* Time passes, and the operating system runs the two threads.             *)
SchedulerFairness ==
    /\ WF_schedulerVars(ThreadStep)
    /\ WF_schedulerVars(ReaderStep)
    /\ WF_schedulerVars(ClockStep)

-----------------------------------------------------------------------------
(* "no further fires will be delivered (in-flight delivery may still       *)
(* complete)": after cancel() returned an event is delivered at most once  *)
(* more, be it by a timer that was collected, by a signal that is walked   *)
(* over or, for a signal with several watchers, in a later round.          *)
CancelledGoesQuiet == \A e \in Events : late[e] <= 1

(* When the scheduler is shut down and all handles are gone no timer is    *)
(* left armed, although a schedule() that raced the shutdown arms one the  *)
(* shutdown does not know.                                                 *)
NothingArmedAtTheEnd ==
    /\ shutting = "closed"
    /\ \A e \in Events : \/ handle[e] = "cancelled"
                         \/ call[e] \in {"new", "refused"}
    => TimersIn({"active"}) = {}

Dropped(e) == handle[e] \in {"lowered", "cancelled"} \/ shutting # "open" \/ stop

(* A timer in the company of an unlimited periodic one gets its callback:  *)
(* the thread always has another instant to wait for, and runs what it     *)
(* collected when that instant is reached.                                 *)
TimerInCompanyFires ==
    \A t, p \in Timers :
        Period[p] # 0 /\ Count[p] = 0 =>
            (timer[t] = "active" /\ timer[p] = "active"
                ~> t \in called \/ Dropped(t) \/ Dropped(p))

(* The destructor of the signal source gets its reader thread back,        *)
(* whatever the thread was calling and however full the pipe was.          *)
ReaderIsJoined == reader = "joined" ~> reader = "ended"

(* "Arms a one-shot timer that fires after delay": any armed timer does.   *)
ArmedTimerFires ==
    \A t \in Timers : timer[t] = "active" ~> t \in called \/ Dropped(t)
=============================================================================
