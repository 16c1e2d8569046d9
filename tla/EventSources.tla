---------------------------- MODULE EventSources -----------------------------
(***************************************************************************)
(* The two sources of an event scheduler.                                  *)
(*                                                                         *)
(* vigine::eventscheduler::DefaultTimerSource: armed timers in a vector    *)
(* under one mutex, and a thread that collects those that are due, waits   *)
(* for the next one and only then runs the callbacks it has collected.     *)
(* Time is relative: `left` and `wake` count the ticks to an instant and   *)
(* stay at 0 once it has passed, so behaviours may go on for ever.         *)
(*                                                                         *)
(* The operating-system signal sources (POSIX, macOS, Windows): a vector   *)
(* of (signal, listener) pairs under a mutex, a pipe the signal handler    *)
(* writes to, and a reader thread that copies the vector and calls every   *)
(* listener of the signal, once per pair, outside the mutex.  On Windows   *)
(* the console thread plays the reader and the pipe holds one signal.      *)
(* There is one listener here, the event scheduler: a pair is named by the *)
(* event it was added for.                                                 *)
(***************************************************************************)
EXTENDS Integers, Sequences, FiniteSets, FiniteSetsExt

(* DefaultTimerSource                                                      *)

CONSTANTS
    Timers,      \* the calls of armOneShot() and armPeriodic(), by timer id
    Period,      \* [Timers -> Nat], 0 for one-shot timers
    Delay,       \* [Timers -> Nat \ {0}], the first interval: delay or period
    Count,       \* [Timers -> Nat], 0 for no limit
    MaxFired,    \* bound of the model: `fired` is not counted beyond it
    None

ASSUME TimerAssumption ==
    /\ Period \in [Timers -> Nat]
    /\ Delay \in [Timers -> Nat \ {0}]
    /\ Count \in [Timers -> Nat]
    /\ \A t \in Timers : Period[t] # 0 => Delay[t] = Period[t]
    /\ \A t \in Timers : Period[t] = 0 => Count[t] = 1
    /\ MaxFired \in Nat /\ \A t \in Timers : Count[t] < MaxFired
    /\ None \notin Timers

VARIABLES
    timer,     \* "new", in _timers "active" or "inactive", or "gone" from it
    left,      \* nextFire, as the ticks that are left
    fired,     \* TimerEntry::fired
    stop,      \* _stop
    loop,      \* where the thread is in run()
    wake,      \* nextWakeup, as the ticks that are left
    toFire,    \* the callbacks collected in this pass
    calling    \* the timer whose onTimerFired runs, or None

sourceVars == <<timer, left, fired, stop, loop, wake, toFire, calling>>

TimersIn(states) == {t \in Timers : timer[t] \in states}

SourceInit ==
    /\ timer = [t \in Timers |-> "new"]
    /\ left = [t \in Timers |-> 0]
    /\ fired = [t \in Timers |-> 0]
    /\ stop = FALSE
    /\ loop = "scan"
    /\ wake = 0
    /\ toFire = {}
    /\ calling = None

(* The steady clock.                                                       *)
Tick ==
    /\ \/ wake > 0
       \/ \E t \in TimersIn({"active"}) : left[t] > 0
    /\ wake' = IF wake > 0 THEN wake - 1 ELSE 0
    /\ left' = [t \in Timers |-> IF left[t] > 0 THEN left[t] - 1 ELSE 0]
    /\ UNCHANGED <<timer, fired, stop, loop, toFire, calling>>

(* armOneShot(), armPeriodic().  The notification wakes the thread when it *)
(* waits for any timer (its predicate, in Unpark, holds from now on); when *)
(* it waits for an instant its predicate is _stop alone and it sleeps on.  *)
Arm(t) ==
    /\ timer[t] = "new"
    /\ timer' = [timer EXCEPT ![t] = "active"]
    /\ left' = [left EXCEPT ![t] = Delay[t]]
    /\ UNCHANGED <<fired, stop, loop, wake, toFire, calling>>

Disarmed(ts) ==
    [t \in Timers |-> IF t \in ts /\ timer[t] = "active" THEN "inactive" ELSE timer[t]]

Disarm(ts) ==
    /\ timer' = Disarmed(ts)
    /\ UNCHANGED <<left, fired, stop, loop, wake, toFire, calling>>

DueTimers == {t \in TimersIn({"active"}) : left[t] = 0}
Exhausted(t) == Period[t] = 0 \/ (Count[t] # 0 /\ fired[t] + 1 >= Count[t])

(* What a pass under the mutex does to the entries: erase the inactive     *)
(* ones, collect, count, and put back or deactivate those collected.       *)
Scanned ==
    [t \in Timers |-> CASE timer[t] = "inactive" -> "gone"
                        [] t \in DueTimers /\ Exhausted(t) -> "inactive"
                        [] OTHER -> timer[t]]

Scan ==
    /\ loop = "scan"
    /\ timer' = Scanned
    /\ toFire' = DueTimers
    /\ fired' = [t \in Timers |-> IF t \in DueTimers /\ fired[t] < MaxFired
                                  THEN fired[t] + 1 ELSE fired[t]]
    /\ left' = [t \in Timers |-> IF t \in DueTimers /\ ~Exhausted(t)
                                 THEN Period[t] ELSE left[t]]
    /\ LET armed == {t \in Timers : timer'[t] = "active"}
           kept  == {t \in Timers : timer'[t] \in {"active", "inactive"}}
       IN  /\ loop' = CASE stop /\ kept = {} -> "ended"
                        [] armed = {} -> "parked"
                        [] OTHER -> "asleep"
           /\ wake' = IF armed = {} THEN 0 ELSE Min({left'[t] : t \in armed})
    /\ UNCHANGED <<stop, calling>>

(* The wait without a deadline ends: `continue` and `break` alike leave    *)
(* the pass, and what it had collected is forgotten.                       *)
Unpark ==
    /\ loop = "parked"
    /\ stop \/ TimersIn({"active", "inactive"}) # {}
    /\ loop' = IF stop THEN "ended" ELSE "scan"
    /\ toFire' = {}
    /\ UNCHANGED <<timer, left, fired, stop, wake, calling>>

(* Mutant: this wait, too, is followed by another pass.                    *)
WakeAndRescan ==
    /\ loop = "asleep"
    /\ stop \/ wake = 0
    /\ loop' = IF stop THEN "ended" ELSE "scan"
    /\ toFire' = {}
    /\ UNCHANGED <<timer, left, fired, stop, wake, calling>>

(* wait_until(nextWakeup) ends, at the instant or because of _stop.        *)
WakeUp ==
    /\ loop = "asleep"
    /\ stop \/ wake = 0
    /\ loop' = IF stop THEN "ended" ELSE "fire"
    /\ toFire' = IF stop THEN {} ELSE toFire
    /\ UNCHANGED <<timer, left, fired, stop, wake, calling>>

(* The callbacks, outside the mutex, one after another.                    *)
CallBack(t) ==
    /\ loop = "fire"
    /\ calling = None
    /\ t \in toFire
    /\ calling' = t
    /\ toFire' = toFire \ {t}
    /\ UNCHANGED <<timer, left, fired, stop, loop, wake>>

NextPass ==
    /\ loop = "fire"
    /\ calling = None
    /\ toFire = {}
    /\ loop' = "scan"
    /\ UNCHANGED <<timer, left, fired, stop, wake, toFire, calling>>

(* The destructor, up to its join.                                         *)
Stop ==
    /\ ~stop
    /\ stop' = TRUE
    /\ UNCHANGED <<timer, left, fired, loop, wake, toFire, calling>>

TimerThread ==
    Scan \/ Unpark \/ WakeUp \/ NextPass \/ \E t \in Timers : CallBack(t)

-----------------------------------------------------------------------------
(* The signal sources                                                      *)

CONSTANTS
    Watchers,     \* the events that wait for a signal
    SignalOf,     \* [Watchers -> the signal]
    Unsupported,  \* the signals subscribe() refuses: User1 and User2 on Windows
    PipeRoom,     \* signals the pipe can hold
    NoSignal

VARIABLES
    listeners,   \* _listeners
    pipe,        \* the signals written and not yet read
    heard,       \* the signal the reader is at, or NoSignal
    rounds,      \* the calls of onOsSignal left of the reader's snapshot
    reader       \* the reader thread: "none", "running", "joined" while the
                 \*   destructor waits for it, "ended"

signalVars == <<listeners, pipe, heard, rounds, reader>>

Sentinel == "sentinel"

Signals == {SignalOf[w] : w \in Watchers}
PairsOf(sig) == {w \in listeners : SignalOf[w] = sig}

(* A source that cannot make its pipe has no handlers and no reader.       *)
SignalsInit(piped) ==
    /\ listeners = {} /\ pipe = <<>>
    /\ heard = NoSignal /\ rounds = 0 /\ reader = IF piped THEN "running" ELSE "none"

(* subscribe(): returns whether the pair was added.                        *)
Supported(w) == SignalOf[w] \notin Unsupported
AddPair(w) == listeners' = IF Supported(w) THEN listeners \cup {w} ELSE listeners

(* unsubscribe() removes every pair of the signal and the listener.        *)
WithoutPairs(sigs) == {w \in listeners : SignalOf[w] \notin sigs}

(* The handler's write; a full pipe drops it (or, on Linux, blocks).       *)
Raise(sig) ==
    /\ reader = "running" /\ Len(pipe) < PipeRoom
    /\ pipe' = Append(pipe, sig)
    /\ UNCHANGED <<listeners, heard, rounds, reader>>

(* The destructor: the handlers go, the sentinel is written behind what is *)
(* in the pipe, and the reader thread is joined.                           *)
StopReader ==
    /\ reader = "running" /\ Len(pipe) < PipeRoom
    /\ pipe' = Append(pipe, Sentinel) /\ reader' = "joined"
    /\ UNCHANGED <<listeners, heard, rounds>>

ReadSentinel ==
    /\ heard = NoSignal /\ pipe # <<>> /\ Head(pipe) = Sentinel
    /\ pipe' = Tail(pipe) /\ reader' = "ended"
    /\ UNCHANGED <<listeners, heard, rounds>>

(* The reader takes a signal and its snapshot of the pairs.                *)
ReadSignal ==
    /\ heard = NoSignal
    /\ pipe # <<>> /\ Head(pipe) # Sentinel
    /\ pipe' = Tail(pipe)
    /\ rounds' = Cardinality(PairsOf(Head(pipe)))
    /\ heard' = IF rounds' = 0 THEN NoSignal ELSE Head(pipe)
    /\ UNCHANGED <<listeners, reader>>
=============================================================================
