--------------------------- MODULE ChannelFactory ---------------------------
(***************************************************************************)
(* vigine::channelfactory: DefaultChannel, a queue with two conditions and *)
(* a closed flag under one mutex, and DefaultChannelFactory, which keeps   *)
(* raw pointers to the channels it gave out and closes them when it shuts  *)
(* down.  The pointer leaves the registry before its channel is destroyed. *)
(*                                                                         *)
(* A call that waits goes on when its predicate holds, or at its deadline. *)
(* The deadline is computed as the code does it, in integers of Width bits *)
(* that count nanoseconds (with NsPerMs of them in a millisecond); nobody  *)
(* waits longer than Horizon nanoseconds.                                  *)
(***************************************************************************)
EXTENDS Integers, Sequences, FiniteSets

CONSTANTS
    Channels,      \* the calls of create()
    Bounded,       \* those of them that ask for a bounded channel
    Capacity,      \* [Channels -> Nat]
    ChannelCalls,  \* the calls of send, trySend, receive and tryReceive
    Sends,         \* those that send; a send is its own payload
    Tries,         \* those that do not wait
    Mistyped,      \* the sends whose payload has another type than the channel
    On,            \* [ChannelCalls -> Channels]
    TimeoutMs,     \* [ChannelCalls -> Int], -1 for "block indefinitely"
    Width, NsPerMs, Horizon

ASSUME ChannelAssumption ==
    /\ Bounded \subseteq Channels
    /\ Capacity \in [Channels -> Nat]
    /\ Sends \cup Tries \subseteq ChannelCalls /\ Mistyped \subseteq Sends
    /\ On \in [ChannelCalls -> Channels]
    /\ TimeoutMs \in [ChannelCalls -> Int]
    /\ Width \in Nat \ {0} /\ NsPerMs \in Nat \ {0} /\ Horizon \in Nat

VARIABLES
    channel,       \* "new", "checked", "open", "leaving", "left", "freed", "refused"
    liveChannels,  \* the raw pointers of the registry
    shutChannels,  \* the channels with _closed
    items,         \* _queue
    outcome,       \* of each call: "new", "waiting", "done", "refused", "timedout"
    sent,          \* history: what was accepted, by channel
    taken,         \* history: what was received
    factory,       \* "open", "flagged", "sweeping" (under the mutex), "closed", "gone"
    toClose        \* the channels the sweep has still to close

factoryVars == <<channel, liveChannels, shutChannels, items, outcome, sent, taken,
                 factory, toClose>>

FactoryInit ==
    /\ channel = [c \in Channels |-> "new"]
    /\ liveChannels = {} /\ shutChannels = {} /\ toClose = {}
    /\ items = [c \in Channels |-> <<>>]
    /\ outcome = [k \in ChannelCalls |-> "new"]
    /\ sent = [c \in Channels |-> <<>>]
    /\ taken = [c \in Channels |-> <<>>]
    /\ factory = "open"

-----------------------------------------------------------------------------
(* The factory                                                             *)

ValidConfig(c) == IF c \in Bounded THEN Capacity[c] >= 1 ELSE Capacity[c] = 0

CheckCreate(c) ==
    /\ channel[c] = "new"
    /\ factory # "gone"
    /\ channel' = [channel EXCEPT ![c] =
                     IF factory = "open" /\ ValidConfig(c) THEN "checked" ELSE "refused"]
    /\ UNCHANGED <<liveChannels, shutChannels, items, outcome, sent, taken, factory, toClose>>

RegisterChannel(c) ==
    /\ channel[c] = "checked"
    /\ factory # "sweeping"
    /\ channel' = [channel EXCEPT ![c] = "open"]
    /\ liveChannels' = liveChannels \cup {c}
    /\ UNCHANGED <<shutChannels, items, outcome, sent, taken, factory, toClose>>

(* The owner drops the channel, which nobody uses any more.                *)
BeginDestroy(c) ==
    /\ channel[c] = "open"
    /\ \A k \in ChannelCalls : On[k] = c => outcome[k] # "waiting"
    /\ channel' = [channel EXCEPT ![c] = "leaving"]
    /\ UNCHANGED <<liveChannels, shutChannels, items, outcome, sent, taken, factory, toClose>>

(* Mutant: the channel closes and goes before its pointer does.            *)
UnregisterLast(c) ==
    /\ channel[c] = "leaving"
    /\ channel' = [channel EXCEPT ![c] = "freed"]
    /\ UNCHANGED <<liveChannels, shutChannels, items, outcome, sent, taken, factory, toClose>>

(* ~ChannelGuard(): the registry, if it is still there, forgets it.        *)
UnregisterChannel(c) ==
    /\ channel[c] = "leaving"
    /\ factory # "sweeping"
    /\ channel' = [channel EXCEPT ![c] = "left"]
    /\ liveChannels' = liveChannels \ {c}
    /\ UNCHANGED <<shutChannels, items, outcome, sent, taken, factory, toClose>>

FreeChannel(c) ==
    /\ channel[c] = "left"
    /\ channel' = [channel EXCEPT ![c] = "freed"]
    /\ shutChannels' = shutChannels \cup {c}
    /\ UNCHANGED <<liveChannels, items, outcome, sent, taken, factory, toClose>>

RaiseFactoryDown ==
    /\ factory = "open"
    /\ factory' = "flagged"
    /\ UNCHANGED <<channel, liveChannels, shutChannels, items, outcome, sent, taken, toClose>>

LockRegistry ==
    /\ factory = "flagged"
    /\ factory' = "sweeping"
    /\ toClose' = liveChannels
    /\ UNCHANGED <<channel, liveChannels, shutChannels, items, outcome, sent, taken>>

SweepChannel(c) ==
    /\ factory = "sweeping"
    /\ c \in toClose
    /\ toClose' = toClose \ {c}
    /\ shutChannels' = shutChannels \cup {c}
    /\ UNCHANGED <<channel, liveChannels, items, outcome, sent, taken, factory>>

EndSweep ==
    /\ factory = "sweeping" /\ toClose = {}
    /\ factory' = "closed"
    /\ UNCHANGED <<channel, liveChannels, shutChannels, items, outcome, sent, taken, toClose>>

(* The registry outlives the factory in no channel: they hold it weakly.   *)
DestroyFactory ==
    /\ factory = "closed"
    /\ \A c \in Channels : channel[c] # "checked"
    /\ factory' = "gone"
    /\ liveChannels' = {}
    /\ UNCHANGED <<channel, shutChannels, items, outcome, sent, taken, toClose>>

-----------------------------------------------------------------------------
(* The channels; each step is one critical section of the channel's mutex. *)

(* now() + (timeoutMs < 0 ? milliseconds::max() : timeoutMs): the sum is   *)
(* converted to nanoseconds, and the product wraps round.                  *)
MaxMs == 2 ^ (Width - 1) - 1
Wrapped(n) == LET m == n % 2 ^ Width IN IF m > MaxMs THEN m - 2 ^ Width ELSE m
FromNow(ms) == Wrapped((IF ms < 0 THEN MaxMs ELSE ms) * NsPerMs)
Expires(k) == FromNow(TimeoutMs[k]) <= Horizon

Room(c) == c \notin Bounded \/ Len(items[c]) < Capacity[c]
MayProceed(k) ==
    \/ On[k] \in shutChannels
    \/ IF k \in Sends THEN Room(On[k]) ELSE items[On[k]] # <<>>

(* Mutant: a closed channel that still holds payloads gives none.          *)
ProceedClosed(k) ==
    LET c == On[k] IN
    IF c \in shutChannels
    THEN /\ outcome' = [outcome EXCEPT ![k] = "refused"]
         /\ items' = [items EXCEPT ![c] = <<>>]
         /\ UNCHANGED <<sent, taken>>
    ELSE /\ outcome' = [outcome EXCEPT ![k] = "done"]
         /\ IF k \in Sends
            THEN /\ items' = [items EXCEPT ![c] = Append(@, k)]
                 /\ sent' = [sent EXCEPT ![c] = Append(@, k)]
                 /\ UNCHANGED taken
            ELSE /\ items' = [items EXCEPT ![c] = Tail(@)]
                 /\ taken' = [taken EXCEPT ![c] = Append(@, Head(items[c]))]
                 /\ UNCHANGED sent

(* What follows the wait: a closed channel takes nothing, but is drained.  *)
Proceed(k) ==
    LET c == On[k]
        refuse == IF k \in Sends THEN c \in shutChannels ELSE items[c] = <<>>
    IN
    /\ outcome' = [outcome EXCEPT ![k] = IF refuse THEN "refused" ELSE "done"]
    /\ CASE refuse -> UNCHANGED <<items, sent, taken>>
         [] ~refuse /\ k \in Sends ->
              /\ items' = [items EXCEPT ![c] = Append(@, k)]
              /\ sent' = [sent EXCEPT ![c] = Append(@, k)]
              /\ UNCHANGED taken
         [] ~refuse /\ k \notin Sends ->
              /\ items' = [items EXCEPT ![c] = Tail(@)]
              /\ taken' = [taken EXCEPT ![c] = Append(@, Head(items[c]))]
              /\ UNCHANGED sent

CallChannel(k) ==
    /\ outcome[k] = "new"
    /\ channel[On[k]] = "open"
    /\ CASE k \in Mistyped ->
              /\ outcome' = [outcome EXCEPT ![k] = "refused"]
              /\ UNCHANGED <<items, sent, taken>>
         [] k \notin Mistyped /\ MayProceed(k) -> Proceed(k)
         [] k \notin Mistyped /\ ~MayProceed(k) ->
              /\ outcome' = [outcome EXCEPT ![k] = IF k \in Tries THEN "refused"
                                                   ELSE "waiting"]
              /\ UNCHANGED <<items, sent, taken>>
    /\ UNCHANGED <<channel, liveChannels, shutChannels, factory, toClose>>

WakeCall(k) ==
    /\ outcome[k] = "waiting"
    /\ MayProceed(k)
    /\ Proceed(k)
    /\ UNCHANGED <<channel, liveChannels, shutChannels, factory, toClose>>

TimeOut(k) ==
    /\ outcome[k] = "waiting"
    /\ Expires(k) /\ ~MayProceed(k)
    /\ outcome' = [outcome EXCEPT ![k] = "timedout"]
    /\ UNCHANGED <<channel, liveChannels, shutChannels, items, sent, taken, factory, toClose>>

CloseChannel(c) ==
    /\ channel[c] = "open"
    /\ c \notin shutChannels
    /\ shutChannels' = shutChannels \cup {c}
    /\ UNCHANGED <<channel, liveChannels, items, outcome, sent, taken, factory, toClose>>

-----------------------------------------------------------------------------
(* What the owner of a channel does, and what goes on by itself.           *)
OwnerStep(c) == CheckCreate(c) \/ RegisterChannel(c) \/ BeginDestroy(c) \/ CloseChannel(c)

FactoryStep ==
    \/ \E c \in Channels : UnregisterChannel(c) \/ FreeChannel(c) \/ SweepChannel(c)
    \/ RaiseFactoryDown \/ LockRegistry \/ EndSweep \/ DestroyFactory
    \/ \E k \in ChannelCalls : WakeCall(k) \/ TimeOut(k)

FactoryNext ==
    \/ FactoryStep
    \/ \E c \in Channels : OwnerStep(c)
    \/ \E k \in ChannelCalls : CallChannel(k)

-----------------------------------------------------------------------------
(* The registry holds pointers to channels that are there: a shutdown that *)
(* runs while an owner destroys a channel calls no dead one.               *)
SweepMeetsLiveChannels ==
    \A c \in liveChannels \cup toClose : channel[c] \in {"open", "leaving"}

(* "receive drains any remaining payloads, then reports closure": what was *)
(* accepted comes out, once and in order, however close(), the waits and   *)
(* the deadlines interleave, and a bounded queue stays in its bound.       *)
ChannelLosesNothing ==
    \A c \in Channels :
        /\ sent[c] = taken[c] \o items[c]
        /\ c \in Bounded => Len(items[c]) <= Capacity[c]

ChannelsAreSound == SweepMeetsLiveChannels /\ ChannelLosesNothing

(* "-1 means block indefinitely": such a call does not time out.           *)
EndlessCallWaits ==
    \A k \in ChannelCalls : TimeoutMs[k] < 0 => outcome[k] # "timedout"
=============================================================================
