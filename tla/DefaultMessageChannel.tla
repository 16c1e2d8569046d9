------------------------ MODULE DefaultMessageChannel -----------------------
(***************************************************************************)
(* vigine::threading::DefaultMessageChannel: a bounded FIFO between        *)
(* senders and receivers, with a condition variable for each direction.    *)
(* Every notification is sent after the mutex was released; close() wakes  *)
(* everybody; a closed channel still hands out what it holds.              *)
(*                                                                         *)
(* A message is the number of its acceptance.                              *)
(***************************************************************************)
EXTENDS Integers, FiniteSets, Sequences

CONSTANTS
    Senders, Receivers,
    Hasty,        \* the threads that wait with a timeout
    Capacity,
    MaxMessages   \* bound of the model: messages explored

ASSUME ChannelAssumption ==
    /\ IsFiniteSet(Senders) /\ IsFiniteSet(Receivers)
    /\ Senders \cap Receivers = {}
    /\ Capacity \in Nat
    /\ MaxMessages \in Nat

VARIABLES
    queue,      \* _queue
    closed,     \* _closed
    thread,     \* where each sender and receiver is
    closer,     \* the progress of close()
    accepted    \* history: how many messages were queued

channelVars == <<queue, closed, thread, closer, accepted>>

Threads == Senders \cup Receivers
Slots   == IF Capacity = 0 THEN 1 ELSE Capacity   \* clampCapacity

ChannelInit ==
    /\ queue = <<>>
    /\ closed = FALSE
    /\ thread = [t \in Threads |-> "idle"]
    /\ closer = "idle"
    /\ accepted = 0

Among(S, stages) == {t \in S : thread[t] \in stages}

(* Where a thread goes that looked and found nothing to do.                *)
Baffled(t) ==
    thread' = [thread EXCEPT ![t] = IF @ = "late" THEN "idle" ELSE "asleep"]

(* Before the wait of send() or receive(), and after each wake-up.         *)
Looks(t) == thread[t] \in {"idle", "awake", "late"}

(* Mutant: a sender that was woken does not look at the closed flag again. *)
PutAlways(s) ==
    /\ Looks(s)
    /\ accepted < MaxMessages
    /\ Len(queue) < Slots
    /\ thread[s] = "idle" => ~closed
    /\ queue' = Append(queue, accepted + 1)
    /\ accepted' = accepted + 1
    /\ thread' = [thread EXCEPT ![s] = "notifying"]
    /\ UNCHANGED <<closed, closer>>

(* send() and trySend() with room in an open channel.                      *)
Put(s) ==
    /\ Looks(s)
    /\ accepted < MaxMessages
    /\ ~closed /\ Len(queue) < Slots
    /\ queue' = Append(queue, accepted + 1)
    /\ accepted' = accepted + 1
    /\ thread' = [thread EXCEPT ![s] = "notifying"]
    /\ UNCHANGED <<closed, closer>>

(* send() on a full channel sleeps, or gives up if it is late.             *)
FindFull(s) ==
    /\ Looks(s)
    /\ ~closed /\ Len(queue) >= Slots
    /\ Baffled(s)
    /\ UNCHANGED <<queue, closed, closer, accepted>>

(* receive() and tryReceive() with a message, from a closed channel too.   *)
Take(r) ==
    /\ Looks(r)
    /\ queue # <<>>
    /\ queue' = Tail(queue)
    /\ thread' = [thread EXCEPT ![r] = "notifying"]
    /\ UNCHANGED <<closed, closer, accepted>>

FindEmpty(r) ==
    /\ Looks(r)
    /\ ~closed /\ queue = <<>>
    /\ Baffled(r)
    /\ UNCHANGED <<queue, closed, closer, accepted>>

(* A thread that waited returns with an error: a sender because the        *)
(* channel is closed, a receiver because it is closed and empty.           *)
FindClosed(t) ==
    /\ thread[t] \in {"awake", "late"}
    /\ closed
    /\ t \in Receivers => queue = <<>>
    /\ thread' = [thread EXCEPT ![t] = "idle"]
    /\ UNCHANGED <<queue, closed, closer, accepted>>

(* A spurious wake-up, or the timeout.                                     *)
Rouse(t) ==
    /\ thread[t] = "asleep"
    /\ \/ thread' = [thread EXCEPT ![t] = "awake"]
       \/ t \in Hasty /\ thread' = [thread EXCEPT ![t] = "late"]
    /\ UNCHANGED <<queue, closed, closer, accepted>>

(* Mutant: nobody is told of the message.                                  *)
TellNobody(t, others) ==
    /\ thread[t] = "notifying"
    /\ thread' = [thread EXCEPT ![t] = "idle"]
    /\ UNCHANGED <<queue, closed, closer, accepted>>

(* notify_one on the other side's condition variable, after the unlock.    *)
TellOne(t, others) ==
    /\ thread[t] = "notifying"
    /\ IF Among(others, {"asleep"}) = {}
       THEN thread' = [thread EXCEPT ![t] = "idle"]
       ELSE \E u \in Among(others, {"asleep"}) :
               thread' = [thread EXCEPT ![t] = "idle", ![u] = "awake"]
    /\ UNCHANGED <<queue, closed, closer, accepted>>

(* close(): the first call sets the flag, ...                              *)
Close ==
    /\ ~closed
    /\ closed' = TRUE
    /\ closer' = "wakeSenders"
    /\ UNCHANGED <<queue, thread, accepted>>

(* Mutant: close() wakes one thread of each side, not all of them.         *)
TellSome(from, to, others) ==
    /\ closer = from
    /\ closer' = to
    /\ IF Among(others, {"asleep"}) = {}
       THEN UNCHANGED thread
       ELSE \E u \in Among(others, {"asleep"}) : thread' = [thread EXCEPT ![u] = "awake"]
    /\ UNCHANGED <<queue, closed, accepted>>

(* ... and wakes the senders, then the receivers.                          *)
TellAll(from, to, others) ==
    /\ closer = from
    /\ closer' = to
    /\ thread' = [t \in Threads |->
                     IF t \in others /\ thread[t] = "asleep" THEN "awake" ELSE thread[t]]
    /\ UNCHANGED <<queue, closed, accepted>>

WakeSenders   == TellAll("wakeSenders", "wakeReceivers", Senders)
WakeReceivers == TellAll("wakeReceivers", "done", Receivers)

SenderStep(s)   == Put(s) \/ FindFull(s) \/ FindClosed(s) \/ TellOne(s, Receivers)
ReceiverStep(r) == Take(r) \/ FindEmpty(r) \/ FindClosed(r) \/ TellOne(r, Senders)

ChannelNext ==
    \/ \E s \in Senders : SenderStep(s)
    \/ \E r \in Receivers : ReceiverStep(r)
    \/ \E t \in Threads : Rouse(t)
    \/ Close \/ WakeSenders \/ WakeReceivers

ChannelSpec == ChannelInit /\ [][ChannelNext]_channelVars

-----------------------------------------------------------------------------
(* Every variable has its type, and the channel never holds more than its  *)
(* capacity, although several woken senders race for one free place.       *)
ChannelTypeOK ==
    /\ queue \in Seq(Nat) /\ Len(queue) <= Slots
    /\ closed \in BOOLEAN
    /\ thread \in [Threads -> {"idle", "asleep", "awake", "late", "notifying"}]
    /\ closer \in {"idle", "wakeSenders", "wakeReceivers", "done"}
    /\ accepted \in Nat

(* No wake-up is lost.  While a receiver sleeps, every queued message is   *)
(* announced to a receiver that will look for it; while a sender sleeps,   *)
(* every free place is; and nobody sleeps once close() has woken them,     *)
(* though the notifications are sent outside the mutex.                    *)
NoMessageUnannounced ==
    Among(Receivers, {"asleep"}) # {} =>
        /\ closed => closer \in {"wakeSenders", "wakeReceivers"}
        /\ Len(queue) <= Cardinality(Among(Receivers, {"awake", "late"}))
                            + Cardinality(Among(Senders, {"notifying"}))
NoPlaceUnannounced ==
    Among(Senders, {"asleep"}) # {} =>
        /\ closed => closer = "wakeSenders"
        /\ ~closed =>
              Slots - Len(queue) <= Cardinality(Among(Senders, {"awake", "late"}))
                                       + Cardinality(Among(Receivers, {"notifying"}))
NoWakeupLost == NoMessageUnannounced /\ NoPlaceUnannounced

(* "After close, send and trySend fail immediately": a sender that slept   *)
(* when the channel was closed queues nothing either.                      *)
NothingEntersAfterClose ==
    [][closed => accepted' = accepted]_channelVars
=============================================================================
