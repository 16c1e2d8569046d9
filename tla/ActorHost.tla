------------------------------ MODULE ActorHost -----------------------------
(***************************************************************************)
(* vigine::actorhost::DefaultActorHost: an actor is a heap entry that the  *)
(* registry points to, a mail queue, and a runnable that drains the queue  *)
(* on a named thread of its own.  stop(id), the mailbox handle and         *)
(* shutdown() look the entry up under the lock, use it without the lock    *)
(* and delete it.                                                          *)
(*                                                                         *)
(* An entry that is used after it was deleted is put into `misused`; what  *)
(* the program does from then on is undefined and the behaviour ends.      *)
(***************************************************************************)
EXTENDS Integers, Sequences, FiniteSets

CONSTANTS
    Actors,       \* the calls of spawn()
    Mail,         \* the calls of tell()
    Addressee,    \* [Mail -> Actors]
    Stoppers,     \* the calls of stop(id) and of stop() on the mailbox handle
    Handles,      \* those that go through the handle spawn() returned
    Target,       \* [Stoppers -> Actors]
    NoActor

ASSUME ActorAssumption ==
    /\ Addressee \in [Mail -> Actors]
    /\ Target \in [Stoppers -> Actors]
    /\ Handles \subseteq Stoppers
    /\ NoActor \notin Actors

VARIABLES
    spawning,    \* where each call of spawn() is
    registry,    \* the actors whose entry is in the registry
    entryStop,   \* those whose ActorEntry::stopped is set
    freed,       \* those whose entry was deleted
    misused,     \* those whose entry was used after that
    mailbox,     \* ActorMailQueue::items
    shut,        \* the actors whose queue is closed
    drain,       \* the runnable: "none", "queued", "running", "emptied", "over",
                 \* "dropped"
    telling,     \* where each call of tell() is
    accepted,    \* history: the mail that was queued, by actor
    received,    \* history: the mail the actor has received
    stopping,    \* where each stopper is
    used,        \* the actors whose handle has been stopped
    hostDown,    \* shutdown(): "open", "flagged", "sweeping", "closed"
    doomed,      \* the entries of its snapshot it has still to handle
    closingOf    \* the entry it has closed and waits for, or NoActor

actorVars == <<spawning, registry, entryStop, freed, misused, mailbox, shut, drain,
               telling, accepted, received, stopping, used, hostDown, doomed, closingOf>>

ActorInit ==
    /\ spawning = [a \in Actors |-> "new"]
    /\ registry = {} /\ entryStop = {} /\ freed = {} /\ misused = {}
    /\ mailbox = [a \in Actors |-> <<>>]
    /\ shut = {}
    /\ drain = [a \in Actors |-> "none"]
    /\ telling = [m \in Mail |-> "new"]
    /\ accepted = [a \in Actors |-> <<>>]
    /\ received = [a \in Actors |-> <<>>]
    /\ stopping = [s \in Stoppers |-> "idle"] /\ used = {}
    /\ hostDown = "open" /\ doomed = {} /\ closingOf = NoActor

Use(a) == misused' = IF a \in freed THEN misused \cup {a} ELSE misused

-----------------------------------------------------------------------------
(* spawn()                                                                 *)

CheckSpawn(a) ==
    /\ spawning[a] = "new"
    /\ hostDown = "open"
    /\ spawning' = [spawning EXCEPT ![a] = "checked"]
    /\ UNCHANGED <<used, registry, entryStop, freed, misused, mailbox, shut, drain,
                   telling, accepted, received, stopping, hostDown, doomed, closingOf>>

(* The thread manager takes the runnable, or returns no handle; nobody     *)
(* looks, and the actor is registered either way.                          *)
ScheduleDrain(a) ==
    /\ spawning[a] = "checked"
    /\ spawning' = [spawning EXCEPT ![a] = "scheduled"]
    /\ \E outcome \in {"queued", "none"} : drain' = [drain EXCEPT ![a] = outcome]
    /\ UNCHANGED <<used, registry, entryStop, freed, misused, mailbox, shut, telling,
                   accepted, received, stopping, hostDown, doomed, closingOf>>

Register(a) ==
    /\ spawning[a] = "scheduled"
    /\ spawning' = [spawning EXCEPT ![a] = "returned"]
    /\ registry' = registry \cup {a}
    /\ UNCHANGED <<used, entryStop, freed, misused, mailbox, shut, drain, telling,
                   accepted, received, stopping, hostDown, doomed, closingOf>>

-----------------------------------------------------------------------------
(* tell(): the queue is held by a shared pointer, not through the entry.   *)

CheckTell(m) ==
    /\ telling[m] = "new"
    /\ hostDown = "open"
    /\ telling' = [telling EXCEPT ![m] = "checked"]
    /\ UNCHANGED <<used, spawning, registry, entryStop, freed, misused, mailbox, shut,
                   drain, accepted, received, stopping, hostDown, doomed, closingOf>>

FindQueue(m) ==
    /\ telling[m] = "checked"
    /\ telling' = [telling EXCEPT ![m] =
                     IF Addressee[m] \in registry THEN "found" ELSE "refused"]
    /\ UNCHANGED <<used, spawning, registry, entryStop, freed, misused, mailbox, shut,
                   drain, accepted, received, stopping, hostDown, doomed, closingOf>>

PushMail(m) ==
    LET a == Addressee[m] IN
    /\ telling[m] = "found"
    /\ IF a \in shut
       THEN /\ telling' = [telling EXCEPT ![m] = "refused"]
            /\ UNCHANGED <<mailbox, accepted>>
       ELSE /\ telling' = [telling EXCEPT ![m] = "accepted"]
            /\ mailbox' = [mailbox EXCEPT ![a] = Append(@, m)]
            /\ accepted' = [accepted EXCEPT ![a] = Append(@, m)]
    /\ UNCHANGED <<used, spawning, registry, entryStop, freed, misused, shut, drain,
                   received, stopping, hostDown, doomed, closingOf>>

-----------------------------------------------------------------------------
(* MailboxRunnable::run(); the actor belongs to the entry.                 *)

StartDrain(a) ==
    /\ drain[a] = "queued"
    /\ drain' = [drain EXCEPT ![a] = "running"]
    /\ Use(a)
    /\ UNCHANGED <<used, spawning, registry, entryStop, freed, mailbox, shut, telling,
                   accepted, received, stopping, hostDown, doomed, closingOf>>

(* The manager fails the task, as it does when it is shut down.            *)
DropDrain(a) ==
    /\ drain[a] = "queued"
    /\ drain' = [drain EXCEPT ![a] = "dropped"]
    /\ UNCHANGED <<used, spawning, registry, entryStop, freed, misused, mailbox, shut,
                   telling, accepted, received, stopping, hostDown, doomed, closingOf>>

Receive(a) ==
    /\ drain[a] = "running"
    /\ mailbox[a] # <<>>
    /\ mailbox' = [mailbox EXCEPT ![a] = Tail(@)]
    /\ received' = [received EXCEPT ![a] = Append(@, Head(mailbox[a]))]
    /\ Use(a)
    /\ UNCHANGED <<used, spawning, registry, entryStop, freed, shut, drain, telling,
                   accepted, stopping, hostDown, doomed, closingOf>>

(* Mutant: a closed queue ends the loop, drained or not.                   *)
EndDrainEarly(a) ==
    /\ drain[a] = "running"
    /\ a \in shut
    /\ drain' = [drain EXCEPT ![a] = "emptied"]
    /\ UNCHANGED misused
    /\ UNCHANGED <<used, spawning, registry, entryStop, freed, mailbox, shut, telling,
                   accepted, received, stopping, hostDown, doomed, closingOf>>

EndDrain(a) ==
    /\ drain[a] = "running"
    /\ a \in shut /\ mailbox[a] = <<>>
    /\ drain' = [drain EXCEPT ![a] = "emptied"]
    /\ UNCHANGED misused
    /\ UNCHANGED <<used, spawning, registry, entryStop, freed, mailbox, shut, telling,
                   accepted, received, stopping, hostDown, doomed, closingOf>>

(* onStop(), and the end of the task for which stoppers wait.              *)
OnStop(a) ==
    /\ drain[a] = "emptied"
    /\ drain' = [drain EXCEPT ![a] = "over"]
    /\ Use(a)
    /\ UNCHANGED <<used, spawning, registry, entryStop, freed, mailbox, shut, telling,
                   accepted, received, stopping, hostDown, doomed, closingOf>>

Drained(a) == drain[a] \in {"none", "over", "dropped"}

-----------------------------------------------------------------------------
(* stop() of the handle and its destructor: the first goes on as stop(id), *)
(* the others return at once, while the actor may still be draining.       *)
StopHandle(s) ==
    LET a == Target[s] IN
    /\ s \in Handles /\ stopping[s] = "idle"
    /\ spawning[a] = "returned"
    /\ stopping' = [stopping EXCEPT ![s] = IF a \in used THEN "returned" ELSE "entered"]
    /\ used' = used \cup {a}
    /\ UNCHANGED <<spawning, registry, entryStop, freed, misused, mailbox, shut, drain,
                   telling, accepted, received, hostDown, doomed, closingOf>>

(* stop(id), and the callback of the handle.                               *)
FindEntry(s) ==
    /\ stopping[s] = IF s \in Handles THEN "entered" ELSE "idle"
    /\ spawning[Target[s]] = "returned"
    /\ stopping' = [stopping EXCEPT ![s] =
                      IF Target[s] \in registry THEN "found" ELSE "returned"]
    /\ UNCHANGED <<used, spawning, registry, entryStop, freed, misused, mailbox, shut,
                   drain, telling, accepted, received, hostDown, doomed, closingOf>>

(* The exchange of ActorEntry::stopped, and the close of who wins it.      *)
ClaimEntry(s) ==
    LET a == Target[s] IN
    /\ stopping[s] = "found"
    /\ Use(a)
    /\ stopping' = [stopping EXCEPT ![s] = IF a \in entryStop THEN "returned" ELSE "claimed"]
    /\ entryStop' = entryStop \cup {a}
    /\ UNCHANGED <<used, spawning, registry, freed, mailbox, shut, drain, telling,
                   accepted, received, hostDown, doomed, closingOf>>

CloseMailbox(s) ==
    LET a == Target[s] IN
    /\ stopping[s] = "claimed"
    /\ Use(a)
    /\ stopping' = [stopping EXCEPT ![s] = "waiting"]
    /\ shut' = shut \cup {a}
    /\ UNCHANGED <<used, spawning, registry, entryStop, freed, mailbox, drain, telling,
                   accepted, received, hostDown, doomed, closingOf>>

(* The wait is over: unregister the thread, erase the entry.               *)
EraseEntry(s) ==
    LET a == Target[s] IN
    /\ stopping[s] = "waiting"
    /\ Drained(a)
    /\ Use(a)
    /\ stopping' = [stopping EXCEPT ![s] = "erased"]
    /\ registry' = registry \ {a}
    /\ UNCHANGED <<used, spawning, entryStop, freed, mailbox, shut, drain, telling,
                   accepted, received, hostDown, doomed, closingOf>>

DeleteEntry(s) ==
    LET a == Target[s] IN
    /\ stopping[s] = "erased"
    /\ Use(a)
    /\ stopping' = [stopping EXCEPT ![s] = "returned"]
    /\ freed' = freed \cup {a}
    /\ UNCHANGED <<used, spawning, registry, entryStop, mailbox, shut, drain, telling,
                   accepted, received, hostDown, doomed, closingOf>>

-----------------------------------------------------------------------------
(* shutdown()                                                              *)

FlagHost ==
    /\ hostDown = "open"
    /\ hostDown' = "flagged"
    /\ UNCHANGED <<used, spawning, registry, entryStop, freed, misused, mailbox, shut,
                   drain, telling, accepted, received, stopping, doomed, closingOf>>

TakeRegistry ==
    /\ hostDown = "flagged"
    /\ hostDown' = "sweeping"
    /\ doomed' = registry
    /\ registry' = {}
    /\ UNCHANGED <<used, spawning, entryStop, freed, misused, mailbox, shut, drain,
                   telling, accepted, received, stopping, closingOf>>

(* An entry that a stopper has claimed is deleted at once.                 *)
SweepClaimed(a) ==
    /\ hostDown = "sweeping" /\ closingOf = NoActor
    /\ a \in doomed /\ a \in entryStop
    /\ Use(a)
    /\ freed' = freed \cup {a}
    /\ doomed' = doomed \ {a}
    /\ UNCHANGED <<used, spawning, registry, entryStop, mailbox, shut, drain, telling,
                   accepted, received, stopping, hostDown, closingOf>>

SweepClose(a) ==
    /\ hostDown = "sweeping" /\ closingOf = NoActor
    /\ a \in doomed /\ a \notin entryStop
    /\ Use(a)
    /\ entryStop' = entryStop \cup {a}
    /\ shut' = shut \cup {a}
    /\ closingOf' = a
    /\ UNCHANGED <<used, spawning, registry, freed, mailbox, drain, telling, accepted,
                   received, stopping, hostDown, doomed>>

SweepDelete ==
    LET a == closingOf IN
    /\ a # NoActor
    /\ Drained(a)
    /\ Use(a)
    /\ freed' = freed \cup {a}
    /\ doomed' = doomed \ {a}
    /\ closingOf' = NoActor
    /\ UNCHANGED <<used, spawning, registry, entryStop, mailbox, shut, drain, telling,
                   accepted, received, stopping, hostDown>>

CloseHost ==
    /\ hostDown = "sweeping" /\ doomed = {}
    /\ hostDown' = "closed"
    /\ UNCHANGED <<used, spawning, registry, entryStop, freed, misused, mailbox, shut,
                   drain, telling, accepted, received, stopping, doomed, closingOf>>

-----------------------------------------------------------------------------
SpawnStep(a) == CheckSpawn(a) \/ ScheduleDrain(a) \/ Register(a)
DrainStep(a) == StartDrain(a) \/ DropDrain(a) \/ Receive(a) \/ EndDrain(a) \/ OnStop(a)
TellStep(m) == CheckTell(m) \/ FindQueue(m) \/ PushMail(m)
StopStep(s) == ClaimEntry(s) \/ CloseMailbox(s) \/ EraseEntry(s) \/ DeleteEntry(s)

ActorNext ==
    /\ misused = {}
    /\ \/ \E a \in Actors : SpawnStep(a) \/ DrainStep(a) \/ SweepClaimed(a) \/ SweepClose(a)
       \/ \E m \in Mail : TellStep(m)
       \/ \E s \in Stoppers : StopHandle(s) \/ FindEntry(s) \/ StopStep(s)
       \/ FlagHost \/ TakeRegistry \/ SweepDelete \/ CloseHost

-----------------------------------------------------------------------------
(* "drains any queued messages and joins the actor thread": mail reaches   *)
(* the actor in the order it was queued, and once the drain loop is over   *)
(* every message whose tell() succeeded was received before onStop(), also *)
(* those that raced the stop that closed the queue.                        *)
StoppedMeansDrained ==
    \A a \in Actors :
        /\ accepted[a] = received[a] \o mailbox[a]
        /\ drain[a] \in {"emptied", "over"} => accepted[a] = received[a]

(* "all entry points are safe to call concurrently": nobody uses an entry  *)
(* after its deletion.                                                     *)
NoUseAfterFree == misused = {}
=============================================================================
