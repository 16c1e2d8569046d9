--------------------------- MODULE ReactiveStream ---------------------------
(***************************************************************************)
(* vigine::reactivestream::DefaultReactiveStream: subscriptions with a     *)
(* demand, two flags and an entry in the registry.  Everybody works on a   *)
(* snapshot of the registry, outside its mutex; the flags and the demand   *)
(* are atomics, each read or changed in a step of its own.                 *)
(*                                                                         *)
(* publish(), complete() and fail() look at the shut-down flag and take    *)
(* their snapshot in one step: shutdown() raises the flag before it clears *)
(* the registry, so a later snapshot would only be smaller.                *)
(***************************************************************************)
EXTENDS Integers, Sequences, FiniteSets

CONSTANTS
    Subscribers,    \* the calls of subscribe()
    Publishers,     \* the calls of publish()
    Closers,        \* the calls of complete(), fail() and shutdown()
    Asks,           \* the numbers a subscriber may request at once
    AskLimit,       \* bound of the model: what a subscriber requests in all
    Unbounded,      \* the largest demand, which stands for no limit
    NoSubscriber

ASSUME StreamAssumption ==
    /\ Asks \subseteq Nat \ {0} /\ AskLimit \in Nat /\ Unbounded \in Nat \ {0}
    /\ NoSubscriber \notin Subscribers /\ IsFiniteSet(Publishers)

VARIABLES
    joining,      \* where each call of subscribe() is
    inStream,     \* the subscribers in the registry
    demand,       \* SubscriptionState::demand
    cancelled,    \* those with SubscriptionState::cancelled
    terminal,     \* those with SubscriptionState::terminal
    streamDown,   \* the shut-down flag
    publishing,   \* where each call of publish() is
    unseen,       \* what it has still to visit of its snapshot
    at,           \* the subscriber it is at
    closer,       \* where each closer is
    ending,       \* what it has still to mark of its snapshot
    won,          \* the subscriber it has marked first and is about to signal
    requested,    \* history: what each subscriber has requested
    delivered,    \* history: the calls of onNext
    ended         \* history: the calls of onComplete and onError, in their order

streamVars == <<joining, inStream, demand, cancelled, terminal, streamDown, publishing,
                unseen, at, closer, ending, won, requested, delivered, ended>>

StreamInit ==
    /\ joining = [s \in Subscribers |-> "new"]
    /\ inStream = {} /\ cancelled = {} /\ terminal = {} /\ streamDown = FALSE
    /\ demand = [s \in Subscribers |-> 0]
    /\ publishing = [p \in Publishers |-> "new"]
    /\ unseen = [p \in Publishers |-> {}]
    /\ at = [p \in Publishers |-> NoSubscriber]
    /\ closer = [c \in Closers |-> "new"]
    /\ ending = [c \in Closers |-> {}]
    /\ won = [c \in Closers |-> NoSubscriber]
    /\ requested = [s \in Subscribers |-> 0]
    /\ delivered = [s \in Subscribers |-> 0]
    /\ ended = [s \in Subscribers |-> <<>>]

publishVars == <<publishing, unseen, at>>
closeVars == <<closer, ending, won>>

-----------------------------------------------------------------------------
(* subscribe() and the two handles it gives out                            *)

CheckJoin(s) ==
    /\ joining[s] = "new"
    /\ ~streamDown
    /\ joining' = [joining EXCEPT ![s] = "checked"]
    /\ UNCHANGED <<inStream, demand, cancelled, terminal, streamDown, publishVars,
                   closeVars, requested, delivered, ended>>

Join(s) ==
    /\ joining[s] = "checked"
    /\ joining' = [joining EXCEPT ![s] = "joined"]
    /\ inStream' = inStream \cup {s}
    /\ UNCHANGED <<demand, cancelled, terminal, streamDown, publishVars, closeVars,
                   requested, delivered, ended>>

(* onSubscribe(): the subscriber holds its token from now on.              *)
HandToken(s) ==
    /\ joining[s] = "joined"
    /\ joining' = [joining EXCEPT ![s] = "subscribed"]
    /\ UNCHANGED <<inStream, demand, cancelled, terminal, streamDown, publishVars,
                   closeVars, requested, delivered, ended>>

(* SubscriberToken::request(): the demand stays at Unbounded once there.   *)
RequestItems(s, n) ==
    /\ joining[s] = "subscribed"
    /\ s \notin cancelled \cup terminal
    /\ requested[s] + n <= AskLimit
    /\ requested' = [requested EXCEPT ![s] = @ + n]
    /\ demand' = [demand EXCEPT ![s] = IF @ >= Unbounded - n THEN Unbounded ELSE @ + n]
    /\ UNCHANGED <<joining, inStream, cancelled, terminal, streamDown, publishVars,
                   closeVars, delivered, ended>>

(* SubscriberToken::cancel() and its destructor.                           *)
CancelToken(s) ==
    /\ joining[s] = "subscribed"
    /\ s \notin cancelled
    /\ cancelled' = cancelled \cup {s}
    /\ inStream' = inStream \ {s}
    /\ UNCHANGED <<joining, demand, terminal, streamDown, publishVars, closeVars,
                   requested, delivered, ended>>

(* StreamSubscriptionHandle::cancel() tells the subscriber nothing.        *)
CancelStreamHandle(s) ==
    /\ joining[s] = "subscribed"
    /\ s \in inStream
    /\ inStream' = inStream \ {s}
    /\ UNCHANGED <<joining, demand, cancelled, terminal, streamDown, publishVars,
                   closeVars, requested, delivered, ended>>

-----------------------------------------------------------------------------
(* publish(): the first live subscriber with demand gets the payload; the  *)
(* order of the walk, over a hash table, is open.                          *)

StartPublish(p) ==
    /\ publishing[p] = "new"
    /\ ~streamDown
    /\ publishing' = [publishing EXCEPT ![p] = "walking"]
    /\ unseen' = [unseen EXCEPT ![p] = inStream]
    /\ UNCHANGED <<joining, inStream, demand, cancelled, terminal, streamDown, at,
                   closeVars, requested, delivered, ended>>

VisitSubscription(p, s) ==
    /\ publishing[p] = "walking" /\ at[p] = NoSubscriber
    /\ s \in unseen[p]
    /\ unseen' = [unseen EXCEPT ![p] = @ \ {s}]
    /\ at' = [at EXCEPT ![p] = IF s \in cancelled \cup terminal THEN NoSubscriber ELSE s]
    /\ UNCHANGED <<joining, inStream, demand, cancelled, terminal, streamDown, publishing,
                   closeVars, requested, delivered, ended>>

(* Mutant: the visit has seen demand, so there is some.                    *)
ClaimAnyway(p) ==
    LET s == at[p] IN
    /\ publishing[p] = "walking" /\ s # NoSubscriber
    /\ publishing' = [publishing EXCEPT ![p] = "claimed"]
    /\ demand' = [demand EXCEPT ![s] = IF @ \in {0, Unbounded} THEN @ ELSE @ - 1]
    /\ UNCHANGED <<joining, inStream, cancelled, terminal, streamDown, unseen, at,
                   closeVars, requested, delivered, ended>>

(* The compare-and-exchange loop, at the exchange that succeeds or at the  *)
(* load that finds nothing.                                                *)
Claim(p) ==
    LET s == at[p] IN
    /\ publishing[p] = "walking" /\ s # NoSubscriber
    /\ IF demand[s] > 0
       THEN /\ publishing' = [publishing EXCEPT ![p] = "claimed"]
            /\ demand' = [demand EXCEPT ![s] = IF @ = Unbounded THEN @ ELSE @ - 1]
            /\ UNCHANGED at
       ELSE /\ at' = [at EXCEPT ![p] = NoSubscriber]
            /\ UNCHANGED <<publishing, demand>>
    /\ UNCHANGED <<joining, inStream, cancelled, terminal, streamDown, unseen, closeVars,
                   requested, delivered, ended>>

OnNext(p) ==
    /\ publishing[p] = "claimed"
    /\ publishing' = [publishing EXCEPT ![p] = "returned"]
    /\ delivered' = [delivered EXCEPT ![at[p]] = @ + 1]
    /\ at' = [at EXCEPT ![p] = NoSubscriber]
    /\ UNCHANGED <<joining, inStream, demand, cancelled, terminal, streamDown, unseen,
                   closeVars, requested, ended>>

DropItem(p) ==
    /\ publishing[p] = "walking" /\ at[p] = NoSubscriber /\ unseen[p] = {}
    /\ publishing' = [publishing EXCEPT ![p] = "returned"]
    /\ UNCHANGED <<joining, inStream, demand, cancelled, terminal, streamDown, unseen, at,
                   closeVars, requested, delivered, ended>>

-----------------------------------------------------------------------------
(* complete(), fail() and shutdown()                                       *)

EndsAs(c, how) ==
    /\ closer[c] = "new"
    /\ ~streamDown
    /\ closer' = [closer EXCEPT ![c] = how]
    /\ ending' = [ending EXCEPT ![c] = inStream]
    /\ UNCHANGED <<joining, inStream, demand, cancelled, terminal, streamDown, publishVars,
                   won, requested, delivered, ended>>
Complete(c) == EndsAs(c, "completing")
Fail(c) == EndsAs(c, "failing")

RaiseStreamDown(c) ==
    /\ closer[c] = "new"
    /\ ~streamDown
    /\ streamDown' = TRUE
    /\ closer' = [closer EXCEPT ![c] = "flagged"]
    /\ UNCHANGED <<joining, inStream, demand, cancelled, terminal, publishVars, ending, won,
                   requested, delivered, ended>>

ClearStream(c) ==
    /\ closer[c] = "flagged"
    /\ closer' = [closer EXCEPT ![c] = "completing"]
    /\ ending' = [ending EXCEPT ![c] = inStream]
    /\ inStream' = {}
    /\ UNCHANGED <<joining, demand, cancelled, terminal, streamDown, publishVars, won,
                   requested, delivered, ended>>

(* Mutant: the terminal flag is read and set, not exchanged.               *)
MarkAgain(c, s) ==
    /\ closer[c] \in {"completing", "failing"} /\ won[c] = NoSubscriber
    /\ s \in ending[c]
    /\ ending' = [ending EXCEPT ![c] = @ \ {s}]
    /\ terminal' = terminal \cup {s}
    /\ won' = [won EXCEPT ![c] = s]
    /\ UNCHANGED <<joining, inStream, demand, cancelled, streamDown, publishVars, closer,
                   requested, delivered, ended>>

Mark(c, s) ==
    /\ closer[c] \in {"completing", "failing"} /\ won[c] = NoSubscriber
    /\ s \in ending[c]
    /\ ending' = [ending EXCEPT ![c] = @ \ {s}]
    /\ terminal' = terminal \cup {s}
    /\ won' = [won EXCEPT ![c] = IF s \in terminal THEN NoSubscriber ELSE s]
    /\ UNCHANGED <<joining, inStream, demand, cancelled, streamDown, publishVars, closer,
                   requested, delivered, ended>>

SignalEnd(c) ==
    LET s == won[c] IN
    /\ s # NoSubscriber
    /\ won' = [won EXCEPT ![c] = NoSubscriber]
    /\ ended' = [ended EXCEPT ![s] = IF s \in cancelled THEN @ ELSE Append(@, closer[c])]
    /\ UNCHANGED <<joining, inStream, demand, cancelled, terminal, streamDown, publishVars,
                   closer, ending, requested, delivered>>

-----------------------------------------------------------------------------
StreamNext ==
    \/ \E s \in Subscribers : \/ CheckJoin(s) \/ Join(s) \/ HandToken(s)
                              \/ \E n \in Asks : RequestItems(s, n)
                              \/ CancelToken(s) \/ CancelStreamHandle(s)
    \/ \E p \in Publishers : \/ StartPublish(p) \/ Claim(p) \/ OnNext(p) \/ DropItem(p)
                             \/ \E s \in Subscribers : VisitSubscription(p, s)
    \/ \E c \in Closers : \/ Complete(c) \/ Fail(c) \/ RaiseStreamDown(c)
                          \/ ClearStream(c) \/ SignalEnd(c)
                          \/ \E s \in Subscribers : Mark(c, s)

-----------------------------------------------------------------------------
Claimed(s) == Cardinality({p \in Publishers : publishing[p] = "claimed" /\ at[p] = s})

(* "The publisher will call onNext at most n more times": every unit that  *)
(* was requested is delivered, about to be, or still there, whatever the   *)
(* publishers that race for it do.                                         *)
DemandIsPaid ==
    \A s \in Subscribers :
        demand[s] # Unbounded => delivered[s] + Claimed(s) + demand[s] = requested[s]

(* "Terminal signals are sent once": one closer gets to signal, by         *)
(* onComplete() or by onError(), and a subscriber that did not cancel does *)
(* not miss it.                                                            *)
EndedOnce ==
    \A s \in Subscribers :
        /\ Len(ended[s]) <= 1
        /\ s \in terminal \ cancelled => Len(ended[s]) = 1 \/ \E c \in Closers : won[c] = s

StreamIsExact == DemandIsPaid /\ EndedOnce
=============================================================================
