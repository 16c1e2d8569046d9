----------------------------- MODULE RequestBus -----------------------------
(***************************************************************************)
(* vigine::requestbus::DefaultRequestBus: requests and answers over a      *)
(* message bus.  Each request bus stamps its requests with numbers of its  *)
(* own, files the future under the number before it posts the request, and *)
(* leaves a runnable in the pool that sleeps for the time to live and then *)
(* expires the future.  Answers travel to every request bus on the same    *)
(* message bus and are told apart by the number alone.  A request goes to  *)
(* one responder at a time, until one of its topic takes it.               *)
(***************************************************************************)
EXTENDS Integers, Sequences, FiniteSets, SequencesExt

CONSTANTS
    RequestBuses,
    Carrier,        \* [RequestBuses -> the message bus each one is bound to]
    Requests,       \* the calls of request()
    Issuer,         \* [Requests -> RequestBuses]
    Responders,     \* the subscribers handed to respondTo()
    Topic,          \* [Requests \cup Responders -> a topic]
    Replies,        \* the calls of respond()
    Workers,        \* the workers of the pool that runs the expiries
    Nothing         \* the payload of a reply whose payload was taken before

ASSUME RequestAssumption ==
    /\ IsFiniteSet(Requests) /\ IsFiniteSet(Responders)
    /\ Nothing \notin Requests \cup Responders
    /\ Carrier \in [RequestBuses -> {Carrier[b] : b \in RequestBuses}]
    /\ Issuer \in [Requests -> RequestBuses]
    /\ Workers \in Nat \ {0}

VARIABLES
    corrCounter,  \* [RequestBuses -> the next number]
    down,         \* the request buses whose shutdown flag is set
    swept,        \* those whose shutdown() has cancelled what was pending
    listening,    \* those whose reply subscription is there
    asking,       \* where each call of request() is
    corr,         \* the number of each request
    entries,      \* the requests filed in the registry of their bus
    status,       \* FutureState::status
    payload,      \* FutureState::payload: the reply it came with
    collected,    \* what wait() has moved out of the future
    expiry,       \* the runnable of each request
    poolUp,       \* the pool has not been shut down
    reply,        \* where each reply is
    to,           \* the number each reply carries
    meant,        \* the request each reply is meant for
    full,         \* the replies whose wrapper still holds its payload
    left,         \* the request buses the walk of a reply still visits
    hand,         \* the request whose future a visit has found
    standing,     \* the responders in the order of their subscriptions
    gone,         \* those whose token has been cancelled
    chain,        \* the responders the walk of a request still visits
    rung,         \* the requests whose walk has begun
    taker,        \* the responder that took a request
    present       \* history: the responders subscribed when the walk began

requestVars == <<corrCounter, down, swept, listening, asking, corr, entries, status,
                 payload, collected, expiry, poolUp, reply, to, meant, full, left, hand,
                 standing, gone, chain, rung, taker, present>>

RequestInit ==
    /\ corrCounter = [b \in RequestBuses |-> 1]
    /\ down = {} /\ swept = {} /\ listening = RequestBuses
    /\ asking = [r \in Requests |-> "new"]
    /\ corr = [r \in Requests |-> 0]
    /\ entries = {}
    /\ status = [r \in Requests |-> "pending"]
    /\ payload = [r \in Requests |-> Nothing]
    /\ collected = [r \in Requests |-> Nothing]
    /\ expiry = [r \in Requests |-> "none"]
    /\ poolUp = TRUE
    /\ reply = [p \in Replies |-> "new"]
    /\ to = [p \in Replies |-> 0]
    /\ meant = [p \in Replies |-> Nothing]
    /\ full = Replies
    /\ left = [p \in Replies |-> {}]
    /\ hand = [p \in Replies |-> Nothing]
    /\ standing \in {<<>>} \cup SetToSeqs(Responders)   \* none yet, or all at once
    /\ gone = {}
    /\ chain = [r \in Requests |-> <<>>]
    /\ rung = {}
    /\ taker = [r \in Requests |-> Nothing]
    /\ present = [r \in Requests |-> {}]

responderVars == <<standing, gone, chain, rung, taker, present>>
answerVars == <<collected, responderVars>>
replyVars == <<reply, to, meant, full, left, hand, answerVars>>

(* Mutant: the last one decides.                                           *)
SettledAgain(rs, outcome) ==
    [r \in Requests |-> IF r \in rs THEN outcome ELSE status[r]]

(* tryResolve(), tryExpire(), tryCancel(): the first one decides.          *)
Settled(rs, outcome) ==
    [r \in Requests |-> IF r \in rs /\ status[r] = "pending" THEN outcome ELSE status[r]]

-----------------------------------------------------------------------------
(* request()                                                               *)

Ask(r) ==
    /\ asking[r] = "new"
    /\ Issuer[r] \notin down
    /\ asking' = [asking EXCEPT ![r] = "stamping"]
    /\ UNCHANGED <<corrCounter, down, swept, listening, corr, entries, status, payload,
                   expiry, poolUp, replyVars>>

(* The number is drawn and the entry filed: no other step looks between.   *)
StampAndFile(r) ==
    /\ asking[r] = "stamping"
    /\ corr' = [corr EXCEPT ![r] = corrCounter[Issuer[r]]]
    /\ corrCounter' = [corrCounter EXCEPT ![Issuer[r]] = @ + 1]
    /\ entries' = entries \cup {r}
    /\ asking' = [asking EXCEPT ![r] = "filed"]
    /\ UNCHANGED <<down, swept, listening, status, payload, expiry, poolUp, replyVars>>

PostRequest(r) ==
    /\ asking[r] = "filed"
    /\ asking' = [asking EXCEPT ![r] = "posted"]
    /\ UNCHANGED <<corrCounter, down, swept, listening, corr, entries, status, payload,
                   expiry, poolUp, replyVars>>

(* The message bus refused it (full, or shut down).                        *)
PostFails(r) ==
    /\ asking[r] = "filed"
    /\ asking' = [asking EXCEPT ![r] = "failed"]
    /\ entries' = entries \ {r}
    /\ UNCHANGED <<corrCounter, down, swept, listening, corr, status, payload, expiry,
                   poolUp, replyVars>>

ExpireFailed(r) ==
    /\ asking[r] = "failed"
    /\ asking' = [asking EXCEPT ![r] = "gaveup"]
    /\ status' = Settled({r}, "expired")
    /\ UNCHANGED <<corrCounter, down, swept, listening, corr, entries, payload, expiry,
                   poolUp, replyVars>>

(* The result of schedule() is not looked at.                              *)
ScheduleExpiry(r) ==
    /\ asking[r] = "posted"
    /\ asking' = [asking EXCEPT ![r] = "returned"]
    /\ expiry' = [expiry EXCEPT ![r] = IF poolUp THEN "queued" ELSE "lost"]
    /\ UNCHANGED <<corrCounter, down, swept, listening, corr, entries, status, payload,
                   poolUp, replyVars>>

-----------------------------------------------------------------------------
(* TtlCleanupRunnable::run() on a worker, which sleeps all the while.      *)

Sleeping == {r \in Requests : expiry[r] \in {"asleep", "expired"}}

FallAsleep(r) ==
    /\ expiry[r] = "queued" /\ poolUp
    /\ Cardinality(Sleeping) < Workers
    /\ expiry' = [expiry EXCEPT ![r] = "asleep"]
    /\ UNCHANGED <<corrCounter, down, swept, listening, asking, corr, entries, status,
                   payload, poolUp, replyVars>>

Expire(r) ==
    /\ expiry[r] = "asleep"
    /\ expiry' = [expiry EXCEPT ![r] = "expired"]
    /\ status' = Settled({r}, "expired")
    /\ UNCHANGED <<corrCounter, down, swept, listening, asking, corr, entries, payload,
                   poolUp, replyVars>>

(* Mutant: the entry goes only if the expiry came first.                   *)
UnfileExpired(r) ==
    /\ expiry[r] = "expired"
    /\ expiry' = [expiry EXCEPT ![r] = "over"]
    /\ entries' = IF status[r] = "expired" THEN entries \ {r} ELSE entries
    /\ UNCHANGED <<corrCounter, down, swept, listening, asking, corr, status, payload,
                   poolUp, replyVars>>

Unfile(r) ==
    /\ expiry[r] = "expired"
    /\ expiry' = [expiry EXCEPT ![r] = "over"]
    /\ entries' = entries \ {r}
    /\ UNCHANGED <<corrCounter, down, swept, listening, asking, corr, status, payload,
                   poolUp, replyVars>>

(* The pool's shutdown discards what no worker has begun.                  *)
PoolShutdown ==
    /\ poolUp
    /\ poolUp' = FALSE
    /\ expiry' = [r \in Requests |-> IF expiry[r] = "queued" THEN "lost" ELSE expiry[r]]
    /\ UNCHANGED <<corrCounter, down, swept, listening, asking, corr, entries, status,
                   payload, replyVars>>

-----------------------------------------------------------------------------
(* Responders: respondTo(), and the cancel() of its token, which comes     *)
(* between two visits of a walk.                                           *)

besideResponders == <<corrCounter, down, swept, listening, asking, corr, entries, status,
                      payload, collected, expiry, poolUp, reply, to, meant, full, left, hand>>

RespondTo(d, b) ==
    /\ d \notin ToSet(standing)
    /\ b \notin down
    /\ standing' = Append(standing, d)
    /\ UNCHANGED <<gone, chain, rung, taker, present, besideResponders>>

CancelResponder(d) ==
    /\ d \in ToSet(standing) \ gone
    /\ gone' = gone \cup {d}
    /\ UNCHANGED <<standing, chain, rung, taker, present, besideResponders>>

(* The message bus walks a copy of its subscriptions, the first that does  *)
(* not pass the request ends it (RouteMode::FirstMatch).  Those cancelled  *)
(* by then have left the registry, those cancelled later are passed over:  *)
(* both come to the same.                                                  *)
DispatchRequest(r) ==
    /\ asking[r] \in {"posted", "returned"} /\ r \notin rung
    /\ rung' = rung \cup {r}
    /\ chain' = [chain EXCEPT ![r] = standing]
    /\ present' = [present EXCEPT ![r] = ToSet(standing) \ gone]
    /\ UNCHANGED <<standing, gone, taker, besideResponders>>

(* Mutant of Passes: a request for another topic ends here.                *)
PassesNot(d, r) == d \in gone

(* TopicFilteringSubscriber: a request for another topic goes on.          *)
Passes(d, r) == d \in gone \/ Topic[d] # Topic[r]

VisitResponder(r) ==
    LET d == Head(chain[r]) IN
    /\ chain[r] # <<>>
    /\ IF Passes(d, r)
       THEN chain' = [chain EXCEPT ![r] = Tail(@)] /\ UNCHANGED taker
       ELSE /\ chain' = [chain EXCEPT ![r] = <<>>]
            /\ taker' = [taker EXCEPT ![r] = IF Topic[d] = Topic[r] THEN d ELSE @]
    /\ UNCHANGED <<standing, gone, rung, present, besideResponders>>

-----------------------------------------------------------------------------
(* The caller's future: wait() moves the payload out, cancel() leaves what *)
(* has come; the status, on which everything else depends, stays.          *)
Collect(r) ==
    /\ asking[r] = "returned"
    /\ status[r] = "resolved" /\ payload[r] # Nothing
    /\ collected' = [collected EXCEPT ![r] = payload[r]]
    /\ payload' = [payload EXCEPT ![r] = Nothing]
    /\ UNCHANGED <<corrCounter, down, swept, listening, asking, corr, entries, status,
                   expiry, poolUp, reply, to, meant, full, left, hand, responderVars>>

Cancel(r) ==
    /\ asking[r] = "returned"
    /\ status[r] = "pending"
    /\ status' = Settled({r}, "cancelled")
    /\ UNCHANGED <<corrCounter, down, swept, listening, asking, corr, entries, payload,
                   expiry, poolUp, replyVars>>

-----------------------------------------------------------------------------
(* respond(): a responder that took the request answers it through the     *)
(* bus it came from, maybe more than once.                                 *)
Respond(p, r) ==
    /\ reply[p] = "new"
    /\ taker[r] # Nothing
    /\ Issuer[r] \notin down
    /\ reply' = [reply EXCEPT ![p] = "posted"]
    /\ meant' = [meant EXCEPT ![p] = r]
    /\ to' = [to EXCEPT ![p] = corr[r]]
    /\ UNCHANGED <<corrCounter, down, swept, listening, asking, corr, entries, status,
                   payload, expiry, poolUp, full, left, hand, answerVars>>

(* The message bus takes its snapshot; the order of the walk is open.      *)
DispatchReply(p) ==
    /\ reply[p] = "posted"
    /\ reply' = [reply EXCEPT ![p] = "walking"]
    /\ left' = [left EXCEPT ![p] =
                  {b \in listening : Carrier[b] = Carrier[Issuer[meant[p]]]}]
    /\ UNCHANGED <<corrCounter, down, swept, listening, asking, corr, entries, status,
                   payload, expiry, poolUp, to, meant, full, hand, answerVars>>

Found(p, b) == {r \in entries : Issuer[r] = b /\ corr[r] = to[p]}

(* ReplySubscriber::onMessage takes the entry out, then resolves.          *)
VisitSubscriber(p, b) ==
    /\ reply[p] = "walking" /\ hand[p] = Nothing
    /\ b \in left[p]
    /\ left' = [left EXCEPT ![p] = @ \ {b}]
    /\ IF b \in listening /\ Found(p, b) # {}
       THEN /\ hand' = [hand EXCEPT ![p] = CHOOSE r \in Found(p, b) : TRUE]
            /\ entries' = entries \ Found(p, b)
       ELSE UNCHANGED <<hand, entries>>
    /\ UNCHANGED <<corrCounter, down, swept, listening, asking, corr, status, payload,
                   expiry, poolUp, reply, to, meant, full, answerVars>>

(* takeInner() empties the wrapper, then tryResolve().                     *)
Resolve(p) ==
    LET r == hand[p]
        taken == IF p \in full THEN meant[p] ELSE Nothing
    IN
    /\ r # Nothing
    /\ hand' = [hand EXCEPT ![p] = Nothing]
    /\ full' = full \ {p}
    /\ status' = Settled({r}, "resolved")
    /\ payload' = [payload EXCEPT ![r] = IF status[r] = "pending" THEN taken ELSE @]
    /\ UNCHANGED <<corrCounter, down, swept, listening, asking, corr, entries, expiry,
                   poolUp, reply, to, meant, left, answerVars>>

-----------------------------------------------------------------------------
(* shutdown()                                                              *)

FlagDown(b) ==
    /\ b \notin down
    /\ down' = down \cup {b}
    /\ UNCHANGED <<corrCounter, swept, listening, asking, corr, entries, status, payload,
                   expiry, poolUp, replyVars>>

CancelPending(b) ==
    LET mine == {r \in entries : Issuer[r] = b} IN
    /\ b \in down \ swept
    /\ swept' = swept \cup {b}
    /\ status' = Settled(mine, "cancelled")
    /\ entries' = entries \ mine
    /\ UNCHANGED <<corrCounter, down, listening, asking, corr, payload, expiry, poolUp,
                   replyVars>>

(* The token's cancel() waits until nobody is inside the subscriber.       *)
Unsubscribe(b) ==
    /\ b \in swept \cap listening
    /\ \A p \in Replies : hand[p] # Nothing => Issuer[hand[p]] # b
    /\ listening' = listening \ {b}
    /\ UNCHANGED <<corrCounter, down, swept, asking, corr, entries, status, payload,
                   expiry, poolUp, replyVars>>

-----------------------------------------------------------------------------
CallerStep(r) == StampAndFile(r) \/ PostRequest(r) \/ PostFails(r) \/ ExpireFailed(r)
                 \/ ScheduleExpiry(r)
ExpiryStep(r) == FallAsleep(r) \/ Expire(r) \/ Unfile(r)

WalkStep(r) == DispatchRequest(r) \/ VisitResponder(r)

(* What the finding of a responder depends on                              *)
RespondNext ==
    \/ \E r \in Requests : Ask(r) \/ CallerStep(r) \/ WalkStep(r)
    \/ \E d \in Responders : CancelResponder(d) \/ \E b \in RequestBuses : RespondTo(d, b)
    \/ \E b \in RequestBuses : FlagDown(b)

RequestNext ==
    \/ \E r \in Requests :
          Ask(r) \/ CallerStep(r) \/ WalkStep(r) \/ ExpiryStep(r) \/ Cancel(r) \/ Collect(r)
    \/ \E p \in Replies : \/ \E r \in Requests : Respond(p, r)
                          \/ DispatchReply(p) \/ Resolve(p)
                          \/ \E b \in RequestBuses : VisitSubscriber(p, b)
    \/ \E b \in RequestBuses : FlagDown(b) \/ CancelPending(b) \/ Unsubscribe(b)
    \/ PoolShutdown

(* Callers, workers and the thread that walks a reply go on.               *)
RequestFairness ==
    /\ \A r \in Requests : WF_requestVars(CallerStep(r)) /\ WF_requestVars(ExpiryStep(r))
    /\ \A p \in Replies :
          WF_requestVars(Resolve(p) \/ \E b \in RequestBuses : VisitSubscriber(p, b))

-----------------------------------------------------------------------------
(* A resolved future holds the payload that answers its own request, never *)
(* another's and never the empty wrapper an earlier taker left behind,     *)
(* until the caller gets it, once, whatever expiries, cancellations,       *)
(* shutdowns and second answers do meanwhile; and one that ended otherwise *)
(* holds none (FutureState, ReplySubscriber::onMessage, wait).             *)
AnswerMeetsItsRequest ==
    \A r \in Requests :
        IF status[r] = "resolved" THEN {payload[r], collected[r]} = {r, Nothing}
        ELSE payload[r] = Nothing /\ collected[r] = Nothing

(* A request is taken by a responder of its topic, and by none only if     *)
(* each of them has subscribed too late or cancelled by the end of the     *)
(* walk: those of other topics do not keep it (TopicFilteringSubscriber).  *)
NoRequestIsSwallowed ==
    \A r \in rung : taker[r] = Nothing =>
        \A d \in present[r] \ gone :
            Topic[d] = Topic[r] => d \in ToSet(chain[r])

RequestsAreAnswered == AnswerMeetsItsRequest /\ NoRequestIsSwallowed

(* Every request comes to an end, and its entry with it, as long as the    *)
(* pool runs: answered, expired, cancelled, or caught by a shutdown it     *)
(* raced, and even when the expiry finds the future settled long ago.      *)
RequestsEnd ==
    \A r \in Requests :
        r \in entries ~> ~poolUp \/ (r \notin entries /\ status[r] # "pending")
=============================================================================
