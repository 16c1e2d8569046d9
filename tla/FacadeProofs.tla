---------------------------- MODULE FacadeProofs -----------------------------
(***************************************************************************)
(* The facades over the bus and the threads, for any number of calls,      *)
(* messages, subscribers, channels, targets and names: each component on   *)
(* its own, and then all of them as the model-checked composition has them.*)
(***************************************************************************)
EXTENDS MCFacades, SequenceTheorems, FiniteSetTheorems, TLAPS

-----------------------------------------------------------------------------
(* The request bus: RequestsAreAnswered                                    *)

RequestSpec == RequestInit /\ [][RequestNext \/ RespondNext]_requestVars

(* One request bus on each message bus: two of them number their requests  *)
(* alike and take each other's answers (defaultrequestbus.h).              *)
LoneBuses == \A b, c \in RequestBuses : Carrier[b] = Carrier[c] => b = c

AskPlaces == {"new", "stamping", "filed", "failed", "gaveup", "posted", "returned"}
CallTypes ==
    /\ corrCounter \in [RequestBuses -> Nat]
    /\ asking \in [Requests -> AskPlaces]
    /\ corr \in [Requests -> Nat]
    /\ entries \subseteq Requests /\ rung \subseteq Requests
    /\ listening \subseteq RequestBuses
FutureTypes ==
    /\ DOMAIN status = Requests /\ DOMAIN payload = Requests /\ DOMAIN collected = Requests
    /\ payload \in [Requests -> Requests \cup {Nothing}]
ReplyTypes ==
    /\ reply \in [Replies -> {"new", "posted", "walking"}]
    /\ to \in [Replies -> Nat] /\ meant \in [Replies -> Requests \cup {Nothing}]
    /\ hand \in [Replies -> Requests \cup {Nothing}]
    /\ left \in [Replies -> SUBSET RequestBuses]
WalkTypes ==
    /\ standing \in Seq(Responders)
    /\ chain \in [Requests -> Seq(Responders)]
    /\ taker \in [Requests -> Responders \cup {Nothing}]
    /\ DOMAIN present = Requests
Typed == CallTypes /\ FutureTypes /\ ReplyTypes /\ WalkTypes

(* A number belongs to one request of its bus, from before it is filed.    *)
Stamped == {r \in Requests : asking[r] \notin {"new", "stamping"}}
NumberInv ==
    /\ \A r \in Stamped : corr[r] < corrCounter[Issuer[r]]
    /\ \A r, s \in Stamped : Issuer[r] = Issuer[s] /\ corr[r] = corr[s] => r = s
    /\ entries \subseteq Stamped /\ rung \subseteq Stamped
    /\ \A r \in Requests : taker[r] # Nothing \/ chain[r] # <<>> => r \in rung
(* A reply carries the number of the request it is meant for, visits the   *)
(* bus of that one at most once, and has its payload till then.            *)
Untold(p) == p \in full /\ hand[p] = Nothing
ReplyInv ==
    \A p \in Replies :
        /\ reply[p] = "new" => Untold(p) /\ left[p] = {}
        /\ reply[p] # "new" => meant[p] \in Stamped /\ to[p] = corr[meant[p]]
        /\ reply[p] = "posted" => Untold(p) /\ left[p] = {}
        /\ left[p] # {} => Untold(p) /\ left[p] \subseteq {Issuer[meant[p]]}
        /\ hand[p] # Nothing => p \in full /\ hand[p] = meant[p] /\ left[p] = {}
RequestInv ==
    Typed /\ NumberInv /\ ReplyInv /\ AnswerMeetsItsRequest /\ NoRequestIsSwallowed

callerVars == <<corrCounter, asking, corr, entries, listening>>
futureVars == <<status, payload, collected>>
answerWalkVars == <<reply, to, meant, full, left, hand>>

LEMMA RequestStarts == RequestInit => RequestInv
<1> SUFFICES ASSUME RequestInit PROVE RequestInv
  OBVIOUS
<1>1. standing \in Seq(Responders)
  <2>1. CASE standing = <<>>
    BY <2>1
  <2>2. CASE standing \in SetToSeqs(Responders)
    <3>1. standing \in [1 .. Cardinality(Responders) -> Responders]
      BY <2>2 DEF SetToSeqs
    <3>2. Cardinality(Responders) \in Nat
      BY RequestAssumption, FS_CardinalityType
    <3>3. QED BY <3>1, <3>2, SeqDef
  <2>3. QED BY <2>1, <2>2 DEF RequestInit
<1>2. Typed
  BY <1>1 DEF RequestInit, Typed, CallTypes, FutureTypes, ReplyTypes, WalkTypes, AskPlaces
<1>3. NumberInv
  BY DEF RequestInit, NumberInv, Stamped
<1>4. ReplyInv
  BY DEF RequestInit, ReplyInv, Untold
<1>5. AnswerMeetsItsRequest /\ NoRequestIsSwallowed
  BY DEF RequestInit, AnswerMeetsItsRequest, NoRequestIsSwallowed
<1>6. QED BY <1>2, <1>3, <1>4, <1>5 DEF RequestInv

-----------------------------------------------------------------------------
(* What a step that leaves a part alone keeps of it                        *)
LEMMA KeepNumbers ==
    ASSUME NumberInv, UNCHANGED <<corrCounter, corr, rung, chain, taker>>, Stamped' = Stamped,
           entries' \subseteq entries
    PROVE  NumberInv'
BY DEF NumberInv

LEMMA KeepReplies ==
    ASSUME ReplyInv, UNCHANGED answerWalkVars, UNCHANGED corr, Stamped \subseteq Stamped'
    PROVE  ReplyInv'
BY DEF ReplyInv, answerWalkVars, Untold

LEMMA KeepAnswers ==
    ASSUME AnswerMeetsItsRequest, UNCHANGED <<payload, collected>>, NEW rs, NEW how,
           how # "resolved", status' = Settled(rs, how)
    PROVE  AnswerMeetsItsRequest'
BY DEF AnswerMeetsItsRequest, Settled

LEMMA KeepWalks ==
    ASSUME NoRequestIsSwallowed, UNCHANGED <<rung, taker, present, chain>>, gone \subseteq gone'
    PROVE  NoRequestIsSwallowed'
BY DEF NoRequestIsSwallowed

-----------------------------------------------------------------------------
(* The caller, and the expiry of its request                               *)
LEMMA CallerKeeps ==
    ASSUME RequestInv, NEW r \in Requests,
           \/ Ask(r) \/ PostRequest(r) \/ PostFails(r) \/ ExpireFailed(r) \/ ScheduleExpiry(r)
           \/ FallAsleep(r) \/ Expire(r) \/ Unfile(r) \/ Cancel(r)
    PROVE  RequestInv'
<1> USE DEF RequestInv, replyVars, answerVars, responderVars
<1>1. /\ UNCHANGED <<corrCounter, corr, listening, payload, answerWalkVars, answerVars>>
      /\ entries' \subseteq entries /\ Stamped' = Stamped
      /\ asking' \in [Requests -> AskPlaces]
  BY DEF Ask, PostRequest, PostFails, ExpireFailed, ScheduleExpiry, FallAsleep, Expire, Unfile,
         Cancel, answerWalkVars, Stamped, Typed, CallTypes, AskPlaces
<1>2. status' = status \/ status' = Settled({r}, "expired") \/ status' = Settled({r}, "cancelled")
  BY DEF Ask, PostRequest, PostFails, ExpireFailed, ScheduleExpiry, FallAsleep, Expire, Unfile,
         Cancel
<1>3. AnswerMeetsItsRequest' /\ DOMAIN status' = Requests
  <2>1. CASE status' = status
    BY <1>1, <2>1 DEF AnswerMeetsItsRequest, Typed, FutureTypes
  <2>2. CASE status' = Settled({r}, "expired") \/ status' = Settled({r}, "cancelled")
    BY <1>1, <2>2, KeepAnswers DEF Settled
  <2>3. QED BY <1>2, <2>1, <2>2
<1>4. Typed'
  BY <1>1, <1>3 DEF Typed, CallTypes, FutureTypes, ReplyTypes, WalkTypes, answerWalkVars
<1>5. NumberInv' /\ ReplyInv' /\ NoRequestIsSwallowed'
  BY <1>1, KeepNumbers, KeepReplies, KeepWalks DEF answerWalkVars
<1>6. QED BY <1>3, <1>4, <1>5

LEMMA StampKeeps ==
    ASSUME RequestInv, NEW r \in Requests, StampAndFile(r) PROVE RequestInv'
<1> USE DEF RequestInv, replyVars, answerVars, responderVars
<1>0. /\ Issuer[r] \in RequestBuses /\ r \notin Stamped
      /\ corr' = [corr EXCEPT ![r] = corrCounter[Issuer[r]]]
      /\ corrCounter' = [corrCounter EXCEPT ![Issuer[r]] = corrCounter[Issuer[r]] + 1]
      /\ entries' = entries \cup {r} /\ asking' = [asking EXCEPT ![r] = "filed"]
      /\ UNCHANGED <<listening, status, payload, answerWalkVars, answerVars>>
  BY RequestAssumption DEF StampAndFile, Stamped, answerWalkVars
<1>1. Typed'
  BY <1>0 DEF Typed, CallTypes, FutureTypes, ReplyTypes, WalkTypes, answerWalkVars, AskPlaces
<1>2. Stamped' = Stamped \cup {r}
  BY <1>0 DEF Stamped, Typed, CallTypes
<1>3. \A s \in Stamped : s \in Requests /\ s # r /\ corr'[s] = corr[s] /\ Issuer[s] \in RequestBuses
  BY <1>0, RequestAssumption DEF Stamped, Typed, CallTypes
<1>4. NumberInv'
  <2>1. corr'[r] = corrCounter[Issuer[r]] /\ corrCounter'[Issuer[r]] = corr'[r] + 1
    BY <1>0 DEF Typed, CallTypes
  <2>2. \A b \in RequestBuses : corrCounter[b] \in Nat /\ corrCounter'[b] \in Nat
                                /\ corrCounter[b] <= corrCounter'[b]
    BY <1>0 DEF Typed, CallTypes
  <2>3. \A s \in Requests : corr[s] \in Nat
    BY DEF Typed, CallTypes
  <2>4. ASSUME NEW s \in Stamped' PROVE corr'[s] < corrCounter'[Issuer[s]]
    <3>1. CASE s = r
      BY <1>0, <2>1, <2>2, <3>1
    <3>2. CASE s \in Stamped
      BY <1>3, <2>2, <2>3, <3>2 DEF NumberInv
    <3>3. QED BY <1>2, <3>1, <3>2
  <2>5. ASSUME NEW s \in Stamped, Issuer[s] = Issuer[r] PROVE corr'[s] # corr'[r]
    BY <1>3, <2>1, <2>2, <2>3, <2>5 DEF NumberInv
  <2>6. ASSUME NEW s \in Stamped', NEW t \in Stamped', Issuer[s] = Issuer[t], corr'[s] = corr'[t]
        PROVE  s = t
    BY <1>2, <1>3, <2>5, <2>6 DEF NumberInv
  <2>7. entries' \subseteq Stamped' /\ rung' \subseteq Stamped' 
        /\ UNCHANGED <<rung, chain, taker>>
    BY <1>0, <1>2 DEF NumberInv
  <2>8. QED BY <2>4, <2>6, <2>7 DEF NumberInv
<1>5. ReplyInv'
  <2> SUFFICES ASSUME NEW p \in Replies
               PROVE  reply[p] # "new" => meant[p] \in Stamped' /\ to[p] = corr'[meant[p]]
    BY <1>0 DEF ReplyInv, answerWalkVars, Untold
  <2>1. QED BY <1>2, <1>3 DEF ReplyInv
<1>6. AnswerMeetsItsRequest' /\ NoRequestIsSwallowed'
  BY <1>0, KeepWalks DEF AnswerMeetsItsRequest
<1>7. QED BY <1>1, <1>4, <1>5, <1>6

LEMMA CollectKeeps ==
    ASSUME RequestInv, NEW r \in Requests, Collect(r) PROVE RequestInv'
<1> USE DEF RequestInv, responderVars
<1>0. /\ UNCHANGED <<callerVars, status, answerWalkVars, responderVars>>
      /\ collected' = [collected EXCEPT ![r] = payload[r]]
      /\ payload' = [payload EXCEPT ![r] = Nothing]
      /\ status[r] = "resolved" /\ payload[r] # Nothing
  BY DEF Collect, callerVars, answerWalkVars
<1>1. Typed'
  BY <1>0 DEF Typed, CallTypes, FutureTypes, ReplyTypes, WalkTypes, callerVars, answerWalkVars
<1>2. payload[r] = r
  BY <1>0 DEF AnswerMeetsItsRequest
<1>3. AnswerMeetsItsRequest'
  <2>1. payload'[r] = Nothing /\ collected'[r] = r
    BY <1>0, <1>2 DEF Typed, FutureTypes
  <2>2. \A s \in Requests \ {r} : payload'[s] = payload[s] /\ collected'[s] = collected[s]
    BY <1>0 DEF Typed, FutureTypes
  <2>3. QED BY <1>0, <2>1, <2>2 DEF AnswerMeetsItsRequest
<1>4. NumberInv' /\ ReplyInv' /\ NoRequestIsSwallowed'
  BY <1>0, KeepNumbers, KeepReplies, KeepWalks DEF callerVars, answerWalkVars, Stamped
<1>5. QED BY <1>1, <1>3, <1>4

-----------------------------------------------------------------------------
(* The answer on its way                                                   *)
LEMMA RespondKeeps ==
    ASSUME RequestInv, NEW p \in Replies, NEW r \in Requests, Respond(p, r) PROVE RequestInv'
<1> USE DEF RequestInv, answerVars, responderVars
<1>0. /\ r \in Stamped /\ r # Nothing
      /\ reply[p] = "new" /\ reply' = [reply EXCEPT ![p] = "posted"]
      /\ meant' = [meant EXCEPT ![p] = r] /\ to' = [to EXCEPT ![p] = corr[r]]
      /\ UNCHANGED <<callerVars, futureVars, full, left, hand, responderVars>>
  BY RequestAssumption DEF Respond, NumberInv, callerVars, futureVars
<1>1. Typed'
  BY <1>0 DEF Typed, CallTypes, FutureTypes, ReplyTypes, WalkTypes, callerVars, futureVars
<1>2. ReplyInv'
  <2>1. Stamped' = Stamped /\ corr' = corr
    BY <1>0 DEF Stamped, callerVars
  <2>2. ASSUME NEW q \in Replies, q # p
        PROVE  reply'[q] = reply[q] /\ meant'[q] = meant[q] /\ to'[q] = to[q]
    BY <1>0, <2>2 DEF Typed, ReplyTypes
  <2>3. reply'[p] = "posted" /\ meant'[p] = r /\ to'[p] = corr[r] /\ Untold(p) /\ left[p] = {}
    BY <1>0 DEF Typed, ReplyTypes, ReplyInv
  <2>4. QED BY <1>0, <2>1, <2>2, <2>3 DEF ReplyInv, Untold
<1>3. AnswerMeetsItsRequest' /\ NumberInv' /\ NoRequestIsSwallowed'
  BY <1>0, KeepNumbers, KeepWalks DEF AnswerMeetsItsRequest, callerVars, futureVars, Stamped
<1>4. QED BY <1>1, <1>2, <1>3

LEMMA DispatchKeeps ==
    ASSUME RequestInv, LoneBuses, NEW p \in Replies, DispatchReply(p) PROVE RequestInv'
<1> USE DEF RequestInv, answerVars, responderVars
<1> DEFINE bs == {b \in listening : Carrier[b] = Carrier[Issuer[meant[p]]]}
<1>0. /\ reply[p] = "posted" /\ reply' = [reply EXCEPT ![p] = "walking"]
      /\ left' = [left EXCEPT ![p] = bs]
      /\ UNCHANGED <<callerVars, futureVars, to, meant, full, hand, responderVars>>
  BY DEF DispatchReply, callerVars, futureVars
<1>1. Issuer[meant[p]] \in RequestBuses /\ bs \subseteq {Issuer[meant[p]]}
  <2>1. meant[p] \in Requests
    BY <1>0 DEF ReplyInv, Stamped
  <2>2. QED BY <2>1, RequestAssumption DEF LoneBuses, Typed, CallTypes
<1>2. Typed'
  BY <1>0, <1>1 DEF Typed, CallTypes, FutureTypes, ReplyTypes, WalkTypes, callerVars, futureVars
<1>3. ReplyInv'
  <2>1. Stamped' = Stamped /\ corr' = corr
    BY <1>0 DEF Stamped, callerVars
  <2>2. ASSUME NEW q \in Replies, q # p PROVE reply'[q] = reply[q] /\ left'[q] = left[q]
    BY <1>0, <2>2 DEF Typed, ReplyTypes
  <2>3. reply'[p] = "walking" /\ left'[p] = bs /\ Untold(p)
    BY <1>0 DEF Typed, ReplyTypes, ReplyInv
  <2>4. QED BY <1>0, <1>1, <2>1, <2>2, <2>3 DEF ReplyInv, Untold
<1>4. AnswerMeetsItsRequest' /\ NumberInv' /\ NoRequestIsSwallowed'
  BY <1>0, KeepNumbers, KeepWalks DEF AnswerMeetsItsRequest, callerVars, futureVars, Stamped
<1>5. QED BY <1>2, <1>3, <1>4

(* The number leads to the request the reply was meant for, if to any.     *)
LEMMA FoundIsMeant ==
    ASSUME RequestInv, NEW p \in Replies, NEW b \in left[p], NEW r \in Found(p, b)
    PROVE  r = meant[p]
<1>1. reply[p] # "new" /\ meant[p] \in Stamped /\ to[p] = corr[meant[p]] /\ b = Issuer[meant[p]]
  BY DEF RequestInv, ReplyInv
<1>2. r \in Stamped /\ Issuer[r] = b /\ corr[r] = to[p]
  BY DEF RequestInv, NumberInv, Found
<1>3. QED BY <1>1, <1>2 DEF RequestInv, NumberInv

LEMMA VisitKeeps ==
    ASSUME RequestInv, NEW p \in Replies, NEW b \in RequestBuses, VisitSubscriber(p, b)
    PROVE  RequestInv'
<1> USE DEF RequestInv, answerVars, responderVars
<1>0. /\ UNCHANGED <<corrCounter, asking, corr, listening, futureVars, reply, to, meant, full,
                     responderVars>>
      /\ left' = [left EXCEPT ![p] = left[p] \ {b}]
      /\ b \in left[p] /\ Untold(p)
      /\ reply[p] # "new" /\ meant[p] \in Stamped /\ left[p] \subseteq {Issuer[meant[p]]}
  BY DEF VisitSubscriber, futureVars, ReplyInv, Untold
<1>1. /\ entries' \subseteq entries
      /\ hand' = hand \/ hand' = [hand EXCEPT ![p] = meant[p]]
  <2>1. CASE b \in listening /\ Found(p, b) # {}
    <3> DEFINE r == CHOOSE r \in Found(p, b) : TRUE
    <3>1. r \in Found(p, b)
      BY <2>1
    <3>2. r = meant[p]
      BY <1>0, <3>1, FoundIsMeant
    <3>3. QED BY <2>1, <3>2 DEF VisitSubscriber
  <2>2. CASE ~(b \in listening /\ Found(p, b) # {})
    BY <2>2 DEF VisitSubscriber
  <2>3. QED BY <2>1, <2>2
<1>2. meant[p] \in Requests /\ meant[p] # Nothing
  BY <1>0, RequestAssumption DEF Stamped
<1>3. Typed'
  BY <1>0, <1>1, <1>2 DEF Typed, CallTypes, FutureTypes, ReplyTypes, WalkTypes, futureVars
<1>4. ReplyInv'
  <2>1. Stamped' = Stamped /\ corr' = corr
    BY <1>0 DEF Stamped
  <2>2. ASSUME NEW q \in Replies, q # p PROVE hand'[q] = hand[q] /\ left'[q] = left[q]
    BY <1>0, <1>1, <2>2 DEF Typed, ReplyTypes
  <2>3. left'[p] = {} /\ hand'[p] \in {Nothing, meant[p]} /\ p \in full
    BY <1>0, <1>1 DEF Typed, ReplyTypes, Untold
  <2>4. reply[p] = "walking"
    BY <1>0 DEF VisitSubscriber
  <2>5. QED BY <1>0, <2>1, <2>2, <2>3, <2>4 DEF ReplyInv, Untold
<1>5. AnswerMeetsItsRequest' /\ NumberInv' /\ NoRequestIsSwallowed'
  BY <1>0, <1>1, KeepNumbers, KeepWalks DEF AnswerMeetsItsRequest, futureVars, Stamped
<1>6. QED BY <1>3, <1>4, <1>5

LEMMA ResolveKeeps ==
    ASSUME RequestInv, NEW p \in Replies, Resolve(p) PROVE RequestInv'
<1> USE DEF RequestInv, answerVars, responderVars
<1> DEFINE r == meant[p]
<1>0. /\ hand[p] # Nothing /\ hand[p] = r /\ p \in full /\ left[p] = {}
      /\ r \in Requests /\ r # Nothing
  BY RequestAssumption DEF Resolve, ReplyInv, Typed, ReplyTypes
<1>1. /\ hand' = [hand EXCEPT ![p] = Nothing] /\ full' = full \ {p}
      /\ status' = Settled({r}, "resolved")
      /\ payload' = [payload EXCEPT ![r] = IF status[r] = "pending" THEN r ELSE payload[r]]
      /\ UNCHANGED <<callerVars, collected, reply, to, meant, left, responderVars>>
  BY <1>0 DEF Resolve, callerVars
<1>2. Typed'
  BY <1>0, <1>1 DEF Typed, CallTypes, FutureTypes, ReplyTypes, WalkTypes, callerVars, Settled
<1>3. ReplyInv'
  <2>1. Stamped' = Stamped /\ corr' = corr
    BY <1>1 DEF Stamped, callerVars
  <2>2. ASSUME NEW q \in Replies, q # p PROVE hand'[q] = hand[q] /\ (q \in full' <=> q \in full)
    BY <1>1, <2>2 DEF Typed, ReplyTypes
  <2>3. hand'[p] = Nothing /\ left'[p] = {}
    BY <1>0, <1>1 DEF Typed, ReplyTypes
  <2>4. reply[p] = "walking"
    BY <1>0 DEF ReplyInv, Untold, Typed, ReplyTypes
  <2>5. QED BY <1>1, <2>1, <2>2, <2>3, <2>4 DEF ReplyInv, Untold
<1>4. AnswerMeetsItsRequest'
  <2>1. \A s \in Requests \ {r} : status'[s] = status[s] /\ payload'[s] = payload[s]
    BY <1>0, <1>1 DEF Settled, Typed, FutureTypes
  <2>2. payload'[r] = IF status[r] = "pending" THEN r ELSE payload[r]
    BY <1>0, <1>1 DEF Typed, FutureTypes
  <2>3. status'[r] = IF status[r] = "pending" THEN "resolved" ELSE status[r]
    BY <1>0, <1>1 DEF Settled
  <2>4. QED BY <1>1, <2>1, <2>2, <2>3 DEF AnswerMeetsItsRequest
<1>5. NumberInv' /\ NoRequestIsSwallowed'
  BY <1>1, KeepNumbers, KeepWalks DEF callerVars, Stamped
<1>6. QED BY <1>2, <1>3, <1>4, <1>5

-----------------------------------------------------------------------------
(* The responders                                                          *)
besideWalk == <<callerVars, futureVars, answerWalkVars>>

LEMMA WalkKeeps ==
    ASSUME RequestInv, UNCHANGED besideWalk, WalkTypes', rung' \subseteq Stamped,
           \A r \in Requests : taker'[r] # Nothing \/ chain'[r] # <<>> => r \in rung',
           NoRequestIsSwallowed'
    PROVE  RequestInv'
<1> USE DEF RequestInv, besideWalk, callerVars, futureVars
<1>1. Stamped' = Stamped /\ Stamped \subseteq Requests
  BY DEF Stamped
<1>2. Typed'
  BY <1>1 DEF Typed, CallTypes, FutureTypes, ReplyTypes, answerWalkVars
<1>3. NumberInv' /\ AnswerMeetsItsRequest' /\ ReplyInv'
  BY <1>1, KeepReplies DEF NumberInv, AnswerMeetsItsRequest
<1>4. QED BY <1>2, <1>3

LEMMA RespondersKeep ==
    ASSUME RequestInv, NEW d \in Responders,
           CancelResponder(d) \/ \E b \in RequestBuses : RespondTo(d, b)
    PROVE  RequestInv'
<1>1. /\ UNCHANGED <<besideWalk, chain, rung, taker, present>> /\ gone \subseteq gone'
      /\ standing' = standing \/ standing' = Append(standing, d)
  BY DEF CancelResponder, RespondTo, besideResponders, besideWalk, callerVars, futureVars,
         answerWalkVars
<1>2. WalkTypes'
  BY <1>1, AppendProperties DEF RequestInv, Typed, WalkTypes
<1>3. NoRequestIsSwallowed'
  BY <1>1, KeepWalks DEF RequestInv
<1>4. QED BY <1>1, <1>2, <1>3, WalkKeeps DEF RequestInv, NumberInv

LEMMA RingKeeps ==
    ASSUME RequestInv, NEW r \in Requests, DispatchRequest(r) PROVE RequestInv'
<1>0. /\ r \in Stamped /\ r \notin rung /\ rung' = rung \cup {r}
      /\ chain' = [chain EXCEPT ![r] = standing]
      /\ present' = [present EXCEPT ![r] = ToSet(standing) \ gone]
      /\ UNCHANGED <<besideWalk, standing, gone, taker>>
  BY DEF DispatchRequest, Stamped, besideResponders, besideWalk, callerVars, futureVars,
         answerWalkVars
<1>1. WalkTypes'
  BY <1>0 DEF RequestInv, Typed, WalkTypes
<1>2. NoRequestIsSwallowed'
  <2>1. \A s \in rung : chain'[s] = chain[s] /\ present'[s] = present[s] /\ s \in Requests
    BY <1>0 DEF RequestInv, Typed, WalkTypes, CallTypes
  <2>2. chain'[r] = standing /\ present'[r] = ToSet(standing) \ gone
    BY <1>0 DEF RequestInv, Typed, WalkTypes
  <2>3. QED BY <1>0, <2>1, <2>2 DEF RequestInv, NoRequestIsSwallowed
<1>3. \A s \in Requests : taker'[s] # Nothing \/ chain'[s] # <<>> => s \in rung'
  BY <1>0 DEF RequestInv, NumberInv, Typed, WalkTypes
<1>4. rung' \subseteq Stamped
  BY <1>0 DEF RequestInv, NumberInv
<1>5. QED BY <1>0, <1>1, <1>2, <1>3, <1>4, WalkKeeps

LEMMA HeadOrTail ==
    ASSUME NEW q \in Seq(Responders), q # <<>>
    PROVE  /\ Head(q) \in Responders /\ Tail(q) \in Seq(Responders)
           /\ \A d \in ToSet(q) : d = Head(q) \/ d \in ToSet(Tail(q))
<1>1. /\ Head(q) \in Responders /\ Tail(q) \in Seq(Responders) /\ Len(Tail(q)) = Len(q) - 1
      /\ Head(q) = q[1] /\ \A i \in 1 .. Len(Tail(q)) : Tail(q)[i] = q[i + 1]
  BY HeadTailProperties
<1>2. ASSUME NEW i \in 1 .. Len(q), i # 1 PROVE q[i] \in ToSet(Tail(q))
  <2>1. i - 1 \in 1 .. Len(Tail(q)) /\ (i - 1) + 1 = i
    BY <1>1, <1>2
  <2>2. Tail(q)[i - 1] = q[i]
    BY <1>1, <2>1
  <2>3. DOMAIN Tail(q) = 1 .. Len(Tail(q))
    BY <1>1, LenProperties
  <2>4. QED BY <2>1, <2>2, <2>3 DEF ToSet
<1>3. QED BY <1>1, <1>2 DEF ToSet

LEMMA VisitorKeeps ==
    ASSUME RequestInv, NEW r \in Requests, VisitResponder(r) PROVE RequestInv'
<1> DEFINE d == Head(chain[r])
<1>0. /\ chain[r] # <<>> /\ chain[r] \in Seq(Responders)
      /\ UNCHANGED <<besideWalk, standing, gone, rung, present>>
  BY DEF VisitResponder, besideResponders, besideWalk, callerVars, futureVars, answerWalkVars,
         RequestInv, Typed, WalkTypes
<1>r. r \in rung
  BY <1>0 DEF RequestInv, NumberInv
<1>1. /\ d \in Responders /\ Tail(chain[r]) \in Seq(Responders)
      /\ \A e \in ToSet(chain[r]) : e = d \/ e \in ToSet(Tail(chain[r]))
  BY <1>0, HeadOrTail
<1>2. CASE Passes(d, r)
  <2>1. chain' = [chain EXCEPT ![r] = Tail(chain[r])] /\ taker' = taker
    BY <1>2 DEF VisitResponder
  <2>2. WalkTypes'
    BY <1>0, <1>1, <2>1 DEF RequestInv, Typed, WalkTypes
  <2>3. NoRequestIsSwallowed'
    <3>1. chain'[r] = Tail(chain[r]) /\ \A s \in Requests \ {r} : chain'[s] = chain[s]
      BY <2>1 DEF RequestInv, Typed, WalkTypes
    <3>2. d \in gone \/ Topic[d] # Topic[r]
      BY <1>2 DEF Passes
    <3>3. rung \subseteq Requests
      BY DEF RequestInv, Typed, CallTypes
    <3>4. QED BY <1>0, <1>1, <2>1, <3>1, <3>2, <3>3 DEF RequestInv, NoRequestIsSwallowed
  <2>4. \A s \in Requests : taker'[s] # Nothing \/ chain'[s] # <<>> => s \in rung'
    BY <1>0, <1>r, <2>1 DEF RequestInv, NumberInv, Typed, WalkTypes
  <2>5. QED BY <1>0, <2>1, <2>2, <2>3, <2>4, WalkKeeps DEF RequestInv, NumberInv
<1>3. CASE ~Passes(d, r)
  <2>1. chain' = [chain EXCEPT ![r] = <<>>] /\ taker' = [taker EXCEPT ![r] = d]
    BY <1>3 DEF VisitResponder, Passes
  <2>2. WalkTypes'
    BY <1>0, <1>1, <2>1 DEF RequestInv, Typed, WalkTypes
  <2>3. /\ taker'[r] # Nothing
        /\ \A s \in Requests \ {r} : chain'[s] = chain[s] /\ taker'[s] = taker[s]
    BY <1>1, <2>1, RequestAssumption DEF RequestInv, Typed, WalkTypes
  <2>4. rung \subseteq Requests
    BY DEF RequestInv, Typed, CallTypes
  <2>5. NoRequestIsSwallowed'
    BY <1>0, <2>3, <2>4 DEF RequestInv, NoRequestIsSwallowed
  <2>6. \A s \in Requests : taker'[s] # Nothing \/ chain'[s] # <<>> => s \in rung'
    BY <1>0, <1>r, <2>3 DEF RequestInv, NumberInv
  <2>7. QED BY <1>0, <2>2, <2>5, <2>6, WalkKeeps DEF RequestInv, NumberInv
<1>4. QED BY <1>2, <1>3

-----------------------------------------------------------------------------
(* shutdown()                                                              *)
LEMMA DownKeeps ==
    ASSUME RequestInv, NEW b \in RequestBuses,
           FlagDown(b) \/ CancelPending(b) \/ Unsubscribe(b)
    PROVE  RequestInv'
<1> USE DEF RequestInv, replyVars, answerVars, responderVars
<1>1. /\ UNCHANGED <<corrCounter, corr, asking, payload, answerWalkVars, answerVars>>
      /\ entries' \subseteq entries /\ listening' \subseteq listening
  BY DEF FlagDown, CancelPending, Unsubscribe, answerWalkVars
<1>2. status' = status \/ \E rs : status' = Settled(rs, "cancelled")
  BY DEF FlagDown, CancelPending, Unsubscribe
<1>3. AnswerMeetsItsRequest' /\ DOMAIN status' = Requests
  <2>1. CASE status' = status
    BY <1>1, <2>1 DEF AnswerMeetsItsRequest, Typed, FutureTypes
  <2>2. ASSUME NEW rs, status' = Settled(rs, "cancelled")
        PROVE  AnswerMeetsItsRequest' /\ DOMAIN status' = Requests
    BY <1>1, <2>2, KeepAnswers DEF Settled
  <2>3. QED BY <1>2, <2>1, <2>2
<1>4. Typed'
  BY <1>1, <1>3 DEF Typed, CallTypes, FutureTypes, ReplyTypes, WalkTypes, answerWalkVars
<1>5. NumberInv' /\ ReplyInv' /\ NoRequestIsSwallowed'
  BY <1>1, KeepNumbers, KeepReplies, KeepWalks DEF answerWalkVars, Stamped
<1>6. QED BY <1>3, <1>4, <1>5

LEMMA RequestStep ==
    LoneBuses /\ RequestInv /\ [RequestNext \/ RespondNext]_requestVars => RequestInv'
<1> SUFFICES ASSUME LoneBuses, RequestInv, [RequestNext \/ RespondNext]_requestVars
             PROVE  RequestInv'
  OBVIOUS
<1>1. ASSUME NEW r \in Requests,
             \/ Ask(r) \/ CallerStep(r) \/ WalkStep(r) \/ ExpiryStep(r) \/ Cancel(r) \/ Collect(r)
      PROVE  RequestInv'
  <2>1. CASE StampAndFile(r)
    BY <2>1, StampKeeps
  <2>2. CASE Collect(r)
    BY <2>2, CollectKeeps
  <2>3. CASE WalkStep(r)
    BY <2>3, RingKeeps, VisitorKeeps DEF WalkStep
  <2>4. CASE \/ Ask(r) \/ PostRequest(r) \/ PostFails(r) \/ ExpireFailed(r) \/ ScheduleExpiry(r)
             \/ ExpiryStep(r) \/ Cancel(r)
    BY <2>4, CallerKeeps DEF ExpiryStep
  <2>5. QED BY <1>1, <2>1, <2>2, <2>3, <2>4 DEF CallerStep
<1>2. ASSUME NEW p \in Replies,
             \/ \E r \in Requests : Respond(p, r)
             \/ DispatchReply(p) \/ Resolve(p)
             \/ \E b \in RequestBuses : VisitSubscriber(p, b)
      PROVE  RequestInv'
  BY <1>2, RespondKeeps, DispatchKeeps, ResolveKeeps, VisitKeeps
<1>3. ASSUME NEW d \in Responders, CancelResponder(d) \/ \E b \in RequestBuses : RespondTo(d, b)
      PROVE  RequestInv'
  BY <1>3, RespondersKeep
<1>4. ASSUME NEW b \in RequestBuses, FlagDown(b) \/ CancelPending(b) \/ Unsubscribe(b)
      PROVE  RequestInv'
  BY <1>4, DownKeeps
<1>5. CASE PoolShutdown
  <2> USE DEF RequestInv, replyVars, answerVars, responderVars
  <2>1. /\ UNCHANGED <<callerVars, futureVars, answerWalkVars, responderVars>>
    BY <1>5 DEF PoolShutdown, callerVars, futureVars, answerWalkVars
  <2>2. Typed'
    BY <2>1 DEF Typed, CallTypes, FutureTypes, ReplyTypes, WalkTypes, callerVars, futureVars,
                answerWalkVars
  <2>3. NumberInv' /\ ReplyInv' /\ NoRequestIsSwallowed' /\ AnswerMeetsItsRequest'
    BY <2>1, KeepNumbers, KeepReplies, KeepWalks
       DEF callerVars, futureVars, Stamped, AnswerMeetsItsRequest
  <2>4. QED BY <2>2, <2>3
<1>6. CASE UNCHANGED requestVars
  <2> USE DEF RequestInv, replyVars, answerVars, responderVars
  <2>1. /\ UNCHANGED <<callerVars, futureVars, answerWalkVars, responderVars>>
    BY <1>6 DEF requestVars, callerVars, futureVars, answerWalkVars
  <2>2. Typed'
    BY <2>1 DEF Typed, CallTypes, FutureTypes, ReplyTypes, WalkTypes, callerVars, futureVars,
                answerWalkVars
  <2>3. NumberInv' /\ ReplyInv' /\ NoRequestIsSwallowed' /\ AnswerMeetsItsRequest'
    BY <2>1, KeepNumbers, KeepReplies, KeepWalks
       DEF callerVars, futureVars, Stamped, AnswerMeetsItsRequest
  <2>4. QED BY <2>2, <2>3
<1>7. QED BY <1>1, <1>2, <1>3, <1>4, <1>5, <1>6 DEF RequestNext, RespondNext

(* However expiries, cancellations, shutdowns and second answers come      *)
(* between, a future is resolved with the answer to its own request, once; *)
(* and a request nobody took was offered to every responder of its topic   *)
(* that was there throughout (FutureState, ReplySubscriber::onMessage,     *)
(* TopicFilteringSubscriber).                                              *)
THEOREM AnswersMeetTheirRequests ==
    ASSUME LoneBuses PROVE RequestSpec => []RequestsAreAnswered
<1>1. LoneBuses
  OBVIOUS
<1>2. RequestInv /\ [RequestNext \/ RespondNext]_requestVars => RequestInv'
  BY <1>1, RequestStep
<1>3. RequestSpec => []RequestInv
  BY <1>2, RequestStarts, PTL DEF RequestSpec
<1>4. RequestInv => RequestsAreAnswered
  BY DEF RequestInv, RequestsAreAnswered
<1>5. QED BY <1>3, <1>4, PTL

-----------------------------------------------------------------------------
(* The actor host: StoppedMeansDrained                                     *)

ActorSpec == ActorInit /\ [][ActorNext]_actorVars

DrainPlaces == {"none", "queued", "running", "emptied", "over", "dropped"}
MailTypes ==
    /\ mailbox \in [Actors -> Seq(Mail)]
    /\ accepted \in [Actors -> Seq(Mail)]
    /\ received \in [Actors -> Seq(Mail)]
    /\ drain \in [Actors -> DrainPlaces]
    /\ spawning \in [Actors -> {"new", "checked", "scheduled", "returned"}]
    /\ telling \in [Mail -> {"new", "checked", "found", "refused", "accepted"}]

(* Mail that was accepted has been received or is still in the queue.      *)
Accounted == \A a \in Actors : accepted[a] = received[a] \o mailbox[a]
(* The drain loop ends on a closed queue only, which stays empty; it was   *)
(* not begun before spawn() scheduled it, so it is not begun twice.        *)
EndsDrained ==
    \A a \in Actors :
        /\ drain[a] \in {"emptied", "over"} => a \in shut /\ mailbox[a] = <<>>
        /\ spawning[a] \in {"new", "checked"} => drain[a] = "none"
MailInv == MailTypes /\ Accounted /\ EndsDrained

LEMMA PushedIsAccounted ==
    ASSUME NEW r \in Seq(Mail), NEW q \in Seq(Mail), NEW m \in Mail
    PROVE  Append(r \o q, m) = r \o Append(q, m)
<1>1. Append(q, m) = q \o <<m>> /\ Append(r \o q, m) = (r \o q) \o <<m>>
  BY AppendIsConcat, ConcatProperties
<1>2. QED BY <1>1, ConcatAssociative

LEMMA TakenIsAccounted ==
    ASSUME NEW r \in Seq(Mail), NEW q \in Seq(Mail), q # <<>>
    PROVE  r \o q = Append(r, Head(q)) \o Tail(q)
<1>0. /\ Head(q) \in Mail /\ Tail(q) \in Seq(Mail) /\ Len(Tail(q)) = Len(q) - 1
      /\ Head(q) = q[1] /\ \A i \in 1 .. Len(Tail(q)) : Tail(q)[i] = q[i + 1]
  BY HeadTailProperties
<1>1. q = <<Head(q)>> \o Tail(q)
  BY <1>0
<1>2. Append(r, Head(q)) = r \o <<Head(q)>>
  BY <1>0, AppendIsConcat
<1>3. QED BY <1>0, <1>1, <1>2, ConcatAssociative

LEMMA MailStarts == ActorInit => MailInv
<1> SUFFICES ASSUME ActorInit PROVE MailInv
  OBVIOUS
<1>1. MailTypes
  BY DEF ActorInit, MailTypes, DrainPlaces
<1>2. \A a \in Actors : accepted[a] = <<>> /\ received[a] = <<>> /\ mailbox[a] = <<>>
  BY DEF ActorInit
<1>3. Accounted
  <2>1. <<>> = <<>> \o <<>>
    BY EmptySeq, ConcatEmptySeq
  <2>2. QED BY <1>2, <2>1 DEF Accounted
<1>4. EndsDrained
  BY DEF ActorInit, EndsDrained
<1>5. QED BY <1>1, <1>3, <1>4 DEF MailInv

LEMMA MailStep == MailInv /\ [ActorNext]_actorVars => MailInv'
<1> SUFFICES ASSUME MailInv, [ActorNext]_actorVars PROVE MailInv'
  OBVIOUS
<1> USE DEF MailInv
(* Steps that move no mail and no drain loop                               *)
<1>1. ASSUME UNCHANGED <<mailbox, accepted, received, drain>>, shut \subseteq shut',
             MailTypes',
             \A a \in Actors : spawning'[a] \in {"new", "checked"} =>
                                  spawning[a] \in {"new", "checked"}
      PROVE  MailInv'
  BY <1>1 DEF Accounted, EndsDrained
<1>2. ASSUME NEW a \in Actors, SpawnStep(a) PROVE MailInv'
  <2>1. CASE CheckSpawn(a) \/ Register(a)
    BY <1>1, <2>1 DEF CheckSpawn, Register, MailTypes
  <2>2. CASE ScheduleDrain(a)
    <3>1. drain[a] = "none"
      BY <2>2 DEF ScheduleDrain, EndsDrained
    <3>2. MailTypes' /\ EndsDrained'
      BY <2>2, <3>1 DEF ScheduleDrain, EndsDrained, MailTypes, DrainPlaces
    <3>3. Accounted'
      BY <2>2 DEF ScheduleDrain, Accounted
    <3>4. QED BY <3>2, <3>3
  <2>3. QED BY <1>2, <2>1, <2>2 DEF SpawnStep
<1>3. ASSUME NEW m \in Mail, TellStep(m) PROVE MailInv'
  <2>1. CASE CheckTell(m) \/ FindQueue(m)
    BY <1>1, <2>1 DEF CheckTell, FindQueue, MailTypes
  <2>2. CASE PushMail(m)
    <3> DEFINE a == Addressee[m]
    <3>0. a \in Actors
      BY ActorAssumption
    <3>1. MailTypes'
      <4>1. CASE a \in shut
        BY <2>2, <4>1 DEF PushMail, MailTypes
      <4>2. CASE a \notin shut
        <5>1. Append(mailbox[a], m) \in Seq(Mail) /\ Append(accepted[a], m) \in Seq(Mail)
          BY <3>0, AppendProperties DEF MailTypes
        <5>2. /\ mailbox' = [mailbox EXCEPT ![a] = Append(mailbox[a], m)]
              /\ accepted' = [accepted EXCEPT ![a] = Append(accepted[a], m)]
              /\ telling' = [telling EXCEPT ![m] = "accepted"]
              /\ UNCHANGED <<received, drain, spawning>>
          BY <2>2, <4>2 DEF PushMail
        <5>3. QED BY <5>1, <5>2 DEF MailTypes
      <4>3. QED BY <4>1, <4>2
    <3>2. CASE a \in shut
      BY <1>1, <2>2, <3>1, <3>2 DEF PushMail
    <3>3. CASE a \notin shut
      <4>1. /\ mailbox' = [mailbox EXCEPT ![a] = Append(mailbox[a], m)]
            /\ accepted' = [accepted EXCEPT ![a] = Append(accepted[a], m)]
            /\ UNCHANGED <<received, drain, shut, spawning>>
        BY <2>2, <3>3 DEF PushMail
      <4>2. Append(received[a] \o mailbox[a], m) = received[a] \o Append(mailbox[a], m)
        BY <3>0, PushedIsAccounted DEF MailTypes
      <4>3. Accounted'
        BY <3>0, <4>1, <4>2 DEF Accounted, MailTypes
      <4>4. EndsDrained'
        BY <3>0, <3>3, <4>1 DEF EndsDrained, MailTypes
      <4>5. QED BY <3>1, <4>3, <4>4
    <3>4. QED BY <3>2, <3>3
  <2>3. QED BY <1>3, <2>1, <2>2 DEF TellStep
<1>4. ASSUME NEW a \in Actors, DrainStep(a) PROVE MailInv'
  <2>1. CASE Receive(a)
    <3>1. /\ mailbox[a] \in Seq(Mail) /\ mailbox[a] # <<>> /\ received[a] \in Seq(Mail)
          /\ drain[a] = "running"
          /\ mailbox' = [mailbox EXCEPT ![a] = Tail(mailbox[a])]
          /\ received' = [received EXCEPT ![a] = Append(received[a], Head(mailbox[a]))]
          /\ UNCHANGED <<accepted, drain, shut, spawning, telling>>
      BY <2>1 DEF Receive, MailTypes
    <3>2. Head(mailbox[a]) \in Mail /\ Tail(mailbox[a]) \in Seq(Mail)
      BY <3>1, HeadTailProperties
    <3>3. MailTypes'
      BY <3>1, <3>2 DEF MailTypes
    <3>4. received[a] \o mailbox[a]
             = Append(received[a], Head(mailbox[a])) \o Tail(mailbox[a])
      BY <3>1, TakenIsAccounted
    <3>5. Accounted'
      BY <3>1, <3>4 DEF Accounted, MailTypes
    <3>6. EndsDrained'
      BY <3>1 DEF EndsDrained, MailTypes
    <3>7. QED BY <3>3, <3>5, <3>6
  <2>2. CASE StartDrain(a) \/ DropDrain(a) \/ EndDrain(a) \/ OnStop(a)
    <3>1. MailTypes'
      BY <2>2 DEF StartDrain, DropDrain, EndDrain, OnStop, MailTypes, DrainPlaces
    <3>2. Accounted'
      BY <2>2 DEF StartDrain, DropDrain, EndDrain, OnStop, Accounted
    <3>3. EndsDrained'
      BY <2>2 DEF StartDrain, DropDrain, EndDrain, OnStop, EndsDrained, MailTypes
    <3>4. QED BY <3>1, <3>2, <3>3
  <2>3. QED BY <1>4, <2>1, <2>2 DEF DrainStep
<1>5. ASSUME NEW a \in Actors, SweepClaimed(a) \/ SweepClose(a) PROVE MailInv'
  BY <1>1, <1>5 DEF SweepClaimed, SweepClose, MailTypes
<1>6. ASSUME NEW s \in Stoppers, StopHandle(s) \/ FindEntry(s) \/ StopStep(s) PROVE MailInv'
  BY <1>1, <1>6 DEF StopHandle, FindEntry, StopStep, ClaimEntry, CloseMailbox, EraseEntry,
                    DeleteEntry, MailTypes
<1>7. CASE FlagHost \/ TakeRegistry \/ SweepDelete \/ CloseHost
  BY <1>1, <1>7 DEF FlagHost, TakeRegistry, SweepDelete, CloseHost, MailTypes
<1>8. CASE UNCHANGED actorVars
  BY <1>1, <1>8 DEF actorVars, MailTypes
<1>9. QED BY <1>2, <1>3, <1>4, <1>5, <1>6, <1>7, <1>8 DEF ActorNext

LEMMA MailHolds == MailInv => StoppedMeansDrained
<1> SUFFICES ASSUME MailInv, NEW a \in Actors
             PROVE  /\ accepted[a] = received[a] \o mailbox[a]
                    /\ drain[a] \in {"emptied", "over"} => accepted[a] = received[a]
  BY DEF StoppedMeansDrained
<1>1. accepted[a] = received[a] \o mailbox[a]
  BY DEF MailInv, Accounted
<1>2. ASSUME drain[a] \in {"emptied", "over"} PROVE accepted[a] = received[a]
  <2>1. mailbox[a] = <<>> /\ received[a] \in Seq(Mail)
    BY <1>2 DEF MailInv, EndsDrained, MailTypes
  <2>2. QED BY <1>1, <2>1, ConcatEmptySeq
<1>3. QED BY <1>1, <1>2

(* Mail is received in the order it was queued, all of it before the drain *)
(* loop ends, however tell(), stop() and shutdown() interleave             *)
(* (DefaultActorHost::tell, MailboxRunnable::run).                         *)
THEOREM StopDrainsTheMailbox == ActorSpec => []StoppedMeansDrained
<1>1. ActorSpec => []MailInv
  BY MailStarts, MailStep, PTL DEF ActorSpec
<1>2. QED BY <1>1, MailHolds, PTL

-----------------------------------------------------------------------------
(* The reactive stream: StreamIsExact                                      *)

StreamSpec == StreamInit /\ [][StreamNext]_streamVars

PublishPlaces == {"new", "walking", "claimed", "returned"}
CloserPlaces == {"new", "completing", "failing", "flagged"}
Ends == Seq(CloserPlaces)
StreamTypes ==
    /\ inStream \subseteq Subscribers
    /\ demand \in [Subscribers -> 0 .. Unbounded]
    /\ requested \in [Subscribers -> Nat]
    /\ delivered \in [Subscribers -> Nat]
    /\ publishing \in [Publishers -> PublishPlaces]
    /\ unseen \in [Publishers -> SUBSET Subscribers]
    /\ at \in [Publishers -> Subscribers \cup {NoSubscriber}]
    /\ closer \in [Closers -> CloserPlaces]
    /\ ending \in [Closers -> SUBSET Subscribers]
    /\ won \in [Closers -> Subscribers \cup {NoSubscriber}]
    /\ ended \in [Subscribers -> Ends]
(* Who has claimed a unit of demand is at the subscriber it was of.        *)
ClaimInv == \A p \in Publishers : publishing[p] = "claimed" => at[p] \in Subscribers
(* One closer marks a subscriber first, and signals it once.               *)
EndInv ==
    /\ \A s \in Subscribers : s \notin terminal => ended[s] = <<>>
    /\ \A c \in Closers : won[c] # NoSubscriber => won[c] \in terminal /\ ended[won[c]] = <<>>
    /\ \A c, d \in Closers : won[c] = won[d] /\ won[c] # NoSubscriber => c = d
StreamInv == StreamTypes /\ ClaimInv /\ EndInv /\ StreamIsExact

(* The publishers about to deliver to a subscriber                         *)
ClaimsOn(s) == {p \in Publishers : publishing[p] = "claimed" /\ at[p] = s}

LEMMA ClaimsAreFinite ==
    \A s : IsFiniteSet(ClaimsOn(s)) /\ Claimed(s) = Cardinality(ClaimsOn(s)) /\ Claimed(s) \in Nat
<1> TAKE s
<1>1. ClaimsOn(s) \subseteq Publishers
  BY DEF ClaimsOn
<1>2. IsFiniteSet(ClaimsOn(s))
  BY <1>1, StreamAssumption, FS_Subset
<1>3. Claimed(s) = Cardinality(ClaimsOn(s))
  BY DEF Claimed, ClaimsOn
<1>4. QED BY <1>2, <1>3, FS_CardinalityType

LEMMA StreamStarts == StreamInit => StreamInv
<1> SUFFICES ASSUME StreamInit PROVE StreamInv
  OBVIOUS
<1>1. StreamTypes /\ ClaimInv
  BY StreamAssumption DEF StreamInit, StreamTypes, ClaimInv, PublishPlaces, CloserPlaces, Ends
<1>2. EndInv /\ EndedOnce
  BY StreamAssumption DEF StreamInit, EndInv, EndedOnce
<1>3. ASSUME NEW s \in Subscribers PROVE Claimed(s) = 0
  <2>1. ClaimsOn(s) = {}
    BY DEF StreamInit, ClaimsOn
  <2>2. QED BY <2>1, ClaimsAreFinite, FS_EmptySet
<1>4. DemandIsPaid
  BY <1>3 DEF StreamInit, DemandIsPaid
<1>5. QED BY <1>1, <1>2, <1>4 DEF StreamInv, StreamIsExact

(* Steps that claim nothing and pay nothing                                *)
LEMMA KeepDemand ==
    ASSUME DemandIsPaid, UNCHANGED <<demand, delivered, requested>>,
           \A s \in Subscribers : ClaimsOn(s)' = ClaimsOn(s)
    PROVE  DemandIsPaid'
<1>1. \A s \in Subscribers : Claimed(s)' = Claimed(s)
  BY DEF Claimed, ClaimsOn
<1>2. QED BY <1>1 DEF DemandIsPaid

LEMMA KeepEnds ==
    ASSUME EndInv, EndedOnce, cancelled \subseteq cancelled', UNCHANGED <<terminal, won, ended>>
    PROVE  EndInv' /\ EndedOnce'
BY DEF EndInv, EndedOnce

LEMMA SubscriberKeeps ==
    ASSUME StreamInv, NEW s \in Subscribers,
           CheckJoin(s) \/ Join(s) \/ HandToken(s) \/ CancelToken(s) \/ CancelStreamHandle(s)
    PROVE  StreamInv'
<1> USE DEF StreamInv, StreamIsExact, CheckJoin, Join, HandToken, CancelToken,
            CancelStreamHandle, publishVars, closeVars
<1>1. StreamTypes' /\ ClaimInv'
  BY DEF StreamTypes, ClaimInv
<1>2. DemandIsPaid'
  BY KeepDemand DEF ClaimsOn
<1>3. EndInv' /\ EndedOnce'
  BY KeepEnds
<1>4. QED BY <1>1, <1>2, <1>3

LEMMA RequestKeepsStream ==
    ASSUME StreamInv, NEW s \in Subscribers, NEW n \in Asks, RequestItems(s, n)
    PROVE  StreamInv'
<1> USE DEF StreamInv, StreamIsExact, RequestItems, publishVars, closeVars
<1>0. n \in Nat /\ n > 0 /\ Unbounded \in Nat /\ demand[s] \in 0 .. Unbounded
      /\ demand[s] \in Nat /\ requested[s] \in Nat
  BY StreamAssumption DEF StreamTypes
<1>1. StreamTypes'
  <2>1. demand'[s] \in 0 .. Unbounded /\ requested'[s] \in Nat
    BY <1>0 DEF StreamTypes
  <2>2. QED BY <1>0, <2>1 DEF StreamTypes
<1>2. \A t \in Subscribers : Claimed(t)' = Claimed(t) /\ Claimed(t) \in Nat
  BY ClaimsAreFinite DEF Claimed
<1>3. ASSUME NEW t \in Subscribers, demand'[t] # Unbounded
      PROVE  delivered'[t] + Claimed(t)' + demand'[t] = requested'[t]
  <2>1. CASE t = s
    <3>1. demand'[s] = demand[s] + n /\ demand[s] # Unbounded /\ requested'[s] = requested[s] + n
      BY <1>0, <1>3, <2>1 DEF StreamTypes
    <3>2. delivered[s] + Claimed(s) + demand[s] = requested[s] /\ delivered[s] \in Nat
      BY <3>1 DEF DemandIsPaid, StreamTypes
    <3>3. QED BY <1>0, <1>2, <2>1, <3>1, <3>2
  <2>2. CASE t # s
    BY <1>2, <1>3, <2>2 DEF DemandIsPaid, StreamTypes
  <2>3. QED BY <2>1, <2>2
<1>4. DemandIsPaid'
  BY <1>3 DEF DemandIsPaid
<1>5. ClaimInv'
  BY DEF ClaimInv
<1>6. EndInv' /\ EndedOnce'
  BY KeepEnds
<1>7. QED BY <1>1, <1>4, <1>5, <1>6

LEMMA PublishKeeps ==
    ASSUME StreamInv, NEW p \in Publishers,
           StartPublish(p) \/ DropItem(p) \/ \E s \in Subscribers : VisitSubscription(p, s)
    PROVE  StreamInv'
<1> USE DEF StreamInv, StreamIsExact, StartPublish, DropItem, VisitSubscription, closeVars
<1>1. StreamTypes'
  BY DEF StreamTypes, PublishPlaces
<1>2. ClaimInv'
  BY DEF ClaimInv, StreamTypes
<1>3. \A s \in Subscribers : ClaimsOn(s)' = ClaimsOn(s)
  BY DEF ClaimsOn, StreamTypes
<1>4. DemandIsPaid'
  BY <1>3, KeepDemand
<1>5. EndInv' /\ EndedOnce'
  BY KeepEnds
<1>6. QED BY <1>1, <1>2, <1>4, <1>5

LEMMA ClaimKeeps ==
    ASSUME StreamInv, NEW p \in Publishers, Claim(p)
    PROVE  StreamInv'
<1> USE DEF StreamInv, StreamIsExact, closeVars
<1>s. PICK s \in Subscribers : s = at[p]
  BY DEF Claim, StreamTypes
<1>0. s = at[p] /\ publishing[p] = "walking" /\ demand[s] \in 0 .. Unbounded
      /\ UNCHANGED <<inStream, cancelled, terminal, unseen, closer, ending, won, requested,
                     delivered, ended>>
  BY <1>s DEF Claim, StreamTypes
<1>1. EndInv' /\ EndedOnce'
  BY <1>0, KeepEnds
<1>2. CASE demand[s] > 0
  <2>1. /\ publishing' = [publishing EXCEPT ![p] = "claimed"] /\ at' = at
        /\ demand' = [demand EXCEPT ![s] = IF demand[s] = Unbounded THEN demand[s] ELSE demand[s] - 1]
    BY <1>0, <1>2 DEF Claim
  <2>2. StreamTypes' /\ ClaimInv'
    BY <1>0, <1>2, <2>1, StreamAssumption DEF StreamTypes, ClaimInv, PublishPlaces
  <2>3. p \notin ClaimsOn(s) /\ ClaimsOn(s)' = ClaimsOn(s) \cup {p}
    BY <1>0, <2>1 DEF ClaimsOn, StreamTypes
  <2>4. Claimed(s)' = Claimed(s) + 1
    <3>1. Claimed(s)' = Cardinality(ClaimsOn(s)')
      BY DEF Claimed, ClaimsOn
    <3>2. QED BY <2>3, <3>1, ClaimsAreFinite, FS_AddElement
  <2>5. ASSUME NEW t \in Subscribers, t # s PROVE Claimed(t)' = Claimed(t)
    <3>1. ClaimsOn(t)' = ClaimsOn(t)
      BY <1>0, <2>1, <2>5 DEF ClaimsOn, StreamTypes
    <3>2. QED BY <3>1 DEF Claimed, ClaimsOn
  <2>6. ASSUME NEW t \in Subscribers, demand'[t] # Unbounded
        PROVE  delivered'[t] + Claimed(t)' + demand'[t] = requested'[t]
    <3>1. CASE t = s
      <4>1. demand[s] # Unbounded /\ demand'[s] = demand[s] - 1
        BY <1>0, <2>1, <2>6, <3>1 DEF StreamTypes
      <4>2. delivered[s] + Claimed(s) + demand[s] = requested[s] /\ delivered[s] \in Nat
        BY <1>0, <4>1 DEF DemandIsPaid, StreamTypes
      <4>3. Claimed(s) \in Nat /\ demand[s] \in Nat
        BY <1>0, ClaimsAreFinite, StreamAssumption
      <4>4. delivered'[s] = delivered[s] /\ requested'[s] = requested[s]
        BY <1>0
      <4>5. QED BY <2>4, <3>1, <4>1, <4>2, <4>3, <4>4
    <3>2. CASE t # s
      <4>1. delivered'[t] = delivered[t] /\ demand'[t] = demand[t] /\ requested'[t] = requested[t]
        BY <1>0, <2>1, <3>2 DEF StreamTypes
      <4>2. delivered[t] + Claimed(t) + demand[t] = requested[t]
        BY <2>6, <4>1 DEF DemandIsPaid
      <4>3. QED BY <2>5, <3>2, <4>1, <4>2
    <3>3. QED BY <3>1, <3>2
  <2>7. DemandIsPaid'
    BY <2>6 DEF DemandIsPaid
  <2>8. QED BY <1>1, <2>2, <2>7
<1>3. CASE ~(demand[s] > 0)
  <2>1. at' = [at EXCEPT ![p] = NoSubscriber] /\ UNCHANGED <<publishing, demand>>
    BY <1>0, <1>3 DEF Claim
  <2>2. StreamTypes' /\ ClaimInv'
    BY <1>0, <2>1 DEF StreamTypes, ClaimInv
  <2>3. \A t \in Subscribers : ClaimsOn(t)' = ClaimsOn(t)
    BY <1>0, <2>1 DEF ClaimsOn, StreamTypes
  <2>4. DemandIsPaid'
    BY <1>0, <2>1, <2>3, KeepDemand
  <2>5. QED BY <1>1, <2>2, <2>4
<1>4. QED BY <1>2, <1>3

LEMMA OnNextKeeps ==
    ASSUME StreamInv, NEW p \in Publishers, OnNext(p)
    PROVE  StreamInv'
<1> USE DEF StreamInv, StreamIsExact, closeVars
<1>s. PICK s \in Subscribers : s = at[p]
  BY DEF OnNext, ClaimInv
<1>0. /\ s = at[p] /\ publishing[p] = "claimed"
      /\ publishing' = [publishing EXCEPT ![p] = "returned"]
      /\ delivered' = [delivered EXCEPT ![s] = delivered[s] + 1]
      /\ at' = [at EXCEPT ![p] = NoSubscriber]
      /\ UNCHANGED <<inStream, demand, cancelled, terminal, unseen, closer, ending, won,
                     requested, ended>>
  BY <1>s DEF OnNext
<1>1. EndInv' /\ EndedOnce'
  BY <1>0, KeepEnds
<1>2. StreamTypes' /\ ClaimInv'
  BY <1>0 DEF StreamTypes, ClaimInv, PublishPlaces
<1>3. p \in ClaimsOn(s) /\ ClaimsOn(s)' = ClaimsOn(s) \ {p}
  BY <1>0, StreamAssumption DEF ClaimsOn, StreamTypes
<1>4. Claimed(s)' = Claimed(s) - 1
  <2>1. Claimed(s)' = Cardinality(ClaimsOn(s)')
    BY DEF Claimed, ClaimsOn
  <2>2. QED BY <1>3, <2>1, ClaimsAreFinite, FS_RemoveElement
<1>5. ASSUME NEW t \in Subscribers, t # s PROVE Claimed(t)' = Claimed(t)
  <2>1. ClaimsOn(t)' = ClaimsOn(t)
    BY <1>0, <1>5, StreamAssumption DEF ClaimsOn, StreamTypes
  <2>2. QED BY <2>1 DEF Claimed, ClaimsOn
<1>6. ASSUME NEW t \in Subscribers, demand'[t] # Unbounded
      PROVE  delivered'[t] + Claimed(t)' + demand'[t] = requested'[t]
  <2>1. CASE t = s
    <3>1. delivered[s] + Claimed(s) + demand[s] = requested[s] /\ delivered[s] \in Nat
      BY <1>0, <1>6, <2>1 DEF DemandIsPaid, StreamTypes
    <3>2. Claimed(s) \in Nat /\ demand[s] \in Int /\ delivered'[s] = delivered[s] + 1
      BY <1>0, ClaimsAreFinite DEF StreamTypes
    <3>3. demand'[s] = demand[s] /\ requested'[s] = requested[s]
      BY <1>0
    <3>4. QED BY <1>4, <2>1, <3>1, <3>2, <3>3
  <2>2. CASE t # s
    <3>1. delivered'[t] = delivered[t] /\ demand'[t] = demand[t] /\ requested'[t] = requested[t]
      BY <1>0, <2>2 DEF StreamTypes
    <3>2. delivered[t] + Claimed(t) + demand[t] = requested[t]
      BY <1>6, <3>1 DEF DemandIsPaid
    <3>3. QED BY <1>5, <2>2, <3>1, <3>2
  <2>3. QED BY <2>1, <2>2
<1>7. DemandIsPaid'
  BY <1>6 DEF DemandIsPaid
<1>8. QED BY <1>1, <1>2, <1>7

LEMMA CloserKeeps ==
    ASSUME StreamInv, NEW c \in Closers,
           Complete(c) \/ Fail(c) \/ RaiseStreamDown(c) \/ ClearStream(c)
    PROVE  StreamInv'
<1> USE DEF StreamInv, StreamIsExact, Complete, Fail, EndsAs, RaiseStreamDown, ClearStream,
            publishVars
<1>1. StreamTypes'
  BY DEF StreamTypes, CloserPlaces
<1>2. ClaimInv'
  BY DEF ClaimInv
<1>3. DemandIsPaid'
  BY KeepDemand DEF ClaimsOn
<1>4. EndInv' /\ EndedOnce'
  BY KeepEnds
<1>5. QED BY <1>1, <1>2, <1>3, <1>4

LEMMA MarkKeeps ==
    ASSUME StreamInv, NEW c \in Closers, NEW s \in Subscribers, Mark(c, s)
    PROVE  StreamInv'
<1> USE DEF StreamInv, StreamIsExact, Mark, publishVars
<1>1. StreamTypes'
  BY DEF StreamTypes
<1>2. ClaimInv'
  BY DEF ClaimInv
<1>3. DemandIsPaid'
  BY KeepDemand DEF ClaimsOn
<1>4. EndInv'
  BY StreamAssumption DEF EndInv, StreamTypes
<1>5. ASSUME NEW t \in Subscribers, t \in terminal' \ cancelled'
      PROVE  Len(ended'[t]) = 1 \/ \E d \in Closers : won'[d] = t
  <2>1. CASE t \in terminal
    <3>1. Len(ended[t]) = 1 \/ \E d \in Closers : won[d] = t
      BY <1>5, <2>1 DEF EndedOnce
    <3>2. \A d \in Closers : won[d] = t => won'[d] = t
      BY StreamAssumption DEF StreamTypes
    <3>3. QED BY <3>1, <3>2
  <2>2. CASE t \notin terminal
    BY <1>5, <2>2 DEF StreamTypes
  <2>3. QED BY <2>1, <2>2
<1>6. EndedOnce'
  BY <1>5 DEF EndedOnce
<1>7. QED BY <1>1, <1>2, <1>3, <1>4, <1>6

LEMMA SignalKeeps ==
    ASSUME StreamInv, NEW c \in Closers, SignalEnd(c)
    PROVE  StreamInv'
<1> DEFINE s == won[c]
           e == IF s \in cancelled THEN ended[s] ELSE Append(ended[s], closer[c])
<1> USE DEF StreamInv, StreamIsExact, publishVars
<1>0. /\ s \in Subscribers /\ s \in terminal /\ ended[s] = <<>> /\ closer[c] \in CloserPlaces
      /\ won' = [won EXCEPT ![c] = NoSubscriber]
      /\ ended' = [ended EXCEPT ![s] = e]
      /\ UNCHANGED <<inStream, demand, cancelled, terminal, publishing, unseen, at, closer,
                     ending, requested, delivered>>
  BY DEF SignalEnd, EndInv, StreamTypes
<1>1. e \in Ends /\ Len(e) <= 1 /\ (s \notin cancelled => Len(e) = 1)
  <2>1. CASE s \in cancelled
    BY <1>0, <2>1, EmptySeq DEF Ends
  <2>2. CASE s \notin cancelled
    <3>1. <<>> \in Seq(CloserPlaces) /\ Len(<<>>) = 0
      BY EmptySeq
    <3>2. QED BY <1>0, <2>2, <3>1, AppendProperties DEF Ends
  <2>3. QED BY <2>1, <2>2
<1>2. StreamTypes'
  BY <1>0, <1>1 DEF StreamTypes
<1>3. ClaimInv'
  BY <1>0 DEF ClaimInv
<1>4. DemandIsPaid'
  BY <1>0, KeepDemand DEF ClaimsOn
<1>5. EndInv'
  BY <1>0, StreamAssumption DEF EndInv, StreamTypes
<1>6. ASSUME NEW t \in Subscribers
      PROVE  /\ Len(ended'[t]) <= 1
             /\ t \in terminal \ cancelled => Len(ended'[t]) = 1 \/ \E d \in Closers : won'[d] = t
  <2>1. CASE t = s
    BY <1>0, <1>1, <2>1 DEF StreamTypes
  <2>2. CASE t # s
    <3>1. ended'[t] = ended[t] /\ \A d \in Closers : won[d] = t => won'[d] = t
      BY <1>0, <2>2 DEF StreamTypes
    <3>2. QED BY <3>1 DEF EndedOnce
  <2>3. QED BY <2>1, <2>2
<1>7. EndedOnce'
  BY <1>0, <1>6 DEF EndedOnce
<1>8. QED BY <1>2, <1>3, <1>4, <1>5, <1>7

LEMMA StreamSteps == StreamInv /\ [StreamNext]_streamVars => StreamInv'
<1> SUFFICES ASSUME StreamInv, [StreamNext]_streamVars PROVE StreamInv'
  OBVIOUS
<1>1. CASE UNCHANGED streamVars
  <2>1. StreamTypes' /\ ClaimInv'
    BY <1>1 DEF streamVars, StreamInv, StreamTypes, ClaimInv
  <2>2. DemandIsPaid'
    BY <1>1, KeepDemand DEF streamVars, StreamInv, StreamIsExact, ClaimsOn
  <2>3. EndInv' /\ EndedOnce'
    BY <1>1, KeepEnds DEF streamVars, StreamInv, StreamIsExact
  <2>4. QED BY <2>1, <2>2, <2>3 DEF StreamInv, StreamIsExact
<1>2. CASE StreamNext
  BY <1>2, SubscriberKeeps, RequestKeepsStream, PublishKeeps, ClaimKeeps, OnNextKeeps,
     CloserKeeps, MarkKeeps, SignalKeeps DEF StreamNext
<1>3. QED BY <1>1, <1>2

(* DefaultReactiveStream: whatever the publishers and the closers that     *)
(* race do, each unit of demand is paid with one onNext(), and one         *)
(* terminal signal reaches a subscriber that did not cancel.               *)
THEOREM StreamsStayExact == StreamSpec => []StreamIsExact
<1>1. StreamInv => StreamIsExact
  BY DEF StreamInv
<1>2. QED BY <1>1, StreamStarts, StreamSteps, PTL DEF StreamSpec

-----------------------------------------------------------------------------
(* The channels: ChannelsAreSound                                          *)

PipelineSpec == PipelineInit /\ [][PipelineNext]_pipelineVars

ChannelPlaces == {"new", "checked", "open", "leaving", "left", "freed", "refused"}
ChannelTypes ==
    /\ channel \in [Channels -> ChannelPlaces]
    /\ liveChannels \subseteq Channels
    /\ items \in [Channels -> Seq(ChannelCalls)]
    /\ sent \in [Channels -> Seq(ChannelCalls)]
    /\ taken \in [Channels -> Seq(ChannelCalls)]
(* The sweep works on the registry as it was when it took the mutex, under *)
(* which the registry does not change.                                     *)
SweepInv ==
    /\ \A c \in liveChannels : channel[c] \in {"open", "leaving"}
    /\ toClose \subseteq liveChannels
    /\ factory # "sweeping" => toClose = {}
ChannelInv == ChannelTypes /\ SweepInv /\ ChannelLosesNothing

LEMMA ChannelStarts == PipelineInit => ChannelInv
<1> SUFFICES ASSUME PipelineInit PROVE ChannelInv
  OBVIOUS
<1>1. FactoryInit
  BY DEF PipelineInit
<1>2. ChannelTypes /\ SweepInv
  BY <1>1 DEF FactoryInit, ChannelTypes, SweepInv, ChannelPlaces
<1>3. ASSUME NEW c \in Channels
      PROVE  sent[c] = taken[c] \o items[c] /\ (c \in Bounded => Len(items[c]) <= Capacity[c])
  <2>1. sent[c] = <<>> /\ taken[c] = <<>> /\ items[c] = <<>>
    BY <1>1 DEF FactoryInit
  <2>2. <<>> = <<>> \o <<>> /\ Len(<<>>) = 0
    BY EmptySeq, ConcatEmptySeq
  <2>3. Capacity[c] \in Nat
    BY ChannelAssumption
  <2>4. QED BY <2>1, <2>2, <2>3
<1>4. QED BY <1>2, <1>3 DEF ChannelInv, ChannelLosesNothing

(* What is put in at the end of a queue goes behind what was taken out of  *)
(* it and what it holds.                                                   *)
LEMMA PutInLast ==
    ASSUME NEW t \in Seq(ChannelCalls), NEW q \in Seq(ChannelCalls), NEW k \in ChannelCalls
    PROVE  Append(t \o q, k) = t \o Append(q, k)
<1>1. t \o q \in Seq(ChannelCalls)
  BY ConcatProperties
<1>2. Append(q, k) = q \o <<k>> /\ Append(t \o q, k) = (t \o q) \o <<k>>
  BY <1>1, AppendIsConcat
<1>3. <<k>> \in Seq(ChannelCalls)
  OBVIOUS
<1>4. QED BY <1>2, <1>3, ConcatAssociative

(* What is taken out of it is next to what was taken out before.           *)
LEMMA TakenOutFirst ==
    ASSUME NEW S, NEW t \in Seq(S), NEW q \in Seq(S), q # <<>>
    PROVE  t \o q = Append(t, Head(q)) \o Tail(q)
<1>1. /\ Head(q) \in S /\ Tail(q) \in Seq(S) /\ Len(Tail(q)) = Len(q) - 1
      /\ Head(q) = q[1] /\ \A i \in 1 .. Len(Tail(q)) : Tail(q)[i] = q[i + 1]
  BY HeadTailProperties
<1>2. q = <<Head(q)>> \o Tail(q)
  BY <1>1
<1>3. Append(t, Head(q)) = t \o <<Head(q)>>
  BY <1>1, AppendIsConcat
<1>4. QED BY <1>1, <1>2, <1>3, ConcatAssociative

(* Steps that move no payload                                              *)
LEMMA KeepPayloads ==
    ASSUME ChannelInv, UNCHANGED <<items, sent, taken>>, SweepInv',
           channel' \in [Channels -> ChannelPlaces], liveChannels' \subseteq Channels
    PROVE  ChannelInv'
BY DEF ChannelInv, ChannelTypes, ChannelLosesNothing

LEMMA ProceedKeeps ==
    ASSUME ChannelInv, NEW k \in ChannelCalls, MayProceed(k), Proceed(k),
           UNCHANGED <<channel, liveChannels, factory, toClose>>
    PROVE  ChannelInv'
<1> DEFINE c == On[k]
<1> USE DEF ChannelInv
<1>0. /\ c \in Channels /\ items[c] \in Seq(ChannelCalls) /\ Len(items[c]) \in Nat
      /\ taken[c] \in Seq(ChannelCalls) /\ sent[c] \in Seq(ChannelCalls)
  BY ChannelAssumption DEF ChannelTypes
<1>1. SweepInv'
  BY DEF SweepInv
<1>2. CASE UNCHANGED <<items, sent, taken>>
  BY <1>1, <1>2, KeepPayloads DEF ChannelTypes
<1>3. CASE /\ k \in Sends /\ c \notin shutChannels
           /\ items' = [items EXCEPT ![c] = Append(items[c], k)]
           /\ sent' = [sent EXCEPT ![c] = Append(sent[c], k)] /\ taken' = taken
  <2>1. Append(items[c], k) \in Seq(ChannelCalls) /\ Append(sent[c], k) \in Seq(ChannelCalls)
        /\ Len(Append(items[c], k)) = Len(items[c]) + 1
    BY <1>0, AppendProperties
  <2>2. ChannelTypes'
    BY <1>0, <1>3, <2>1 DEF ChannelTypes
  <2>3. Append(taken[c] \o items[c], k) = taken[c] \o Append(items[c], k)
    BY <1>0, PutInLast
  <2>4. c \in Bounded => Len(items[c]) + 1 <= Capacity[c]
    BY <1>0, <1>3, ChannelAssumption DEF MayProceed, Room
  <2>5. ChannelLosesNothing'
    BY <1>0, <1>3, <2>1, <2>3, <2>4 DEF ChannelLosesNothing, ChannelTypes
  <2>6. QED BY <1>1, <2>2, <2>5
<1>4. CASE /\ items[c] # <<>> /\ items' = [items EXCEPT ![c] = Tail(items[c])]
           /\ taken' = [taken EXCEPT ![c] = Append(taken[c], Head(items[c]))] /\ sent' = sent
  <2>1. /\ Tail(items[c]) \in Seq(ChannelCalls) /\ Len(Tail(items[c])) = Len(items[c]) - 1
        /\ Head(items[c]) \in ChannelCalls
    BY <1>0, <1>4, HeadTailProperties
  <2>2. Append(taken[c], Head(items[c])) \in Seq(ChannelCalls)
    BY <1>0, <2>1, AppendProperties
  <2>3. ChannelTypes'
    BY <1>0, <1>4, <2>1, <2>2 DEF ChannelTypes
  <2>4. taken[c] \o items[c] = Append(taken[c], Head(items[c])) \o Tail(items[c])
    BY <1>0, <1>4, TakenOutFirst
  <2>5. c \in Bounded => Len(items[c]) - 1 <= Capacity[c]
    <3>1. c \in Bounded => Len(items[c]) <= Capacity[c]
      BY <1>0 DEF ChannelLosesNothing
    <3>2. Capacity[c] \in Nat
      BY <1>0, ChannelAssumption
    <3>3. QED BY <1>0, <3>1, <3>2
  <2>6. ChannelLosesNothing'
    BY <1>0, <1>4, <2>1, <2>4, <2>5 DEF ChannelLosesNothing, ChannelTypes
  <2>7. QED BY <1>1, <2>3, <2>6
<1>5. QED BY <1>2, <1>3, <1>4 DEF Proceed

LEMMA CallKeeps ==
    ASSUME ChannelInv, NEW k \in ChannelCalls, CallChannel(k) \/ WakeCall(k) \/ TimeOut(k)
    PROVE  ChannelInv'
<1>1. UNCHANGED <<channel, liveChannels, factory, toClose>>
  BY DEF CallChannel, WakeCall, TimeOut
<1>2. (MayProceed(k) /\ Proceed(k)) \/ UNCHANGED <<items, sent, taken>>
  BY DEF CallChannel, WakeCall, TimeOut
<1>3. SweepInv' /\ channel' \in [Channels -> ChannelPlaces] /\ liveChannels' \subseteq Channels
  BY <1>1 DEF ChannelInv, SweepInv, ChannelTypes
<1>4. QED BY <1>1, <1>2, <1>3, ProceedKeeps, KeepPayloads

LEMMA RegistryKeeps ==
    ASSUME ChannelInv, NEW c \in Channels,
           \/ OwnerStep(c) \/ UnregisterChannel(c) \/ FreeChannel(c) \/ SweepChannel(c)
           \/ RaiseFactoryDown \/ LockRegistry \/ EndSweep \/ DestroyFactory
    PROVE  ChannelInv'
<1> USE DEF OwnerStep, CheckCreate, RegisterChannel, BeginDestroy, CloseChannel,
            UnregisterChannel, FreeChannel, SweepChannel, RaiseFactoryDown, LockRegistry,
            EndSweep, DestroyFactory
<1>1. UNCHANGED <<items, sent, taken>>
  OBVIOUS
<1>2. channel' \in [Channels -> ChannelPlaces] /\ liveChannels' \subseteq Channels
  BY DEF ChannelInv, ChannelTypes, ChannelPlaces
<1>3. SweepInv'
  BY DEF ChannelInv, ChannelTypes, SweepInv
<1>4. QED BY <1>1, <1>2, <1>3, KeepPayloads

LEMMA ChannelStep == ChannelInv /\ [PipelineNext]_pipelineVars => ChannelInv'
<1> SUFFICES ASSUME ChannelInv, [PipelineNext]_pipelineVars PROVE ChannelInv'
  OBVIOUS
<1>1. ASSUME UNCHANGED <<channel, liveChannels, items, sent, taken, factory, toClose>>
      PROVE  ChannelInv'
  BY <1>1, KeepPayloads DEF ChannelInv, ChannelTypes, SweepInv
<1>2. Drain \in Channels /\ Feeders \subseteq ChannelCalls
  BY PipelineAssumption, ChannelAssumption
<1>3. CASE AddStage \/ RaisePipeDown \/ UNCHANGED pipelineVars
  BY <1>1, <1>3 DEF AddStage, RaisePipeDown, pipelineVars, factoryVars
<1>4. CASE Build \/ FinishBuild \/ CloseDrain \/ DropPipeline
  BY <1>2, <1>4, RegistryKeeps DEF Build, FinishBuild, CloseDrain, DropPipeline, OwnerStep
<1>5. ASSUME NEW f \in Feeders, StartFeed(f) \/ PassStage(f) \/ SendOut(f) PROVE ChannelInv'
  <2>1. CASE StartFeed(f) \/ PassStage(f)
    BY <1>1, <2>1 DEF StartFeed, PassStage, factoryVars
  <2>2. CASE SendOut(f)
    BY <1>2, <2>2, CallKeeps DEF SendOut
  <2>3. QED BY <1>5, <2>1, <2>2
<1>6. CASE OthersOfFactory
  BY <1>2, <1>6, CallKeeps, RegistryKeeps DEF OthersOfFactory, FactoryStep
<1>7. QED BY <1>3, <1>4, <1>5, <1>6 DEF PipelineNext

(* A channel loses, repeats and reorders nothing, and a sweep meets only   *)
(* channels that are there (DefaultChannel::send, receive,                 *)
(* DefaultChannelFactory::shutdown, ~ChannelGuard).                        *)
THEOREM ChannelsStaySound == PipelineSpec => []ChannelsAreSound
<1>1. PipelineSpec => []ChannelInv
  BY ChannelStarts, ChannelStep, PTL DEF PipelineSpec
<1>2. ChannelInv => ChannelsAreSound
  BY DEF ChannelInv, SweepInv, ChannelsAreSound, SweepMeetsLiveChannels
<1>3. QED BY <1>1, <1>2, PTL

-----------------------------------------------------------------------------
(* The bus targets: IdFindsItsTarget                                       *)

TargetSpec == TargetInit /\ [][TargetNext]_targetVars

(* There are fewer registrations in all than generations of an index.      *)
FewTargets == 2 ^ GenerationWidth - 1 \notin 0 .. Cardinality(Registrations)

Ids == [index : Indices, generation : Indices]
Slots == [owner : Registrations, generation : Indices]
HoldingToken == {"allocated", "registered"}
RegistrationPlaces == {"new", "checked", "refused", "thrown", "gone"} \cup HoldingToken
(* The registrations that have been given an id: no generation is higher   *)
(* than their number.                                                      *)
Issued == {r \in Registrations : idOf[r] # NoId}
TargetTypes ==
    /\ slots \in [Indices -> Slots \cup {NoSlot}]
    /\ genOf \in [Indices -> Nat]
    /\ usedIndices \in Nat /\ usedIndices <= Cardinality(Issued) /\ nextGen = usedIndices + 1
    /\ freeIndices \in Seq(Indices)
    /\ joinedAs \in [Registrations -> RegistrationPlaces]
    /\ idOf \in [Registrations -> Ids \cup {NoId}]
(* A slot and its target know each other.                                  *)
SlotInv ==
    /\ \A i \in Indices : slots[i] # NoSlot =>
          /\ joinedAs[slots[i].owner] \in HoldingToken
          /\ idOf[slots[i].owner] = [index |-> i, generation |-> slots[i].generation]
          /\ slots[i].generation <= Cardinality(Issued) /\ i <= usedIndices
    /\ \A r \in Registrations :
          /\ joinedAs[r] \in {"new", "checked"} => idOf[r] = NoId
          /\ joinedAs[r] \in {"thrown", "gone"} => idOf[r] # NoId
          /\ joinedAs[r] \in HoldingToken =>
                 /\ idOf[r] # NoId
                 /\ slots[idOf[r].index] = [owner |-> r, generation |-> idOf[r].generation]
(* The ids an index has seen are older than the one it holds, and all of   *)
(* them than the one it gives out next.                                    *)
AgeInv ==
    /\ \A r \in Registrations : idOf[r] # NoId =>
          LET i == idOf[r].index IN
          /\ i <= usedIndices
          /\ slots[i] # NoSlot => slots[i].owner = r \/ idOf[r].generation < slots[i].generation
    /\ \A k \in DOMAIN freeIndices :
          LET i == freeIndices[k] IN
          /\ slots[i] = NoSlot /\ i <= usedIndices
          /\ genOf[i] \in 1 .. Cardinality(Issued) + 1
          /\ \A r \in Registrations :
                 idOf[r] # NoId /\ idOf[r].index = i => idOf[r].generation < genOf[i]
    /\ \A k, l \in DOMAIN freeIndices : freeIndices[k] = freeIndices[l] => k = l
(* A dead block is not looked at any more.                                 *)
TargetInv == blockAlive => TargetTypes /\ SlotInv /\ AgeInv

LEMMA IssuedAreFew ==
    /\ Cardinality(Registrations) \in Nat /\ IsFiniteSet(Issued)
    /\ Cardinality(Issued) \in Nat /\ Cardinality(Issued) <= Cardinality(Registrations)
<1>1. Issued \subseteq Registrations
  BY DEF Issued
<1>2. QED BY <1>1, TargetAssumption, FS_Subset, FS_CardinalityType

LEMMA TargetStarts == TargetInit => TargetInv
<1> SUFFICES ASSUME TargetInit PROVE TargetInv
  OBVIOUS
<1>1. TargetTypes
  BY IssuedAreFew DEF TargetInit, TargetTypes, RegistrationPlaces
<1>2. SlotInv
  BY <1>1 DEF TargetInit, SlotInv, HoldingToken
<1>3. AgeInv
  <2>1. DOMAIN freeIndices = {}
    BY DEF TargetInit
  <2>2. QED BY <2>1 DEF TargetInit, AgeInv
<1>4. QED BY <1>1, <1>2, <1>3 DEF TargetInv

(* What an invariant that knows the block alive says of the id of a target *)
LEMMA IdsFind == TargetInv => IdFindsItsTarget
<1> SUFFICES ASSUME TargetInv, blockAlive, NEW r \in Registrations
             PROVE  Lookup(idOf[r]) = IF joinedAs[r] \in HoldingToken THEN r ELSE NoSlot.owner
  BY DEF IdFindsItsTarget, HoldingToken
<1>0. TargetTypes /\ SlotInv /\ AgeInv
  BY DEF TargetInv
<1>1. CASE joinedAs[r] \in HoldingToken
  <2>1. idOf[r] # NoId /\ slots[idOf[r].index] = [owner |-> r, generation |-> idOf[r].generation]
    BY <1>0, <1>1 DEF SlotInv
  <2>2. slots[idOf[r].index].generation = idOf[r].generation /\ slots[idOf[r].index].owner = r
    BY <2>1
  <2>3. QED BY <1>1, <2>1, <2>2 DEF Lookup
<1>2. CASE joinedAs[r] \notin HoldingToken
  <2>1. CASE idOf[r] = NoId
    BY <1>2, <2>1 DEF Lookup
  <2>2. CASE idOf[r] # NoId
    <3> DEFINE i == idOf[r].index
    <3>1. i \in Indices /\ idOf[r].generation \in Indices /\ i <= usedIndices
          /\ idOf[r].generation # 0 /\ slots[i] \in Slots \cup {NoSlot}
      BY <1>0, <2>2 DEF TargetTypes, AgeInv, Ids, Indices
    <3>2. CASE slots[i] = NoSlot
      BY <1>2, <3>1, <3>2 DEF Lookup, NoSlot
    <3>3. CASE slots[i] # NoSlot
      <4>1. slots[i].owner # r
        BY <1>0, <1>2, <3>1, <3>3 DEF SlotInv
      <4>2. idOf[r].generation < slots[i].generation
        BY <1>0, <2>2, <3>3, <4>1 DEF AgeInv
      <4>3. slots[i].generation # idOf[r].generation
        BY <3>1, <4>2 DEF Indices
      <4>4. QED BY <1>2, <4>3 DEF Lookup
    <3>4. QED BY <3>2, <3>3
  <2>3. QED BY <2>1, <2>2
<1>3. QED BY <1>1, <1>2

(* Steps that give out and take back nothing                               *)
LEMMA KeepSlots ==
    ASSUME TargetInv, blockAlive, UNCHANGED <<slots, freeIndices, usedIndices, nextGen, genOf, idOf>>,
           joinedAs' \in [Registrations -> RegistrationPlaces],
           \A r \in Registrations :
               /\ joinedAs'[r] \in {"new", "checked"} => joinedAs[r] \in {"new", "checked"}
               /\ joinedAs'[r] \in {"thrown", "gone"} => joinedAs[r] \in {"thrown", "gone"}
               /\ joinedAs'[r] \in HoldingToken <=> joinedAs[r] \in HoldingToken
    PROVE  TargetInv'
<1>0. TargetTypes /\ SlotInv /\ AgeInv /\ Issued' = Issued
  BY DEF TargetInv, Issued
<1>1. TargetTypes'
  BY <1>0 DEF TargetTypes
<1>2. SlotInv'
  <2>1. \A i \in Indices : slots[i] # NoSlot => slots[i].owner \in Registrations
    BY <1>0 DEF TargetTypes, Slots
  <2>2. QED BY <1>0, <2>1 DEF SlotInv
<1>3. AgeInv'
  BY <1>0 DEF AgeInv
<1>4. QED BY <1>1, <1>2, <1>3 DEF TargetInv

LEMMA AllocateKeeps ==
    ASSUME FewTargets, TargetInv, blockAlive, NEW r \in Registrations, Allocate(r)
    PROVE  TargetInv'
<1> DEFINE N == Cardinality(Registrations)
           n == Cardinality(Issued)
<1>0. /\ TargetTypes /\ SlotInv /\ AgeInv /\ joinedAs[r] = "checked" /\ idOf[r] = NoId
      /\ UNCHANGED <<genOf, blockAlive, busOpen>>
  BY DEF TargetInv, SlotInv, Allocate
<1>1. PICK i, g : /\ TakeSlot(r, i, g)
                  /\ \/ /\ freeIndices # <<>> /\ i = freeIndices[Len(freeIndices)] /\ g = genOf[i]
                        /\ freeIndices' = SubSeq(freeIndices, 1, Len(freeIndices) - 1)
                        /\ UNCHANGED <<usedIndices, nextGen>>
                     \/ /\ i = usedIndices + 1 /\ g = nextGen /\ usedIndices' = usedIndices + 1
                        /\ nextGen' = After(nextGen) /\ freeIndices' = freeIndices
  BY DEF Allocate
<1>2. /\ slots' = [slots EXCEPT ![i] = [owner |-> r, generation |-> g]]
      /\ idOf' = [idOf EXCEPT ![r] = [index |-> i, generation |-> g]]
      /\ joinedAs' = [joinedAs EXCEPT ![r] = "allocated"]
  BY <1>1 DEF TakeSlot
<1>3. N \in Nat /\ n \in Nat /\ n + 1 <= N /\ usedIndices \in Nat /\ usedIndices <= n
      /\ nextGen = usedIndices + 1
  <2>1. r \notin Issued /\ Issued \cup {r} \subseteq Registrations
    BY <1>0 DEF Issued
  <2>2. Cardinality(Issued \cup {r}) = n + 1
    BY <2>1, IssuedAreFew, FS_AddElement
  <2>3. QED BY <1>0, <2>1, <2>2, IssuedAreFew, TargetAssumption, FS_Subset DEF TargetTypes
<1>4. Len(freeIndices) \in Nat /\ DOMAIN freeIndices = 1 .. Len(freeIndices)
      /\ \A k \in DOMAIN freeIndices : freeIndices[k] \in Indices
  BY <1>0 DEF TargetTypes
(* the index and its generation *)
<1>5. /\ i \in 1 .. usedIndices' /\ g \in 1 .. n + 1 /\ slots[i] = NoSlot
      /\ usedIndices' \in Nat /\ usedIndices' <= n + 1 /\ usedIndices <= usedIndices'
      /\ nextGen' = usedIndices' + 1
      /\ \A q \in Registrations : idOf[q] # NoId /\ idOf[q].index = i => idOf[q].generation < g
  <2>1. CASE freeIndices # <<>> /\ i = freeIndices[Len(freeIndices)] /\ g = genOf[i]
             /\ UNCHANGED <<usedIndices, nextGen>>
    <3>1. Len(freeIndices) \in DOMAIN freeIndices
      BY <1>4, <2>1, EmptySeq, <1>0 DEF TargetTypes
    <3>2. i \in Indices /\ i <= usedIndices /\ slots[i] = NoSlot /\ genOf[i] \in 1 .. n + 1
          /\ \A q \in Registrations : idOf[q] # NoId /\ idOf[q].index = i => idOf[q].generation < genOf[i]
      BY <1>0, <1>4, <2>1, <3>1 DEF AgeInv
    <3>3. QED BY <1>3, <2>1, <3>2 DEF Indices
  <2>2. CASE i = usedIndices + 1 /\ g = nextGen /\ usedIndices' = usedIndices + 1
             /\ nextGen' = After(nextGen)
    <3>1. i \in Indices /\ slots[i] = NoSlot
      <4>1. i \in Indices /\ ~(i <= usedIndices)
        BY <1>3, <2>2 DEF Indices
      <4>2. QED BY <1>0, <4>1 DEF SlotInv
    <3>2. nextGen' = usedIndices' + 1
      <4>1. nextGen \in 0 .. N
        BY <1>3
      <4>2. nextGen # 2 ^ GenerationWidth - 1
        BY <4>1 DEF FewTargets
      <4>3. QED BY <1>3, <2>2, <4>2 DEF After
    <3>3. \A q \in Registrations : idOf[q] # NoId => idOf[q].index # i
      BY <1>0, <1>3, <2>2 DEF AgeInv, TargetTypes, Ids, Indices
    <3>4. QED BY <1>3, <2>2, <3>1, <3>2, <3>3
  <2>3. QED BY <1>1, <2>1, <2>2
<1>6. i \in Indices /\ g \in Indices
  BY <1>3, <1>5 DEF Indices
<1>7. Issued' = Issued \cup {r} /\ Cardinality(Issued') = n + 1
  <2>1. [index |-> i, generation |-> g] # NoId
    BY <1>5 DEF NoId
  <2>2. r \notin Issued /\ Issued' = Issued \cup {r}
    BY <1>0, <1>2, <2>1 DEF Issued, TargetTypes
  <2>3. QED BY <2>2, IssuedAreFew, FS_AddElement
(* the free indices: those there were, but not this one *)
<1>8. /\ freeIndices' \in Seq(Indices)
      /\ \A k \in DOMAIN freeIndices' : /\ k \in DOMAIN freeIndices
                                        /\ freeIndices'[k] = freeIndices[k]
                                        /\ freeIndices'[k] # i
  <2>1. CASE freeIndices # <<>> /\ i = freeIndices[Len(freeIndices)]
             /\ freeIndices' = SubSeq(freeIndices, 1, Len(freeIndices) - 1)
    <3>1. Len(freeIndices) >= 1
      BY <1>4, <2>1, EmptySeq, <1>0 DEF TargetTypes
    <3>2. /\ freeIndices' \in Seq(Indices) /\ DOMAIN freeIndices' = 1 .. Len(freeIndices) - 1
          /\ \A k \in 1 .. Len(freeIndices) - 1 : freeIndices'[k] = freeIndices[k]
      BY <1>0, <1>4, <2>1, <3>1, SubSeqProperties DEF TargetTypes
    <3>3. \A k \in 1 .. Len(freeIndices) - 1 : freeIndices[k] # freeIndices[Len(freeIndices)]
      BY <1>0, <1>4, <3>1 DEF AgeInv
    <3>4. QED BY <1>4, <2>1, <3>2, <3>3
  <2>2. CASE i = usedIndices + 1 /\ freeIndices' = freeIndices
    <3>1. \A k \in DOMAIN freeIndices : freeIndices[k] <= usedIndices /\ freeIndices[k] \in Int
      BY <1>0, <1>4 DEF AgeInv, Indices
    <3>2. QED BY <1>0, <1>3, <2>2, <3>1 DEF TargetTypes
  <2>3. QED BY <1>1, <2>1, <2>2
<1>9. TargetTypes'
  <2>1. [owner |-> r, generation |-> g] \in Slots /\ [index |-> i, generation |-> g] \in Ids
    BY <1>6 DEF Slots, Ids
  <2>2. QED BY <1>0, <1>2, <1>5, <1>6, <1>7, <1>8, <2>1
        DEF TargetTypes, RegistrationPlaces, HoldingToken
<1>10. SlotInv'
  <2>1. ASSUME NEW j \in Indices, slots'[j] # NoSlot
        PROVE  /\ joinedAs'[slots'[j].owner] \in HoldingToken
               /\ idOf'[slots'[j].owner] = [index |-> j, generation |-> slots'[j].generation]
               /\ slots'[j].generation <= n + 1 /\ j <= usedIndices'
    <3>1. CASE j = i
      BY <1>0, <1>2, <1>3, <1>5, <1>6, <3>1 DEF TargetTypes, HoldingToken
    <3>2. CASE j # i
      <4>1. slots'[j] = slots[j] /\ slots[j] \in Slots /\ slots[j].owner \in Registrations
            /\ slots[j].generation \in Nat
        BY <1>0, <1>2, <2>1, <3>2 DEF TargetTypes, Slots, Indices
      <4>2. slots[j].owner # r
        BY <1>0, <2>1, <4>1 DEF SlotInv, HoldingToken
      <4>3. QED BY <1>0, <1>2, <1>3, <1>5, <2>1, <4>1, <4>2 DEF SlotInv, TargetTypes, Indices
    <3>3. QED BY <3>1, <3>2
  <2>2. ASSUME NEW q \in Registrations
        PROVE  /\ joinedAs'[q] \in {"new", "checked"} => idOf'[q] = NoId
               /\ joinedAs'[q] \in {"thrown", "gone"} => idOf'[q] # NoId
               /\ joinedAs'[q] \in HoldingToken =>
                     /\ idOf'[q] # NoId
                     /\ slots'[idOf'[q].index] = [owner |-> q, generation |-> idOf'[q].generation]
    <3>1. CASE q = r
      BY <1>0, <1>2, <1>5, <1>6, <3>1 DEF TargetTypes, NoId
    <3>2. CASE q # r
      <4>1. joinedAs'[q] = joinedAs[q] /\ idOf'[q] = idOf[q]
        BY <1>0, <1>2, <3>2 DEF TargetTypes
      <4>2. joinedAs[q] \in HoldingToken => idOf[q].index # i
        <5>0. joinedAs[q] \in HoldingToken =>
                 slots[idOf[q].index] = [owner |-> q, generation |-> idOf[q].generation]
          BY <1>0 DEF SlotInv
        <5>1. joinedAs[q] \in HoldingToken =>
                 idOf[q] \in Ids /\ slots[idOf[q].index].generation = idOf[q].generation
          BY <1>0, <5>0 DEF SlotInv, TargetTypes
        <5>2. slots[i].generation = 0
          BY <1>5 DEF NoSlot
        <5>3. QED BY <5>1, <5>2 DEF Ids, Indices
      <4>3. QED BY <1>0, <1>2, <4>1, <4>2 DEF SlotInv, TargetTypes, Ids
    <3>3. QED BY <3>1, <3>2
  <2>3. QED BY <1>7, <2>1, <2>2 DEF SlotInv
<1>11. AgeInv'
  <2>1. ASSUME NEW q \in Registrations, idOf'[q] # NoId
        PROVE  /\ idOf'[q].index <= usedIndices'
               /\ slots'[idOf'[q].index] # NoSlot =>
                     \/ slots'[idOf'[q].index].owner = q
                     \/ idOf'[q].generation < slots'[idOf'[q].index].generation
    <3>1. CASE q = r
      BY <1>0, <1>2, <1>5, <1>6, <3>1 DEF TargetTypes
    <3>2. CASE q # r
      <4>1. idOf'[q] = idOf[q] /\ idOf[q].index \in Indices
        BY <1>0, <1>2, <2>1, <3>2 DEF TargetTypes, Ids
      <4>2. idOf[q].index <= usedIndices'
        BY <1>0, <1>3, <1>5, <2>1, <4>1 DEF AgeInv, Indices
      <4>3. CASE idOf[q].index = i
        BY <1>0, <1>2, <1>5, <1>6, <2>1, <4>1, <4>2, <4>3 DEF TargetTypes
      <4>4. CASE idOf[q].index # i
        BY <1>0, <1>2, <2>1, <4>1, <4>2, <4>4 DEF TargetTypes, AgeInv
      <4>5. QED BY <4>3, <4>4
    <3>3. QED BY <3>1, <3>2
  <2>2. ASSUME NEW k \in DOMAIN freeIndices'
        PROVE  LET j == freeIndices'[k] IN
               /\ slots'[j] = NoSlot /\ j <= usedIndices'
               /\ genOf'[j] \in 1 .. n + 1 + 1
               /\ \A q \in Registrations :
                      idOf'[q] # NoId /\ idOf'[q].index = j => idOf'[q].generation < genOf'[j]
    <3> DEFINE j == freeIndices[k]
    <3>1. k \in DOMAIN freeIndices /\ freeIndices'[k] = j /\ j # i /\ j \in Indices
      BY <1>4, <1>8
    <3>2. /\ slots[j] = NoSlot /\ j <= usedIndices /\ genOf[j] \in 1 .. n + 1
          /\ \A q \in Registrations :
                 idOf[q] # NoId /\ idOf[q].index = j => idOf[q].generation < genOf[j]
      BY <1>0, <3>1 DEF AgeInv
    <3>3. slots'[j] = NoSlot /\ genOf'[j] = genOf[j] /\ j <= usedIndices'
      BY <1>0, <1>2, <1>3, <1>5, <3>1, <3>2 DEF TargetTypes, Indices
    <3>4. ASSUME NEW q \in Registrations, idOf'[q] # NoId, idOf'[q].index = j
          PROVE  idOf'[q].generation < genOf[j]
      <4>1. q # r
        BY <1>0, <1>2, <3>1, <3>4 DEF TargetTypes
      <4>2. QED BY <1>0, <1>2, <3>2, <3>4, <4>1 DEF TargetTypes
    <3>5. genOf[j] \in 1 .. n + 1 + 1
      BY <1>3, <3>2
    <3>6. QED BY <3>1, <3>3, <3>4, <3>5
  <2>3. \A k, l \in DOMAIN freeIndices' : freeIndices'[k] = freeIndices'[l] => k = l
    BY <1>0, <1>8 DEF AgeInv
  <2>4. QED BY <1>7, <2>1, <2>2, <2>3 DEF AgeInv
<1>12. QED BY <1>9, <1>10, <1>11 DEF TargetInv

(* A target that holds its token takes its own slot back, and a failed     *)
(* registration that is rolled back again finds nothing of its own.        *)
LEMMA UnregisterKeeps ==
    ASSUME FewTargets, TargetInv, blockAlive, NEW r \in Registrations, Unregister(r),
           joinedAs[r] \in HoldingToken, NEW place \in {"thrown", "gone"},
           joinedAs' = [joinedAs EXCEPT ![r] = place],
           UNCHANGED <<usedIndices, nextGen, blockAlive, busOpen, idOf>>
    PROVE  TargetInv'
<1>n. PICK n : n = Cardinality(Issued)
  OBVIOUS
<1>i. PICK i : i = idOf[r].index
  OBVIOUS
<1>g. PICK g : g = idOf[r].generation
  OBVIOUS
<1>0. TargetTypes /\ SlotInv /\ AgeInv
  BY DEF TargetInv
<1>1. /\ i \in Indices /\ g \in Indices /\ g \in Nat /\ g >= 1 /\ idOf[r] # NoId
      /\ slots[i] = [owner |-> r, generation |-> g] /\ slots[i] # NoSlot
      /\ i <= usedIndices /\ g <= n /\ n \in Nat
      /\ n <= Cardinality(Registrations) /\ Cardinality(Registrations) \in Nat
  <2>1. idOf[r] \in Ids /\ idOf[r] # NoId /\ slots[i] = [owner |-> r, generation |-> g]
    BY <1>0, <1>i, <1>g DEF SlotInv, TargetTypes
  <2>2. i \in Indices /\ g \in Indices /\ g \in Nat /\ g >= 1
    BY <2>1, <1>i, <1>g DEF Ids, Indices
  <2>3. slots[i] # NoSlot
    BY <2>1, <2>2 DEF NoSlot
  <2>4. i <= usedIndices /\ g <= n
    <3>1. slots[i].generation <= Cardinality(Issued) /\ i <= usedIndices
      BY <1>0, <2>2, <2>3 DEF SlotInv
    <3>2. slots[i].generation = g
      BY <2>1
    <3>3. QED BY <1>n, <3>1, <3>2
  <2>5. QED BY <1>n, <2>1, <2>2, <2>3, <2>4, IssuedAreFew
<1>2. /\ slots' = [slots EXCEPT ![i] = NoSlot]
      /\ genOf' = [genOf EXCEPT ![i] = g + 1]
      /\ freeIndices' = Append(freeIndices, i)
  <2>1. slots[i].generation = g
    BY <1>1
  <2>2. g # 2 ^ GenerationWidth - 1
    BY <1>1 DEF FewTargets
  <2>3. After(g) = g + 1
    BY <2>2 DEF After
  <2>4. QED BY <1>i, <1>g, <2>1, <2>3 DEF Unregister
<1>3. Issued' = Issued /\ Cardinality(Issued)' = n
  BY <1>n DEF Issued
<1>4. /\ Len(freeIndices) \in Nat /\ DOMAIN freeIndices = 1 .. Len(freeIndices)
      /\ freeIndices' \in Seq(Indices) /\ DOMAIN freeIndices' = 1 .. Len(freeIndices) + 1
      /\ freeIndices'[Len(freeIndices) + 1] = i
      /\ \A k \in 1 .. Len(freeIndices) : freeIndices'[k] = freeIndices[k]
      /\ \A k \in DOMAIN freeIndices : freeIndices[k] \in Indices /\ freeIndices[k] # i
  <2>1. freeIndices \in Seq(Indices)
    BY <1>0 DEF TargetTypes
  <2>2. \A k \in DOMAIN freeIndices : freeIndices[k] # i
    BY <1>0, <1>1 DEF AgeInv
  <2>3. QED BY <1>1, <1>2, <2>1, <2>2, AppendProperties
<1>5. TargetTypes'
  BY <1>0, <1>1, <1>2, <1>3, <1>4, <1>n DEF TargetTypes, RegistrationPlaces
<1>6. SlotInv'
  <2>1. ASSUME NEW j \in Indices, slots'[j] # NoSlot
        PROVE  /\ joinedAs'[slots'[j].owner] \in HoldingToken
               /\ idOf'[slots'[j].owner] = [index |-> j, generation |-> slots'[j].generation]
               /\ slots'[j].generation <= n /\ j <= usedIndices'
    <3>1. j # i /\ slots'[j] = slots[j] /\ slots[j] \in Slots /\ slots[j].owner \in Registrations
      BY <1>0, <1>1, <1>2, <2>1 DEF TargetTypes, Slots
    <3>2. idOf[slots[j].owner] = [index |-> j, generation |-> slots[j].generation]
      BY <1>0, <2>1, <3>1 DEF SlotInv
    <3>3. slots[j].owner # r
      BY <1>i, <3>1, <3>2
    <3>4. QED BY <1>0, <1>n, <2>1, <3>1, <3>2, <3>3 DEF SlotInv, TargetTypes
  <2>2. ASSUME NEW q \in Registrations
        PROVE  /\ joinedAs'[q] \in {"new", "checked"} => idOf'[q] = NoId
               /\ joinedAs'[q] \in {"thrown", "gone"} => idOf'[q] # NoId
               /\ joinedAs'[q] \in HoldingToken =>
                     /\ idOf'[q] # NoId
                     /\ slots'[idOf'[q].index] = [owner |-> q, generation |-> idOf'[q].generation]
    <3>1. CASE q = r
      BY <1>0, <1>1, <3>1 DEF TargetTypes, HoldingToken
    <3>2. CASE q # r
      <4>1. joinedAs'[q] = joinedAs[q] /\ idOf'[q] = idOf[q]
        BY <1>0, <3>2 DEF TargetTypes
      <4>2. joinedAs[q] \in HoldingToken => idOf[q].index # i
        <5>0. joinedAs[q] \in HoldingToken =>
                 slots[idOf[q].index] = [owner |-> q, generation |-> idOf[q].generation]
          BY <1>0 DEF SlotInv
        <5>1. joinedAs[q] \in HoldingToken => slots[idOf[q].index].owner = q
          BY <5>0
        <5>2. slots[i].owner = r
          BY <1>1
        <5>3. QED BY <3>2, <5>1, <5>2
      <4>3. QED BY <1>0, <1>1, <1>2, <4>1, <4>2 DEF SlotInv, TargetTypes, Ids
    <3>3. QED BY <3>1, <3>2
  <2>3. QED BY <1>3, <2>1, <2>2 DEF SlotInv
<1>7. AgeInv'
  <2>1. ASSUME NEW q \in Registrations, idOf'[q] # NoId
        PROVE  /\ idOf'[q].index <= usedIndices'
               /\ slots'[idOf'[q].index] # NoSlot =>
                     \/ slots'[idOf'[q].index].owner = q
                     \/ idOf'[q].generation < slots'[idOf'[q].index].generation
    <3>1. idOf'[q] = idOf[q] /\ idOf[q].index \in Indices
      BY <1>0, <2>1 DEF TargetTypes, Ids
    <3>2. CASE idOf[q].index = i
      BY <1>0, <1>1, <1>2, <2>1, <3>1, <3>2 DEF TargetTypes, AgeInv
    <3>3. CASE idOf[q].index # i
      BY <1>0, <1>2, <2>1, <3>1, <3>3 DEF TargetTypes, AgeInv
    <3>4. QED BY <3>2, <3>3
  <2>2. ASSUME NEW k \in DOMAIN freeIndices'
        PROVE  LET j == freeIndices'[k] IN
               /\ slots'[j] = NoSlot /\ j <= usedIndices'
               /\ genOf'[j] \in 1 .. n + 1
               /\ \A q \in Registrations :
                      idOf'[q] # NoId /\ idOf'[q].index = j => idOf'[q].generation < genOf'[j]
    <3>1. CASE k \in DOMAIN freeIndices
      <4>1. freeIndices'[k] = freeIndices[k] /\ freeIndices[k] # i /\ freeIndices[k] \in Indices
        BY <1>4, <3>1
      <4>2. slots'[freeIndices[k]] = slots[freeIndices[k]] /\ genOf'[freeIndices[k]] = genOf[freeIndices[k]]
        BY <1>0, <1>2, <4>1 DEF TargetTypes
      <4>3. QED BY <1>0, <1>n, <3>1, <4>1, <4>2 DEF AgeInv
    <3>2. CASE k = Len(freeIndices) + 1
      <4>1. freeIndices'[k] = i /\ slots'[i] = NoSlot /\ genOf'[i] = g + 1 /\ i <= usedIndices'
        BY <1>0, <1>1, <1>2, <1>4, <3>2 DEF TargetTypes
      <4>2. ASSUME NEW q \in Registrations, idOf[q] # NoId, idOf[q].index = i
            PROVE  idOf[q].generation < g + 1
        <5>1. idOf[q].generation \in Nat
          BY <1>0, <4>2 DEF TargetTypes, Ids, Indices
        <5>2. q = r \/ idOf[q].generation < g
          BY <1>0, <1>1, <4>2 DEF AgeInv
        <5>3. QED BY <1>1, <1>g, <5>1, <5>2
      <4>3. g + 1 \in 1 .. n + 1
        BY <1>1
      <4>4. QED BY <4>1, <4>2, <4>3
    <3>3. QED BY <1>4, <3>1, <3>2
  <2>3. \A k, l \in DOMAIN freeIndices' : freeIndices'[k] = freeIndices'[l] => k = l
    BY <1>0, <1>4 DEF AgeInv
  <2>4. QED BY <1>3, <2>1, <2>2, <2>3 DEF AgeInv
<1>8. QED BY <1>5, <1>6, <1>7 DEF TargetInv

LEMMA RollBackKeeps ==
    ASSUME TargetInv, blockAlive, NEW r \in Registrations, RollBack(r)
    PROVE  TargetInv'
<1>0. TargetTypes /\ SlotInv /\ AgeInv /\ joinedAs[r] = "thrown" /\ idOf[r] # NoId
      /\ joinedAs' = [joinedAs EXCEPT ![r] = "refused"]
      /\ UNCHANGED <<usedIndices, nextGen, blockAlive, busOpen, idOf>>
  BY DEF TargetInv, RollBack, SlotInv
<1>1. slots[idOf[r].index].generation # idOf[r].generation
  <2>1. idOf[r].index \in Indices /\ idOf[r].generation \in Nat /\ idOf[r].generation # 0
    BY <1>0 DEF TargetTypes, Ids, Indices
  <2>2. CASE slots[idOf[r].index] = NoSlot
    BY <2>1, <2>2 DEF NoSlot
  <2>3. CASE slots[idOf[r].index] # NoSlot
    <3>1. slots[idOf[r].index].owner # r
      BY <1>0, <2>1, <2>3 DEF SlotInv, HoldingToken
    <3>2. idOf[r].generation < slots[idOf[r].index].generation
      BY <1>0, <2>3, <3>1 DEF AgeInv
    <3>3. QED BY <2>1, <3>2
  <2>4. QED BY <2>2, <2>3
<1>2. UNCHANGED <<slots, genOf, freeIndices>>
  BY <1>1 DEF RollBack, Unregister
<1>3. joinedAs' \in [Registrations -> RegistrationPlaces]
  BY <1>0 DEF TargetTypes, RegistrationPlaces
<1>4. \A q \in Registrations : joinedAs'[q] = IF q = r THEN "refused" ELSE joinedAs[q]
  BY <1>0 DEF TargetTypes
<1>5. QED BY <1>0, <1>2, <1>3, <1>4, KeepSlots DEF HoldingToken

LEMMA TargetSteps ==
    ASSUME FewTargets PROVE TargetInv /\ [TargetNext]_targetVars => TargetInv'
<1> SUFFICES ASSUME TargetInv, [TargetNext]_targetVars PROVE TargetInv'
  OBVIOUS
<1>1. CASE ~blockAlive
  <2>1. ~blockAlive'
    BY <1>1 DEF TargetNext, targetVars, CheckBus, Allocate, AllocateDead, Accept, Throw, RollBack,
       DropToken, CloseBus, KillBlock
  <2>2. QED BY <2>1 DEF TargetInv
<1>2. CASE blockAlive
  <2>0. TargetTypes
    BY <1>2 DEF TargetInv
  <2>1. CASE UNCHANGED targetVars
    BY <1>2, <2>0, <2>1, KeepSlots DEF targetVars, TargetTypes
  <2>2. ASSUME NEW r \in Registrations, CheckBus(r) \/ Accept(r) PROVE TargetInv'
    <3>1. PICK place \in RegistrationPlaces :
              /\ joinedAs' = [joinedAs EXCEPT ![r] = place]
              /\ \/ place \in {"checked", "refused"} /\ joinedAs[r] = "new"
                 \/ place = "registered" /\ joinedAs[r] = "allocated"
      <4>1. CASE CheckBus(r)
        BY <4>1 DEF CheckBus, RegistrationPlaces
      <4>2. CASE Accept(r)
        BY <4>2 DEF Accept, RegistrationPlaces, HoldingToken
      <4>3. QED BY <2>2, <4>1, <4>2
    <3>2. joinedAs' \in [Registrations -> RegistrationPlaces]
      BY <2>0, <3>1 DEF TargetTypes
    <3>3. \A q \in Registrations : joinedAs'[q] = IF q = r THEN place ELSE joinedAs[q]
      BY <2>0, <3>1 DEF TargetTypes
    <3>4. QED BY <1>2, <2>2, <3>1, <3>2, <3>3, KeepSlots DEF CheckBus, Accept, HoldingToken
  <2>3. ASSUME NEW r \in Registrations, Allocate(r) \/ AllocateDead(r) PROVE TargetInv'
    BY <1>2, <2>3, AllocateKeeps DEF AllocateDead
  <2>4. ASSUME NEW r \in Registrations, Throw(r) \/ DropToken(r) PROVE TargetInv'
    BY <1>2, <2>4, UnregisterKeeps DEF Throw, DropToken, HoldingToken
  <2>5. ASSUME NEW r \in Registrations, RollBack(r) PROVE TargetInv'
    BY <1>2, <2>5, RollBackKeeps
  <2>6. CASE CloseBus
    BY <1>2, <2>0, <2>6, KeepSlots DEF CloseBus, TargetTypes
  <2>7. CASE KillBlock
    BY <2>7 DEF KillBlock, TargetInv
  <2>8. QED BY <2>1, <2>2, <2>3, <2>4, <2>5, <2>6, <2>7 DEF TargetNext
<1>3. QED BY <1>1, <1>2

(* DefaultBusControlBlock: while it lives, an id finds the target it was   *)
(* issued to, and once that has let go, or its registration has failed and *)
(* was rolled back twice, nobody, whoever holds the index by then.         *)
THEOREM IdsFindTheirTargets == ASSUME FewTargets PROVE TargetSpec => []IdFindsItsTarget
<1>1. QED BY TargetStarts, TargetSteps, IdsFind, PTL DEF TargetSpec

-----------------------------------------------------------------------------
(* The topic bus: TopicsStayApart                                          *)

TopicSpec == TopicInit /\ [][TopicNext]_topicVars

(* Salting leads the hash of a name to as many ids as there are names, so  *)
(* that one of them is free whoever has the others.                        *)
Salts == 0 .. Cardinality(Topics)
IdsFrom(n) == {HashToId(n, salt) : salt \in Salts}
SaltLeadsOn == \A n \in Topics : Cardinality(IdsFrom(n)) >= Cardinality(Topics)

FollowsInv ==
    \A u \in TopicUsers :
        IF follows[u] = "none" THEN filterId[u] = 0
        ELSE /\ follows[u] \in Topics /\ topicId[follows[u]] # 0
             /\ filterId[u] = topicId[follows[u]]
TopicInv ==
    /\ DOMAIN topicId = Topics /\ topicId = [n \in Topics |-> topicId[n]]
    /\ follows \in [TopicUsers -> Topics \cup {"none"}]
    /\ filterId = [u \in TopicUsers |-> filterId[u]]
    /\ about \in [Publications -> Topics \cup {"none"}]
    /\ got \subseteq TopicUsers \X Publications
    /\ FollowsInv
    /\ \A pair \in got : about[pair[2]] # "none"
    /\ TopicsStayApart

LEMMA LeastSalt ==
    ASSUME NEW T \in SUBSET Nat, T # {}
    PROVE  \E x \in T : \A y \in T : x <= y
<1>1. PICK x \in T : \A y \in T : ~(<<y, x>> \in OpToRel(<, Nat))
  BY NatLessThanWellFounded, WFMin, Zenon
<1>2. \A y \in T : ~(y < x)
  BY <1>1 DEF OpToRel
<1>3. QED BY <1>2

LEMMA ProbeFindsAFreeId ==
    ASSUME SaltLeadsOn, NEW n \in Topics, topicId[n] = 0
    PROVE  Probe(n) # 0 /\ Probe(n) \notin TakenIds
<1> DEFINE others == {topicId[m] : m \in Topics \ {n}}
           free == {salt \in Salts : HashToId(n, salt) \notin TakenIds}
<1>1. /\ IsFiniteSet(others) /\ Cardinality(others) \in Nat
      /\ Cardinality(others) <= Cardinality(Topics) - 1 /\ Cardinality(Topics) \in Nat
  <2>1. IsFiniteSet(Topics \ {n}) /\ Cardinality(Topics \ {n}) = Cardinality(Topics) - 1
    BY TopicAssumption, FS_RemoveElement
  <2>2. IsFiniteSet(others) /\ Cardinality(others) <= Cardinality(Topics \ {n})
    <3> DEFINE f == [m \in Topics \ {n} |-> topicId[m]]
    <3>1. f \in Surjection(Topics \ {n}, others)
      BY DEF Surjection
    <3>2. QED BY <2>1, <3>1, FS_Surjection
  <2>3. QED BY <2>1, <2>2, TopicAssumption, FS_CardinalityType
<1>2. TakenIds \subseteq others
  BY DEF TakenIds
<1>3. ~(IdsFrom(n) \subseteq others)
  <2>1. SUFFICES ASSUME IdsFrom(n) \subseteq others PROVE FALSE
    OBVIOUS
  <2>2. Cardinality(IdsFrom(n)) <= Cardinality(others) /\ IsFiniteSet(IdsFrom(n))
    BY <1>1, <2>1, FS_Subset
  <2>3. Cardinality(IdsFrom(n)) \in Nat
    BY <2>2, FS_CardinalityType
  <2>4. Cardinality(IdsFrom(n)) >= Cardinality(Topics)
    BY DEF SaltLeadsOn
  <2>5. QED BY <1>1, <2>2, <2>3, <2>4
<1>4. free # {} /\ free \in SUBSET Nat
  BY <1>1, <1>2, <1>3 DEF IdsFrom, Salts
<1>5. \E salt \in free : \A other \in free : salt <= other
  <2> HIDE DEF free
  <2>1. QED BY <1>4, LeastSalt
<1>6. PICK salt \in free : Probe(n) = HashToId(n, salt)
  <2>1. Probe(n) = HashToId(n, CHOOSE salt \in free : \A other \in free : salt <= other)
    BY DEF Probe, Salts
  <2> HIDE DEF free
  <2>2. QED BY <1>5, <2>1
<1>7. HashToId(n, salt) # 0
  BY DEF HashToId
<1>8. QED BY <1>6, <1>7

LEMMA TopicStarts == TopicInit => TopicInv
BY DEF TopicInit, TopicInv, FollowsInv, TopicsStayApart

LEMMA TopicSteps ==
    ASSUME SaltLeadsOn PROVE TopicInv /\ [TopicNext]_topicVars => TopicInv'
<1> SUFFICES ASSUME TopicInv, [TopicNext]_topicVars PROVE TopicInv'
  OBVIOUS
<1>1. CASE UNCHANGED topicVars
  BY <1>1 DEF topicVars, TopicInv, FollowsInv, TopicsStayApart
<1>2. ASSUME NEW n \in Topics, CreateTopic(n) PROVE TopicInv'
  <2>1. Probe(n) # 0 /\ Probe(n) \notin TakenIds
    BY <1>2, ProbeFindsAFreeId DEF CreateTopic
  <2>2. \A m \in Topics : topicId[m] # 0 => topicId[m] # Probe(n) /\ m # n
    BY <1>2, <2>1 DEF TakenIds, CreateTopic
  <2>3. \A m \in Topics : topicId'[m] = IF m = n THEN Probe(n) ELSE topicId[m]
    BY <1>2 DEF CreateTopic, TopicInv
  <2>4. TopicsStayApart'
    BY <1>2, <2>1, <2>2, <2>3 DEF CreateTopic, TopicInv, TopicsStayApart
  <2>5. FollowsInv'
    BY <1>2, <2>2, <2>3 DEF CreateTopic, TopicInv, FollowsInv
  <2>6. QED BY <1>2, <2>4, <2>5 DEF CreateTopic, TopicInv
<1>3. ASSUME NEW u \in TopicUsers, NEW n \in Topics, FollowTopic(u, n) PROVE TopicInv'
  <2>1. ASSUME NEW v \in TopicUsers
        PROVE  /\ follows'[v] = IF v = u THEN n ELSE follows[v]
               /\ filterId'[v] = IF v = u THEN topicId[n] ELSE filterId[v]
    BY <1>3 DEF FollowTopic, TopicInv
  <2>2. FollowsInv'
    BY <1>3, <2>1, TopicAssumption DEF FollowTopic, TopicInv, FollowsInv
  <2>3. \A pair \in got : pair[1] # u /\ pair[1] \in TopicUsers
    BY <1>3 DEF FollowTopic, TopicInv, TopicsStayApart
  <2>4. TopicsStayApart'
    BY <1>3, <2>1, <2>3 DEF FollowTopic, TopicInv, TopicsStayApart
  <2>5. QED BY <1>3, <2>2, <2>4 DEF FollowTopic, TopicInv
<1>4. ASSUME NEW p \in Publications, NEW n \in Topics, PublishTopic(p, n) PROVE TopicInv'
  <2>1. \A q \in Publications : about'[q] = IF q = p THEN n ELSE about[q]
    BY <1>4 DEF PublishTopic, TopicInv
  <2>2. \A u \in Reached(topicId[n]) : follows[u] = n
    <3>1. ASSUME NEW u \in TopicUsers, filterId[u] = topicId[n] PROVE follows[u] = n
      <4>1. topicId[n] # 0
        BY <1>4 DEF PublishTopic
      <4>2. follows[u] \in Topics /\ topicId[follows[u]] = topicId[n]
        BY <3>1, <4>1 DEF TopicInv, FollowsInv
      <4>3. QED BY <4>1, <4>2 DEF TopicInv, TopicsStayApart
    <3>2. QED BY <3>1 DEF Reached
  <2>3. ASSUME NEW pair \in got'
        PROVE  /\ pair \in TopicUsers \X Publications /\ about'[pair[2]] # "none"
               /\ follows[pair[1]] = about'[pair[2]]
    <3>1. CASE pair \in got
      <4>1. pair[2] # p /\ pair[2] \in Publications
        BY <1>4, <3>1 DEF PublishTopic, TopicInv
      <4>2. QED BY <2>1, <3>1, <4>1 DEF TopicInv, TopicsStayApart
    <3>2. CASE pair \notin got
      <4>1. PICK u \in Reached(topicId[n]) : pair = <<u, p>>
        BY <1>4, <2>3, <3>2 DEF PublishTopic
      <4>2. QED BY <2>1, <2>2, <4>1, TopicAssumption DEF Reached
    <3>3. QED BY <3>1, <3>2
  <2>4. TopicsStayApart'
    BY <1>4, <2>3 DEF PublishTopic, TopicInv, TopicsStayApart
  <2>5. FollowsInv'
    BY <1>4 DEF PublishTopic, TopicInv, FollowsInv
  <2>6. QED BY <1>4, <2>3, <2>4, <2>5 DEF PublishTopic, TopicInv
<1>5. CASE ShutTopics
  BY <1>5 DEF ShutTopics, TopicInv, FollowsInv, TopicsStayApart
<1>6. QED BY <1>1, <1>2, <1>3, <1>4, <1>5 DEF TopicNext

(* DefaultTopicBus: two names never share an id, and what is published for *)
(* a name reaches nobody who follows another.                              *)
THEOREM TopicsKeepApart == ASSUME SaltLeadsOn PROVE TopicSpec => []TopicsStayApart
<1>1. TopicInv => TopicsStayApart
  BY DEF TopicInv
<1>2. QED BY <1>1, TopicStarts, TopicSteps, PTL DEF TopicSpec

-----------------------------------------------------------------------------
(* All of them together                                                    *)

(* Every step of the composition is one of each component or leaves it     *)
(* alone.                                                                  *)
LEMMA FacadeStep ==
    [Next]_facadeVars =>
        /\ [RequestNext \/ RespondNext]_requestVars /\ [ActorNext]_actorVars
        /\ [StreamNext]_streamVars /\ [PipelineNext]_pipelineVars
        /\ [TargetNext]_targetVars /\ [TopicNext]_topicVars
BY DEF Next, facadeVars

LEMMA FacadesRun ==
    Spec => RequestSpec /\ ActorSpec /\ StreamSpec /\ PipelineSpec /\ TargetSpec /\ TopicSpec
<1>1. Init => /\ RequestInit /\ ActorInit /\ StreamInit /\ PipelineInit /\ TargetInit
              /\ TopicInit
  BY DEF Init
<1>2. QED BY <1>1, FacadeStep, PTL DEF Spec, RequestSpec, ActorSpec, StreamSpec, PipelineSpec,
         TargetSpec, TopicSpec

(* What is put into a stream or a channel comes out once, in its order and *)
(* to whom it was meant (DefaultSubscription, Channel).                    *)
THEOREM StreamsAndChannelsStayExact == Spec => []StreamsAndChannelsAreExact
<1>1. StreamIsExact /\ ChannelsAreSound => StreamsAndChannelsAreExact
  BY DEF StreamsAndChannelsAreExact
<1>2. QED BY <1>1, FacadesRun, StreamsStayExact, ChannelsStaySound, PTL

(* What an id was issued for is what it finds: a bus target and its slot,  *)
(* a topic and its name (AbstractMessageTarget, TopicRegistry).            *)
THEOREM IdsStayExact == ASSUME FewTargets, SaltLeadsOn PROVE Spec => []IdsAreExact
<1>1. IdFindsItsTarget /\ TopicsStayApart => IdsAreExact
  BY DEF IdsAreExact
<1>2. TargetSpec => []IdFindsItsTarget
  BY IdsFindTheirTargets
<1>3. TopicSpec => []TopicsStayApart
  BY TopicsKeepApart
<1>4. QED BY <1>1, <1>2, <1>3, FacadesRun, PTL
=============================================================================
