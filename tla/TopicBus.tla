------------------------------ MODULE TopicBus ------------------------------
(***************************************************************************)
(* vigine::topicbus::DefaultTopicBus: names become ids by a hash that is   *)
(* salted until it meets a free id, and an id travels in the place of the  *)
(* payload type, on which the subscriptions of the message bus filter.     *)
(* The message bus itself is AbstractMessageBus; here a publication meets  *)
(* the subscriptions there are when it is dispatched.                      *)
(***************************************************************************)
EXTENDS Integers, Sequences, FiniteSets

CONSTANTS
    Topics,          \* the names
    Hash,            \* [Topics -> Nat], before it is salted
    SaltStep,        \* what a unit of salt adds to it
    IdWidth,         \* the bits of an id: 32
    TopicUsers,      \* the calls of subscribe()
    Publications     \* the calls of publish()

ASSUME TopicAssumption ==
    /\ IsFiniteSet(Topics) /\ "none" \notin Topics
    /\ IdWidth \in Nat \ {0} /\ SaltStep \in Nat
    /\ Hash \in [Topics -> Nat]

VARIABLES
    topicId,       \* nameToId, 0 for the names that are not there
    busShut,       \* the shut-down flag
    follows,       \* the name each user has subscribed to, or "none"
    filterId,      \* the type id its subscription filters on
    about,         \* the name each publication was made for, or "none"
    carried,       \* the id it carries
    got            \* history: the (user, publication) pairs delivered

topicVars == <<topicId, busShut, follows, filterId, about, carried, got>>

TopicInit ==
    /\ topicId = [n \in Topics |-> 0]
    /\ busShut = FALSE
    /\ follows = [u \in TopicUsers |-> "none"]
    /\ filterId = [u \in TopicUsers |-> 0]
    /\ about = [p \in Publications |-> "none"]
    /\ carried = [p \in Publications |-> 0]
    /\ got = {}

(* hashToId(): zero, which is no id, becomes one.  (The code combines hash *)
(* and salt by exclusive or; a sum modulo the width serves as well.)       *)
HashToId(n, salt) ==
    LET v == (Hash[n] + salt * SaltStep) % 2 ^ IdWidth IN IF v = 0 THEN 1 ELSE v

TakenIds == {topicId[n] : n \in Topics} \ {0}

(* Mutant: the first probe is taken.                                       *)
FirstHash(n) == HashToId(n, 0)

(* The first salt whose id is free.                                        *)
Probe(n) ==
    LET free == {salt \in 0 .. Cardinality(Topics) : HashToId(n, salt) \notin TakenIds}
    IN  HashToId(n, CHOOSE salt \in free : \A other \in free : salt <= other)

CreateTopic(n) ==
    /\ topicId[n] = 0
    /\ topicId' = [topicId EXCEPT ![n] = Probe(n)]
    /\ UNCHANGED <<busShut, follows, filterId, about, carried, got>>

(* Only the id is looked at: a bus that was shut down takes subscribers.   *)
FollowTopic(u, n) ==
    /\ follows[u] = "none"
    /\ topicId[n] # 0
    /\ follows' = [follows EXCEPT ![u] = n]
    /\ filterId' = [filterId EXCEPT ![u] = topicId[n]]
    /\ UNCHANGED <<topicId, busShut, about, carried, got>>

(* The message carries the topic's id where a payload's type is expected,  *)
(* goes to everybody, and a subscription filters by that field alone.      *)
Reached(id) == {u \in TopicUsers : filterId[u] = id}

PublishTopic(p, n) ==
    /\ about[p] = "none"
    /\ topicId[n] # 0
    /\ ~busShut
    /\ about' = [about EXCEPT ![p] = n]
    /\ carried' = [carried EXCEPT ![p] = topicId[n]]
    /\ got' = got \cup {<<u, p>> : u \in Reached(topicId[n])}
    /\ UNCHANGED <<topicId, busShut, follows, filterId>>

(* The tokens it releases are none: nothing is ever put there.             *)
ShutTopics ==
    /\ ~busShut
    /\ busShut' = TRUE
    /\ UNCHANGED <<topicId, follows, filterId, about, carried, got>>

TopicNext ==
    \/ \E n \in Topics : \/ CreateTopic(n)
                         \/ \E u \in TopicUsers : FollowTopic(u, n)
                         \/ \E p \in Publications : PublishTopic(p, n)
    \/ ShutTopics

-----------------------------------------------------------------------------
(* "Post a payload to every subscriber on a topic" and to nobody else,     *)
(* however the hashes of the names collide: with each other, with an id    *)
(* that salting gave to an earlier name, or with zero.                     *)
TopicsStayApart ==
    /\ \A m, n \in Topics : m # n /\ topicId[m] # 0 => topicId[m] # topicId[n]
    /\ \A pair \in got : follows[pair[1]] = about[pair[2]]
=============================================================================
