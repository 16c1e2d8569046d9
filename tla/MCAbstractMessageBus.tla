------------------------ MODULE MCAbstractMessageBus ------------------------
(***************************************************************************)
(* Small buses: two or three messages, one of them scheduled for later,    *)
(* and two subscriptions, one of them picky.                               *)
(***************************************************************************)
EXTENDS AbstractMessageBus, TLC

CONSTANTS m1, m2, m3, s1, s2, k1, k2, d1

Mail == m1 :> [kind |-> k1, typeId |-> k2, route |-> "FanOut", target |-> k2, later |-> FALSE]
        @@ m2 :> [kind |-> k1, typeId |-> k2, route |-> "FirstMatch", target |-> k2, later |-> FALSE]
        @@ m3 :> [kind |-> k1, typeId |-> k1, route |-> "Broadcast", target |-> None, later |-> TRUE]
SomeMail == [m \in Posters |-> Mail[m]]

Filters == s1 :> [kind |-> k1, typeId |-> k2, route |-> Open, target |-> Open]
           @@ s2 :> [kind |-> k1, typeId |-> Open, route |-> Open, target |-> k2]

Queued(full)  == [threading |-> "Shared", bounded |-> TRUE, maxMessages |-> 1, backpressure |-> full]
Inline        == [Queued("Block") EXCEPT !.threading = "InlineOnly"]
Unbounded     == [Queued("Block") EXCEPT !.bounded = FALSE]
AllConfigs    == {Queued("Block"), Queued("DropOldest"), Queued("Error"), Unbounded, Inline}
PlainConfigs  == {Unbounded}

OwnSubscribers == [s \in Slots |-> s]
OneSubscriber  == [s \in Slots |-> d1]
=============================================================================
