SPECIFICATION FairBusSpec
CONSTANTS
    m1 = m1
    m2 = m2
    m3 = m3
    s1 = s1
    s2 = s2
    k1 = k1
    k2 = k2
    d1 = d1
    Closer = closer
    Open = open
    Slots = {s1, s2}
    Standing = {s1}
    Posters = {m2, m3}
    Configs <- AllConfigs
    Message <- SomeMail
    Filter <- Filters
    SubscriberOf <- OwnSubscribers
INVARIANTS
    BusTypeOK
    CancelledStaysQuiet
    ReachesAllOnce
    ReadyIsServed
PROPERTIES
    BusCallsReturn
\* The bus may rest when nobody calls it.
CHECK_DEADLOCK FALSE
