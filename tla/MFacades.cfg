SPECIFICATION Spec
CONSTANTS
    Foci = {"request", "respond", "actor", "stream", "channel", "target", "topic"}
    bus1 = bus1
    r1 = r1
    r2 = r2
    a1 = a1
    c1 = c1
    c2 = c2
    ch1 = ch1
    out = out
    feed = feed
    send = send
    send2 = send2
    odd = odd
    longwait = longwait
    poll = poll
    Nothing = Nothing
    NoActor = NoActor
    NoSubscriber = NoSubscriber
    RequestBuses = {bus1}
    Carrier <- MCCarrier
    Requests = {r1, r2}
    Issuer <- MCIssuer
    d1 = d1
    d2 = d2
    Responders = {d1, d2}
    Topic <- MCTopic
    Replies = {p1, p2}
    Workers = 1
    Actors = {a1}
    Mail = {m1, m2}
    Addressee <- MCAddressee
    Stoppers = {s1, s2, s3}
    Handles = {s2, s3}
    Target <- MCTarget
    Subscribers = {u1}
    Publishers = {q1, q2}
    Closers = {c1, c2}
    Asks = {1, 2}
    AskLimit = 3
    Unbounded = 3
    Channels = {ch1, out}
    Bounded = {ch1}
    Capacity <- MCCapacity
    ChannelCalls = {send, send2, odd, longwait, poll, feed}
    Sends = {send, send2, odd, feed}
    Tries = {poll}
    Mistyped = {odd}
    On <- MCOn
    TimeoutMs <- MCTimeoutMs
    Width = 10
    NsPerMs = 10
    Horizon = 100
    Drain = out
    Feeders = {feed}
    MaxStages = 1
    Registrations = {1, 2, 3}
    GenerationWidth = 3
    Topics = {"a", "b", "c"}
    Hash <- MCHash
    SaltStep = 3
    IdWidth = 3
    TopicUsers = {11, 12}
    Publications = {21, 22}
INVARIANTS
    RequestsAreAnswered
    StoppedMeansDrained
    StreamsAndChannelsAreExact
    IdsAreExact
PROPERTY RequestsEnd
CHECK_DEADLOCK FALSE
