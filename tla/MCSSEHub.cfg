\* One agent that connects twice while notifications are under way.
SPECIFICATION FairSpec
CONSTANTS
    h1 = h1
    c1 = c1  c2 = c2
    s1 = s1  s2 = s2  s3 = s3
    NoConn = NoConn
    Hosts = {h1}
    Conns = {c1, c2}
    HostOf <- MCHostOf
    Senders = {s1, s2, s3}
    Timed = {s1, s2}
    SendsTo <- MCSendsTo
    ChanCap = 1
INVARIANTS
    NoTimedSendOnClosed
    RegisteredServed
PROPERTIES
    ClosersFinish
    ReplacedShutsDown
