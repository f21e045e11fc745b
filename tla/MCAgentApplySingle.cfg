\* One puller, with and without apply_on_boot; the third bundle cuts the agent
\* off, so that its smoke test fails; the other steps may fail, but none takes 90 s.
SPECIFICATION FairSpec
CONSTANTS
    Poll = Poll
    c1 = c1  c2 = c2
    Conns = {c1}
    MaxVersion = 4
    FormOf <- MCLastGroups
    Blocking = {3}
    BootSettings = {TRUE, FALSE}
    MaxEvents = 0
    FaultKinds = {"fetch", "reject", "flush", "ipset", "restore", "confirm", "cache", "save", "crash"}
    MaxFaults = 2
INVARIANTS
    WatchdogCovers
    InForce
    LockoutExplained
    BlockingUnacknowledged
PROPERTIES
    Convergence
    Recovery
