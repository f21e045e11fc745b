\* Overlapping pulls with every kind of fault.
SPECIFICATION Spec
CONSTANTS
    Poll = Poll
    c1 = c1  c2 = c2
    Conns = {c1, c2}
    MaxVersion = 2
    FormOf <- MCGroups
    Blocking = {}
    BootSettings = {TRUE}
    MaxEvents = 1
    FaultKinds = {"fetch", "reject", "persist", "flush", "ipset", "restore", "smoke", "confirm", "cache", "save", "slow", "crash", "reboot"}
    MaxFaults = 1
SYMMETRY MCSymmetry
INVARIANTS
    OnlyTested
