\* The second bundle defines runic_private_ranges and no group set; nothing fails.
SPECIFICATION Spec
CONSTANTS
    Poll = Poll
    c1 = c1  c2 = c2
    Conns = {c1}
    MaxVersion = 2
    FormOf <- MCPrivate
    Blocking = {}
    BootSettings = {FALSE}
    MaxEvents = 0
    FaultKinds = {}
    MaxFaults = 0
INVARIANTS
    NotLockedOut
