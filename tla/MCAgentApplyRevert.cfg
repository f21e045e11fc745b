\* The second bundle cuts the agent off, so that its smoke test fails.
SPECIFICATION Spec
CONSTANTS
    Poll = Poll
    c1 = c1  c2 = c2
    Conns = {c1}
    MaxVersion = 2
    FormOf <- MCPlain
    Blocking = {2}
    BootSettings = {FALSE}
    MaxEvents = 0
    FaultKinds = {}
    MaxFaults = 0
INVARIANTS
    RevertRestores
