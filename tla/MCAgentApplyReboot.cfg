\* A reboot after a successful apply, with apply_on_boot.
SPECIFICATION Spec
CONSTANTS
    Poll = Poll
    c1 = c1  c2 = c2
    Conns = {c1}
    MaxVersion = 1
    FormOf <- MCPlain
    Blocking = {}
    BootSettings = {TRUE}
    MaxEvents = 0
    FaultKinds = {"reboot"}
    MaxFaults = 1
INVARIANTS
    BootApplies
