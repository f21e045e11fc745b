\* Further invariants. One puller, without apply_on_boot; every step whose failure the
\* code undoes may fail.
SPECIFICATION Spec
CONSTANTS
    Poll = Poll
    c1 = c1  c2 = c2
    Conns = {c1}
    MaxVersion = 3
    FormOf <- MCGroups
    Blocking = {}
    BootSettings = {FALSE}
    MaxEvents = 0
    FaultKinds = {"fetch", "reject", "flush", "ipset", "confirm", "cache", "save", "crash"}
    MaxFaults = 2
INVARIANTS
    TypeOK
    RolledBack
    BackupOnDisk
