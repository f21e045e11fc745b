SPECIFICATION Spec
CONSTANTS
    Self = "a"
    OwnIPs = {"10.0.0.1", "10.0.1.1"}
    FirstDB <- MCDB
    Manual = {"c"}
    Backups <- MCBackups
    Submitters = {"h1"}
    Appliers = {"u"}
    MaxSessions = 1
    MaxAsked = 1
    MaxUpdates = 2
    MaxEdits = 0
    Moved = {"b"}
    MaxFaults = 1
    Faults = {"resolve"}
INVARIANTS
    FailClosed
CHECK_DEADLOCK FALSE
