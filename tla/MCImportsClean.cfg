SPECIFICATION Spec
CONSTANTS
    Self = "a"
    OwnIPs = {"10.0.0.1", "10.0.1.1"}
    FirstDB <- MCDB
    Manual = {"c"}
    Backups <- NegatedBackups
    Submitters = {"h1", "h2"}
    Appliers = {"u"}
    MaxSessions = 1
    MaxAsked = 1
    MaxUpdates = 1
    MaxEdits = 0
    Moved = {"b"}
    MaxFaults = 0
    Faults = {}
INVARIANTS
    CleanKeepsMeaning
CHECK_DEADLOCK FALSE
