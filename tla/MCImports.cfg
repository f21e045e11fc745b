SPECIFICATION Spec
CONSTANTS
    Self = "a"
    OwnIPs = {"10.0.0.1", "10.0.1.1"}
    FirstDB <- MCDB
    Manual = {"c"}
    Backups <- MCBackups
    Submitters = {"h1", "h2"}
    Appliers = {u, v}
    MaxSessions = 1
    MaxAsked = 1
    MaxUpdates = 2
    MaxEdits = 1
    Moved = {"b"}
    MaxFaults = 1
    Faults = {"resolve", "queue"}
SYMMETRY MCSymmetry
INVARIANTS
    RowsMatchBackup
    KeepsMeaning
    AffectedSignalled
CHECK_DEADLOCK FALSE
