\* One process at a time, one approved policy, failures of every kind.
SPECIFICATION Spec
CONSTANTS
    p1 = p1  p2 = p2
    q1 = q1  q2 = q2
    h1 = h1
    Procs = {h1}
    Peers = {p1, p2}
    Policies = {q1, q2}
    Existing = {q1}
    Scopes <- MCScopes
    Hasty = FALSE
    MaxEdits = 2
    FaultKinds = {"snapshot", "mutate", "resolve", "queue", "insert", "compile", "clear", "cleanup", "crash"}
    MaxFaults = 1
SYMMETRY MCSymmetry
INVARIANTS
    OnlyQueuedLost
    Rollbackable
    RollbackRestores
CHECK_DEADLOCK FALSE
