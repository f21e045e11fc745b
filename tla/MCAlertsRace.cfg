SPECIFICATION Spec
CONSTANTS
    Agents = {a}
    Requests = {q1, q2}
    Imported = {m}
    Types = {"peer_offline", "peer_online", "bundle_deployed", "blocked_spike", "bundle_failed", "new_peer", "bundle_notified"}
    RuleSets <- MCDirectRules
    Throttled = {"peer_offline", "peer_online", "blocked_spike", "bundle_failed", "new_peer"}
    Threshold <- MCThreshold
    LongOffline = {a}
    Levels = {0, 11}
    MaxFails = 1
    MaxOutages = 0
    OutageRules <- MCPeerRules
    MaxRows = 2
    MaxBusy = 3
    MaxFaults = 0
INVARIANTS
    NoDuplicateHistory
CHECK_DEADLOCK FALSE
