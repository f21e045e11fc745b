SPECIFICATION Spec
CONSTANTS
    Agents = {a}
    Requests = {q1, q2}
    Imported = {m}
    Types = {"peer_offline", "peer_online", "bundle_deployed", "blocked_spike", "bundle_failed", "new_peer", "bundle_notified"}
    RuleSets <- MCAllRules
    Throttled = {"peer_offline", "peer_online", "blocked_spike", "bundle_failed", "new_peer"}
    Threshold <- MCThreshold
    LongOffline = {a}
    Levels = {0, 11}
    MaxFails = 1
    MaxOutages = 1
    OutageRules <- MCPeerRules
    MaxRows = 2
    MaxBusy = 2
    MaxFaults = 1
INVARIANTS
    DeployedOnce
PROPERTIES
    ThrottledUnlessRaced
    OneAlertPerTransition
    SilenceNoticed
CHECK_DEADLOCK FALSE
