\* Any two edits, approvals and rollbacks.
SPECIFICATION Spec
CONSTANTS
    PeerRows <- MCPeerRows
    FirstPeers <- MCFirstPeers
    Manual = {"c"}
    Groups = {"g", "h"}
    FirstGroups = {"g"}
    FirstMembers <- MCFirstMembers
    ServiceRows <- MCServiceRows
    FirstServices <- MCFirstServices
    PolicyRows <- MCPolicyRows
    FirstPolicies <- MCFirstPolicies
    MaxPolicies = 2
    MaxEdits = 2
    Rollbacks = TRUE
INVARIANTS
    Usable
    StaleIsPending
    EndToEnd
    OnlyRelated
    PreviewShowsAll
CHECK_DEADLOCK FALSE
