\* RollbackSound fails: a policy comes back without its service.
SPECIFICATION Spec
CONSTANTS
    PeerRows <- MCFewPeerRows
    FirstPeers <- MCFirstPeers
    Manual = {}
    Groups = {"g"}
    FirstGroups = {"g"}
    FirstMembers <- MCFirstMembers
    ServiceRows <- MCFewServiceRows
    FirstServices <- MCFewServices
    PolicyRows <- MCFewPolicies
    FirstPolicies <- MCFewPolicies
    MaxPolicies = 1
    MaxEdits = 3
    Rollbacks = TRUE
PROPERTIES
    RollbackSound
CHECK_DEADLOCK FALSE
