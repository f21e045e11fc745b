\* Three edits of a few rows: changes approved alone, deletions, rollbacks.
SPECIFICATION Spec
CONSTANTS
    PeerRows <- MCFewPeerRows
    FirstPeers <- MCFirstPeers
    Manual = {}
    Groups = {"g"}
    FirstGroups = {"g"}
    FirstMembers <- MCFirstMembers
    ServiceRows <- MCFewServiceRows
    FirstServices <- MCFewServices
    PolicyRows <- MCFewPolicies
    FirstPolicies <- MCFewPolicies
    MaxPolicies = 1
    MaxEdits = 3
    Rollbacks = TRUE
INVARIANTS
    Usable
CHECK_DEADLOCK FALSE
