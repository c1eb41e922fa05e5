\* All four replacement policies, more lines than ways.
SPECIFICATION Spec
CONSTANTS
    Line = {1, 2, 3, 4}
    Assoc = 3
    ReplPolicies = {"LRU", "RND", "SRRIP", "LRU_WBT"}
    LruWbTth = 1
    EpochLen = 2
    MaxAccesses = 6
PROPERTIES
    VictimFollowsPolicy
    KeepsLines
