SPECIFICATION FairSpec
CONSTANTS
    NoUser = NoUser
    Users = {u1, u2}
    Ids = {1}
    Replicas = {r1}
    Batch = 1
    MaxTips = 1
PROPERTIES
    DueRequestExecuted
CHECK_DEADLOCK FALSE
