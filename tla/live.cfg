SPECIFICATION FairSpec
CONSTANTS
    c1 = c1
    c2 = c2
    u1 = u1
    u2 = u2
    Users = {u1, u2}
    InitialMembers = {u1}
    None = None
    Clients = {c1, c2}
    UserOf <- TwoTabs
    PoolSize = 1
    MaxRetries = 1
    Components = 2
    MaxChanges = 1
    MaxMembers = 1
    MaxMounts = 2
    MaxFaults = 1
INVARIANTS ListenersConsistent OnlyMembersHear
PROPERTIES ChangesReach SubscriptionsConverge
CHECK_DEADLOCK FALSE
