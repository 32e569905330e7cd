SPECIFICATION Spec
CONSTANTS
    Users = {u1, u2}
    Creator = u1
    Grants <- SomeGrants
    MinimumRole = "none"
    Open = TRUE
    Requests = {r1, r2}
    MaxRequests = 3
    MaxCrashes = 0
INVARIANT AdminRemains
CHECK_DEADLOCK FALSE
