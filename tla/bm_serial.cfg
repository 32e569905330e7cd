SPECIFICATION MCSpec
CONSTANTS
    Users = {u1, u2, u3}
    Creator = u1
    Grants <- SomeGrants
    MinimumRole = "none"
    Open = TRUE
    Requests = {r1}
    MaxRequests = 4
    MaxCrashes = 1
    Tokens = {t1, t2}
    NoToken = NoToken
    Waiting = Waiting
    People = {Me, Ann, Bob}
    Me = Me
    Ann = Ann
    Bob = Bob
    Guests = {Bob}
    None = None
    MaxClicks = 2
    MaxOthers = 1
INVARIANTS AdminRemains HistoryAgrees CallsAreAnswered ShareAgrees
