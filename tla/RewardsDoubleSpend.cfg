\* One user with two sessions redeems in both.
SPECIFICATION Spec
CONSTANTS
    u1 = u1
    s1 = s1
    s2 = s2
    e1 = e1
    r1 = r1
    r2 = r2
    NoRequest = NoRequest
    Users = {u1}
    Sessions = {s1, s2}
    SessionUser <- MCTwoSessions
    Events = {e1}
    Redemptions = {r1, r2}
    Rows = {1, 2}
    Capacity = 1
    Worths = {1}
    Costs = {1}
    MaxWeekly = 1
PROPERTIES
    RedeemedWithinCredits
