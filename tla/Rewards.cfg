\* One user with one session, an administrator and the jobs.
SPECIFICATION Spec
CONSTANTS
    u1 = u1
    s1 = s1
    s2 = s2
    e1 = e1
    r1 = r1
    r2 = r2
    NoRequest = NoRequest
    Users = {u1}
    Sessions = {s1}
    SessionUser <- MCOneSession
    Events = {e1}
    Redemptions = {r1, r2}
    Rows = {1, 2}
    Capacity = 1
    Worths = {1, 2}
    Costs = {2}
    MaxWeekly = 1
INVARIANTS
    TypeOK
    PointsAreTheLedger
    EarnedIfAttending
    MemberWithinUser
PROPERTIES
    OnlyRemovalOverdraws
    DecisionIsMailed
