\* One thread that takes jobs in order, nothing killed.
SPECIFICATION Spec
CONSTANTS
    w1 = w1
    t1 = t1
    t2 = t2
    Idle = Idle
    Webs = {w1}
    Threads = {t1}
    InOrder = TRUE
    MaxRows = 4
    MaxActs = 2
    MaxJobs = 3
    MaxFails = 0
PROPERTIES
    MembershipSettles
\* At the bounds, nothing may be left to do.
CHECK_DEADLOCK FALSE
