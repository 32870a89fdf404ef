\* One user, an administrator, the clock and two Sidekiq threads.
SPECIFICATION Spec
CONSTANTS
    u1 = u1
    u2 = u2
    w1 = w1
    clock = clock
    t1 = t1
    t2 = t2
    x = x
    y = y
    Users = {u1}
    Values = {x, y}
    RuleSets <- MCRuleSets
    Filters <- MCFilters
    Profiles <- MCProfiles
    Webs = {w1}
    Clock = clock
    Threads = {t1, t2}
    MaxJobs = 1
    MaxFails = 1
    Idle = Idle
INVARIANTS
    TypeOK
    RowsWithinThreads
    ActiveIsBeingCached
PROPERTIES
    WaitingEnds
    IsSegmentMembers
