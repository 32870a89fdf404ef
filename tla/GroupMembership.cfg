\* Two threads, jobs in any order, one process killed.
SPECIFICATION Spec
CONSTANTS
    w1 = w1
    t1 = t1
    t2 = t2
    Idle = Idle
    Webs = {w1}
    Threads = {t1, t2}
    InOrder = FALSE
    MaxRows = 4
    MaxActs = 2
    MaxJobs = 3
    MaxFails = 1
INVARIANTS
    TypeOK
    RowsWithinProcs
    DisagreementIsTold
    JobsDoNotMultiply
    LeaderIsMember
PROPERTIES
    AgreeingJobsEnd
\* At the bounds, nothing may be left to do.
CHECK_DEADLOCK FALSE
