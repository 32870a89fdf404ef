\* Two participants, two rooms, a tab killed or a request lost, a manager who ends the meeting.
SPECIFICATION Spec
CONSTANTS
    t1 = t1
    t2 = t2
    None = None
    Tabs = {t1, t2}
    Managers = {t1, t2}
    MaxRooms = 2
    MaxFails = 1
    MaxEnds = 1
INVARIANTS
    TypeOK
    LastOneReports
    BilledOnce
PROPERTIES
    WhoStaysSeesAll
\* When everybody has left, nothing is left to do.
CHECK_DEADLOCK FALSE
