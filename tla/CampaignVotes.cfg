\* Two sessions of a user, four rows, and a process that stops.
SPECIFICATION Spec
CONSTANTS
    u1 = u1
    author = author
    s1 = s1
    s2 = s2
    NoRequest = NoRequest
    Users = {u1, author}
    Author = author
    Sessions = {s1, s2}
    SessionUser <- MCSessionUser
    Rows = {1, 2, 3, 4}
    MaxStops = 1
SYMMETRY SessionSymmetry
INVARIANTS
    TypeOK
    UpvotesWithinLikes
    StandingVotesArePaid
PROPERTIES
    PointsForStandingVotes
