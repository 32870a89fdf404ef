\* Tracks change, the connection breaks, the server asks, WebRTC rejects a call.
SPECIFICATION Spec
CONSTANTS
    None = None
    MaxChanges = 1
    MaxAsks = 3
    MaxBreaks = 1
    MaxFails = 1
INVARIANTS
    TypeOK
    CallsAreAccepted
    AnswersOwnOffer
    WaitsForAnswer
PROPERTIES
    EverythingIsNegotiated
    OfferedRestartEnds
\* A connection that is negotiated, or closed, has nothing left to do.
CHECK_DEADLOCK FALSE
