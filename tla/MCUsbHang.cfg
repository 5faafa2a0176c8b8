\* send() and stop() kept apart, as the Session does; one event loop failure.
CONSTANTS
    u1 = u1
    u2 = u2
    w = w
    i1 = i1
    i2 = i2
    None = None
    Users = {u1, u2}
    Worker = w
    Ifaces = {i1, i2}
    Overlap = FALSE
    MaxErrors = 1
SPECIFICATION FairSpec
PROPERTIES
    StopReturns
