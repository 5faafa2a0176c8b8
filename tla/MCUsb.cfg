\* Two application threads, send() against stop(), and an event loop that fails twice.
CONSTANTS
    u1 = u1
    u2 = u2
    w = w
    i1 = i1
    i2 = i2
    None = None
    Users = {u1, u2}
    Worker = w
    Ifaces = {i1, i2}
    Overlap = TRUE
    MaxErrors = 2
SPECIFICATION FairSpec
INVARIANTS
    Safety
    InterfacesReturned
PROPERTIES
    ContractHeld
    QuietStopReturns
