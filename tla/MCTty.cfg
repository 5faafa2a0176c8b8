\* Two application threads, two writes of two bytes; signals interrupt any number of system calls.
CONSTANTS
    u1 = u1
    u2 = u2
    None = None
    Users = {u1, u2}
    Size = 2
    MaxCalls = 2
SPECIFICATION FairSpec
INVARIANTS
    Safety
    WritesExact
    PortReturned
PROPERTIES
    ContractHeld
    CallsReturn
