\* The temporal properties, without symmetry and without receivers.
CONSTANTS
    t1 = t1
    t2 = t2
    n1 = n1
    None = None
    Threads = {t1, t2}
    Nodes = {n1}
    Receivers = {}
    MaxSeq = 2
    MaxCmds = 3
SPECIFICATION FairSpec
PROPERTIES
    ImplementsContract
    PoisonedEmitsNothing
    CallsReturn
