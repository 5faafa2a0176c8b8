\* Two application threads, three commands, two sequence numbers (so that a
\* number is handed out again), one receiver replaced by another.
CONSTANTS
    t1 = t1
    t2 = t2
    r1 = r1
    r2 = r2
    n1 = n1
    None = None
    Threads = {t1, t2}
    Nodes = {n1}
    Receivers = {r1, r2}
    MaxSeq = 2
    MaxCmds = 3
SPECIFICATION Spec
SYMMETRY SafetySymmetry
INVARIANTS
    TypeOK
    OwnResponse
    FailedIsUnsent
    NeverExhausted
    NoOrphanReceiver
    NoUseAfterStop
