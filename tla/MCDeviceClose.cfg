SPECIFICATION Spec
CONSTANTS
    Threads = {t1}
    Objects = {d1}
    MaxHandle = 5
    FwHandles = {f1, f2}
    MaxPeriodics = 1
    MaxFlow = 1
    None = None
SYMMETRY Symmetry
INVARIANT CloseSilences
CHECK_DEADLOCK FALSE
