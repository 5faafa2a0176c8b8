\* Two threads; a device, a channel and two further IDs.
SPECIFICATION Spec
CONSTANTS
    Threads = {t1, t2}
    Objects = {d1}
    MaxHandle = 4
    FwHandles = {f1, f2}
    MaxPeriodics = 1
    MaxFlow = 1
    None = None
SYMMETRY Symmetry
INVARIANTS
    TypeOK
    HostAgrees
    NoForgottenPeriodic
    DisconnectSilences
    NoStaleAction
    IdsExact
CHECK_DEADLOCK FALSE
