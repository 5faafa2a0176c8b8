\* As in the code, one record more than there are sequence numbers, and
\* enough commands to use a number twice.
CONSTANTS
    w1 = w1
    None = None
    Writers = {w1}
    MaxSeq = 2
    Capacity = 3
    Depth = 1
    MaxBatch = 1
    MaxCalls = 2
    MaxCommands = 3
SPECIFICATION Spec
INVARIANT
    NoShiftedConfirmation
