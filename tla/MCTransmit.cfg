\* Three sequence numbers for four commands, so that numbers come round, in use
\* or not; an adapter buffer of one message against two records, so that the
\* list overflows.
CONSTANTS
    w1 = w1
    w2 = w2
    None = None
    Writers = {w1, w2}
    MaxSeq = 3
    Capacity = 2
    Depth = 1
    MaxBatch = 2
    MaxCalls = 2
    MaxCommands = 4
SPECIFICATION FairSpec
INVARIANTS
    Safety
    CountsAreReal
    ShiftNeedsReuse
PROPERTIES
    WritersYield
