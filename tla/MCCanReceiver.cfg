\* A queue of two items, reads of one or two, three items: a full queue, a
\* loss, a report and an item beyond the gap all happen.
CONSTANTS
    r1 = r1
    r2 = r2
    Readers = {r1, r2}
    Protocol = "ISO15765"
    Capacity = 2
    MaxCount = 2
    MaxItems = 3
SPECIFICATION FairSpec
INVARIANTS
    Safety
    LossFlagsExact
PROPERTIES
    NoSilentGap
    StopWakesReaders
