\* Batches of two and a queue that overflows; three handle names for two slots.
CONSTANTS
    None = None
    Batch = 2
    Queue = 2
    MaxIn = 3
    MaxOut = 2
    a = a
    b = b
    c = c
    Names = {a, b, c}
    Literals = {2}
    Slots = 2
    Lists <- SampleLists
    MaxHandle = 4
SPECIFICATION ToolsSpec
INVARIANTS
    FramesAccounted
    DryRunAgrees
    ConfigExact
PROPERTIES
    BridgeStops
