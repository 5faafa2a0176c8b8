\* Frame decoder: two byte values, so that headers turn up in bodies and in
\* noise, and room for noise and two frames.
\* Reassembler: three ECUs against two conversations, so that the oldest is discarded;
\* messages of one frame and of three, whose sequence number wraps.
CONSTANTS
    e1 = e1
    e2 = e2
    e3 = e3
    Ecus = {e1, e2, e3}
    FirstBytes = 1
    NextBytes = 2
    SeqWrap = 2
    MaxMessage = 4
    MaxConversations = 2
    Lengths = {1, 4}
    MaxMessages = 4
    MaxFaults = 2
    Bits = 1
    Key = 2
    MaxBody = 2
    MaxBytes = 12
SPECIFICATION DecodersSpec
SYMMETRY EcuSymmetry
INVARIANTS
    TypeOK
    NoSplice
    NoNeedlessLoss
    FramesRecovered
CHECK_DEADLOCK FALSE
