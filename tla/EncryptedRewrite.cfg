SPECIFICATION RewriteSpec
CONSTANTS
    MaxTries = 2
    MaxChunks = 2
    None = None
    MaxEvents = 5
    MaxReads = 5
    Readers = {r1}
    Changed = Changed
    NoLine = NoLine
INVARIANTS
    OutputIsWhole
    UsageKept
    PrefixInPlace
    CompleteIsWhole
PROPERTIES
    ImplementsContract
    OperationEnds
CHECK_DEADLOCK FALSE
