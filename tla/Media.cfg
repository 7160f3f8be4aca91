SPECIFICATION ExchangeFairSpec
CONSTANTS
    Calls = {c1, c2}
    None = None
    Capabilities <- MCCapabilities
    Files <- MCFiles
    Reports <- MCReports
    Payloads <- MCPayloads
INVARIANTS
    DataTypeOK
    OneThread
    NoSubstitution
    BrokenNeedsEscapes
    OrdinaryResultAccepted
PROPERTIES
    ImplementsSettlement
    LockReleased
