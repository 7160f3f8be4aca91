SPECIFICATION ExchangeSpec
CONSTANTS
    Calls = {c1}
    None = None
    Capabilities <- MCCapabilities
    Files <- MCFiles
    Reports <- MCOrdinaryReports
    Payloads <- MCOrdinaryPayloads
INVARIANT
    GenuineResultAccepted
