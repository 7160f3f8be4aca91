SPECIFICATION FairSpec
CONSTANTS
    r1 = r1
    r2 = r2
    Requests <- MCRequests
    Expiry <- MCExpiry
    Challenges = {h1}
    Keys = {k1, k2}
    Calls = {c1, c2, c3}
    MaxEntries = 2
    MaxDecrypts = 1
    MaxTime = 1
    None = None
CHECK_DEADLOCK FALSE
PROPERTIES
    HandshakeEnds
    SlotsReleased
