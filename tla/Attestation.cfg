SPECIFICATION Spec
CONSTANTS
    r1 = r1
    r2 = r2
    Requests <- MCRequests
    Expiry <- MCExpiry
    Challenges = {h1, h2}
    Keys = {k1, k2}
    Calls = {c1, c2, c3, c4}
    MaxEntries = 1
    MaxDecrypts = 2
    MaxTime = 1
    None = None
SYMMETRY MCSymmetry
CHECK_DEADLOCK FALSE
INVARIANTS
    OneSlotPerRequest
    SlotsBackedByMints
    AnswersVerify
    DecryptsBounded
    OneStreamPerRequest
PROPERTIES
    BusyIsHonest
    NoUsePastExpiry
    ImplementsKeyTable
