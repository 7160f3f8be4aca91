SPECIFICATION FairSpec
CONSTANTS
    Calls = {c1, c2}
    MaxAttempts = 3
    None = None
CHECK_DEADLOCK FALSE
INVARIANTS
    ClaimIsExclusive
    ToldIsSettled
    EndedStreamsReport
    ExpiredNeverCharged
PROPERTIES
    ImplementsSettlement
    CallsEnd
    ReservationSettles
