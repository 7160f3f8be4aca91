SPECIFICATION Spec
CONSTANTS
    Calls = {c1}
    MaxAttempts = 3
    None = None
CHECK_DEADLOCK FALSE
INVARIANTS
    DeadlineRefunds
