SPECIFICATION Spec
CONSTANTS
    legacy = legacy
    new = new
    right = right
    wrong = wrong
    Digests <- MCDigests
    Legacy = legacy
    Commits = {right, wrong}
    SourceOf <- MCSourceOf
    PullRequests = {p1, p2}
    MaxPolicies = 3
SYMMETRY MCSymmetry
INVARIANTS
    HistoryIsAuditable
    WebTrustsAttested
    RunningWasAttested
CHECK_DEADLOCK FALSE
