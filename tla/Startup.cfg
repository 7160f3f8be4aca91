SPECIFICATION FairSpec
CONSTANTS
    MaxVersion = 2
    MaxGeneration = 2
INVARIANTS
    ServingIsApplied
    MemberIsVm
PROPERTIES
    ServiceReturns
