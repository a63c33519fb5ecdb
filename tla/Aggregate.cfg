CONSTANTS
    NoSection = NoSection
    Unset = Unset
    MaxInt = 7
    Sections <- MCSections
    Keys <- MCKeys
    HttpSeen <- MCHttpSeen
    IcmpSeen <- MCIcmpSeen
    MaxResults = 3

SPECIFICATION Spec
INVARIANTS
    FailuresCounted
    MeanOfSuccesses
    AnyOrder
    JudgedAsConfigured
