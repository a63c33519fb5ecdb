SPECIFICATION LifeSpec
CONSTANTS
    r1 = r1
    a1 = a1
    Regions = {r1}
    IPs = {a1}
    Configs <- MCConfigs
    Bad = Bad
    NoFile = NoFile
    NoEntry = NoEntry
    Requests = {q1, q2}
    NoRequest = NoRequest
INVARIANTS
    PoolAsConfigured
    DynamicIsVisited
PROPERTIES
    EmptyRegionDropped
    SettledRegionListed
    ReloadAnswered
    ShutdownEnds
