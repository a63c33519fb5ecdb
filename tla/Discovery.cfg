SPECIFICATION DiscoverySpec
CONSTANTS
    r1 = r1
    a1 = a1
    Regions = {r1}
    IPs = {a1}
    Versions = {v1}
    Absent = Absent
    Configs <- MCConfigs
    Bad = Bad
    NoFile = NoFile
    NoEntry = NoEntry
    ProbeSelf = TRUE
PROPERTIES
    PoolSafeSpec
    DeadNotProbed
    LiveProbed
