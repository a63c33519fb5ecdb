SPECIFICATION Spec
CONSTANTS
    Agents = {a1}
    Versions = {1, 2}
    ServerVersion = 1
    Orders <- MCOrders
    Handlers = {h1}
INVARIANTS
    ForcedOnce
    MarkedHasTried
PROPERTIES
    OnlyNewer
    ForcedSettles
    NormalSettles
