SPECIFICATION Spec
CONSTANTS
    Callers = {c1, c2}
    Payloads = {p1}
    Idle = Idle
    Retry = 2
    Conns = {k1, k2}
    NoConn = NoConn
INVARIANTS
    NoLeak
PROPERTIES
    AtLeastOnce
    CallsReturn
    AloneRecovers
