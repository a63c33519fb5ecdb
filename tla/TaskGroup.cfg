SPECIFICATION Spec
CONSTANTS
    a1 = a1
    a2 = a2
    p1 = p1
    p2 = p2
    p3 = p3
    r1 = r1
    i1 = i1
    i2 = i2
    Agents = {a1, a2}
    Flag <- MCFlag
    Ident <- MCIdent
    Posts = {p1, p2, p3}
    Task <- MCTask
    Life = 3
    Interval = 3
    NoFlag = NoFlag
    NoTask = NoTask
INVARIANTS
    AtMostOnce
    MissedForAReason
