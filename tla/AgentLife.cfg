SPECIFICATION LifeSpec
CONSTANTS
    Targets = {t1}
    Rounds = 3
    Cap = 1
    MaxPoints = 2
    Idle = Idle
INVARIANTS
    Kept
    AckedIsOver
    StartedInOrder
PROPERTIES
    ProbesEnd
    Delivered
    StopEnds
CHECK_DEADLOCK FALSE
