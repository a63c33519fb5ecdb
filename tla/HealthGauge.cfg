SPECIFICATION GaugeSpec
CONSTANTS
    Regions = {r1}
    IPs = {a1, a2}
    Versions = {v1}
    Absent = Absent
    Dot = Dot
    Free = Free
INVARIANTS
    NoGhost
PROPERTIES
    DeadForgotten
    LiveStaysDiscovered
    Spec
    LiveShownUp
