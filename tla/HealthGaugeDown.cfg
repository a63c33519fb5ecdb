SPECIFICATION GaugeSpec
CONSTANTS
    Regions = {r1}
    IPs = {a1}
    Versions = {v1}
    Absent = Absent
    Dot = Dot
    Free = Free
PROPERTIES
    DownReset
