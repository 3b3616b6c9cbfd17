SPECIFICATION FiresSpec
CONSTANTS
    Stations = {s1, s2}
    Fires = {f1, f2}
    Names = {n1, n2}
    Places = {p1, p2, p3}
    Zones <- MCZones
    NoFire = NoFire
    Unknown = Unknown
    p1 = p1
    p2 = p2
INVARIANTS FiresInv
PROPERTY StationsStayFollowed
