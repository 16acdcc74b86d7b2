CONSTANTS
    w1 = w1  w2 = w2  w3 = w3
    s1 = s1  s2 = s2  s3 = s3  s4 = s4  s5 = s5
    Workers = {w1, w2}
    NoPid = NoPid
    NumSlots = 2
    Socks = {s1, s2, s3, s4}
    NoSock = NoSock
    Names = {"a", "b"}
    NoName = "none"
    Asked = {"a", "b", "none"}
    Timeouts = {0}
    DefaultTimeout = 1
    HardTimeout = 9
    MaxTime = 2
    InUseMod = 8
    Faults = {"crash"}
    MaxFaults = 1
SPECIFICATION Spec
SYMMETRY Symmetry2
INVARIANTS TypeOK InUseExact SlotKept HandlesPrivate HandlesClosed SameLogin
