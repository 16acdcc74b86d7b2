CONSTANTS
    w1 = w1  w2 = w2  w3 = w3
    s1 = s1  s2 = s2  s3 = s3  s4 = s4  s5 = s5
    Workers = {w1, w2}
    NoPid = NoPid
    NumSlots = 3
    Socks = {s1, s2, s3, s4}
    NoSock = NoSock
    Names = {"a"}
    NoName = "none"
    Asked = {"a"}
    Timeouts = {0}
    DefaultTimeout = 0
    HardTimeout = 0
    MaxTime = 1
    InUseMod = 8
    Faults = {"exit", "busy", "launch", "crash", "kill", "garbage"}
    MaxFaults = 1
SPECIFICATION Spec
SYMMETRY Symmetry2
INVARIANTS DuplicatesBounded OneSlotPerCreator
