CONSTANTS
    c1 = c1  c2 = c2  c3 = c3
    Clients = {c1, c2}
    Operators = {}
    Mortal = {}
    Signalled = {}
    MaxInterrupts = 0
    NoClient = NoClient
    Timeouts = {1}
    FirstTimer = 1
    HardTimeout = 2
    MaxQuery = 1
    Killable = TRUE
SPECIFICATION Spec
INVARIANTS SuccessIsComplete
CHECK_DEADLOCK FALSE
