CONSTANTS
    c1 = c1  c2 = c2  c3 = c3
    Clients = {c1, c2, c3}
    Operators = {c3}
    Mortal = {c1}
    Signalled = {c1}
    MaxInterrupts = 1
    NoClient = NoClient
    Timeouts = {0, 1}
    FirstTimer = 1
    HardTimeout = 2
    MaxQuery = 1
    Killable = TRUE
SPECIFICATION FairSpec
INVARIANTS OwnAnswer CompleteWhileAlive NeverBothWaiting
PROPERTIES AlarmSparesQuery EveryClientAnswered UnusedConnectorLeaves
CHECK_DEADLOCK FALSE
