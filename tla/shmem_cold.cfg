CONSTANTS
    Procs = {1, 2, 3, 4}
    Starters = {1, 2}
    Master = 4
    Cold = TRUE
    Mortal = {3}
    Signalled = {3}
    MaxInterrupts = 1
    MaxIds = 5
SPECIFICATION FairSpec
INVARIANTS LockNotLost
PROPERTIES EverySectionEntered
CHECK_DEADLOCK FALSE
