CONSTANTS
    Procs = {1, 2, 3, 4}
    Starters = {}
    Master = 4
    Cold = FALSE
    Mortal = {1, 2, 3}
    Signalled = {1, 2}
    MaxInterrupts = 2
    MaxIds = 1
    NSlots = 2
    Tools = {t1, t2}
    NoTool = none
SPECIFICATION MCSpec
INVARIANTS AskedFirst MutualExclusion OneUnit
PROPERTIES ImplementsMutex NobodyWaits
CHECK_DEADLOCK FALSE
