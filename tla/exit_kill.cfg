CONSTANTS
    NSlots = 2
    Tools = {t1, t2}
    NoTool = none
SPECIFICATION Spec
PROPERTIES SlowOnesKilled
CHECK_DEADLOCK FALSE
