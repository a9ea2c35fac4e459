SPECIFICATION Spec
CONSTANTS
    SystemCount = 4
    Links <- Line
    Sources = {0, 3}
    StopTime = 3
    MaxPackets = 2
    MaxTime = 100
INVARIANTS NothingInThePast HaltsWhenDone
PROPERTY AllRanksFinish
CHECK_DEADLOCK FALSE
