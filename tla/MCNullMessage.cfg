SPECIFICATION Spec
CONSTANTS
    SystemCount = 3
    Links <- Parallel
    Sources = {0}
    StartTimes = {1}
    StopTime = 6
    MaxTime = 100
    LocalDelays = {0, 1}
    MaxLocal = 1
    MaxPackets = 2
INVARIANTS GuaranteeHonoured NeverBehind
PROPERTY AllRanksStop
CHECK_DEADLOCK FALSE
