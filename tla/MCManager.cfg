SPECIFICATION Spec
CONSTANTS
    Networks <- LanAndLink
    Changeable <- DesignatedAndLink
    Respond = {0, 1, 3}
    Metrics = {1, 2}
    Injectable = {2048}
    NewAddresses = {30, 46}
    MaxCalls = 4
INVARIANT TablesAreCurrent
CHECK_DEADLOCK FALSE
