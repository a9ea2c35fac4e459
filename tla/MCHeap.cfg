SPECIFICATION Spec
CONSTANTS Delays = {0, 1} MaxUid = 7 MaxEvents = 6
INVARIANT RootIsEarliest
CHECK_DEADLOCK FALSE
