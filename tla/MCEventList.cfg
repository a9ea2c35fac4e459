SPECIFICATION Spec
CONSTANTS Delays = {0, 7} MaxUid = 7 MaxEvents = 6
PROPERTY ImplementsScheduler
CHECK_DEADLOCK FALSE
