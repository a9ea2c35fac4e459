SPECIFICATION Spec
CONSTANTS Delays = {0, 1} MaxSchedules = 2 MaxPosts = 2 UidModulus = 4096
INVARIANTS ExpiredMeansRunOrCancelled NoEventInThePast NoEventLost
PROPERTY PostsAreRun
CHECK_DEADLOCK FALSE
