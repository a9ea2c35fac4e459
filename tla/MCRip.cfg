SPECIFICATION RipSpec
CONSTANTS
    Routers = {1, 2, 3}
    Networks <- AllNetworks
    LinkDown = 5
    TimeoutDelay = 2
    GarbageCollectionDelay = 1
INVARIANT NoMutualRoutes
PROPERTY Converges
