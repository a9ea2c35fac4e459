SPECIFICATION Spec
CONSTANT Networks <- AllNetworks
INVARIANTS
    TypeOK QueueAgreesWithStatus TreeIsShortest AllEqualCostParents
    TreeIsLinked ExitsAreFirstHops StubsAreInstalled
    LinksAreTwoWay RoutesDeliver ExternalsFollowRouters
PROPERTIES TreeIsSettled InitializeRoutesReturns
