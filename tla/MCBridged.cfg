SPECIFICATION Spec
CONSTANTS
    Domains <- AllDomains
    Bridges <- Names
    Host = 0
    UpRouter = 1
    DownRouter = 2
INVARIANTS LoopsAreDetected DesignatedIsLowest EdgeDevicesFound TransitHasRouters
