SPECIFICATION Spec
CONSTANTS
    Addresses = {1, 2}
    Assignable = {1}
    Macs = {11, 12}
    MaxRetries = 1
    PendingQueueSize = 2
    MaxPackets = 3
INVARIANTS InOrder AutoGeneratedIsCurrent
PROPERTIES RetriedBeforeDead ResolutionEnds
