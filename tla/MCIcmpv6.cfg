SPECIFICATION Icmpv6Spec
CONSTANTS
    Macs = {11, 12}
    UnresQlen = 2
    MaxMulticastSolicit = 2
    MaxUnicastSolicit = 2
    NaFlags = {{}, {"S"}, {"O"}, {"S", "O"}}
    MaxPackets = 4
    Hosts = {a, b}
    DadTimeout = 3
    MaxDelay = 1
    MaxAdds = 2
INVARIANTS FrontExists WaitingHaveNotLeft Unique
PROPERTIES SolicitedBeforeGivenUp ResolutionEnds DadEnds
CHECK_DEADLOCK FALSE
