\* Three runs of the listener over two Servers and two addresses, scheduled at will.
SPECIFICATION FairSpec
CONSTANTS
    Addr = {a1, a2}
    Configured = a1
    MaxServers = 2
    MaxRuns = 3
    Prompt = FALSE
INVARIANT ServingIsTracked
INVARIANT ServerUsesInstalledCA
PROPERTY OperationsEnd
