\* Prompt listeners: only the cleanup of an earlier run comes late.
SPECIFICATION Spec
CONSTANTS
    Addr = {a1}
    Configured = a1
    MaxServers = 2
    MaxRuns = 2
    Prompt = TRUE
INVARIANT DisableStopsListener
