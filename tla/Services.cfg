SPECIFICATION ServicesSpec
CONSTANTS
    q1 = q1
    q2 = q2
    q3 = q3
    chat = chat
    m1 = m1
    m2 = m2
    tab1 = tab1
    tab2 = tab2
    tab3 = tab3
    CanaryRequest <- MCRequest
    MaxCanaries = 1
    MaxCanaryTrouble = 1
    AllowRequest <- MCRequest
    Destination <- MCDestination
    Lifetime <- MCLifetime
    MaxNow = 3
    MaxAllowTrouble = 1
    Paster <- MCPaster
    Session <- MCSession
    MaxSess = 2
    SessTTL = 1
    MaxPaste = 4
    MaxClock = 3
    Recorder <- MCRequest
    MaxEvents = 2
    MaxEventTrouble = 2
    Secret <- MCSecret
    Body <- MCBody
    MaxRequest = 2
    MaxChange = 2
    MaxTrouble = 1
    Site = site
    Host = host
    Domain <- MCDomain
    Parents <- MCParents
    NoMatch = noMatch
    OverrideEntry <- MCOverrideEntry
    MaxEntries = 2
    FileCategory = {"blocked", "dlp", "unlisted"}
    Shipments <- MCShipments
    Policy <- MCPolicy
    Rule <- MCRule
    Pattern <- MCPattern
    Exclusion <- MCExclusion
    Exception <- MCException
    Bundle <- MCBundle
    Content <- MCContent
    Page <- MCPage
    Value <- MCValue
    Cleared = {}
    Entropy <- MCEntropy
    Signals <- MCSignals
    Bars <- MCBars
    LargeFrom = {8, 20}
    Window = 3
    MaxEdits = 1
    Whole = 2
    Rate = {0, 1, 3}
    Burst = {0, 2}
    MaxTicks = 4
INVARIANT HeldBackStays
INVARIANT TripwiresMirrorRows
INVARIANT AllowsAsStored
INVARIANT SplitSecretSeen
INVARIANT WithdrawalHolds
INVARIANT ListsMatchFiles
INVARIANT AcknowledgedIntentKept
INVARIANT OverrideDecides
INVARIANT IndexMatchesReference
INVARIANT MatchesComplete
INVARIANT LeniencyNeverBlocks
INVARIANT RateKept
CHECK_DEADLOCK FALSE
