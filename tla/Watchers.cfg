SPECIFICATION WatchersSpec
CONSTANTS
    Setting <- MCSetting
    Helper = TRUE
    Patience = 3
    MaxTrouble = 2
    ThresholdBlocks = 2
    MaxBlocks = 6
    MaxAlertTrouble = 3
    MaxTampering = 3
    MaxTamperTrouble = 2
    w1 = w1
    e1 = e1
    c1 = c1
    WebRequest <- MCWebRequest
    Edit <- MCEdit
    Clip <- MCClip
    Secret <- MCSecret
    MaxScanTrouble = 2
INVARIANT FileKnowsSettings
INVARIANT AlertsAddUp
INVARIANT LeakOnlyOnFailure
PROPERTY StrandingEnds
PROPERTY BlocksAlerted
PROPERTY TamperSeen
PROPERTY WaitsOnlyForFetch
CHECK_DEADLOCK FALSE
