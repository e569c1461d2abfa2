\* A request with another, with the refresher or with a scan, over any two troubles.
SPECIFICATION FairSpec
CONSTANTS
    api1 = api1
    api2 = api2
    scan = scan
    category = category
    strict = strict
    lax = lax
    plain = plain
    boosted = boosted
    Scanner = {scan}
    Setter = {api1, api2, main}
    Api = {api1, api2}
    Main = main
    Casts <- MCCasts
    Pattern <- MCPattern
    PatternSet <- MCPatternSet
    Thresholds = {strict, lax}
    Weights = {plain, boosted}
    Score <- MCScore
    Need <- MCNeed
    Category = {category}
    Action = {"allow", "deny"}
    Default = "allow"
    Profiles <- MCProfiles
    Keep = keep
    NoProfile = noProfile
    InitialThresholds = strict
    InitialWeights = plain
    MaxTrouble = 2
INVARIANT ScanSound
INVARIANT CacheCurrent
INVARIANT BaselineKept
INVARIANT DLPInSync
PROPERTY UnfetchedApplied
PROPERTY StaleVerdictsExpire
\* An agent that no request, publication or scan reaches has nothing to do.
CHECK_DEADLOCK FALSE
