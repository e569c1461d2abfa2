\* The updater's goroutine and one API request, over any history of the server.
SPECIFICATION FairSpec
CONSTANTS
    Checker = {poller, request}
    Poller = poller
    rules = rules
    patterns = patterns
    b0 = b0
    b1 = b1
    v1 = v1
    v2 = v2
    Order <- MCOrder
    RuleFile <- MCRuleFile
    Body = {b0, b1}
    Shipped = b0
    Version = {v1, v2}
    NoVersion = none
    MaxTrouble = 2
    Manifest <- MCManifest
INVARIANT RecordedAfterReload
PROPERTY UpdatedMeansLive
PROPERTY FilesSettle
PROPERTY UnrecordedBecomesLive
