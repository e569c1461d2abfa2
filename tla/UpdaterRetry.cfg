\* A reload of a recorded version that fails is not retried.
SPECIFICATION Spec
CONSTANTS
    Checker = {poller}
    Poller = poller
    rules = rules
    patterns = patterns
    b0 = b0
    b1 = b1
    v1 = v1
    v2 = v2
    Order <- MCOrder
    RuleFile <- MCRuleFile
    Body = {b0, b1}
    Shipped = b0
    Version = {v1, v2}
    NoVersion = none
    MaxTrouble = 3
    Manifest <- MCManifest
PROPERTY FailedReloadRetried
