\* One paste and one network request, with one failure.
SPECIFICATION FairScanSpec
CONSTANTS
    WebRequest = {r1}
    Edit = {e1}
    Clip = {}
    Secret = {r1, e1}
    MaxScanTrouble = 1
PROPERTY EditsSettle
CHECK_DEADLOCK FALSE
