SPECIFICATION FairSpec
CONSTANTS
    Platform = {"darwin", "win32"}
    Pid = {p1, p2}
    Burst = 1
    Misses = 2
    MaxTrouble = 2
INVARIANT ManagedIsReferenced
PROPERTY AnswersAgain
