\* Two operations, of any kind, racing each other and the start of the agent.
SPECIFICATION FairSpec
CONSTANTS
    Proc = {p1, p2}
    Main = main
    RuleFile = ruleFile
    AllowFile = allowFile
    BlockFile = blockFile
    Policies = policies
    Bundled <- MCBundled
INVARIANT SnapshotCoversEarlierWrites
PROPERTY OwnWritesInstalled
PROPERTY EveryRequestAnswered
\* Every operation ends: the system really stops when all have been answered.
CHECK_DEADLOCK FALSE
