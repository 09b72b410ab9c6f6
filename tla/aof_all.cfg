CONSTANTS
    k1 = k1  l1 = l1  l2 = l2  Flusher = Flusher  Torn = Torn
    Loop <- TwoLoops
    Key <- OneKey
    Command <- SetAndFlush
    Policies <- AllPolicies
    Threshold = 2
    Tears = TRUE
    MaxFailures = 1
    MaxCommands = 3
    MaxRestarts = 1
SPECIFICATION FairSpec
INVARIANTS TypeOK BufferBounded LogKept AckedDurable LogMeansDb
PROPERTIES EventuallyDurable
CHECK_DEADLOCK FALSE
