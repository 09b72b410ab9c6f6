CONSTANTS
    k1 = k1  l1 = l1  l2 = l2  Flusher = Flusher  Torn = Torn
    Loop <- OneLoop
    Key <- OneKey
    Command <- Incrs
    Policies <- EverySec
    Threshold = 2
    Tears = FALSE
    MaxFailures = 0
    MaxCommands = 2
    MaxRestarts = 1
SPECIFICATION Spec
PROPERTIES ReplayLogsNothing
CHECK_DEADLOCK FALSE
