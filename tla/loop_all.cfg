CONSTANTS
    a = a  kid = kid  c1 = c1  c2 = c2  NoTask = NoTask
    Task <- Tasks
    Caller <- Callers
    Child <- AQueuesChild
    Timeouts = FALSE
    Stops = TRUE
    every = every  again = again  Off = Off
    Timer <- Timers
    Delay <- Delays
    Period <- Delays
    Again <- AtOnce
    PerRound = 2
    MaxClock = 2
SPECIFICATION FairSpec
INVARIANTS TypeOK Fifo NoLostWakeup NoBurst
PROPERTIES PostedTasksRun TimersRing StopReachesLoop
CHECK_DEADLOCK FALSE
