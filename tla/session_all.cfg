CONSTANTS
    Streams <- Pipelines
    Room = 1
    OutLimit = 2
    QueryLimit = 3
    Resets = TRUE
    Closes = TRUE
    MaxAnswers = 4
SPECIFICATION FairSpec
INVARIANTS TypeOK InOrder WriteInterest HalfClose
PROPERTIES Answered
CHECK_DEADLOCK FALSE
