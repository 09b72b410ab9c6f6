CONSTANTS
    None = None
    Value <- Values
    Ops <- AllOps
    MaxTime = 4
    MaxLog = 3
SPECIFICATION Spec
INVARIANTS TypeOK RestoredRight
CHECK_DEADLOCK FALSE
