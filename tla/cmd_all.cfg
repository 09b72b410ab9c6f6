CONSTANTS
    k1 = k1  a = a  b = b  l1 = l1  l2 = l2
    Loop <- TwoLoops
    Key <- OneKey
    Member <- TwoMembers
    Command <- AllCommands
    MaxCommands = 5
    MinInt <- Least
    MaxInt = 1
SPECIFICATION Spec
SYMMETRY LoopSymmetry
INVARIANTS TypeOK KeyLogRight NoEmptySet
CHECK_DEADLOCK FALSE
