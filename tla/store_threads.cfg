CONSTANTS
    k1 = k1  k2 = k2  k3 = k3  t1 = t1  t2 = t2  text = text
    Key <- TwoKeys
    NumShards = 2
    ShardOf <- TwoShards
    Thread <- TwoThreads
    SampleBudget = 1
    MaxTime = 2
    IntMin = 0
    IntMax = 0
    Deltas = {}
    Strings = {}
    RawSlots = 0
    ZSetEmpty = ZSetEmpty  ZSetFull = ZSetFull  NoEntry = NoEntry
    Miss = Miss  Ok = Ok  Err = Err  Removed = Removed  NoReply = NoReply
SPECIFICATION Spec
SYMMETRY ThreadSymmetry
PROPERTIES ImplementsKV
