CONSTANTS
    k1 = k1  k2 = k2  k3 = k3  t1 = t1  t2 = t2  text = text
    Key <- ThreeKeys
    NumShards = 1
    ShardOf <- OneShard
    Thread <- OneThread
    SampleBudget = 4
    MaxTime = 2
    IntMin = 0
    IntMax = 0
    Deltas = {}
    Strings = {}
    RawSlots = 3
    ZSetEmpty = ZSetFull  ZSetFull = ZSetFull  NoEntry = NoEntry
    Miss = Miss  Ok = Ok  Err = Err  Removed = Removed  NoReply = NoReply
SPECIFICATION Spec
SYMMETRY KeySymmetry
INVARIANTS IndexCovers SweepMissesFew
