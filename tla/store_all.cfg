CONSTANTS
    k1 = k1  k2 = k2  k3 = k3  t1 = t1  t2 = t2  text = text
    Key <- TwoKeys
    NumShards = 1
    ShardOf <- OneShard
    Thread <- OneThread
    SampleBudget = 1
    MaxTime = 2
    IntMin <- MinusOne
    IntMax = 1
    Deltas <- BothDeltas
    Strings <- OneString
    RawSlots = 0
    ZSetEmpty = ZSetEmpty  ZSetFull = ZSetFull  NoEntry = NoEntry
    Miss = Miss  Ok = Ok  Err = Err  Removed = Removed  NoReply = NoReply
SPECIFICATION FairSpec
INVARIANTS TypeOK IndexExact
PROPERTIES ImplementsKV ReclaimedWhenQuiet
