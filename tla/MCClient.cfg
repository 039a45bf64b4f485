CONSTANTS
    ann = ann  ben = ben  k1 = k1  k2 = k2
    MaxTabs = 2
    Users = {ann, ben}
    MaxCalls = 2
    Asks <- MCAsks
    ServerKeys = {k1, k2}
    FirstKey = k1
    ForeignKey = ForeignKey
    MaxEndpoint = 2
    MaxEvents = 1
    NoRow = NoRow
    NoKey = NoKey
    NoAsk = NoAsk
SPECIFICATION FairSpec
INVARIANTS
    SubscribeHeals
    UnsubscribeEnds
    OnlyOwnChannels
    SpinnerHasACall
PROPERTIES
    CallsSettle
    EndsWithLiveRows
CHECK_DEADLOCK FALSE
