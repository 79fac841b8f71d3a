CONSTANTS
    k1 = k1
    s1 = s1
    t1 = t1
    t2 = t2
    None = None
    Default = dflt
    Topics = {t1, t2, dflt}
    Subs = {k1, s1}
    Tickers = {k1}
    TopicsOf <- MultiTopics
    TopicLists <- AllLists
    MaxEvents = 2
    Closers = {c1, c2}
    Leavers = {s1}
    Quitters = {s1}
SPECIFICATION TickerFairSpec
INVARIANT CopyInv
PROPERTIES KeepsContract TickersStop
CHECK_DEADLOCK FALSE
