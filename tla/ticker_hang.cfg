CONSTANTS
    k1 = k1
    s1 = s1
    t1 = t1
    t2 = t2
    None = None
    Default = dflt
    Topics = {dflt}
    Subs = {k1}
    Tickers = {k1}
    TopicsOf <- DefaultTopics
    TopicLists <- NoLists
    MaxEvents = 3
    Closers = {c1}
    Leavers = {}
    Quitters = {}
SPECIFICATION TickerFairSpec
PROPERTY ShutdownWithTickers
CHECK_DEADLOCK FALSE
