CONSTANTS
    s1 = s1
    s2 = s2
    t1 = t1
    t2 = t2
    dflt = dflt
    None = None
    Default = dflt
    Topics = {t1, t2, dflt}
    Subs = {s1, s2}
    TopicsOf <- SingleTopics
    TopicLists <- PlainLists
    MaxEvents = 3
    Closers = {}
    Leavers = {s2}
    Quitters = {}
SPECIFICATION FairSpec
PROPERTY UnsubscribeReturns
CHECK_DEADLOCK FALSE
