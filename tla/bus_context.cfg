CONSTANTS
    s1 = s1
    s2 = s2
    t1 = t1
    t2 = t2
    dflt = dflt
    None = None
    Default = dflt
    Topics = {t1, t2, dflt}
    Subs = {s1}
    TopicsOf <- SingleTopics
    TopicLists <- NoLists
    MaxEvents = 3
    Closers = {c1}
    Leavers = {}
    Quitters = {s1}
SPECIFICATION FairSpec
PROPERTY ShutdownObeysContext
CHECK_DEADLOCK FALSE
