CONSTANTS
    s1 = s1
    s2 = s2
    t1 = t1
    t2 = t2
    dflt = dflt
    None = None
    Default = dflt
    Topics = {t1, t2, dflt}
    Subs = {s1, s2}
    TopicsOf <- MultiTopics
    TopicLists <- NoLists
    MaxEvents = 1
    Closers = {c1}
    Leavers = {}
    Quitters = {}
SPECIFICATION Spec
INVARIANT NoPanic
