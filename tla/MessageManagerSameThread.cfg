CONSTANTS
    m1 = m1
    m2 = m2
    m3 = m3
    s1 = s1
    Threads = {t1, t2}
    Sources = {s1}
    NoId = NoId
    Messages = {m1, m2, m3}
    Source <- MCSource
    QueueSize = 2
    MaxLost = 1
    Answered = {m3}
    Outgoing = Outgoing
    None = None
SPECIFICATION Spec
INVARIANT
    SameThread
