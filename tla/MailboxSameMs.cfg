SPECIFICATION Spec
CONSTANTS
    d1 = d1
    d2 = d2
    gone = gone
    m1 = m1
    m2 = m2
    m3 = m3
    NoName = NoName
    UserKey = UserKey
    Device = {d1, d2}
    Reader = {d1}
    Msg = {m1, m2, m3}
    Named <- NamedMixed
    Corrupt = {}
    Instance = {i1, i2}
    UserWrite = TRUE
    SameMs = TRUE
    SeqSpan = 4
    PageCount = 1
    MaxCalls = 2
    MaxOpens = 1
INVARIANTS
    OwedStaysReachable
