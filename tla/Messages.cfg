SPECIFICATION MessagesSpec
CONSTANTS
    d1 = d1
    d2 = d2
    gone = gone
    m1 = m1
    m2 = m2
    m3 = m3
    NoName = NoName
    UserKey = UserKey
    Device = {d1, d2}
    Reader = {d1}
    Msg = {m1, m2, m3}
    Named <- NamedMixed
    Corrupt = {}
    Instance = {i1}
    UserWrite = TRUE
    SameMs = FALSE
    SeqSpan = 4
    PageCount = 1
    MaxCalls = 3
    MaxOpens = 2
    Sweeper = {i1, i2}
    Cap = 2
    Api = {"stream", "pending"}
    Purgeable = {3}
    MaxAdds = 4
    MaxSweeps = 1
    env1 = env1
    s1 = s1
    s2 = s2
    Envelope <- OneEnvelope
    Slot <- TwoSlots
    Blocks = TRUE
    MaxFaults = 2
    Dev = {"d1", "d2"}
    NoDev = "nodev"
    NoRow = "norow"
    RingMax = 2
    PeerMax = 1
    PushPlan <- MessagePushPlans
    eva = eva
    fay = fay
    ka = ka
    kb = kb
    ta = ta
    tb = tb
    ua = ua
    Account = {eva, fay}
    Nobody = Nobody
    IntakeKey = {ka, kb}
    NoCred = NoCred
    Unopened = Unopened
    Misfit = Misfit
    GateToken = {ta, tb}
    NoToken = NoToken
    BadToken = BadToken
    Spend = {ua}
    NoSpend = NoSpend
    BadSpend = BadSpend
    GatePlan <- MessageGatePlans
    UnitMax = 2
    TagMax = 1
    EpochsMax = 2
    LastDay = 3
    DoorLimit = 2
    TripAt = 2
    YoungCap = 3
    FullCap = 4
INVARIANTS
    OwedStaysReachable
    StreamReachesOwed
    LossIsTold
    AnsweredIsWritten
    WrittenOnce
    BlockHolds
    WokenEnough
    
    PaymentsSound
    RotationReplaces
    WithinLimits
PROPERTIES
    CursorNeverRewinds
\* Clients are satisfied with their answers, and the system may stop.
CHECK_DEADLOCK FALSE
