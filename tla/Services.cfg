SPECIFICATION ServicesSpec
CONSTANTS
    phone = phone
    tablet = tablet
    KeyDevice = {phone, tablet}
    KeyHybrid = {phone}
    KeyCall = {k1, k2, k3}
    KeyBefore = KeyBefore
    KeyNone = KeyNone
    KeyPlan <- Plans
    k1 = k1
    k2 = k2
    k3 = k3
    KeyId = {1, 2, 3, 4}
    KeyIdsBefore = {1, 2, 3}
    KeyMaxOpen = 2
    DrainThreshold = 1
    BundleLimit = 3
    MaxPerUpload = 2
    MaxStored = 3
    MaxReplaces = 1
    n1 = n1
    n2 = n2
    ak1 = ak1
    ak2 = ak2
    AcctPlan <- ServiceAccounts
    MaxRegs = 2
    MaxAsked = 3
    MaxFailed = 2
    TierSize = 2
    FreeRegs = 1
    TopDifficulty = 3
    Nil = Nil
    ann = ann
    bob = bob
    cat = cat
    ContactUser = {ann, bob, cat}
    ContactPlan <- ServiceContacts
    DailyMax = 2
    NoRow = NoRow
    td1 = td1
    td2 = td2
    td3 = td3
    e1 = e1
    u1 = u1
    u2 = u2
    u3 = u3
    SDevice = {td1, td2, td3, e1}
    UserOf <- MCUserOf
    MsgLimit <- MCMsgLimit
    CopyLimit = 1
    HourLimit <- MCHourLimit
    FanLimit <- MCFanLimit
    ReportsMax = 2
    FlagReports = 2
    FlagReporters = 2
    BanReports = 3
    BanReporters = 3
    TrustPlan <- ServiceTrust
    una = una
    VUser = {una}
    VeilFront = {"a", "b", "c", "d", "e"}
    Seed <- MCSeed
    AltRank <- MCAltRank
    AltK = 2
    VoucherQuota = 1
    MaxVoucherQuota = 3
    VDay = 4
    VSecond = 2
    SweepAge = 4
    TicketLife = 9
    VoucherLife = 1
    ScopeWidth = 4
    VeilPlan <- ServiceVeil
    Canvas = 512
    MaxBlob = 3
    MaxStickers = 2
    MaxHave = 2
    PageUsual = 2
    PageMax = 3
    StickerMax = 4
    StickerPlan <- ServiceStickers
    ma = ma
    mb = mb
    Member = {ma, mb}
    StreamPlan <- ServiceStreams
    HubCap = 1
    MaxFetch = 2
    FetchLimit = 0
    MaxDbErrors = 1
    adm = adm
    usr = usr
    kp1 = kp1
    kp2 = kp2
    kp3 = kp3
    GroupAdmin = {adm}
    Package = {kp1, kp2, kp3}
    PoolPlan <- ServicePools
    TopicMax = 1
    LowMark = 2
    MaxPoolCuts = 1
    ada = ada
    ben = ben
    cyd = cyd
    NoChan = NoChan
    ChanDevice = {ada, ben, cyd}
    ChanPlan <- ServiceChannels
    Young = {ben}
    WarmMax = 2
    GrownMax = 3
    CapMax = 3
    DaysMax = 3
    DaysDefault = 2
    PageDefault = 2
    MaxBroken = 1
INVARIANTS
    ClassicKeysGivenOnce
    
    KeyLimits
    
    ContactsMutual
    
    RefusalsHold
    NobodyWronged
    
    HandedIsGood
    MembersMissNothing
    RemovedIsOut
    PoolsSound
    
    ReadersAgree
PROPERTIES
    KyberKeysGivenOnce
    ClaimsStand
    PacksWhole
\* Clients are satisfied with their answers, and the system may stop.
CHECK_DEADLOCK FALSE
