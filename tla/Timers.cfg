SPECIFICATION TimersSpec
CONSTANTS
    ann = ann
    bob = bob
    a1 = a1
    b1 = b1
    b2 = b2
    i1 = i1
    i2 = i2
    c1 = c1
    c2 = c2
    CallUser = {ann, bob}
    CallDevice = {a1, b1, b2}
    CallUserOf <- UserOf
    Instance = {i1, i2}
    CallId = {c1, c2}
    CallScene <- Scenes
    CallNone = CallNone
    MaxStreams = 2
    PeerMax = 2
    OfferLimit = 1
    RingLimit = 1
    AliveLimit = 2
    LifeLimit = 3
    meg = meg
    MUser = {meg}
    MaxFile = 3
    MintMax = 2
    MintWindow = 2
    TokenTicks = 1
    PartialTicks = 2
    MediaTicks = 3
    MediaPlan <- TimerUploads

    
    
PROPERTIES
    NobodyStaysBusy
    SweptEventually
\* Clients are satisfied with their answers, and the system may stop.
CHECK_DEADLOCK FALSE
