SPECIFICATION Spec
CONSTANTS
    owner0 = owner0
    a = a
    b = b
    NoCall = NoCall
    Device = {owner0, a, b}
    Creator = owner0
    Founders <- FoundersNewOrFull
    Call = {c1, c2, c3}
    MaxOpen = 2
    MaxMembers = 3
    MaxEpoch = 2
SYMMETRY Symmetry
CHECK_DEADLOCK FALSE
INVARIANTS
    CommitsChain
    MembershipSound
