SPECIFICATION Spec
CONSTANTS
    r1 = r1
    r2 = r2
    k1 = k1
    k2 = k2
    k3 = k3
    l1 = l1
    l2 = l2
    p1 = p1
    p2 = p2
    None = None
    Request <- MCRequest
    Token <- MCToken
    Kept <- MCKept
    Link <- MCLink
    Payment <- MCPayment
    Mixes <- MCMixes
PROPERTIES
    OnlyModerationLiftsABan
CHECK_DEADLOCK FALSE
