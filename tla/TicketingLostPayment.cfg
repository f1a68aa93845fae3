SPECIFICATION Spec
CONSTANTS
    u1 = u1
    u2 = u2
    v1 = v1
    v2 = v2
    p1 = p1
    t1 = t1
    t2 = t2
    None = None
    p2 = p2
    Purchase <- MCPurchase
    Ticket <- MCTicket
    User <- MCUser
    Verifier <- MCVerifier
    Order <- MCOrder
    Prices = {"paid", "free"}
    Capacities = {1, 2}
    MaxPerUser = 1
    ReservationTicks = 1
    EventEnds = 2
    MaxClock = 2
    MaxFaults = 1
SYMMETRY MCSymmetry
CHECK_DEADLOCK FALSE
INVARIANT SettledPaymentHasTicketsOrRefund
