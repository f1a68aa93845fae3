SPECIFICATION FairSpec
CONSTANTS
    u1 = u1
    u2 = u2
    v1 = v1
    v2 = v2
    p1 = p1
    t1 = t1
    t2 = t2
    None = None
    p2 = p2
    Purchase = {p1}
    Ticket <- MCTicket
    User = {u1}
    Verifier = {v1, v2}
    Order <- MCOrder2
    Prices = {"paid", "free"}
    Capacities = {2, 3}
    MaxPerUser = 2
    ReservationTicks = 1
    EventEnds = 2
    MaxClock = 2
    MaxFaults = 1
CHECK_DEADLOCK FALSE
PROPERTY ReceivedChargeSettles
