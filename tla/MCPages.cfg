SPECIFICATION Spec
CONSTANTS
    Registered = {1, 2}
    Named = {1}
    RowsPerPage = 1
    MaxAccountMoves = 1
    MaxListLoads = 3
    MaxInputs = 1
    Desk = {d1, d2}
    Unseen = Unseen
    MaxDecisions = 2
    MaxReloads = 3
    MaxLostDecisions = 1
    h1 = h1
    Chat = {h1, h2}
    NoChat = NoChat
    NotCached = NotCached
    MaxArrivals = 1
    MaxVisits = 2
    MaxListings = 2
    MaxBreaks = 1
    MaxTyping = 1
    MaxSaves = 1
    MaxUploads = 1
    MaxSearchesOfPlace = 1
    MaxElsewhere = 1
    MaxRenewals = 1
    MaxRefusals = 1
    Organisers = {o1}
    Regular = Regular
    Offer = {Regular, vip}
    NotCreated = NotCreated
    MaxTouches = 2
    MaxWrites = 2
    MaxPageVisits = 2
    MaxSales = 1
    MaxMishaps = 1
    Tier = {t1, t2}
    NoTier = NoTier
    MaxOrders = 2
    MaxHomeVisits = 2
    MaxChoices = 2
    MaxTurns = 1
    Event = {e1}
    FreeTier = {1}
    PaidTier = {2}
    Member = {m1}
    Nobody = Nobody
    NoEvent = NoEvent
    NotStored = NotStored
    Seats = 1
    Limit = 1
    MaxReads = 2
    MaxAsks = 2
    MaxMounts = 2
    MaxChanges = 1
    Pass = {g1, g2}
    NoPass = NoPass
    MaxChecks = 2
    MaxLoads = 2
    MaxPosts = 2
    MaxTroubles = 1
INVARIANTS
    AdminPagesAgree
    MemberPagesAgree
CHECK_DEADLOCK FALSE
