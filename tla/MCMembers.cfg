SPECIFICATION Spec
CONSTANTS
    Nobody = Nobody
    Caller = {k1, k2}
    Address = {a1}
    Tier = {t1, t2}
    Code = {c1, c2}
    Capacity = 1
    Limit = 1
    MaxAttempts = 2
    MaxDeaths = 1
    Unknown = Unknown
    Person = {ad, m1}
    Admin = {ad}
    Scan = {s1, s2}
    Seat = {x1, x2}
    MaxScans = 2
    NoMember = NoMember
    Member = {u1, u2}
    Asker = {q1, q2}
    MaxPosts = 2
    MaxAsks = 4
    Nowhere = Nowhere
    Replica = {r1, r2}
    Reader = {p1}
    MaxMessages = 2
    MaxFaults = 1
    None = None
    NewKey = {n1}
    OldKey = {1, 2}
    Task = {b1, b2}
    MaxTasks = 3
    ad1 = ad1
    ad2 = ad2
    Agent = {ad1, ad2}
    Requester = rq
    NotSent = NotSent
    MaxLetters = 3
    MaxUpdates = 1
    MaxLostAnswers = 1
    MaxMarks = 1
    MaxNews = 2
    MaxLosses = 1
    Others = {1, 2, 3}
    Home = {here}
    TopScore = 1
    PageSize = 1
    MaxMoves = 2
    MaxSearches = 2
    Away = Away
INVARIANTS
    OneBookingPerAddress
    GuestsNeverOversell
    GuessesAreBounded
    AdmittedOnce
    LoadedThreadIsWhole
    PhotosAreStored
    NoMessageIsBuried
    NewsIsNotLost
    NobodyIsSkipped
PROPERTIES
    NoScanAfterRevocation
    NoContactAcrossABlock
    EndedStaysEnded
CHECK_DEADLOCK FALSE
