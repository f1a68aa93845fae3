SPECIFICATION Spec
CONSTANTS
    Nothing = Nothing
    Organiser = {o1, o2}
    Holder = {h1}
    Worker = {w1, w2}
    v1 = v1
    Venue = {v1, v2}
    Start = {1, 2}
    MaxDay = 2
    MaxEdits = 2
    MaxCrashes = 1
    NoOne = NoOne
    NoOp = NoOp
    tab1 = tab1
    ac1 = ac1
    op1 = op1
    op2 = op2
    Tab = {tab1, tab2}
    Account = {ac1, ac2}
    Op = {op1, op2}
    MaxRevisions = 2
    MaxRequests = 3
    Claim = {1, 2}
INVARIANTS
    OneMailPerDetails
    OneAccountPerBrowser
    TabsExclude
PROPERTIES
    HoldersAreTold
CHECK_DEADLOCK FALSE
