SPECIFICATION FairSpec
CONSTANTS
    j1 = j1
    w1 = w1
    w2 = w2
    s1 = s1
    s2 = s2
    k1 = k1
    k2 = k2
    k3 = k3
    NoToken = NoToken
    NoJob = NoJob
    Job = {j1}
    Process = {w1}
    Slot = {s1, s2}
    ProcessOf <- OneProcess
    Token <- MCToken
    MaxAttempts = 2
    LeaseTicks = 1
    RetryTicks = 1
    MaxDelay = 1
    TimeToLive = 2
    MaxFaults = 1
INVARIANTS
    ShutdownDrains
PROPERTIES
    JobEnds
    ExpiredSecretsGo
    StopEnds
