SPECIFICATION ClusterSpec
CONSTANTS
    s1 = s1
    s2 = s2
    s3 = s3
    r1 = r1
    r2 = r2
    n1 = n1
    n2 = n2
    g1 = g1
    NoNode = NoNode
    NoGroup = NoGroup
    NoJob = NoJob
    GroupOf <- MCGroupOf
    Order <- MCOrder
    Need <- MCNeed
    Cap <- MCCap
    Match <- MCMatch
    Budget <- MCBudget
    Jobs = {s1, r1, r2}
    Nodes = {n1, n2}
    Groups = {g1}
    Calls = {1}
    WallJobs = {}
    Kinds = {"ok", "user"}
    MaxRetries = 0
    MaxQueueSize = 2
    MaxLive = 3
    MaxFaults = 1
    MaxLoss = 1
    MaxLate = 0
    MaxCrash = 0
    MaxDup = 0
    MaxCancel = 1
    Big = {s1}
    Large = {}
INVARIANTS NoQueuedJobLost
PROPERTIES EveryGroupDecided
