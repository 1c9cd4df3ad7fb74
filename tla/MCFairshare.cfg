SPECIFICATION FairSpec
CONSTANTS
    j1 = j1
    j2 = j2
    u1 = u1
    h1 = h1
    NoJob = NoJob
    NoNode = NoNode
    NoUser = NoUser
    Nodes = {}
    Jobs = {j1, j2}
    Users = {u1}
    UserOf <- MCUserOf
    Handlers = {h1}
    MaxRetries = 1
    Epoch = 5
    MaxDuration = 4
    Unit = 1
    Factor = 50
    Horizon = 7
    MaxExecs = 2
    MaxMishaps = 1
INVARIANTS FairTypeOK PenaltyEarned BilledOnce
SYMMETRY MCSymmetry
