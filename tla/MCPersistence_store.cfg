SPECIFICATION QuerySpec
CONSTANTS
    s1 = s1
    r1 = r1
    g1 = g1
    p1 = p1
    l1 = l1
    NoJob = NoJob
    NoNode = NoNode
    NoGroup = NoGroup
    Main = Main
    Nodes = {}
    GroupOf <- MCGroupOf
    Jobs = {s1, r1}
    Groups = {g1}
    Rpcs = {p1}
    Loops = {l1}
    ChanCap = 2
    MaxStarts = 2
    MaxCalls = 4
    MaxRetries = 1
    MaxQueueSize = 1
INVARIANTS QueryTypeOK StaleOnlyWhileOwed StopLosesOnlyCaught RestoredUpToLimit
PROPERTIES EventuallySaved AnswerStands
