SPECIFICATION LogSpec
CONSTANTS
    j1 = j1
    w1 = w1
    w2 = w2
    l1 = l1
    NoJob = NoJob
    NoNode = NoNode
    Nobody = Nobody
    Nodes = {}
    Jobs = {j1}
    Writers = {w1, w2}
    Streams = {l1}
    ChanCap = 1
    Window = 1
    MaxLines = 3
INVARIANTS LogTypeOK MissedOnlyWhenFull NoSendOnClosed
PROPERTIES LoggingGoesOn FollowerServed
