SPECIFICATION QueueSpec
CONSTANTS
    j1 = j1
    j2 = j2
    j3 = j3
    j4 = j4
    Jobs = {j1, j2, j3, j4}
    Nodes = {}
    NoJob = NoJob
    NoNode = NoNode
    Order <- MCOrder
    MaxEntries = 6
    MaxCopies = 2
INVARIANTS QueueTypeOK HeapOrdered IndexSound
PROPERTIES ImplementsHeapBag
