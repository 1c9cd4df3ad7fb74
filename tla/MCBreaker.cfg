SPECIFICATION MCHistorySpec
CONSTANTS
    Jobs = {j1, j2, j3}
    Nodes = {n1, n2}
    NoJob = NoJob
    NoNode = NoNode
    MaxStrikes = 5
INVARIANTS HistoryTypeOK BlockedByCount NoPoisonPill CountsMeanCulprits
