----------------------------- MODULE MCBreaker -----------------------------
EXTENDS BreakerHistory

CONSTANT MaxStrikes    \* failures counted per node

MCHistorySpec ==
    /\ HistoryInit
    /\ [][HistoryNext /\ \A n \in Nodes : failures'[n] <= MaxStrikes]_historyVars
=============================================================================
