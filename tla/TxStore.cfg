SPECIFICATION MarkSpec
CONSTANTS
    p = p  c = c  d = d  f = f  p0 = p0  p1 = p1  c0 = c0  d0 = d0
    None = None
    Tx <- MCTx
    Out <- MCOut
    Creator <- MCCreator
    Spends <- MCSpends
    Ours <- MCOut
    Filtered = {f}
    MaxHeight = 2
    Uint = 256
INVARIANTS NoDoubleSpend NoDeadRows NoCoinLost MarkAsDeadExact CheckExact
           ChangeCounted HistoryAgrees PendingAnnounced StoredAreRelayed
PROPERTIES LedgerSpec StoreSpec MarkEnds
