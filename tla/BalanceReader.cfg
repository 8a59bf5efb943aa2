SPECIFICATION ReaderSpec
CONSTANTS
    p = p  c = c  d = d  e = e  p0 = p0  c0 = c0  e0 = e0
    None = None
    Tx <- MCTx
    Out <- MCOut
    Creator <- MCCreator
    Spends <- MCSpends
    Ours <- MCOut
    Filtered = {}
    MaxHeight = 1
    Uint = 256
INVARIANTS BalanceBacked
