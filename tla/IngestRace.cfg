SPECIFICATION RaceSpec
CONSTANTS
    p = p  c1 = c1  d1 = d1  p0 = p0  c0 = c0  d0 = d0
    None = None
    Tx <- MCTx
    Out <- MCOut
    Creator <- MCCreator
    Spends <- MCSpends
    Ours <- MCOut
    Filtered = {}
    MaxHeight = 1
INVARIANTS AtMostOneSpender
CHECK_DEADLOCK FALSE
