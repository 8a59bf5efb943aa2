SPECIFICATION FairSpec
CONSTANTS
    b0 = b0  b1 = b1  b2 = b2  b3 = b3  c2 = c2  c3 = c3  t1 = t1  p1 = p1  p2 = p2
    NoPeer = NoPeer
    Block <- Forked
    Checkpoint = b0
    PrevBlock <- MCPrevBlock
    Height <- MCHeight
    Work <- MCHeight
    Txns <- MCTxns
    Recent <- MCRecent
    BeforeCreation <- MCBeforeCreation
    Tx <- MCTx
    Unconfirmed <- NoTx
    Peer <- MCPeer
    SyncCandidate <- MCPeer
    FirstTip <- ForkTips
    MinPeersForSync = 1
    RollbackTo = {b1}
    RollbackHeights = {2}
    MaxInv = 2
    MaxQueue = 1
PROPERTIES ReorgResynced
CHECK_DEADLOCK FALSE
