SPECIFICATION Spec
CONSTANTS
    b0 = b0  b1 = b1  b2 = b2  b3 = b3  c2 = c2  c3 = c3  t1 = t1  p1 = p1  p2 = p2
    NoPeer = NoPeer
    Block <- Forked
    Checkpoint = b0
    PrevBlock <- MCPrevBlock
    Height <- MCHeight
    Work <- MCHeight
    Txns <- MCTxns
    Recent <- MCRecent
    BeforeCreation <- MCBeforeCreation
    Tx <- MCTx
    Unconfirmed <- MCTx
    Peer <- MCPeer
    SyncCandidate <- MCPeer
    FirstTip <- BranchTips
    MinPeersForSync = 2
    RollbackTo = {b1}
    RollbackHeights = {2}
    MaxInv = 2
    MaxQueue = 1

CHECK_DEADLOCK FALSE
INVARIANTS HeightsTrue NoTxMissed
