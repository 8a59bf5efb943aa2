----------------------------- MODULE WireService -----------------------------
(***************************************************************************)
(* WireService of eight333.go: the block and transaction download, with    *)
(* the peers it talks to.                                                  *)
(*                                                                         *)
(* One goroutine takes messages from msgChan and runs one handler at a     *)
(* time, so a handler is one step.  The listener goroutine of a peer       *)
(* blocks on the unbuffered msgChan: `in[p]' are the messages of p in the  *)
(* order they will be handled, `out[p]' the requests p has not answered.   *)
(* donePeerMsg comes from another goroutine than the messages of the peer, *)
(* so it may overtake the last of them.  A Peer is one connection; it is   *)
(* never reused.                                                           *)
(*                                                                         *)
(* The chain is what module Blockchain offers its callers: the headers a   *)
(* lookup finds and the best of them.  The user's rollbacks, one step each *)
(* here and call by call there, lower the tip or leave it on headers that  *)
(* are gone; which of the headers above are still found depends on the     *)
(* cache and on writes under way, so any of them may be.                   *)
(*                                                                         *)
(* Of the transaction store the module has the calls: `recorded' is what   *)
(* Ingest was told and processReorg has not taken back.  The remote peers  *)
(* are external and honest: they only answer requests, in order, and       *)
(* announce what they learn.                                               *)
(***************************************************************************)
EXTENDS Integers, FiniteSets, Sequences, SequencesExt

CONSTANTS
    Block, Checkpoint, \* the tree of blocks and its root
    PrevBlock, Height, Work,
    Txns,              \* the transactions of a block the filter matches
    Recent,            \* blocks less than 24 hours old
    BeforeCreation,    \* blocks older than the wallet, less a week
    Tx, Unconfirmed,   \* transactions; those peers announce by themselves
    Peer, NoPeer,
    SyncCandidate,     \* peers isSyncCandidate accepts
    FirstTip,          \* what a peer has when the program starts
    MinPeersForSync,
    RollbackTo,        \* the blocks and the heights the user's rollbacks lead to
    RollbackHeights,
    MaxInv,            \* how many blocks or headers one answer holds
    MaxQueue           \* bound: messages or requests of one peer in flight

ASSUME WireAssumption ==
    /\ Checkpoint \in Block
    /\ PrevBlock \in [Block \ {Checkpoint} -> Block]
    /\ Height \in [Block -> Nat] /\ Work \in [Block -> Nat]
    /\ \A b \in Block \ {Checkpoint} : /\ Height[b] = Height[PrevBlock[b]] + 1
                                       /\ Work[b] > Work[PrevBlock[b]]
    /\ Txns \in [Block -> SUBSET Tx]
    /\ Recent \subseteq Block /\ BeforeCreation \subseteq Block
    /\ IsFiniteSet(Tx) /\ Unconfirmed \subseteq Tx
    /\ NoPeer \notin Peer /\ SyncCandidate \subseteq Peer
    /\ FirstTip \in [Peer -> Block]
    /\ RollbackTo \subseteq Block /\ RollbackHeights \subseteq Nat
    /\ MinPeersForSync \in Nat /\ MaxInv \in Nat \ {0} /\ MaxQueue \in Nat

VARIABLES
    known, best,     \* the chain: headers GetHeader finds, BestBlock
    syncPeer,        \* WireService.syncPeer
    peerStates,      \* WireService.peerStates, NoState where there is none
    requestedTxns,   \* the keys of WireService.requestedTxns
    mempool,         \* WireService.mempool
    recorded,        \* <<transaction, height>> pairs the store was given
    takenBack,       \* those processReorg took back (history)
    lastBlock,       \* peer.LastBlock()
    conn,            \* "new", "up", "closed" (donePeerMsg to come), "gone"
    in, out,         \* messages of a peer, requests to it
    asked,           \* the last getblocks and the last getheaders sent
    tip              \* the best block a peer has

wsVars == <<syncPeer, peerStates, requestedTxns, mempool, recorded, takenBack, lastBlock>>
vars == <<known, best, wsVars, conn, in, out, asked, tip>>

NoState == [registered |-> FALSE]

(* peerSyncState.  blockScore and falsePositives are left out: no path     *)
(* lowers the one or raises the other.  requestedTxns is a set of pairs,   *)
(* one for each transaction.  The WireService also has a map               *)
(* requestedBlocks, which nothing is ever added to.                        *)
NewState(p) ==
    [registered |-> TRUE, syncCandidate |-> p \in SyncCandidate,
     requestQueue |-> <<>>, requestedBlocks |-> {}, requestedTxns |-> {}]

Registered(states) == {p \in Peer : states[p].registered}

(* A block and the ones below it, down to the checkpoint: the least set    *)
(* that has the block and with each block its parent.                      *)
Lineage ==
    [b \in Block |->
        {a \in Block : \A C \in SUBSET Block :
            b \in C /\ (\A x \in C \ {Checkpoint} : PrevBlock[x] \in C) => a \in C}]

Highest(S) == CHOOSE b \in S : \A c \in S : Height[c] <= Height[b]

(* Current(), for a best block, the peers and the heights they report.     *)
Current(bst, states, heights) ==
    /\ bst \in Recent
    /\ \A p \in Registered(states) : heights[p] <= Height[bst]

IsCurrent == Current(best, peerStates, lastBlock)

(* GetBlockLocator names our best chain down to the first header that is   *)
(* not found; the peer finds where it leaves its own.  The code leaves out *)
(* ever more blocks after the tenth and stops at 500; here all are named,  *)
(* so a peer's answer may start later than it would.                       *)
GetBlockLocator(ks, bst) ==
    {a \in Lineage[bst] : \A x \in Lineage[bst] : Height[x] >= Height[a] => x \in ks}

NoRequest == UNCHANGED <<out, asked>>

(* PushGetBlocksMsg and PushGetHeadersMsg drop a request whose locator     *)
(* begins with the same block as the last one of its kind (external).      *)
Push(p, type, ks, bst) ==
    IF conn[p] # "up" \/ <<type, bst>> \in asked[p]
    THEN NoRequest
    ELSE /\ out' = [out EXCEPT ![p] = Append(@, [type |-> type, locator |-> GetBlockLocator(ks, bst)])]
         /\ asked' = [asked EXCEPT ![p] = {r \in @ : r[1] # type} \cup {<<type, bst>>}]

(* QueueMessage with a getdata message.                                    *)
GetData(p, txs, blocks) ==
    IF conn[p] # "up"
    THEN NoRequest
    ELSE /\ out' = [out EXCEPT ![p] = Append(@, [type |-> "getdata", txs |-> txs, blocks |-> blocks])]
         /\ UNCHANGED asked

(***************************************************************************)
(* Blockchain.CommitHeader, on a chain [known, best].  The headers of      *)
(* honest peers are right, but the check reads others below them, and so   *)
(* does the walk to the common ancestor of a new best chain: after a       *)
(* rollback some may be gone.  How far down the check reads is left open:  *)
(* `bad' are headers it fails for if anything below them is missing.       *)
(***************************************************************************)
Connects(ch, b) == b # Checkpoint /\ PrevBlock[b] \in ch.known

Checks(ch, b, bad) == b \in bad => Lineage[PrevBlock[b]] \subseteq ch.known

CommonAncestor(ch, b) == Highest(Lineage[b] \cap Lineage[ch.best])

(* GetCommonAncestor finds every header on its way.                        *)
Walks(ch, b) ==
    \A x \in (Lineage[b] \cup Lineage[ch.best]) \ {b} :
        Height[x] >= Height[CommonAncestor(ch, b)] => x \in ch.known

Heavier(ch, b, bad) == Connects(ch, b) /\ Checks(ch, b, bad) /\ Work[b] > Work[ch.best]

(* The calls that return an error.                                         *)
Refused(ch, b, bad) ==
    ~Connects(ch, b) \/ (Heavier(ch, b, bad) /\ PrevBlock[b] # ch.best /\ ~Walks(ch, b))

NewTip(ch, b, bad) == Heavier(ch, b, bad) /\ ~Refused(ch, b, bad)

CommitHeader(ch, b, bad) ==
    [known |-> IF ~Refused(ch, b, bad) /\ Checks(ch, b, bad) THEN ch.known \cup {b} ELSE ch.known,
     best  |-> IF NewTip(ch, b, bad) THEN b ELSE ch.best]

Chain == [known |-> known, best |-> best]

(* One commit after the other.                                             *)
CommitHeaders(headers, bad) ==
    LET chain[i \in 0..Len(headers)] ==
            IF i = 0 THEN Chain ELSE CommitHeader(chain[i-1], headers[i], bad)
    IN  chain[Len(headers)]

----------------------------------------------------------------------------
(***************************************************************************)
(* startSync, from given peer states.  Candidates that have fallen behind  *)
(* are struck off; of the others one with the greatest height is taken, a  *)
(* height of 0 never.                                                      *)
(***************************************************************************)
Behind(p) == lastBlock[p] < Height[best]

Candidates(states) ==
    {p \in Registered(states) : states[p].syncCandidate /\ ~Behind(p) /\ lastBlock[p] > 0}

BestPeers(states) ==
    {p \in Candidates(states) : \A q \in Candidates(states) : lastBlock[q] <= lastBlock[p]}

StrikeOff(states) ==
    [p \in Peer |-> IF states[p].registered /\ Behind(p)
                    THEN [states[p] EXCEPT !.syncCandidate = FALSE] ELSE states[p]]

SyncRequest == IF best \in BeforeCreation THEN "getheaders" ELSE "getblocks"

SyncFrom(p) == syncPeer' = p /\ Push(p, SyncRequest, known, best)

startSync(peer, states) ==
    IF Cardinality(Registered(states)) < MinPeersForSync
    THEN syncPeer' = peer /\ peerStates' = states /\ NoRequest
    ELSE IF peer # NoPeer
    THEN SyncFrom(peer) /\ peerStates' = states
    ELSE /\ peerStates' = StrikeOff(states)
         /\ \/ \E p \in BestPeers(states) : SyncFrom(p)
            \/ BestPeers(states) = {} /\ syncPeer' = NoPeer /\ NoRequest

(***************************************************************************)
(* ReSyncBlockchain and ResyncBlockchainHeight: a rollback, then Resync.   *)
(* Rollback walks from the tip to an ancestor that becomes the tip, and    *)
(* RollbackToHeight puts the tip it found; headers above are deleted from  *)
(* the file.  A rollback that returns early changes nothing, and the call  *)
(* of Resync follows it in any case.                                       *)
(***************************************************************************)
Rollback(target) ==
    /\ target \in GetBlockLocator(known, best) \ {best}
    /\ best' = target
    /\ \E lost \in SUBSET {b \in known : Height[b] > Height[target]} : known' = known \ lost
    /\ UNCHANGED <<wsVars, conn, in, out, asked, tip>>

RollbackToHeight(height) ==
    /\ best # Checkpoint /\ height <= Height[best]
    /\ \E lost \in SUBSET {b \in known \ {best} : Height[b] >= height} : known' = known \ lost
    /\ UNCHANGED <<best, wsVars, conn, in, out, asked, tip>>

Resync ==
    /\ \A p \in Peer : Len(out[p]) < MaxQueue
    /\ startSync(syncPeer, peerStates)
    /\ UNCHANGED <<known, best, requestedTxns, mempool, recorded, takenBack, lastBlock, conn, in, tip>>

----------------------------------------------------------------------------
Receives(p, type) == in[p] # <<>> /\ Head(in[p]).type = type

Consume(p) == in' = [in EXCEPT ![p] = Tail(@)]

(* peer.Disconnect(): requests are lost, and of the messages that wait all *)
(* but the one the listener goroutine may already be sending.              *)
Hangup(p, waiting) ==
    /\ conn' = [conn EXCEPT ![p] = IF @ = "up" THEN "closed" ELSE @]
    /\ out' = [out EXCEPT ![p] = <<>>]
    /\ UNCHANGED asked
    /\ \E n \in {0} \cup ({1} \cap DOMAIN waiting) : in' = [in EXCEPT ![p] = SubSeq(waiting, 1, n)]

Disconnect(p) == Hangup(p, Tail(in[p]))

Ignore(p) == Consume(p) /\ NoRequest /\ UNCHANGED conn

handleNewPeerMsg(p) ==
    LET states == [peerStates EXCEPT ![p] = NewState(p)]
    IN  /\ Receives(p, "newPeer")
        /\ Consume(p)
        /\ IF syncPeer = NoPeer /\ ~Current(best, states, lastBlock)
           THEN startSync(NoPeer, states)
           ELSE peerStates' = states /\ UNCHANGED syncPeer /\ NoRequest
        /\ UNCHANGED <<known, best, requestedTxns, mempool, recorded, takenBack, lastBlock, conn, tip>>

(* The sync peer is replaced only if the wallet is not current.            *)
handleDonePeerMsg(p) ==
    LET states == [peerStates EXCEPT ![p] = NoState]
        theirs == {r[1] : r \in peerStates[p].requestedTxns}
    IN  /\ conn[p] = "closed"
        /\ conn' = [conn EXCEPT ![p] = "gone"]
        /\ IF ~peerStates[p].registered
           THEN NoRequest /\ UNCHANGED <<syncPeer, peerStates, requestedTxns>>
           ELSE /\ requestedTxns' = requestedTxns \ theirs
                /\ IF syncPeer = p /\ ~Current(best, states, lastBlock)
                   THEN startSync(NoPeer, states)
                   ELSE peerStates' = states /\ UNCHANGED syncPeer /\ NoRequest
        /\ UNCHANGED <<known, best, mempool, recorded, takenBack, lastBlock, in, tip>>

(* Headers up to the wallet's creation, then blocks.  A header that does   *)
(* not connect is skipped: the rollback that follows has no effect.        *)
handleHeadersMsg(p) ==
    LET headers == Head(in[p]).headers
        older   == SelectInSeq(headers, LAMBDA b : b \notin BeforeCreation)
        take    == IF older = 0 THEN headers ELSE SubSeq(headers, 1, older - 1)
    IN  /\ Receives(p, "headers")
        /\ IF p # syncPeer \/ ~peerStates[p].registered
           THEN Disconnect(p) /\ UNCHANGED <<known, best>>
           ELSE /\ Consume(p)
                /\ \E bad \in SUBSET ToSet(take) :
                      LET ch == CommitHeaders(take, bad)
                      IN  /\ known' = ch.known /\ best' = ch.best
                          /\ IF headers = <<>> THEN NoRequest
                             ELSE Push(p, IF older = 0 THEN "getheaders" ELSE "getblocks",
                                       ch.known, ch.best)
                /\ UNCHANGED conn
        /\ UNCHANGED <<wsVars, tip>>

(***************************************************************************)
(* handleMerkleBlockMsg.  A block that is not the new tip ends the handler *)
(* after its transactions are noted: "we can exit here if the block is     *)
(* already known".  The height of a block that is not put, because it is   *)
(* the tip or could not be checked, is 0.                                  *)
(***************************************************************************)
(* Mutant: the height of the next block.                                   *)
WithTxnsAbove(requested, b, height) ==
    {r \in requested : r[1] \notin Txns[b]} \cup (Txns[b] \X {height + 1})

(* Mutant: a transaction the store already has is not asked for again.     *)
WithUnseenTxns(requested, b, height) ==
    requested \cup ((Txns[b] \ {r[1] : r \in recorded}) \X {height})

WithTxns(requested, b, height) ==
    {r \in requested : r[1] \notin Txns[b]} \cup (Txns[b] \X {height})

(* The last part: download the next block or ask for more.                 *)
NextBlock(p, state, ks, bst, heights) ==
    LET queue == state.requestQueue
    IN  IF Current(bst, peerStates, heights)
        THEN NoRequest /\ peerStates' = [peerStates EXCEPT ![p] = state]
        ELSE IF queue = <<>>
        THEN /\ Push(p, "getblocks", ks, bst)
             /\ peerStates' = [peerStates EXCEPT ![p] = state]
        ELSE /\ GetData(p, {}, <<Head(queue)>>)
             /\ peerStates' = [peerStates EXCEPT ![p] =
                   [state EXCEPT !.requestQueue = Tail(queue),
                                 !.requestedBlocks = @ \cup {Head(queue)}]]

ProcessBlock(p, b, state, bad) ==
    LET ch      == CommitHeader(Chain, b, bad)
        newTip  == NewTip(Chain, b, bad)
        height  == IF b = best \/ ~Checks(Chain, b, bad) THEN 0 ELSE Height[b]
        heights == IF Current(ch.best, peerStates, lastBlock)
                   THEN [lastBlock EXCEPT ![p] = height] ELSE lastBlock
        noted   == [state EXCEPT !.requestedTxns = WithTxns(@, b, height)]
        reorg   == /\ newTip /\ PrevBlock[b] # best
                   /\ Current(b, peerStates, heights)
        ancestor == CommonAncestor(Chain, b)
        end     == IF reorg THEN ancestor ELSE ch.best
        above   == IF reorg THEN {r \in recorded : r[2] > Height[ancestor]} ELSE {}
        cleared == IF reorg THEN [noted EXCEPT !.requestQueue = <<>>, !.requestedBlocks = {}]
                            ELSE noted
    IN  /\ known' = ch.known
        /\ lastBlock' = heights
        /\ requestedTxns' = requestedTxns \cup Txns[b]
        /\ IF newTip
           THEN /\ best' = end
                /\ recorded' = recorded \ above
                /\ takenBack' = takenBack \cup above
                /\ mempool' = {}
                /\ NextBlock(p, cleared, ch.known, end, heights)
           ELSE /\ peerStates' = [peerStates EXCEPT ![p] = noted]
                /\ NoRequest /\ UNCHANGED <<best, recorded, takenBack, mempool>>

handleMerkleBlockMsg(p) ==
    LET b     == Head(in[p]).block
        state == [peerStates[p] EXCEPT !.requestedBlocks = @ \ {b}]
    IN  /\ Receives(p, "merkleblock")
        /\ UNCHANGED <<syncPeer, tip>>
        /\ IF p # syncPeer /\ ~IsCurrent
           THEN Ignore(p) /\ UNCHANGED <<known, best, wsVars>>
           ELSE IF ~peerStates[p].registered \/ b \notin peerStates[p].requestedBlocks
           THEN Disconnect(p) /\ UNCHANGED <<known, best, wsVars>>
           ELSE /\ Consume(p) /\ UNCHANGED conn
                /\ \E bad \in SUBSET {b} :
                      IF ~Refused(Chain, b, bad)
                      THEN ProcessBlock(p, b, state, bad)
                      ELSE /\ peerStates' = [peerStates EXCEPT ![p] = state]
                           /\ NoRequest
                           /\ UNCHANGED <<known, best, requestedTxns, mempool, recorded, takenBack,
                                          lastBlock>>

(* A block header is looked up in the chain, a transaction in mempool.     *)
haveInventory(inv) == inv \in known \/ inv \in mempool

(* The announced blocks that are new, in their order.                      *)
NewBlocks(blocks) ==
    LET new[i \in 0..Len(blocks)] ==
            IF i = 0 THEN <<>>
            ELSE IF haveInventory(blocks[i]) THEN new[i-1] ELSE Append(new[i-1], blocks[i])
    IN  new[Len(blocks)]

(***************************************************************************)
(* handleInvMsg.  Blocks go to the queue of the peer, one at a time is     *)
(* asked for; while current every announced block is queued, known or not. *)
(***************************************************************************)
handleInvMsg(p) ==
    LET msg     == Head(in[p])
        state   == peerStates[p]
        heights == IF /\ msg.blocks # <<>> /\ IsCurrent
                      /\ Last(msg.blocks) \in known
                   THEN [lastBlock EXCEPT ![p] = Height[Last(msg.blocks)]] ELSE lastBlock
        current == Current(best, peerStates, heights)
        idle    == state.requestQueue = <<>>
        wanted  == IF current THEN msg.blocks
                   ELSE IF idle THEN NewBlocks(msg.blocks) ELSE <<>>
        queue   == state.requestQueue \o wanted
        first   == IF queue # <<>> /\ (idle \/ current) THEN <<Head(queue)>> ELSE <<>>
        txs     == {t \in msg.txs : t \notin requestedTxns /\ ~haveInventory(t)}
    IN  /\ Receives(p, "inv")
        /\ Consume(p)
        /\ IF ~state.registered \/ (p # syncPeer /\ ~IsCurrent)
           THEN NoRequest /\ UNCHANGED wsVars
           ELSE /\ lastBlock' = heights
                /\ requestedTxns' = requestedTxns \cup txs
                /\ peerStates' = [peerStates EXCEPT ![p] =
                      [state EXCEPT !.requestQueue = SubSeq(queue, Len(first) + 1, Len(queue)),
                                    !.requestedBlocks = @ \cup ToSet(first),
                                    !.requestedTxns = {r \in @ : r[1] \notin txs} \cup (txs \X {0})]]
                /\ IF txs = {} /\ first = <<>> THEN NoRequest ELSE GetData(p, txs, first)
                /\ UNCHANGED <<syncPeer, mempool, recorded, takenBack>>
        /\ UNCHANGED <<known, best, conn, tip>>

(* The height to ingest at is the one noted when it was asked for.         *)
handleTxMsg(p) ==
    LET tx    == Head(in[p]).tx
        entry == {r \in peerStates[p].requestedTxns : r[1] = tx}
    IN  /\ Receives(p, "tx")
        /\ IF ~peerStates[p].registered
           THEN Ignore(p) /\ UNCHANGED wsVars
           ELSE IF entry = {}
           THEN Disconnect(p) /\ UNCHANGED wsVars
           ELSE /\ Ignore(p)
                /\ mempool' = mempool \cup {tx}
                /\ recorded' = recorded \cup entry
                /\ takenBack' = takenBack \ entry
                /\ peerStates' = [peerStates EXCEPT ![p].requestedTxns = @ \ entry]
                /\ requestedTxns' = requestedTxns \ {tx}
                /\ UNCHANGED <<syncPeer, lastBlock>>
        /\ UNCHANGED <<known, best, tip>>

----------------------------------------------------------------------------
(***************************************************************************)
(* The remote peers (external).                                            *)
(***************************************************************************)
PeerConnects(p) ==
    /\ conn[p] = "new"
    /\ conn' = [conn EXCEPT ![p] = "up"]
    /\ lastBlock' = [lastBlock EXCEPT ![p] = Height[tip[p]]]
    /\ in' = [in EXCEPT ![p] = <<[type |-> "newPeer"]>>]
    /\ UNCHANGED <<known, best, syncPeer, peerStates, requestedTxns, mempool, recorded, takenBack, out, asked, tip>>

PeerDisconnects(p) ==
    /\ conn[p] = "up"
    /\ Hangup(p, in[p])
    /\ UNCHANGED <<known, best, wsVars, tip>>

(* The blocks of p's chain after the point where the locator leaves it, or *)
(* from the start if p has none of its blocks.                             *)
After(p, locator) ==
    LET fork == Height[Highest(Lineage[tip[p]] \cap (locator \cup {Checkpoint}))]
        n    == Height[tip[p]] - fork
    IN  [i \in 1..(IF n < MaxInv THEN n ELSE MaxInv) |->
            CHOOSE b \in Lineage[tip[p]] : Height[b] = fork + i]

(* What p sends for a request; nothing if it has nothing after a locator,  *)
(* except that getheaders is always answered.                              *)
Answer(p, request) ==
    CASE request.type = "getblocks" ->
           IF After(p, request.locator) = <<>> THEN <<>>
           ELSE <<[type |-> "inv", blocks |-> After(p, request.locator), txs |-> {}]>>
      [] request.type = "getheaders" ->
           <<[type |-> "headers", headers |-> After(p, request.locator)]>>
      [] request.type = "getdata" ->
           LET TxMsgs(S) == [i \in 1..Cardinality(S) |->
                                [type |-> "tx", tx |-> SetToSeq(S)[i]]]
               blocks == request.blocks
           IN  TxMsgs(request.txs) \o
               (IF blocks = <<>> THEN <<>>
                ELSE <<[type |-> "merkleblock", block |-> blocks[1]]>> \o TxMsgs(Txns[blocks[1]]))

PeerAnswers(p) ==
    /\ conn[p] = "up" /\ out[p] # <<>>
    /\ out' = [out EXCEPT ![p] = Tail(@)]
    /\ in' = [in EXCEPT ![p] = @ \o Answer(p, Head(out[p]))]
    /\ UNCHANGED <<known, best, wsVars, conn, asked, tip>>

Announce(p, blocks, txs) ==
    IF conn[p] = "up"
    THEN Len(in[p]) < MaxQueue
         /\ in' = [in EXCEPT ![p] = Append(@, [type |-> "inv", blocks |-> blocks, txs |-> txs])]
    ELSE UNCHANGED in

(* p's best chain becomes a heavier one.                                   *)
PeerAdvances(p, b) ==
    /\ Work[b] > Work[tip[p]]
    /\ tip' = [tip EXCEPT ![p] = b]
    /\ Announce(p, <<b>>, {})
    /\ UNCHANGED <<known, best, wsVars, conn, out, asked>>

PeerAnnounces(p, t) ==
    /\ conn[p] = "up"
    /\ \A b \in Lineage[tip[p]] : t \notin Txns[b]
    /\ Announce(p, <<>>, {t})
    /\ UNCHANGED <<known, best, wsVars, conn, out, asked, tip>>

----------------------------------------------------------------------------
Init ==
    /\ known = {Checkpoint} /\ best = Checkpoint
    /\ syncPeer = NoPeer
    /\ peerStates = [p \in Peer |-> NoState]
    /\ requestedTxns = {} /\ mempool = {} /\ recorded = {} /\ takenBack = {}
    /\ lastBlock = [p \in Peer |-> 0]
    /\ conn = [p \in Peer |-> "new"]
    /\ in = [p \in Peer |-> <<>>] /\ out = [p \in Peer |-> <<>>]
    /\ asked = [p \in Peer |-> {}]
    /\ tip = FirstTip

Handle(p) ==
    \/ handleNewPeerMsg(p)
    \/ handleHeadersMsg(p)
    \/ handleMerkleBlockMsg(p)
    \/ handleInvMsg(p)
    \/ handleTxMsg(p)

PeerSteps(p) ==
    \/ PeerConnects(p)
    \/ PeerDisconnects(p)
    \/ PeerAnswers(p)
    \/ \E b \in Block : PeerAdvances(p, b)
    \/ \E t \in Unconfirmed : PeerAnnounces(p, t)

Step ==
    \/ \E p \in Peer : Handle(p) \/ handleDonePeerMsg(p) \/ PeerSteps(p)
    \/ Resync

Next ==
    \/ Step
    \/ \E b \in RollbackTo : Rollback(b)
    \/ \E n \in RollbackHeights : RollbackToHeight(n)

(* msgChan serves blocked senders in turn, so no peer's message waits for  *)
(* ever; a connected peer answers.  Nothing else is assumed: peers need    *)
(* not connect, and may leave.                                             *)
Fairness ==
    \A p \in Peer : /\ WF_vars(Handle(p))
                    /\ WF_vars(handleDonePeerMsg(p))
                    /\ WF_vars(PeerAnswers(p))

Spec == Init /\ [][Next]_vars
(* A wallet whose user asks for no rollback.                               *)
FairSpec == Init /\ [][Step]_vars /\ Fairness
----------------------------------------------------------------------------
(***************************************************************************)
(* Properties.                                                             *)
(***************************************************************************)
Message ==
    [type : {"newPeer"}] \cup [type : {"tx"}, tx : Tx] \cup [type : {"merkleblock"}, block : Block]
    \cup [type : {"headers"}, headers : Seq(Block)]
    \cup [type : {"inv"}, blocks : Seq(Block), txs : SUBSET Tx]

TypeOK ==
    /\ known \subseteq Block /\ best \in known
    /\ syncPeer \in Peer \cup {NoPeer}
    /\ \A p \in Registered(peerStates) :
          /\ peerStates[p].syncCandidate \in BOOLEAN
          /\ peerStates[p].requestQueue \in Seq(Block)
          /\ peerStates[p].requestedBlocks \subseteq Block
          /\ peerStates[p].requestedTxns \subseteq Tx \X Nat
    /\ requestedTxns \subseteq Tx /\ mempool \subseteq Tx
    /\ recorded \subseteq Tx \X Nat /\ takenBack \subseteq Tx \X Nat
    /\ lastBlock \in [Peer -> Nat]
    /\ conn \in [Peer -> {"new", "up", "closed", "gone"}]
    /\ in \in [Peer -> Seq(Message)]
    /\ tip \in [Peer -> Block]

(* A height noted with a request is used when the transaction arrives,     *)
(* after other blocks, other peers and reorganisations: what is ingested   *)
(* as confirmed is in a block, at exactly that height.                     *)
HeightsTrue ==
    \A r \in recorded : r[2] # 0 => \E b \in Block : r[1] \in Txns[b] /\ Height[b] = r[2]

Noted == UNION {peerStates[p].requestedTxns : p \in Registered(peerStates)}

Missed == {b \in Lineage[best] \ (BeforeCreation \cup {Checkpoint}) :
              \E t \in Txns[b] : <<t, Height[b]>> \notin recorded \cup Noted \cup takenBack}

(* As long as every peer that connected stays, the wallet learns of every  *)
(* transaction the filter matches: each one in a block of the best chain   *)
(* is in the store with its height, or has been noted to come from a peer, *)
(* whatever branches the download went through.  The one thing that makes  *)
(* the store forget is processReorg: what it took back of a branch that    *)
(* was known already is not asked for again.                               *)
NoTxMissed == (\A p \in Peer : conn[p] \in {"new", "up"}) => Missed = {}

(* "This will cause a new chain sync from the reorg point": the tip that   *)
(* was put back moves forward again, to the heaviest header we know.       *)
ReorgResynced ==
    \A p \in Peer : <>[](syncPeer = p /\ conn[p] = "up") =>
        []<>(\A b \in known : Work[b] <= Work[best])

(* "If we don't have a sync peer and we are not current we should start a  *)
(* sync": a peer that has more blocks than the wallet and stays is         *)
(* eventually caught up with.                                              *)
SyncStarts ==
    \A p \in Peer : <>[](conn[p] = "up") => []<>(Height[best] >= Height[tip[p]])
=============================================================================
