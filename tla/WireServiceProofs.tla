-------------------------- MODULE WireServiceProofs --------------------------
(***************************************************************************)
(* Proofs about module WireService, for every tree of blocks, any number   *)
(* of peers and messages of any length.                                    *)
(***************************************************************************)
EXTENDS WireService, NatLemmas, FiniteSetTheorems, SequenceTheorems, TLAPS

(***************************************************************************)
(* The tree of blocks.                                                     *)
(***************************************************************************)

(* A block is in its own lineage, and with a block its parent is.          *)
LEMMA LineageClosed ==
    ASSUME NEW b \in Block
    PROVE  /\ Lineage[b] \subseteq Block
           /\ b \in Lineage[b]
           /\ \A x \in Lineage[b] \ {Checkpoint} : PrevBlock[x] \in Lineage[b]
<1>1. \A x \in Block \ {Checkpoint} : PrevBlock[x] \in Block
  BY WireAssumption
<1> QED BY <1>1 DEF Lineage

(* What holds of a block and, if of a block, of its parent, holds of every *)
(* block in its lineage.                                                   *)
LEMMA LineageInduction ==
    ASSUME NEW b \in Block, NEW C \in SUBSET Block, b \in C,
           \A x \in C \ {Checkpoint} : PrevBlock[x] \in C
    PROVE  Lineage[b] \subseteq C
  BY DEF Lineage

(* Nothing in a lineage is higher than the block.                          *)
LEMMA LineageHeight ==
    ASSUME NEW b \in Block, NEW a \in Lineage[b]
    PROVE  Height[a] <= Height[b]
<1> DEFINE C == {x \in Block : Height[x] <= Height[b]}
<1>1. C \in SUBSET Block /\ b \in C
  BY WireAssumption
<1>2. \A x \in C \ {Checkpoint} : PrevBlock[x] \in C
  BY WireAssumption
<1>3. Lineage[b] \subseteq C
  <2> HIDE DEF C
  <2> QED BY <1>1, <1>2, LineageInduction
<1> QED BY <1>3

(* Every lineage goes down to the checkpoint, since heights end at 0.      *)
LEMMA LineageRoot ==
    ASSUME NEW b \in Block
    PROVE  Checkpoint \in Lineage[b] /\ Height[Checkpoint] <= Height[b]
<1> DEFINE T == {Height[a] : a \in Lineage[b]}
<1>1. Lineage[b] \subseteq Block /\ b \in Lineage[b]
  BY LineageClosed
<1>2. T \in SUBSET Nat /\ Height[b] \in T
  BY <1>1, WireAssumption
<1>3. PICK n \in T : \A j \in T : n <= j
  <2> HIDE DEF T
  <2> QED BY <1>2, LeastNat
<1>4. PICK a \in Lineage[b] : n = Height[a]
  BY <1>3
<1>5. a = Checkpoint
  <2> SUFFICES ASSUME a # Checkpoint PROVE FALSE
    OBVIOUS
  <2>1. PrevBlock[a] \in Lineage[b]
    BY LineageClosed
  <2>2. Height[a] = Height[PrevBlock[a]] + 1 /\ Height[PrevBlock[a]] \in Nat
    BY <1>1, <2>1, WireAssumption
  <2>3. Height[a] <= Height[PrevBlock[a]]
    BY <1>3, <1>4, <2>1
  <2> QED BY <2>2, <2>3
<1> QED BY <1>4, <1>5, LineageHeight

(* It has a block of every height from the checkpoint's to its own.        *)
LEMMA LineageEvery ==
    ASSUME NEW b \in Block, NEW k \in Height[Checkpoint]..Height[b]
    PROVE  \E a \in Lineage[b] : Height[a] = k
<1>0. Height[b] \in Nat /\ Checkpoint \in Block /\ Height[Checkpoint] \in Nat
  BY WireAssumption
<1> DEFINE S == {n \in Nat : n <= Height[b] - Height[Checkpoint] =>
                                \E a \in Lineage[b] : Height[a] = Height[b] - n}
<1>1. 0 \in S
  BY <1>0, LineageClosed
<1>2. ASSUME NEW n \in Nat, n \in S PROVE n + 1 \in S
  <2> SUFFICES ASSUME n + 1 <= Height[b] - Height[Checkpoint]
               PROVE  \E a \in Lineage[b] : Height[a] = Height[b] - (n + 1)
    OBVIOUS
  <2>1. PICK a \in Lineage[b] : Height[a] = Height[b] - n
    BY <1>0, <1>2
  <2>2. a # Checkpoint /\ a \in Block
    BY <1>0, <2>1, LineageClosed
  <2>3. PrevBlock[a] \in Lineage[b]
    BY <2>2, LineageClosed
  <2>4. Height[a] = Height[PrevBlock[a]] + 1 /\ Height[PrevBlock[a]] \in Nat
    BY <2>2, WireAssumption
  <2>5. Height[PrevBlock[a]] = Height[b] - (n + 1)
    BY <1>0, <2>1, <2>4
  <2> QED BY <2>3, <2>5
<1> HIDE DEF S
<1>3. Nat \subseteq S
  BY <1>1, <1>2, NatSetInduction
<1>4. Height[b] - k \in Nat /\ Height[b] - k <= Height[b] - Height[Checkpoint]
      /\ Height[b] - (Height[b] - k) = k
  BY <1>0
<1> QED BY <1>3, <1>4 DEF S

(* Of the blocks two chains share there is a highest.                      *)
LEMMA HighestLemma ==
    ASSUME NEW b \in Block, NEW S \in SUBSET Lineage[b], S # {}
    PROVE  Highest(S) \in S
<1> DEFINE T == {Height[b] - Height[a] : a \in S}
<1>1. \A a \in S : Height[a] \in Nat /\ Height[a] <= Height[b] /\ Height[b] \in Nat
  BY LineageClosed, LineageHeight, WireAssumption
<1>2. T \in SUBSET Nat
  BY <1>1
<1>3. PICK n \in T : \A j \in T : n <= j
  <2>1. T # {}
    OBVIOUS
  <2> HIDE DEF T
  <2> QED BY <1>2, <2>1, LeastNat
<1>4. PICK a \in S : n = Height[b] - Height[a]
  BY <1>3
<1>5. \A c \in S : Height[c] <= Height[a]
  <2> SUFFICES ASSUME NEW c \in S PROVE Height[c] <= Height[a]
    OBVIOUS
  <2>1. Height[b] - Height[c] \in T
    OBVIOUS
  <2>2. Height[b] - Height[a] <= Height[b] - Height[c]
    BY <1>3, <1>4, <2>1
  <2> QED BY <1>1, <2>2
<1> QED BY <1>5 DEF Highest

----------------------------------------------------------------------------
(***************************************************************************)
(* The invariant.  To the types it adds what the requests in flight ask    *)
(* for, which is what the answers hold.                                    *)
(***************************************************************************)
ChainOK(ch) == ch.known \subseteq Block /\ ch.best \in ch.known

State == [registered : {TRUE}, syncCandidate : BOOLEAN, requestQueue : Seq(Block),
          requestedBlocks : SUBSET Block, requestedTxns : SUBSET (Tx \X Nat)]

States == [Peer -> State \cup {NoState}]

Request ==
    [type : {"getblocks", "getheaders"}, locator : SUBSET Block]
    \cup [type : {"getdata"}, txs : SUBSET Tx, blocks : Seq(Block)]

WalletType ==
    /\ syncPeer \in Peer \cup {NoPeer}
    /\ peerStates \in States
    /\ requestedTxns \subseteq Tx /\ mempool \subseteq Tx
    /\ recorded \subseteq Tx \X Nat /\ takenBack \subseteq Tx \X Nat
    /\ lastBlock \in [Peer -> Nat]

RequestType ==
    /\ out \in [Peer -> Seq(Request)]
    /\ asked \in [Peer -> SUBSET ({"getblocks", "getheaders"} \X Block)]

NetType ==
    /\ conn \in [Peer -> {"new", "up", "closed", "gone"}]
    /\ in \in [Peer -> Seq(Message)]
    /\ tip \in [Peer -> Block]

WInv == ChainOK(Chain) /\ WalletType /\ RequestType /\ NetType

(* The requests the handlers send.                                         *)
LEMMA PushLemma ==
    ASSUME RequestType, NEW p \in Peer, NEW type \in {"getblocks", "getheaders"},
           NEW ks, NEW bst \in Block, Push(p, type, ks, bst)
    PROVE  RequestType'
<1> DEFINE request == [type |-> type, locator |-> GetBlockLocator(ks, bst)]
<1>1. CASE NoRequest
  BY <1>1 DEF NoRequest, RequestType
<1>2. CASE /\ out' = [out EXCEPT ![p] = Append(@, request)]
           /\ asked' = [asked EXCEPT ![p] = {r \in @ : r[1] # type} \cup {<<type, bst>>}]
  <2>1. GetBlockLocator(ks, bst) \in SUBSET Block
    BY LineageClosed DEF GetBlockLocator
  <2>2. request \in Request
    BY <2>1 DEF Request
  <2> HIDE DEF request
  <2>3. Append(out[p], request) \in Seq(Request)
    BY <2>2 DEF RequestType
  <2>4. out' \in [Peer -> Seq(Request)]
    BY <1>2, <2>3 DEF RequestType
  <2>5. asked' \in [Peer -> SUBSET ({"getblocks", "getheaders"} \X Block)]
    BY <1>2 DEF RequestType
  <2> QED BY <2>4, <2>5 DEF RequestType
<1> QED BY <1>1, <1>2 DEF Push

LEMMA GetDataLemma ==
    ASSUME RequestType, NEW p \in Peer, NEW txs \in SUBSET Tx, NEW blocks \in Seq(Block),
           GetData(p, txs, blocks)
    PROVE  RequestType'
<1> DEFINE request == [type |-> "getdata", txs |-> txs, blocks |-> blocks]
<1>1. CASE NoRequest
  BY <1>1 DEF NoRequest, RequestType
<1>2. CASE out' = [out EXCEPT ![p] = Append(@, request)] /\ UNCHANGED asked
  <2>1. request \in Request
    BY DEF Request
  <2> HIDE DEF request
  <2>2. Append(out[p], request) \in Seq(Request)
    BY <2>1 DEF RequestType
  <2> QED BY <1>2, <2>2 DEF RequestType
<1> QED BY <1>1, <1>2 DEF GetData

LEMMA NoRequestLemma == RequestType /\ NoRequest => RequestType'
  BY DEF RequestType, NoRequest

(* A message of a peer is consumed.                                        *)
LEMMA ConsumeLemma ==
    ASSUME NetType, NEW p \in Peer, in[p] # <<>>, Consume(p)
    PROVE  in' \in [Peer -> Seq(Message)] /\ Head(in[p]) \in Message
<1>1. in[p] \in Seq(Message) /\ Tail(in[p]) \in Seq(Message) /\ Head(in[p]) \in Message
  BY DEF NetType
<1> QED BY <1>1 DEF Consume, NetType

(* What is left of a peer that is disconnected.                            *)
LEMMA HangupLemma ==
    ASSUME RequestType, NetType, NEW p \in Peer, NEW waiting \in Seq(Message),
           Hangup(p, waiting), tip' = tip
    PROVE  RequestType' /\ NetType'
<1>1. PICK n \in {0} \cup ({1} \cap DOMAIN waiting) : in' = [in EXCEPT ![p] = SubSeq(waiting, 1, n)]
  BY DEF Hangup
<1>2. SubSeq(waiting, 1, n) \in Seq(Message)
  OBVIOUS
<1>3. in' \in [Peer -> Seq(Message)]
  BY <1>1, <1>2 DEF NetType
<1>4. conn' \in [Peer -> {"new", "up", "closed", "gone"}]
  BY DEF Hangup, NetType
<1>5. out' \in [Peer -> Seq(Request)] /\ asked' = asked
  BY DEF Hangup, RequestType
<1> QED BY <1>3, <1>4, <1>5 DEF NetType, RequestType

LEMMA DisconnectLemma ==
    ASSUME RequestType, NetType, NEW p \in Peer, in[p] # <<>>, Disconnect(p), tip' = tip
    PROVE  RequestType' /\ NetType'
<1>1. Tail(in[p]) \in Seq(Message)
  BY DEF NetType
<1> QED BY <1>1, HangupLemma DEF Disconnect

LEMMA IgnoreLemma ==
    ASSUME RequestType, NetType, NEW p \in Peer, in[p] # <<>>, Ignore(p), tip' = tip
    PROVE  RequestType' /\ NetType'
  BY ConsumeLemma, NoRequestLemma DEF Ignore, NetType

(* startSync chooses a peer and at most strikes candidates off: what was   *)
(* asked of the peers is still noted.                                      *)
LEMMA StartSyncLemma ==
    ASSUME ChainOK(Chain), RequestType, NEW peer \in Peer \cup {NoPeer}, NEW states \in States,
           startSync(peer, states)
    PROVE  /\ syncPeer' \in Peer \cup {NoPeer}
           /\ peerStates' \in States
           /\ \A q \in Peer : /\ peerStates'[q].registered = states[q].registered
                              /\ states[q].registered =>
                                    peerStates'[q].requestedTxns = states[q].requestedTxns
           /\ RequestType'
<1>1. StrikeOff(states) \in States
      /\ \A q \in Peer : /\ StrikeOff(states)[q].registered = states[q].registered
                         /\ states[q].registered =>
                               StrikeOff(states)[q].requestedTxns = states[q].requestedTxns
  <2>1. ASSUME NEW q \in Peer
        PROVE  /\ StrikeOff(states)[q] \in State \cup {NoState}
               /\ StrikeOff(states)[q].registered = states[q].registered
               /\ states[q].registered =>
                     StrikeOff(states)[q].requestedTxns = states[q].requestedTxns
    <3>1. states[q] \in State \cup {NoState}
      BY DEF States
    <3>2. CASE states[q] \in State
      <4>1. [states[q] EXCEPT !.syncCandidate = FALSE] \in State
        BY <3>2 DEF State
      <4> QED BY <3>2, <4>1 DEF StrikeOff, State
    <3>3. CASE states[q] = NoState
      BY <3>3 DEF StrikeOff, NoState
    <3> QED BY <3>1, <3>2, <3>3
  <2> QED BY <2>1 DEF States, StrikeOff
<1>2. best \in Block
  BY DEF ChainOK, Chain
<1>3. SyncRequest \in {"getblocks", "getheaders"}
  BY DEF SyncRequest
<1>4. ASSUME NEW p \in Peer, SyncFrom(p) PROVE syncPeer' = p /\ RequestType'
  BY <1>2, <1>3, <1>4, PushLemma DEF SyncFrom
<1>5. BestPeers(states) \subseteq Peer
  BY DEF BestPeers, Candidates, Registered
<1>6. CASE peerStates' = states
  BY <1>4, <1>5, <1>6, NoRequestLemma DEF startSync
<1>7. CASE peerStates' = StrikeOff(states)
  BY <1>1, <1>4, <1>5, <1>7, NoRequestLemma DEF startSync
<1> QED BY <1>6, <1>7 DEF startSync

----------------------------------------------------------------------------
(* A block and the ones below it; the blocks below the headers found.      *)
LEMMA LineageStep ==
    ASSUME NEW b \in Block \ {Checkpoint}
    PROVE  Lineage[b] \subseteq {b} \cup Lineage[PrevBlock[b]]
<1> DEFINE C == {b} \cup Lineage[PrevBlock[b]]
<1>1. PrevBlock[b] \in Block
  BY WireAssumption
<1>2. C \in SUBSET Block /\ b \in C /\ \A x \in C \ {Checkpoint} : PrevBlock[x] \in C
  BY <1>1, LineageClosed
<1> HIDE DEF C
<1>3. Lineage[b] \subseteq C
  BY <1>2, LineageInduction
<1> QED BY <1>3 DEF C

Below(ks) == {a \in Block : \E k \in ks : a \in Lineage[k]}

LEMMA BelowLemma ==
    ASSUME NEW ks \in SUBSET Block
    PROVE  /\ ks \subseteq Below(ks)
           /\ \A kt \in SUBSET ks : Below(kt) \subseteq Below(ks)
           /\ \A b \in Block \ {Checkpoint} :
                 PrevBlock[b] \in ks => Below(ks \cup {b}) \subseteq Below(ks) \cup {b}
  BY LineageClosed, LineageStep DEF Below

(* CommitHeader forgets no header, and the one it may add stands on one    *)
(* that was found.                                                         *)
LEMMA CommitLemma ==
    ASSUME NEW ch, ChainOK(ch), NEW b \in Block, NEW bad
    PROVE  /\ CommitHeader(ch, b, bad) \in [known : SUBSET Block, best : Block]
           /\ ChainOK(CommitHeader(ch, b, bad))
           /\ ch.known \subseteq CommitHeader(ch, b, bad).known
           /\ CommitHeader(ch, b, bad).known \subseteq ch.known \cup {b}
           /\ Below(CommitHeader(ch, b, bad).known) \subseteq Below(ch.known) \cup {b}
           /\ NewTip(ch, b, bad) => b \in CommitHeader(ch, b, bad).known
<1> DEFINE c == CommitHeader(ch, b, bad)
<1>1. /\ c \in [known : SUBSET Block, best : Block] /\ ChainOK(c)
      /\ NewTip(ch, b, bad) => b \in c.known
  BY DEF CommitHeader, ChainOK, NewTip, Heavier
<1>2. /\ ch.known \subseteq c.known /\ c.known \subseteq ch.known \cup {b}
      /\ c.known = ch.known \/ (c.known = ch.known \cup {b} /\ Connects(ch, b))
  BY DEF CommitHeader, Refused
<1> HIDE DEF c
<1>3. Below(c.known) \subseteq Below(ch.known) \cup {b}
  <2>1. ch.known \in SUBSET Block
    BY DEF ChainOK
  <2> QED BY <1>2, <2>1, BelowLemma DEF Connects
<1> QED BY <1>1, <1>2, <1>3 DEF c

(* So does a message full of headers.                                      *)
LEMMA CommitHeadersLemma ==
    ASSUME ChainOK(Chain), NEW headers \in Seq(Block), NEW bad
    PROVE  /\ ChainOK(CommitHeaders(headers, bad))
           /\ Below(CommitHeaders(headers, bad).known) \subseteq
                 Below(known) \cup {headers[i] : i \in 1..Len(headers)}
<1> DEFINE n == Len(headers)
           H == {headers[i] : i \in 1..n}
           X == {c \in [known : SUBSET Block, best : Block] :
                    ChainOK(c) /\ Below(c.known) \subseteq Below(known) \cup H}
           F == [i \in 1..n |-> [c \in X |-> CommitHeader(c, headers[i], bad)]]
           Is(f) == f = [i \in 0..n |-> IF i = 0 THEN Chain ELSE CommitHeader(f[i-1], headers[i], bad)]
<1>1. n \in Nat /\ \A i \in 1..n : headers[i] \in Block
  OBVIOUS
<1>2. Chain \in X
  BY DEF Chain, ChainOK
<1>3. ASSUME NEW c \in X, NEW i \in 1..n PROVE CommitHeader(c, headers[i], bad) \in X
  <2>1. headers[i] \in Block /\ headers[i] \in H /\ ChainOK(c)
    BY <1>1
  <2> DEFINE d == CommitHeader(c, headers[i], bad)
  <2> HIDE DEF H, n
  <2>2. /\ d \in [known : SUBSET Block, best : Block] /\ ChainOK(d)
        /\ Below(d.known) \subseteq Below(c.known) \cup {headers[i]}
    BY <2>1, CommitLemma
  <2>3. Below(c.known) \subseteq Below(known) \cup H
    OBVIOUS
  <2> HIDE DEF d
  <2>4. Below(d.known) \subseteq Below(known) \cup H
    BY <2>1, <2>2, <2>3
  <2>5. d \in X
    BY <2>2, <2>4
  <2> QED BY <2>5 DEF d
<1>4. F \in [1..n -> [X -> X]]
  BY <1>3
<1> HIDE DEF X, n
<1>5. \E f : Is(f)
  <2>0. \A c \in X, i \in 1..n : F[i][c] = CommitHeader(c, headers[i], bad)
    OBVIOUS
  <2> HIDE DEF F
  <2>1. PICK f \in [0..n -> X] : IsLoop(f, Chain, n, F)
    BY <1>1, <1>2, <1>4, LoopExists
  <2>2. \A i \in 0..n : f[i] = IF i = 0 THEN Chain ELSE CommitHeader(f[i-1], headers[i], bad)
    <3> SUFFICES ASSUME NEW i \in 0..n, i # 0 PROVE f[i] = CommitHeader(f[i-1], headers[i], bad)
      BY <2>1 DEF IsLoop
    <3>1. i \in 1..n /\ i - 1 \in 0..n
      BY <1>1
    <3> QED BY <2>0, <2>1, <3>1 DEF IsLoop
  <2>3. Is(f)
    BY <2>1, <2>2
  <2> QED BY <2>3
<1> DEFINE g == CHOOSE f : Is(f)
<1>6. Is(g)
  BY <1>5
<1>7. CommitHeaders(headers, bad) = g[n]
  BY DEF CommitHeaders, n
<1> HIDE DEF g
<1>8. g[0] = Chain /\ \A i \in 1..n : g[i] = CommitHeader(g[i-1], headers[i], bad)
  BY <1>1, <1>6
<1> DEFINE S == {i \in Nat : i <= n => g[i] \in X}
<1>9. 0 \in S
  BY <1>2, <1>8
<1>10. ASSUME NEW i \in Nat, i \in S PROVE i + 1 \in S
  <2> SUFFICES ASSUME i + 1 <= n PROVE g[i+1] \in X
    OBVIOUS
  <2>1. i + 1 \in 1..n /\ (i + 1) - 1 = i /\ g[i] \in X
    BY <1>1, <1>10
  <2>2. g[i+1] = CommitHeader(g[i], headers[i+1], bad)
    BY <1>8, <2>1
  <2> QED BY <1>3, <2>1, <2>2
<1> HIDE DEF S
<1>11. Nat \subseteq S
  BY <1>9, <1>10, NatSetInduction
<1>12. g[n] \in X
  BY <1>1, <1>11 DEF S
<1> QED BY <1>7, <1>12 DEF X, n

(* The headers before the first that is not older than the wallet.         *)
LEMMA OlderLemma ==
    ASSUME NEW headers \in Seq(Block)
    PROVE  LET older == SelectInSeq(headers, LAMBDA b : b \notin BeforeCreation)
           IN  /\ older \in 0..Len(headers)
               /\ \A i \in 1..Len(headers) : older = 0 \/ i < older => headers[i] \in BeforeCreation
<1> DEFINE I == {i \in 1..Len(headers) : headers[i] \notin BeforeCreation}
<1>1. SelectInSeq(headers, LAMBDA b : b \notin BeforeCreation) = IF I # {} THEN Min(I) ELSE 0
  BY DEF SelectInSeq
<1>2. ASSUME I # {} PROVE Min(I) \in I /\ \A i \in I : Min(I) <= i
  <2>1. I \in SUBSET Nat
    OBVIOUS
  <2> HIDE DEF I
  <2>2. \E i \in I : \A j \in I : i <= j
    BY <1>2, <2>1, LeastNat
  <2> QED BY <2>2 DEF Min
<1> DEFINE older == SelectInSeq(headers, LAMBDA b : b \notin BeforeCreation)
<1>3. older \in 0..Len(headers)
  BY <1>1, <1>2
<1>4. ASSUME NEW i \in 1..Len(headers), older = 0 \/ i < older PROVE headers[i] \in BeforeCreation
  <2> SUFFICES ASSUME i \in I PROVE FALSE
    OBVIOUS
  <2>1. older = Min(I) /\ Min(I) \in I /\ Min(I) <= i
    BY <1>1, <1>2
  <2>2. Min(I) \in 1..Len(headers)
    BY <2>1
  <2> QED BY <1>4, <2>1, <2>2
<1> QED BY <1>3, <1>4

(* The new blocks of an inv message are blocks of it.                      *)
LEMMA NewBlocksLemma ==
    ASSUME NEW blocks \in Seq(Block)
    PROVE  NewBlocks(blocks) \in Seq(Block)
<1> DEFINE n == Len(blocks)
           X == Seq(Block)
           Add(q, i) == IF haveInventory(blocks[i]) THEN q ELSE Append(q, blocks[i])
           F == [i \in 1..n |-> [q \in X |-> Add(q, i)]]
           Is(f) == f = [i \in 0..n |-> IF i = 0 THEN <<>>
                            ELSE IF haveInventory(blocks[i]) THEN f[i-1]
                            ELSE Append(f[i-1], blocks[i])]
<1>1. n \in Nat /\ (\A i \in 1..n : blocks[i] \in Block) /\ <<>> \in X
  OBVIOUS
<1>2. \A q \in X, i \in 1..n : Add(q, i) \in X
  BY <1>1
<1>3. F \in [1..n -> [X -> X]]
  BY <1>2
<1> HIDE DEF n, X
<1>4. \E f : Is(f)
  <2>0. \A q \in X, i \in 1..n : F[i][q] = Add(q, i)
    OBVIOUS
  <2> HIDE DEF F
  <2>1. PICK f \in [0..n -> X] : IsLoop(f, <<>>, n, F)
    BY <1>1, <1>3, LoopExists
  <2>2. \A i \in 0..n : f[i] = IF i = 0 THEN <<>> ELSE Add(f[i-1], i)
    <3> SUFFICES ASSUME NEW i \in 0..n, i # 0 PROVE f[i] = Add(f[i-1], i)
      BY <2>1 DEF IsLoop
    <3>1. i \in 1..n /\ i - 1 \in 0..n
      BY <1>1
    <3> QED BY <2>0, <2>1, <3>1 DEF IsLoop
  <2>3. Is(f)
    BY <2>1, <2>2
  <2> QED BY <2>3
<1> DEFINE g == CHOOSE f : Is(f)
<1>5. Is(g)
  BY <1>4
<1>6. NewBlocks(blocks) = g[n]
  BY DEF NewBlocks, n
<1> HIDE DEF g
<1>7. g[0] = <<>> /\ \A i \in 1..n : g[i] = Add(g[i-1], i)
  <2>1. \A i \in 0..n : g[i] = IF i = 0 THEN <<>>
                               ELSE IF haveInventory(blocks[i]) THEN g[i-1]
                               ELSE Append(g[i-1], blocks[i])
    BY <1>5
  <2>2. 0 \in 0..n /\ \A i \in 1..n : i \in 0..n /\ i # 0
    BY <1>1
  <2> QED BY ONLY <2>1, <2>2, Zenon DEF Add
<1> DEFINE S == {i \in Nat : i <= n => g[i] \in X}
<1> HIDE DEF Add
<1>8. 0 \in S
  BY <1>1, <1>7
<1>9. ASSUME NEW i \in Nat, i \in S PROVE i + 1 \in S
  <2> SUFFICES ASSUME i + 1 <= n PROVE g[i+1] \in X
    OBVIOUS
  <2>1. i + 1 \in 1..n /\ (i + 1) - 1 = i /\ g[i] \in X
    BY <1>1, <1>9
  <2>2. g[i+1] = Add(g[i], i+1)
    BY <1>7, <2>1
  <2> QED BY <1>2, <2>1, <2>2
<1> HIDE DEF S
<1>10. Nat \subseteq S
  BY <1>8, <1>9, NatSetInduction
<1> QED BY <1>1, <1>6, <1>10 DEF S, X

----------------------------------------------------------------------------
(* What a peer sends is made of blocks of its chain.                       *)
LEMMA AfterLemma ==
    ASSUME NetType, NEW p \in Peer, NEW locator
    PROVE  After(p, locator) \in Seq(Block)
<1> DEFINE top  == tip[p]
           fork == Height[Highest(Lineage[top] \cap (locator \cup {Checkpoint}))]
           n    == Height[top] - fork
           m    == IF n < MaxInv THEN n ELSE MaxInv
           At(i) == CHOOSE a \in Lineage[top] : Height[a] = fork + i
<1>1. top \in Block
  BY DEF NetType
<1> HIDE DEF top
<1>2. Highest(Lineage[top] \cap (locator \cup {Checkpoint})) \in Lineage[top]
  <2>1. Checkpoint \in Lineage[top] \cap (locator \cup {Checkpoint})
    BY <1>1, LineageRoot
  <2> QED BY <1>1, <2>1, HighestLemma
<1>3. /\ fork \in Nat /\ fork <= Height[top] /\ Height[top] \in Nat
      /\ Height[Checkpoint] \in Nat /\ Height[Checkpoint] <= fork
  <2>1. Highest(Lineage[top] \cap (locator \cup {Checkpoint})) \in Block
    BY <1>1, <1>2, LineageClosed
  <2> QED BY <1>1, <1>2, <2>1, LineageHeight, LineageRoot, WireAssumption
<1> HIDE DEF fork
<1>4. m \in Nat /\ m <= n
  BY <1>3, WireAssumption
<1>5. ASSUME NEW i \in 1..m PROVE At(i) \in Block
  <2>1. fork + i \in Height[Checkpoint]..Height[top]
    BY <1>3, <1>4
  <2>2. \E a \in Lineage[top] : Height[a] = fork + i
    BY <1>1, <2>1, LineageEvery
  <2>3. At(i) \in Lineage[top]
    BY <2>2
  <2> QED BY <1>1, <2>3, LineageClosed
<1> HIDE DEF m, At
<1>6. [i \in 1..m |-> At(i)] \in Seq(Block)
  BY <1>4, <1>5
<1> QED BY <1>6 DEF After, m, n, fork, top, At

(* Its transactions are listed one message each.                           *)
LEMMA TxMsgsLemma ==
    ASSUME NEW S \in SUBSET Tx
    PROVE  [i \in 1..Cardinality(S) |-> [type |-> "tx", tx |-> SetToSeq(S)[i]]] \in Seq(Message)
<1>1. IsFiniteSet(S)
  BY FS_Subset, WireAssumption
<1>2. Cardinality(S) \in Nat /\ ExistsBijection(1..Cardinality(S), S)
  BY <1>1, FS_CardinalityType
<1>3. \E f \in [1..Cardinality(S) -> S] : IsInjective(f)
  BY <1>2 DEF ExistsBijection, Bijection, Injection, IsInjective
<1>4. SetToSeq(S) \in [1..Cardinality(S) -> S]
  BY <1>3 DEF SetToSeq
<1>5. \A i \in 1..Cardinality(S) : [type |-> "tx", tx |-> SetToSeq(S)[i]] \in Message
  BY <1>4 DEF Message
<1> QED BY <1>2, <1>5

LEMMA AnswerLemma ==
    ASSUME NetType, NEW p \in Peer, NEW request \in Request
    PROVE  Answer(p, request) \in Seq(Message)
<1>1. CASE request \in [type : {"getblocks", "getheaders"}, locator : SUBSET Block]
  <2>1. request.type \in {"getblocks", "getheaders"}
        /\ After(p, request.locator) \in Seq(Block)
    BY <1>1, AfterLemma
  <2>2. /\ [type |-> "inv", blocks |-> After(p, request.locator), txs |-> {}] \in Message
        /\ [type |-> "headers", headers |-> After(p, request.locator)] \in Message
    BY <2>1 DEF Message
  <2> QED BY <2>1, <2>2 DEF Answer
<1>2. CASE request \in [type : {"getdata"}, txs : SUBSET Tx, blocks : Seq(Block)]
  <2> DEFINE TxMsgs(S) == [i \in 1..Cardinality(S) |-> [type |-> "tx", tx |-> SetToSeq(S)[i]]]
             blocks == request.blocks
             found  == IF blocks = <<>> THEN <<>>
                       ELSE <<[type |-> "merkleblock", block |-> blocks[1]]>> \o TxMsgs(Txns[blocks[1]])
  <2>1. request.type = "getdata" /\ blocks \in Seq(Block) /\ request.txs \in SUBSET Tx
    BY <1>2
  <2>2. Answer(p, request) = TxMsgs(request.txs) \o found
    BY <2>1 DEF Answer
  <2>3. \A S \in SUBSET Tx : TxMsgs(S) \in Seq(Message)
    BY TxMsgsLemma
  <2> HIDE DEF TxMsgs
  <2>4. found \in Seq(Message)
    <3>1. CASE blocks = <<>>
      BY <3>1
    <3>2. CASE blocks # <<>>
      <4>1. blocks[1] \in Block
        BY <2>1, <3>2
      <4>2. Txns[blocks[1]] \in SUBSET Tx /\ [type |-> "merkleblock", block |-> blocks[1]] \in Message
        BY <4>1, WireAssumption DEF Message
      <4>3. TxMsgs(Txns[blocks[1]]) \in Seq(Message)
        BY <2>3, <4>2
      <4> QED BY <3>2, <4>2, <4>3
    <3> QED BY <3>1, <3>2
  <2> HIDE DEF found
  <2> QED BY <2>1, <2>2, <2>3, <2>4
<1> QED BY <1>1, <1>2 DEF Request

----------------------------------------------------------------------------
(***************************************************************************)
(* The heights.  A height is used long after it was noted, so the notes of *)
(* all peers have to be true at all times; they stay true because a        *)
(* rollback that forgets a header does not change what is in a block.      *)
(***************************************************************************)
TrueAt(r) == r[2] # 0 => \E b \in Block : r[1] \in Txns[b] /\ Height[b] = r[2]

NotesTrue(states) ==
    \A p \in Peer : states[p].registered => \A r \in states[p].requestedTxns : TrueAt(r)

HInv == WInv /\ HeightsTrue /\ NotesTrue(peerStates)

(* The state of one peer changes.                                          *)
LEMMA UpdateLemma ==
    ASSUME NEW states \in States, NotesTrue(states), NEW p \in Peer,
           NEW s \in State \cup {NoState},
           s.registered => \A r \in s.requestedTxns : TrueAt(r)
    PROVE  /\ [states EXCEPT ![p] = s] \in States
           /\ NotesTrue([states EXCEPT ![p] = s])
  BY DEF States, NotesTrue

(* The states startSync leaves note what they noted.                       *)
LEMMA StartSyncNotes ==
    ASSUME ChainOK(Chain), RequestType, NEW peer \in Peer \cup {NoPeer}, NEW states \in States,
           NotesTrue(states), startSync(peer, states)
    PROVE  NotesTrue(peerStates')
<1>1. \A q \in Peer : /\ peerStates'[q].registered = states[q].registered
                      /\ states[q].registered =>
                            peerStates'[q].requestedTxns = states[q].requestedTxns
  BY StartSyncLemma
<1> QED BY <1>1 DEF NotesTrue

(* The last part of handleMerkleBlockMsg.                                  *)
LEMMA NextBlockLemma ==
    ASSUME WInv, NEW p \in Peer, NEW state \in State, NEW bst \in Block, NEW heights, NEW ks,
           NextBlock(p, state, ks, bst, heights), NotesTrue(peerStates),
           \A r \in state.requestedTxns : TrueAt(r)
    PROVE  peerStates' \in States /\ NotesTrue(peerStates') /\ RequestType'
<1>0. peerStates \in States /\ RequestType
  BY DEF WInv, WalletType
<1>1. CASE peerStates' = [peerStates EXCEPT ![p] = state] /\ (NoRequest \/ Push(p, "getblocks", ks, bst))
  <2>1. RequestType'
    BY <1>0, <1>1, NoRequestLemma, PushLemma
  <2> QED BY <1>0, <1>1, <2>1, UpdateLemma
<1>2. CASE state.requestQueue # <<>> /\ ~Current(bst, peerStates, heights)
  <2> DEFINE queue == state.requestQueue
             next == [state EXCEPT !.requestQueue = Tail(queue),
                                   !.requestedBlocks = @ \cup {Head(queue)}]
  <2>1. Head(queue) \in Block /\ Tail(queue) \in Seq(Block) /\ <<Head(queue)>> \in Seq(Block)
    BY <1>2 DEF State
  <2>2. next \in State /\ next.requestedTxns = state.requestedTxns
    BY <2>1 DEF State
  <2>3. GetData(p, {}, <<Head(queue)>>) /\ peerStates' = [peerStates EXCEPT ![p] = next]
    BY <1>2 DEF NextBlock
  <2> HIDE DEF next
  <2>4. {} \in SUBSET Tx
    OBVIOUS
  <2>5. RequestType'
    BY <1>0, <2>1, <2>3, <2>4, GetDataLemma
  <2>6. peerStates' \in States /\ NotesTrue(peerStates')
    BY <1>0, <2>2, <2>3, UpdateLemma
  <2> QED BY <2>5, <2>6
<1> QED BY <1>1, <1>2 DEF NextBlock

(* A block the chain does not refuse.                                      *)
LEMMA ProcessBlockLemma ==
    ASSUME HInv, NEW p \in Peer, NEW b \in Block, NEW state \in State, NEW bad,
           state.requestedTxns = peerStates[p].requestedTxns, peerStates[p].registered,
           ~Refused(Chain, b, bad), ProcessBlock(p, b, state, bad), UNCHANGED syncPeer
    PROVE  /\ ChainOK(Chain)' /\ WalletType' /\ RequestType'
           /\ HeightsTrue' /\ NotesTrue(peerStates')
<1> DEFINE ch      == CommitHeader(Chain, b, bad)
           newTip  == NewTip(Chain, b, bad)
           height  == IF b = best \/ ~Checks(Chain, b, bad) THEN 0 ELSE Height[b]
           heights == IF Current(ch.best, peerStates, lastBlock)
                      THEN [lastBlock EXCEPT ![p] = height] ELSE lastBlock
           noted   == [state EXCEPT !.requestedTxns = WithTxns(@, b, height)]
           reorg   == /\ newTip /\ PrevBlock[b] # best
                      /\ Current(b, peerStates, heights)
           ancestor == CommonAncestor(Chain, b)
           end     == IF reorg THEN ancestor ELSE ch.best
           above   == IF reorg THEN {r \in recorded : r[2] > Height[ancestor]} ELSE {}
           cleared == IF reorg THEN [noted EXCEPT !.requestQueue = <<>>, !.requestedBlocks = {}]
                               ELSE noted
<1>0. ChainOK(Chain) /\ WalletType /\ RequestType /\ HeightsTrue /\ NotesTrue(peerStates)
  BY DEF HInv, WInv
<1>1. known' = ch.known /\ lastBlock' = heights /\ requestedTxns' = requestedTxns \cup Txns[b]
  BY DEF ProcessBlock
<1>2. ChainOK(ch) /\ known \subseteq ch.known /\ (newTip => b \in ch.known) /\ ch.best \in Block
  <2>1. Chain.known = known
    BY DEF Chain
  <2> QED BY <1>0, <2>1, CommitLemma DEF ChainOK
<1>2a. newTip /\ PrevBlock[b] # best => Walks(Chain, b)
  BY DEF NewTip, Refused, Chain
<1> HIDE DEF ch
<1>3. height \in Nat /\ heights \in [Peer -> Nat]
  BY <1>0, WireAssumption DEF WalletType
<1> HIDE DEF heights
<1>4. ancestor \in Block /\ (reorg => ancestor \in ch.known)
  <2>1. best \in Block
    BY <1>0 DEF ChainOK, Chain
  <2>2. Checkpoint \in Lineage[b] \cap Lineage[best]
    BY <2>1, LineageRoot
  <2>3. ancestor = Highest(Lineage[b] \cap Lineage[best])
    BY DEF CommonAncestor, Chain
  <2>4. ancestor \in Lineage[b] \cap Lineage[best]
    BY <2>2, <2>3, HighestLemma
  <2>5. ancestor \in Block /\ Height[ancestor] >= Height[ancestor]
    BY <2>4, LineageClosed, WireAssumption
  <2> HIDE DEF ancestor
  <2>6. ASSUME reorg, ancestor # b PROVE ancestor \in known
    <3>1. Walks(Chain, b)
      BY <1>2a, <2>6
    <3>2. ancestor \in (Lineage[b] \cup Lineage[Chain.best]) \ {b}
      BY <2>4, <2>6 DEF Chain
    <3> QED BY <2>5, <3>1, <3>2 DEF Walks, Chain, ancestor
  <2> QED BY <1>2, <2>5, <2>6
<1> HIDE DEF ancestor, reorg
<1>5. end \in ch.known /\ end \in Block
  BY <1>2, <1>4 DEF ChainOK
<1> HIDE DEF end
<1>7. noted \in State /\ \A r \in noted.requestedTxns : TrueAt(r)
  <2>1. state.requestedTxns \subseteq Tx \X Nat
        /\ \A r \in state.requestedTxns : TrueAt(r)
    BY <1>0 DEF NotesTrue, State
  <2>2. Txns[b] \subseteq Tx
    BY WireAssumption
  <2>3. ASSUME NEW r \in Txns[b] \X {height} PROVE TrueAt(r)
    BY <1>2, <2>3 DEF TrueAt
  <2>4. WithTxns(state.requestedTxns, b, height) \subseteq Tx \X Nat
        /\ \A r \in WithTxns(state.requestedTxns, b, height) : TrueAt(r)
    BY <1>3, <2>1, <2>2, <2>3 DEF WithTxns
  <2> QED BY <2>4 DEF State
<1> HIDE DEF noted
<1>8. cleared \in State /\ \A r \in cleared.requestedTxns : TrueAt(r)
  <2> DEFINE empty == [noted EXCEPT !.requestQueue = <<>>, !.requestedBlocks = {}]
  <2>0. \A q \in Seq(Block), B \in SUBSET Block :
           LET e == [noted EXCEPT !.requestQueue = q, !.requestedBlocks = B]
           IN  e \in State /\ e.requestedTxns = noted.requestedTxns
    BY <1>7 DEF State
  <2>1. empty \in State /\ empty.requestedTxns = noted.requestedTxns
    <3>1. <<>> \in Seq(Block) /\ {} \in SUBSET Block
      OBVIOUS
    <3> QED BY ONLY <2>0, <3>1, Zenon
  <2>2. cleared \in {empty, noted}
    OBVIOUS
  <2> HIDE DEF empty, cleared
  <2> QED BY <1>7, <2>1, <2>2
<1> HIDE DEF cleared, above
<1>9. CASE newTip
  <2>1. /\ best' = end
        /\ recorded' = recorded \ above /\ takenBack' = takenBack \cup above
        /\ mempool' = {}
        /\ NextBlock(p, cleared, ch.known, end, heights)
    BY <1>9 DEF ProcessBlock, ch, heights, noted, reorg, ancestor, end, above, cleared
  <2>2. peerStates' \in States /\ NotesTrue(peerStates') /\ RequestType'
    <3>1. WInv
      BY DEF HInv
    <3> QED BY <3>1, <1>0, <1>5, <1>8, <2>1, NextBlockLemma
  <2>3. recorded' \subseteq recorded /\ takenBack' \subseteq takenBack \cup recorded
    BY <2>1 DEF above
  <2>4. HeightsTrue'
    BY <1>0, <1>1, <1>2, <2>3 DEF HeightsTrue
  <2>5. ChainOK(Chain)'
    BY <1>1, <1>2, <1>5, <2>1 DEF ChainOK, Chain
  <2>6. WalletType'
    BY <1>0, <1>1, <1>3, <2>1, <2>2, <2>3, WireAssumption DEF WalletType
  <2> QED BY <1>1, <2>2, <2>4, <2>5, <2>6
<1>10. CASE ~newTip
  <2>1. peerStates' = [peerStates EXCEPT ![p] = noted] /\ NoRequest
        /\ UNCHANGED <<best, recorded, takenBack, mempool>>
    BY <1>10 DEF ProcessBlock, noted
  <2>2. peerStates' \in States /\ NotesTrue(peerStates')
    BY <1>0, <1>7, <2>1, UpdateLemma DEF WalletType
  <2>3. RequestType'
    BY <1>0, <2>1, NoRequestLemma
  <2>4. HeightsTrue'
    BY <1>0, <1>1, <1>2, <2>1 DEF HeightsTrue
  <2>5. ChainOK(Chain)'
    BY <1>0, <1>1, <1>2, <2>1 DEF ChainOK, Chain
  <2>6. WalletType'
    BY <1>0, <1>1, <1>3, <2>1, <2>2, WireAssumption DEF WalletType
  <2> QED BY <1>1, <2>2, <2>3, <2>4, <2>5, <2>6
<1> QED BY <1>9, <1>10

----------------------------------------------------------------------------
LEMMA HInvInit == Init => HInv
<1> SUFFICES ASSUME Init PROVE HInv
  OBVIOUS
<1>1. ChainOK(Chain)
  BY WireAssumption DEF Init, ChainOK, Chain
<1>2. WalletType
  <2>1. peerStates \in States
    BY DEF Init, States
  <2> QED BY <2>1 DEF Init, WalletType
<1>3. RequestType /\ NetType
  BY WireAssumption DEF Init, RequestType, NetType
<1>4. HeightsTrue /\ NotesTrue(peerStates)
  BY DEF Init, HeightsTrue, NotesTrue, NoState
<1> QED BY <1>1, <1>2, <1>3, <1>4 DEF HInv, WInv

(* Steps that change neither the chain nor what the wire service keeps.    *)
LEMMA QuietLemma ==
    ASSUME HInv, UNCHANGED <<known, best, wsVars>>, RequestType', NetType'
    PROVE  HInv'
<1>1. ChainOK(Chain)' /\ WalletType'
  BY DEF HInv, WInv, WalletType, ChainOK, Chain, wsVars
<1>2. HeightsTrue' /\ NotesTrue(peerStates)'
  BY DEF HInv, HeightsTrue, NotesTrue, TrueAt, wsVars
<1> QED BY <1>1, <1>2 DEF HInv, WInv

(* Steps that change of the wallet only the peers' states.                 *)
LEMMA StatesLemma ==
    ASSUME HInv, UNCHANGED <<known, best, mempool, recorded, takenBack, lastBlock>>,
           requestedTxns' \subseteq Tx, syncPeer' \in Peer \cup {NoPeer},
           peerStates' \in States, NotesTrue(peerStates'), RequestType', NetType'
    PROVE  HInv'
<1>1. ChainOK(Chain)' /\ WalletType'
  BY DEF HInv, WInv, WalletType, ChainOK, Chain
<1>2. HeightsTrue' /\ NotesTrue(peerStates)'
  BY DEF HInv, HeightsTrue, NotesTrue, TrueAt
<1> QED BY <1>1, <1>2 DEF HInv, WInv

LEMMA PeerStepsLemma ==
    ASSUME HInv, NEW p \in Peer, PeerSteps(p)
    PROVE  HInv'
<1>0. RequestType /\ NetType /\ in[p] \in Seq(Message)
  BY DEF HInv, WInv, NetType
<1>1. CASE PeerConnects(p)
  <2>1. [type |-> "newPeer"] \in Message
    BY DEF Message
  <2>2. <<[type |-> "newPeer"]>> \in Seq(Message)
    BY <2>1
  <2>3. in' \in [Peer -> Seq(Message)]
    BY <1>0, <1>1, <2>2 DEF PeerConnects, NetType
  <2>4. NetType'
    BY <1>0, <1>1, <2>3 DEF PeerConnects, NetType
  <2>5. RequestType'
    BY <1>0, <1>1 DEF PeerConnects, RequestType
  <2>6. lastBlock' \in [Peer -> Nat]
    <3>1. Height[tip[p]] \in Nat
      BY <1>0, WireAssumption DEF NetType
    <3> QED BY <1>1, <3>1 DEF PeerConnects, HInv, WInv, WalletType
  <2>7. ChainOK(Chain)' /\ WalletType'
    BY <1>1, <2>6 DEF PeerConnects, HInv, WInv, WalletType, ChainOK, Chain
  <2>8. HeightsTrue' /\ NotesTrue(peerStates)'
    BY <1>1 DEF PeerConnects, HInv, HeightsTrue, NotesTrue, TrueAt
  <2> QED BY <2>4, <2>5, <2>7, <2>8 DEF HInv, WInv
<1>2. CASE PeerDisconnects(p)
  <2>1. RequestType' /\ NetType'
    BY <1>0, <1>2, HangupLemma DEF PeerDisconnects
  <2> QED BY <1>2, <2>1, QuietLemma DEF PeerDisconnects
<1>3. CASE PeerAnswers(p)
  <2>1. out[p] \in Seq(Request) /\ out[p] # <<>>
    BY <1>0, <1>3 DEF PeerAnswers, RequestType
  <2>2. Head(out[p]) \in Request /\ Tail(out[p]) \in Seq(Request)
    BY <2>1
  <2>3. Answer(p, Head(out[p])) \in Seq(Message)
    BY <1>0, <2>2, AnswerLemma
  <2>4. in[p] \o Answer(p, Head(out[p])) \in Seq(Message)
    BY <1>0, <2>3
  <2>5. in' \in [Peer -> Seq(Message)]
    BY <1>0, <1>3, <2>4 DEF PeerAnswers, NetType
  <2>6. NetType'
    BY <1>0, <1>3, <2>5 DEF PeerAnswers, NetType
  <2>7. RequestType'
    BY <1>0, <1>3, <2>2 DEF PeerAnswers, RequestType
  <2> QED BY <1>3, <2>6, <2>7, QuietLemma DEF PeerAnswers
<1>4. ASSUME NEW blocks \in Seq(Block), NEW txs \in SUBSET Tx, Announce(p, blocks, txs)
      PROVE  in' \in [Peer -> Seq(Message)]
  <2>1. [type |-> "inv", blocks |-> blocks, txs |-> txs] \in Message
    BY DEF Message
  <2>2. Append(in[p], [type |-> "inv", blocks |-> blocks, txs |-> txs]) \in Seq(Message)
    BY <1>0, <2>1
  <2> QED BY <1>0, <1>4, <2>2 DEF Announce, NetType
<1>5. ASSUME NEW b \in Block, PeerAdvances(p, b) PROVE HInv'
  <2>1. <<b>> \in Seq(Block) /\ {} \in SUBSET Tx /\ Announce(p, <<b>>, {})
    BY <1>5 DEF PeerAdvances
  <2>2. in' \in [Peer -> Seq(Message)]
    BY <1>4, <2>1
  <2>3. NetType' /\ RequestType'
    BY <1>0, <1>5, <2>2 DEF PeerAdvances, NetType, RequestType
  <2> QED BY <1>5, <2>3, QuietLemma DEF PeerAdvances
<1>6. ASSUME NEW t \in Unconfirmed, PeerAnnounces(p, t) PROVE HInv'
  <2>1. <<>> \in Seq(Block) /\ {t} \in SUBSET Tx /\ Announce(p, <<>>, {t})
    BY <1>6, WireAssumption DEF PeerAnnounces
  <2>2. in' \in [Peer -> Seq(Message)]
    BY <1>4, <2>1
  <2>3. NetType' /\ RequestType'
    BY <1>0, <1>6, <2>2 DEF PeerAnnounces, NetType, RequestType
  <2> QED BY <1>6, <2>3, QuietLemma DEF PeerAnnounces
<1> QED BY <1>1, <1>2, <1>3, <1>5, <1>6 DEF PeerSteps

(* Peers that come and go, and the sync they start.                        *)
LEMMA NewPeerLemma ==
    ASSUME HInv, NEW p \in Peer, handleNewPeerMsg(p)
    PROVE  HInv'
<1> DEFINE states == [peerStates EXCEPT ![p] = NewState(p)]
<1>0. /\ ChainOK(Chain) /\ RequestType /\ NetType /\ peerStates \in States
      /\ syncPeer \in Peer \cup {NoPeer} /\ NotesTrue(peerStates)
  BY DEF HInv, WInv, WalletType
<1>1. NewState(p) \in State /\ NewState(p).requestedTxns = {}
  BY DEF NewState, State
<1>2. states \in States /\ NotesTrue(states)
  BY <1>0, <1>1, UpdateLemma
<1> HIDE DEF states
<1>3. NetType'
  BY <1>0, ConsumeLemma DEF handleNewPeerMsg, Receives, NetType
<1>4. \/ startSync(NoPeer, states)
      \/ peerStates' = states /\ UNCHANGED syncPeer /\ NoRequest
  BY DEF handleNewPeerMsg, states
<1>5. /\ peerStates' \in States /\ NotesTrue(peerStates') /\ RequestType'
      /\ syncPeer' \in Peer \cup {NoPeer}
  BY <1>0, <1>2, <1>4, StartSyncLemma, StartSyncNotes, NoRequestLemma
<1>6. requestedTxns' \subseteq Tx
  BY DEF handleNewPeerMsg, HInv, WInv, WalletType
<1> QED BY <1>3, <1>5, <1>6, StatesLemma DEF handleNewPeerMsg

LEMMA DonePeerLemma ==
    ASSUME HInv, NEW p \in Peer, handleDonePeerMsg(p)
    PROVE  HInv'
<1> DEFINE states == [peerStates EXCEPT ![p] = NoState]
<1>0. /\ ChainOK(Chain) /\ RequestType /\ NetType /\ peerStates \in States
      /\ syncPeer \in Peer \cup {NoPeer} /\ NotesTrue(peerStates)
  BY DEF HInv, WInv, WalletType
<1>1. states \in States /\ NotesTrue(states)
  BY <1>0, UpdateLemma DEF NoState
<1> HIDE DEF states
<1>2. NetType'
  BY <1>0 DEF handleDonePeerMsg, NetType
<1>3. \/ startSync(NoPeer, states)
      \/ peerStates' \in {states, peerStates} /\ UNCHANGED syncPeer /\ NoRequest
  BY DEF handleDonePeerMsg, states
<1>4. /\ peerStates' \in States /\ NotesTrue(peerStates') /\ RequestType'
      /\ syncPeer' \in Peer \cup {NoPeer}
  BY <1>0, <1>1, <1>3, StartSyncLemma, StartSyncNotes, NoRequestLemma
<1>5. requestedTxns' \subseteq Tx
  BY DEF handleDonePeerMsg, HInv, WInv, WalletType
<1> QED BY <1>2, <1>4, <1>5, StatesLemma DEF handleDonePeerMsg

LEMMA ResyncLemma ==
    ASSUME HInv, Resync
    PROVE  HInv'
<1>0. /\ ChainOK(Chain) /\ RequestType /\ NetType /\ peerStates \in States
      /\ syncPeer \in Peer \cup {NoPeer} /\ NotesTrue(peerStates)
  BY DEF HInv, WInv, WalletType
<1>1. startSync(syncPeer, peerStates)
  BY DEF Resync
<1>2. /\ peerStates' \in States /\ NotesTrue(peerStates') /\ RequestType'
      /\ syncPeer' \in Peer \cup {NoPeer}
  BY <1>0, <1>1, StartSyncLemma, StartSyncNotes
<1>3. NetType' /\ requestedTxns' \subseteq Tx
  BY <1>0 DEF Resync, NetType, HInv, WInv, WalletType
<1> QED BY <1>2, <1>3, StatesLemma DEF Resync

(* The user's rollbacks change the chain only.                             *)
LEMMA RollbackLemma ==
    ASSUME HInv, ChainOK(Chain)', UNCHANGED <<wsVars, conn, in, out, asked, tip>>
    PROVE  HInv'
<1>1. WalletType' /\ RequestType' /\ NetType'
  BY DEF HInv, WInv, WalletType, RequestType, NetType, wsVars
<1>2. HeightsTrue' /\ NotesTrue(peerStates)'
  BY DEF HInv, HeightsTrue, NotesTrue, TrueAt, wsVars
<1> QED BY <1>1, <1>2 DEF HInv, WInv

LEMMA RollbacksLemma ==
    ASSUME HInv, NEW b, NEW n, Rollback(b) \/ RollbackToHeight(n)
    PROVE  HInv' /\ known' \subseteq known
<1>0. known \subseteq Block /\ best \in known
  BY DEF HInv, WInv, ChainOK, Chain
<1>1. CASE Rollback(b)
  <2>1. PICK lost \in SUBSET {x \in known : Height[x] > Height[b]} : known' = known \ lost
    BY <1>1 DEF Rollback
  <2>2. b \in GetBlockLocator(known, best) /\ best' = b
    BY <1>1 DEF Rollback
  <2>3. b \in Lineage[best] /\ b \in Block
    BY <1>0, <2>2, LineageClosed DEF GetBlockLocator
  <2>4. Height[b] >= Height[b] /\ ~(Height[b] > Height[b])
    BY <2>3, WireAssumption
  <2>5. b \in known /\ b \notin lost
    BY <2>1, <2>2, <2>3, <2>4 DEF GetBlockLocator
  <2>6. ChainOK(Chain)'
    BY <1>0, <2>1, <2>2, <2>5 DEF ChainOK, Chain
  <2> QED BY <1>1, <2>1, <2>6, RollbackLemma DEF Rollback
<1>2. CASE RollbackToHeight(n)
  <2>1. known' \subseteq known /\ best' = best /\ best \in known'
    BY <1>0, <1>2 DEF RollbackToHeight
  <2>2. ChainOK(Chain)'
    BY <1>0, <2>1 DEF ChainOK, Chain
  <2> QED BY <1>2, <2>1, <2>2, RollbackLemma DEF RollbackToHeight
<1> QED BY <1>1, <1>2

----------------------------------------------------------------------------
(* The messages.                                                           *)
LEMMA HeadersLemma ==
    ASSUME HInv, NEW p \in Peer, handleHeadersMsg(p)
    PROVE  HInv'
<1> DEFINE headers == Head(in[p]).headers
           older   == SelectInSeq(headers, LAMBDA b : b \notin BeforeCreation)
           take    == IF older = 0 THEN headers ELSE SubSeq(headers, 1, older - 1)
<1>0. /\ ChainOK(Chain) /\ RequestType /\ NetType /\ WalletType
      /\ HeightsTrue /\ NotesTrue(peerStates)
      /\ in[p] # <<>> /\ tip' = tip /\ UNCHANGED wsVars
  BY DEF HInv, WInv, handleHeadersMsg, Receives
<1>1. CASE p # syncPeer \/ ~peerStates[p].registered
  <2>1. Disconnect(p) /\ UNCHANGED <<known, best>>
    BY <1>1 DEF handleHeadersMsg
  <2>2. RequestType' /\ NetType'
    BY <1>0, <2>1, DisconnectLemma
  <2> QED BY <1>0, <2>1, <2>2, QuietLemma
<1>2. CASE ~(p # syncPeer \/ ~peerStates[p].registered)
  <2>1. /\ Consume(p) /\ UNCHANGED conn
        /\ \E bad \in SUBSET ToSet(take) :
              LET ch == CommitHeaders(take, bad)
              IN  /\ known' = ch.known /\ best' = ch.best
                  /\ \/ NoRequest
                     \/ \E type \in {"getblocks", "getheaders"} : Push(p, type, ch.known, ch.best)
    BY <1>2 DEF handleHeadersMsg
  <2>2. in' \in [Peer -> Seq(Message)] /\ Head(in[p]) \in Message /\ Head(in[p]).type = "headers"
    BY <1>0, <2>1, ConsumeLemma DEF handleHeadersMsg, Receives
  <2>3. headers \in Seq(Block)
    BY <2>2 DEF Message
  <2> HIDE DEF headers
  <2>4. older \in 0..Len(headers)
    BY <2>3, OlderLemma
  <2> HIDE DEF older
  <2>5. take \in Seq(Block)
    <3>1. CASE older = 0
      BY <2>3, <3>1
    <3>2. CASE older # 0
      <4>1. older - 1 \in 0..Len(headers)
        BY <2>3, <2>4, <3>2
      <4>2. SubSeq(headers, 1, older - 1) \in Seq(Block)
        BY <2>3, <4>1
      <4> QED BY <3>2, <4>2
    <3> QED BY <3>1, <3>2
  <2> HIDE DEF take
  <2>6. PICK bad \in SUBSET ToSet(take) :
              LET ch == CommitHeaders(take, bad)
              IN  /\ known' = ch.known /\ best' = ch.best
                  /\ \/ NoRequest
                     \/ \E type \in {"getblocks", "getheaders"} : Push(p, type, ch.known, ch.best)
    BY <2>1
  <2> DEFINE ch == CommitHeaders(take, bad)
  <2>7. ChainOK(ch) /\ ch.best \in Block
    <3>1. ChainOK(ch)
      BY <1>0, <2>5, CommitHeadersLemma
    <3> HIDE DEF ch
    <3> QED BY <3>1 DEF ChainOK
  <2>8. RequestType'
    <3>1. NoRequest \/ \E type \in {"getblocks", "getheaders"} : Push(p, type, ch.known, ch.best)
      BY <2>6
    <3> HIDE DEF ch
    <3> QED BY <1>0, <2>7, <3>1, NoRequestLemma, PushLemma
  <2>9. NetType'
    BY <1>0, <2>1, <2>2 DEF NetType
  <2>10. ChainOK(Chain)'
    BY <2>6, <2>7 DEF ChainOK, Chain
  <2>11. WalletType'
    BY <1>0 DEF WalletType, wsVars
  <2>12. HeightsTrue'
    BY <1>0 DEF HeightsTrue, wsVars
  <2>13. NotesTrue(peerStates)'
    BY <1>0 DEF NotesTrue, wsVars
  <2> QED BY <2>8, <2>9, <2>10, <2>11, <2>12, <2>13 DEF HInv, WInv
<1> QED BY <1>1, <1>2

LEMMA MerkleBlockLemma ==
    ASSUME HInv, NEW p \in Peer, handleMerkleBlockMsg(p)
    PROVE  HInv'
<1> DEFINE b     == Head(in[p]).block
           state == [peerStates[p] EXCEPT !.requestedBlocks = @ \ {b}]
<1>0. /\ ChainOK(Chain) /\ RequestType /\ NetType /\ WalletType
      /\ HeightsTrue /\ NotesTrue(peerStates)
      /\ in[p] # <<>> /\ tip' = tip /\ syncPeer' = syncPeer
  BY DEF HInv, WInv, handleMerkleBlockMsg, Receives
<1>1. CASE (Ignore(p) \/ Disconnect(p)) /\ UNCHANGED <<known, best, wsVars>>
  <2>1. RequestType' /\ NetType'
    BY <1>0, <1>1, DisconnectLemma, IgnoreLemma
  <2> QED BY <1>1, <2>1, QuietLemma
<1>2. CASE /\ peerStates[p].registered
           /\ Consume(p) /\ UNCHANGED conn
           /\ \E bad :
                 IF ~Refused(Chain, b, bad)
                 THEN ProcessBlock(p, b, state, bad)
                 ELSE /\ peerStates' = [peerStates EXCEPT ![p] = state]
                      /\ NoRequest
                      /\ UNCHANGED <<known, best, requestedTxns, mempool, recorded, takenBack, lastBlock>>
  <2>1. in' \in [Peer -> Seq(Message)] /\ Head(in[p]) \in Message /\ Head(in[p]).type = "merkleblock"
    BY <1>0, <1>2, ConsumeLemma DEF handleMerkleBlockMsg, Receives
  <2>2. b \in Block
    BY <2>1 DEF Message
  <2> HIDE DEF b
  <2>3. NetType'
    BY <1>0, <1>2, <2>1 DEF NetType
  <2>4. peerStates[p] \in State
    BY <1>0, <1>2 DEF WalletType, States, NoState
  <2>5. state \in State /\ state.requestedTxns = peerStates[p].requestedTxns
    BY <2>4 DEF State
  <2> HIDE DEF state
  <2>6. ASSUME NEW bad, ~Refused(Chain, b, bad), ProcessBlock(p, b, state, bad) PROVE HInv'
    <3>1. /\ ChainOK(Chain)' /\ WalletType' /\ RequestType'
          /\ HeightsTrue' /\ NotesTrue(peerStates')
      BY <1>0, <1>2, <2>2, <2>5, <2>6, ProcessBlockLemma
    <3> QED BY <2>3, <3>1 DEF HInv, WInv
  <2>7. ASSUME /\ peerStates' = [peerStates EXCEPT ![p] = state]
               /\ NoRequest
               /\ UNCHANGED <<known, best, requestedTxns, mempool, recorded, takenBack, lastBlock>>
        PROVE  HInv'
    <3>1. /\ peerStates' = [peerStates EXCEPT ![p] = state]
          /\ NoRequest
          /\ UNCHANGED <<known, best, requestedTxns, mempool, recorded, takenBack, lastBlock>>
      BY <2>7
    <3>2. \A r \in state.requestedTxns : TrueAt(r)
      BY <1>0, <1>2, <2>5 DEF NotesTrue
    <3>3. peerStates' \in States /\ NotesTrue(peerStates')
      BY <1>0, <2>5, <3>1, <3>2, UpdateLemma DEF WalletType
    <3>4. RequestType'
      BY <1>0, <3>1, NoRequestLemma
    <3>5. requestedTxns' \subseteq Tx /\ syncPeer' \in Peer \cup {NoPeer}
      BY <1>0, <3>1 DEF WalletType
    <3> QED BY <2>3, <3>1, <3>3, <3>4, <3>5, StatesLemma
  <2> QED BY <1>2, <2>6, <2>7
<1> QED BY <1>1, <1>2 DEF handleMerkleBlockMsg

LEMMA InvLemma ==
    ASSUME HInv, NEW p \in Peer, handleInvMsg(p)
    PROVE  HInv'
<1> DEFINE msg     == Head(in[p])
           state   == peerStates[p]
           heights == IF /\ msg.blocks # <<>> /\ IsCurrent
                         /\ Last(msg.blocks) \in known
                      THEN [lastBlock EXCEPT ![p] = Height[Last(msg.blocks)]] ELSE lastBlock
           current == Current(best, peerStates, heights)
           idle    == state.requestQueue = <<>>
           wanted  == IF current THEN msg.blocks
                      ELSE IF idle THEN NewBlocks(msg.blocks) ELSE <<>>
           queue   == state.requestQueue \o wanted
           first   == IF queue # <<>> /\ (idle \/ current) THEN <<Head(queue)>> ELSE <<>>
           txs     == {t \in msg.txs : t \notin requestedTxns /\ ~haveInventory(t)}
           rest    == SubSeq(queue, Len(first) + 1, Len(queue))
           next    == [state EXCEPT !.requestQueue = rest,
                                    !.requestedBlocks = @ \cup ToSet(first),
                                    !.requestedTxns = {r \in @ : r[1] \notin txs} \cup (txs \X {0})]
<1>0. /\ ChainOK(Chain) /\ RequestType /\ NetType /\ WalletType
      /\ HeightsTrue /\ NotesTrue(peerStates)
      /\ in[p] # <<>> /\ Consume(p) /\ UNCHANGED <<known, best, conn, tip>>
  BY DEF HInv, WInv, handleInvMsg, Receives
<1>1. in' \in [Peer -> Seq(Message)] /\ msg \in Message /\ msg.type = "inv"
  BY <1>0, ConsumeLemma DEF handleInvMsg, Receives
<1>2. NetType'
  BY <1>0, <1>1 DEF NetType
<1>3. CASE NoRequest /\ UNCHANGED wsVars
  BY <1>0, <1>2, <1>3, NoRequestLemma, QuietLemma
<1>4. CASE /\ state.registered
           /\ lastBlock' = heights
           /\ requestedTxns' = requestedTxns \cup txs
           /\ peerStates' = [peerStates EXCEPT ![p] = next]
           /\ IF txs = {} /\ first = <<>> THEN NoRequest ELSE GetData(p, txs, first)
           /\ UNCHANGED <<syncPeer, mempool, recorded, takenBack>>
  <2>1. msg.blocks \in Seq(Block) /\ msg.txs \subseteq Tx
    BY <1>1 DEF Message
  <2> HIDE DEF msg
  <2>2. state \in State
    BY <1>0, <1>4 DEF WalletType, States, NoState
  <2>3. heights \in [Peer -> Nat]
    <3>1. CASE msg.blocks # <<>>
      <4>1. Last(msg.blocks) \in Block
        BY <2>1, <3>1 DEF Last
      <4> QED BY <1>0, <4>1, WireAssumption DEF WalletType
    <3>2. CASE msg.blocks = <<>>
      BY <1>0, <3>2 DEF WalletType
    <3> QED BY <3>1, <3>2
  <2> HIDE DEF heights, state
  <2>4. wanted \in Seq(Block)
    BY <2>1, NewBlocksLemma
  <2> HIDE DEF current, wanted
  <2>5. queue \in Seq(Block)
    BY <2>2, <2>4 DEF State
  <2> HIDE DEF queue
  <2>6. first \in Seq(Block) /\ Len(first) \in {0, 1} /\ Len(first) <= Len(queue)
        /\ ToSet(first) \subseteq Block
    <3>1. CASE queue # <<>> /\ (idle \/ current)
      <4>1. first = <<Head(queue)>> /\ Head(queue) \in Block /\ Len(queue) >= 1
        BY <2>5, <3>1
      <4> QED BY <4>1 DEF ToSet
    <3>2. CASE ~(queue # <<>> /\ (idle \/ current))
      BY <2>5, <3>2 DEF ToSet
    <3> QED BY <3>1, <3>2
  <2> HIDE DEF first
  <2>7. rest \in Seq(Block)
    BY <2>5, <2>6
  <2>8. txs \in SUBSET Tx
    BY <2>1
  <2> HIDE DEF txs, rest
  <2>9. next \in State /\ next.requestedTxns = {r \in state.requestedTxns : r[1] \notin txs} \cup (txs \X {0})
    <3> DEFINE notes  == {r \in state.requestedTxns : r[1] \notin txs} \cup (txs \X {0})
               blocks == state.requestedBlocks \cup ToSet(first)
    <3>1. notes \in SUBSET (Tx \X Nat)
      <4>1. state.requestedTxns \subseteq Tx \X Nat
        BY <2>2 DEF State
      <4>2. txs \X {0} \subseteq Tx \X Nat
        BY <2>8
      <4> QED BY <4>1, <4>2
    <3>2. blocks \in SUBSET Block
      BY <2>2, <2>6 DEF State
    <3>3. next = [state EXCEPT !.requestQueue = rest, !.requestedBlocks = blocks,
                               !.requestedTxns = notes]
      OBVIOUS
    <3> HIDE DEF notes, blocks, next
    <3>4. next \in State /\ next.requestedTxns = notes
      BY <2>2, <2>7, <3>1, <3>2, <3>3 DEF State
    <3> QED BY <3>4 DEF notes
  <2>10. \A r \in next.requestedTxns : TrueAt(r)
    <3>1. \A r \in state.requestedTxns : TrueAt(r)
      BY <1>0, <1>4 DEF NotesTrue, state
    <3>2. \A r \in txs \X {0} : TrueAt(r)
      BY DEF TrueAt
    <3> QED BY <2>9, <3>1, <3>2
  <2> HIDE DEF next
  <2>11. peerStates' \in States /\ NotesTrue(peerStates')
    BY <1>0, <1>4, <2>9, <2>10, UpdateLemma DEF WalletType
  <2>12. RequestType'
    BY <1>0, <1>4, <2>6, <2>8, NoRequestLemma, GetDataLemma
  <2>13. WalletType'
    BY <1>0, <1>4, <2>3, <2>8, <2>11 DEF WalletType
  <2>14. ChainOK(Chain)' /\ HeightsTrue'
    BY <1>0, <1>4 DEF ChainOK, Chain, HeightsTrue
  <2>15. NotesTrue(peerStates)'
    BY <1>0, <2>11
  <2> QED BY <1>2, <2>12, <2>13, <2>14, <2>15 DEF HInv, WInv
<1> QED BY <1>3, <1>4 DEF handleInvMsg

LEMMA TxLemma ==
    ASSUME HInv, NEW p \in Peer, handleTxMsg(p)
    PROVE  HInv'
<1> DEFINE tx    == Head(in[p]).tx
           entry == {r \in peerStates[p].requestedTxns : r[1] = tx}
<1>0. /\ ChainOK(Chain) /\ RequestType /\ NetType /\ WalletType
      /\ HeightsTrue /\ NotesTrue(peerStates)
      /\ in[p] # <<>> /\ UNCHANGED <<known, best, tip>>
  BY DEF HInv, WInv, handleTxMsg, Receives
<1>1. CASE (Ignore(p) \/ Disconnect(p)) /\ UNCHANGED wsVars
  <2>1. RequestType' /\ NetType'
    BY <1>0, <1>1, DisconnectLemma, IgnoreLemma
  <2> QED BY <1>0, <1>1, <2>1, QuietLemma
<1>2. CASE /\ peerStates[p].registered
           /\ Ignore(p)
           /\ mempool' = mempool \cup {tx}
           /\ recorded' = recorded \cup entry
           /\ takenBack' = takenBack \ entry
           /\ peerStates' = [peerStates EXCEPT ![p].requestedTxns = @ \ entry]
           /\ requestedTxns' = requestedTxns \ {tx}
           /\ UNCHANGED <<syncPeer, lastBlock>>
  <2>1. Head(in[p]) \in Message /\ Head(in[p]).type = "tx"
    BY <1>0, <1>2, ConsumeLemma DEF handleTxMsg, Receives, Ignore
  <2>2. tx \in Tx
    BY <2>1 DEF Message
  <2> HIDE DEF tx
  <2>3. peerStates[p] \in State
    BY <1>0, <1>2 DEF WalletType, States, NoState
  <2>4. entry \subseteq Tx \X Nat /\ \A r \in entry : TrueAt(r)
    BY <1>0, <1>2, <2>3 DEF NotesTrue, State
  <2> DEFINE next == [peerStates[p] EXCEPT !.requestedTxns = @ \ entry]
  <2>5. next \in State /\ next.requestedTxns \subseteq peerStates[p].requestedTxns
    BY <2>3 DEF State
  <2>6. peerStates' = [peerStates EXCEPT ![p] = next]
    BY <1>2
  <2> HIDE DEF entry, next
  <2>7. \A r \in next.requestedTxns : TrueAt(r)
    BY <1>0, <1>2, <2>5 DEF NotesTrue
  <2>8. peerStates' \in States /\ NotesTrue(peerStates')
    BY <1>0, <2>5, <2>6, <2>7, UpdateLemma DEF WalletType
  <2>9. RequestType' /\ NetType'
    BY <1>0, <1>2, IgnoreLemma
  <2>10. WalletType'
    BY <1>0, <1>2, <2>2, <2>4, <2>8 DEF WalletType
  <2>11. ChainOK(Chain)'
    BY <1>0 DEF ChainOK, Chain
  <2>12. HeightsTrue'
    BY <1>0, <1>2, <2>4 DEF HeightsTrue, TrueAt
  <2>13. NotesTrue(peerStates)'
    BY <1>0, <2>8
  <2> QED BY <2>9, <2>10, <2>11, <2>12, <2>13 DEF HInv, WInv
<1> QED BY <1>1, <1>2 DEF handleTxMsg

LEMMA HInvNext == HInv /\ [Next]_vars => HInv'
<1> SUFFICES ASSUME HInv, [Next]_vars PROVE HInv'
  OBVIOUS
<1>1. ASSUME NEW p \in Peer, Handle(p) PROVE HInv'
  BY <1>1, NewPeerLemma, HeadersLemma, MerkleBlockLemma, InvLemma, TxLemma DEF Handle
<1>2. CASE UNCHANGED vars
  <2>1. RequestType' /\ NetType'
    BY <1>2 DEF vars, HInv, WInv, RequestType, NetType
  <2> QED BY <1>2, <2>1, QuietLemma DEF vars
<1>3. CASE Step
  BY <1>1, <1>3, DonePeerLemma, PeerStepsLemma, ResyncLemma DEF Step
<1> QED BY <1>2, <1>3, RollbacksLemma DEF Next

(* The types of the wire service's state, whatever honest peers send; and  *)
(* the best block is always a known one, also when a reorganisation or the *)
(* user has put the tip back.                                              *)
THEOREM TypeCorrect == Spec => []TypeOK
<1>1. HInv => TypeOK
  <2> SUFFICES ASSUME HInv PROVE TypeOK
    OBVIOUS
  <2>1. ASSUME NEW p \in Registered(peerStates)
        PROVE  /\ peerStates[p].syncCandidate \in BOOLEAN
               /\ peerStates[p].requestQueue \in Seq(Block)
               /\ peerStates[p].requestedBlocks \subseteq Block
               /\ peerStates[p].requestedTxns \subseteq Tx \X Nat
    <3>1. peerStates[p] \in State
      BY <2>1 DEF Registered, HInv, WInv, WalletType, States, NoState
    <3> QED BY <3>1 DEF State
  <2> QED BY <2>1 DEF TypeOK, HInv, WInv, WalletType, NetType, ChainOK, Chain
<1> QED BY HInvInit, HInvNext, <1>1, PTL DEF Spec

(* A transaction ingested as confirmed is in a block, at                   *)
(* exactly the height it is ingested with, however late it arrived after   *)
(* the block that announced it and from whichever peer.                    *)
THEOREM HeightsRight == Spec => []HeightsTrue
<1>1. HInv => HeightsTrue
  BY DEF HInv
<1> QED BY HInvInit, HInvNext, <1>1, PTL DEF Spec

----------------------------------------------------------------------------
(***************************************************************************)
(* No transaction missed.  What a merkle block says is only noted; the     *)
(* transactions come in messages of their own, which another peer, another *)
(* block or an announcement might get in the way of.  They cannot, since   *)
(* the messages of a peer are handled in order and the transactions follow *)
(* their block directly: a confirmed height that is noted still has its    *)
(* transaction ahead of any other kind of message.                         *)
(***************************************************************************)
(* After position i of q comes transaction t, with no message of another   *)
(* kind before it.                                                         *)
Follows(q, i, t) ==
    \E j \in (i + 1)..Len(q) : /\ q[j].type = "tx" /\ q[j].tx = t
                               /\ \A k \in (i + 1)..j : q[k].type = "tx"

BlocksFollowed(q) ==
    \A i \in 1..Len(q) : q[i].type = "merkleblock" => \A t \in Txns[q[i].block] : Follows(q, i, t)

NotesFollowed(q, notes) == \A r \in notes : r[2] # 0 => Follows(q, 0, r[1])

(* A peer with connection c, messages q and state s.                       *)
PeerOK(c, q, s) ==
    /\ c = "new" => q = <<>> /\ ~s.registered
    /\ \A i \in 1..Len(q) : q[i].type = "newPeer" => i = 1 /\ ~s.registered
    /\ c = "up" => BlocksFollowed(q)
    /\ c = "up" /\ s.registered => NotesFollowed(q, s.requestedTxns)

AllStay == \A p \in Peer : conn[p] \in {"new", "up"}

IsNoted(states, x) == \E p \in Peer : states[p].registered /\ x \in states[p].requestedTxns

(* Of every block below a header that is found, not only of the best       *)
(* chain, since the best chain may move to any of them without a message   *)
(* about the blocks below; and of those a rollback left holes for, since   *)
(* nobody asks for a block in a hole as long as one above it is found.     *)
Covered(ks, states, rec) ==
    \A b \in Below(ks) \ (BeforeCreation \cup {Checkpoint}) : \A t \in Txns[b] :
        <<t, Height[b]>> \in rec \/ IsNoted(states, <<t, Height[b]>>)

PeersOK == \A p \in Peer : PeerOK(conn[p], in[p], peerStates[p])

MInv == /\ HInv
        /\ PeersOK
        /\ AllStay => Covered(known, peerStates, recorded \cup takenBack)

(* Sequences of messages: the first is handled, more arrive.               *)
LEMMA TailSeq ==
    ASSUME NEW q \in Seq(Message), q # <<>>
    PROVE  /\ Tail(q) \in Seq(Message) /\ Len(q) \in Nat /\ Len(q) >= 1 /\ Len(Tail(q)) = Len(q) - 1
           /\ \A i \in 1..Len(Tail(q)) : Tail(q)[i] = q[i + 1]
           /\ Head(q) = q[1]
  OBVIOUS

LEMMA TailFollows ==
    ASSUME NEW q \in Seq(Message), q # <<>>, NEW t, NEW i \in Nat, i >= 1, Follows(q, i, t)
    PROVE  Follows(Tail(q), i - 1, t)
<1>1. PICK j \in (i + 1)..Len(q) : /\ q[j].type = "tx" /\ q[j].tx = t
                                   /\ \A k \in (i + 1)..j : q[k].type = "tx"
  BY DEF Follows
<1> DEFINE r == Tail(q)
<1>2. /\ Len(q) \in Nat /\ Len(r) = Len(q) - 1 /\ \A k \in 1..Len(r) : r[k] = q[k + 1]
  BY TailSeq
<1> HIDE DEF r
<1>3. j - 1 \in i..Len(r) /\ r[j - 1] = q[j]
  <2>1. j - 1 \in 1..Len(r) /\ (j - 1) + 1 = j
    BY <1>2
  <2> QED BY <1>2, <2>1
<1>4. ASSUME NEW k \in i..(j - 1) PROVE r[k].type = "tx"
  <2>1. k \in 1..Len(r) /\ k + 1 \in (i + 1)..j
    BY <1>2
  <2> QED BY <1>1, <1>2, <2>1
<1>5. (i - 1) + 1 = i
  OBVIOUS
<1>6. Follows(r, i - 1, t)
  BY <1>1, <1>3, <1>4, <1>5 DEF Follows
<1> QED BY <1>6 DEF r

LEMMA HeadFollows ==
    ASSUME NEW q \in Seq(Message), NEW t, Follows(q, 0, t)
    PROVE  /\ q # <<>> /\ Head(q).type = "tx"
           /\ Head(q).tx # t => Follows(Tail(q), 0, t)
<1>1. PICK j \in 1..Len(q) : /\ q[j].type = "tx" /\ q[j].tx = t
                             /\ \A k \in 1..j : q[k].type = "tx"
  BY DEF Follows
<1>2. q # <<>> /\ Head(q) = q[1] /\ 1 \in 1..j
  BY <1>1
<1>3. ASSUME Head(q).tx # t PROVE Follows(Tail(q), 0, t)
  <2>1. j # 1
    BY <1>1, <1>2, <1>3
  <2>2. j \in 2..Len(q) /\ \A k \in 2..j : q[k].type = "tx"
    BY <1>1, <2>1
  <2>3. Follows(q, 1, t)
    BY <1>1, <2>2 DEF Follows
  <2>4. Follows(Tail(q), 1 - 1, t)
    BY <1>2, <2>3, TailFollows
  <2> QED BY <2>4
<1> QED BY <1>1, <1>2, <1>3

LEMMA AppendFollows ==
    ASSUME NEW q \in Seq(Message), NEW s \in Seq(Message), NEW t, NEW i \in Nat, Follows(q, i, t)
    PROVE  Follows(q \o s, i, t)
<1>1. PICK j \in (i + 1)..Len(q) : /\ q[j].type = "tx" /\ q[j].tx = t
                                   /\ \A k \in (i + 1)..j : q[k].type = "tx"
  BY DEF Follows
<1>2. Len(q) \in Nat /\ Len(q \o s) >= Len(q) /\ Len(q \o s) \in Nat
      /\ \A k \in 1..Len(q) : (q \o s)[k] = q[k]
  OBVIOUS
<1> DEFINE r == q \o s
<1> HIDE DEF r
<1>3. j \in (i + 1)..Len(r) /\ \A k \in (i + 1)..j : k \in 1..Len(q)
  BY <1>2 DEF r
<1>4. r[j] = q[j] /\ \A k \in (i + 1)..j : r[k] = q[k]
  BY <1>2, <1>3 DEF r
<1>5. Follows(r, i, t)
  BY <1>1, <1>3, <1>4 DEF Follows
<1> QED BY <1>5 DEF r

LEMMA ShiftFollows ==
    ASSUME NEW q \in Seq(Message), NEW s \in Seq(Message), NEW t, NEW i \in Nat, Follows(s, i, t)
    PROVE  Follows(q \o s, Len(q) + i, t)
<1>1. PICK j \in (i + 1)..Len(s) : /\ s[j].type = "tx" /\ s[j].tx = t
                                   /\ \A k \in (i + 1)..j : s[k].type = "tx"
  BY DEF Follows
<1> DEFINE n == Len(q)
           r == q \o s
<1>2. n \in Nat /\ Len(s) \in Nat /\ Len(r) = n + Len(s)
      /\ \A k \in 1..Len(s) : r[n + k] = s[k]
  OBVIOUS
<1> HIDE DEF n, r
<1>3. n + j \in (n + i + 1)..Len(r) /\ j \in 1..Len(s)
  BY <1>2
<1>4. ASSUME NEW k \in (n + i + 1)..(n + j) PROVE r[k].type = "tx"
  <2>1. k - n \in (i + 1)..j /\ k - n \in 1..Len(s) /\ n + (k - n) = k
    BY <1>2, <1>3
  <2> QED BY <1>1, <1>2, <2>1
<1>5. Follows(r, n + i, t)
  BY <1>1, <1>2, <1>3, <1>4 DEF Follows
<1> QED BY <1>5 DEF n, r

LEMMA TailBlocks ==
    ASSUME NEW q \in Seq(Message), q # <<>>, BlocksFollowed(q)
    PROVE  BlocksFollowed(Tail(q))
<1> SUFFICES ASSUME NEW i \in 1..Len(Tail(q)), Tail(q)[i].type = "merkleblock",
                    NEW t \in Txns[Tail(q)[i].block]
             PROVE  Follows(Tail(q), i, t)
  BY DEF BlocksFollowed
<1>1. i + 1 \in 1..Len(q) /\ Tail(q)[i] = q[i + 1] /\ i + 1 >= 1 /\ i + 1 \in Nat /\ (i + 1) - 1 = i
  BY TailSeq
<1>2. Follows(q, i + 1, t)
  BY <1>1 DEF BlocksFollowed
<1>3. Follows(Tail(q), (i + 1) - 1, t)
  BY <1>1, <1>2, TailFollows
<1> QED BY <1>1, <1>3

LEMMA AppendBlocks ==
    ASSUME NEW q \in Seq(Message), NEW s \in Seq(Message), BlocksFollowed(q), BlocksFollowed(s)
    PROVE  BlocksFollowed(q \o s)
<1> SUFFICES ASSUME NEW i \in 1..Len(q \o s), (q \o s)[i].type = "merkleblock",
                    NEW t \in Txns[(q \o s)[i].block]
             PROVE  Follows(q \o s, i, t)
  BY DEF BlocksFollowed
<1>0. Len(q) \in Nat /\ Len(s) \in Nat /\ Len(q \o s) = Len(q) + Len(s)
  OBVIOUS
<1>1. CASE i <= Len(q)
  <2>1. i \in 1..Len(q) /\ (q \o s)[i] = q[i] /\ i \in Nat
    BY <1>0, <1>1
  <2>2. Follows(q, i, t)
    BY <2>1 DEF BlocksFollowed
  <2> QED BY <2>1, <2>2, AppendFollows
<1>2. CASE i > Len(q)
  <2>1. i - Len(q) \in 1..Len(s) /\ (q \o s)[i] = s[i - Len(q)] /\ i - Len(q) \in Nat
        /\ Len(q) + (i - Len(q)) = i
    BY <1>0, <1>2
  <2>2. Follows(s, i - Len(q), t)
    BY <2>1 DEF BlocksFollowed
  <2>3. Follows(q \o s, Len(q) + (i - Len(q)), t)
    BY <2>1, <2>2, ShiftFollows
  <2> QED BY <2>1, <2>3
<1> QED BY <1>0, <1>1, <1>2

(* An answer to getdata lists every transaction of the block, right after  *)
(* the block.                                                              *)
LEMMA TxListed ==
    ASSUME NEW S \in SUBSET Tx, NEW t \in S
    PROVE  \E i \in 1..Cardinality(S) : SetToSeq(S)[i] = t
<1> DEFINE n == Cardinality(S)
           f == SetToSeq(S)
<1>1. IsFiniteSet(S)
  BY FS_Subset, WireAssumption
<1>2. n \in Nat /\ ExistsBijection(1..n, S)
  BY <1>1, FS_CardinalityType
<1>3. \E g \in [1..n -> S] : IsInjective(g)
  BY <1>2 DEF ExistsBijection, Bijection, Injection, IsInjective
<1>4. f \in [1..n -> S] /\ IsInjective(f)
  BY <1>3 DEF SetToSeq
<1> HIDE DEF f
<1>5. f \in Injection(1..n, S)
  BY <1>4 DEF Injection, IsInjective
<1>6. Cardinality(1..n) = Cardinality(S)
  <2>1. Cardinality(1..n) = IF 1 > n THEN 0 ELSE n - 1 + 1
    BY <1>2, FS_Interval
  <2> QED BY <1>2, <2>1
<1>7. f \in Surjection(1..n, S)
  BY <1>1, <1>5, <1>6, FS_Injection
<1>8. \E i \in 1..n : f[i] = t
  BY <1>7 DEF Surjection
<1> QED BY <1>8 DEF f

LEMMA BlockThenTxs ==
    ASSUME NEW m \in Message, NEW s \in Seq(Message), \A i \in 1..Len(s) : s[i].type = "tx",
           \A t \in Txns[m.block] : \E i \in 1..Len(s) : s[i].tx = t
    PROVE  BlocksFollowed(<<m>> \o s)
<1> DEFINE q == <<m>> \o s
<1>1. Len(s) \in Nat /\ Len(q) = Len(s) + 1 /\ q[1] = m /\ \A i \in 1..Len(s) : q[i + 1] = s[i]
  OBVIOUS
<1> HIDE DEF q
<1>2. ASSUME NEW k \in 2..Len(q) PROVE q[k].type = "tx"
  <2>1. k - 1 \in 1..Len(s) /\ (k - 1) + 1 = k
    BY <1>1
  <2>2. q[(k - 1) + 1] = s[k - 1] /\ s[k - 1].type = "tx"
    BY <1>1, <2>1
  <2> QED BY <2>1, <2>2
<1>3. ASSUME NEW t \in Txns[m.block] PROVE Follows(q, 1, t)
  <2>1. PICK i \in 1..Len(s) : s[i].tx = t
    BY <1>3
  <2>2. i + 1 \in 2..Len(q) /\ q[i + 1].tx = t
    BY <1>1, <2>1
  <2>3. \A k \in 2..(i + 1) : k \in 2..Len(q)
    BY <1>1
  <2> QED BY <1>2, <2>2, <2>3 DEF Follows
<1>4. ASSUME NEW i \in 1..Len(q), q[i].type = "merkleblock" PROVE i = 1
  BY <1>1, <1>2, <1>4
<1>5. BlocksFollowed(q)
  BY <1>1, <1>3, <1>4 DEF BlocksFollowed
<1> QED BY <1>5 DEF q

LEMMA AnswerFollowed ==
    ASSUME NetType, NEW p \in Peer, NEW request \in Request
    PROVE  /\ BlocksFollowed(Answer(p, request))
           /\ \A i \in 1..Len(Answer(p, request)) : Answer(p, request)[i].type # "newPeer"
<1>1. CASE request \in [type : {"getblocks", "getheaders"}, locator : SUBSET Block]
  <2>1. request.type \in {"getblocks", "getheaders"}
    BY <1>1
  <2> DEFINE inv == [type |-> "inv", blocks |-> After(p, request.locator), txs |-> {}]
             hdr == [type |-> "headers", headers |-> After(p, request.locator)]
  <2>2. Answer(p, request) \in {<<>>, <<inv>>, <<hdr>>}
    BY <2>1 DEF Answer
  <2>3. inv.type = "inv" /\ hdr.type = "headers"
    OBVIOUS
  <2> HIDE DEF inv, hdr
  <2> QED BY <2>2, <2>3 DEF BlocksFollowed
<1>2. CASE request \in [type : {"getdata"}, txs : SUBSET Tx, blocks : Seq(Block)]
  <2> DEFINE TxMsgs(S) == [i \in 1..Cardinality(S) |-> [type |-> "tx", tx |-> SetToSeq(S)[i]]]
             blocks == request.blocks
             found  == IF blocks = <<>> THEN <<>>
                       ELSE <<[type |-> "merkleblock", block |-> blocks[1]]>> \o TxMsgs(Txns[blocks[1]])
  <2>1. request.type = "getdata" /\ blocks \in Seq(Block) /\ request.txs \in SUBSET Tx
    BY <1>2
  <2>2. Answer(p, request) = TxMsgs(request.txs) \o found
    BY <2>1 DEF Answer
  <2>3. ASSUME NEW S \in SUBSET Tx
        PROVE  /\ TxMsgs(S) \in Seq(Message) /\ \A i \in 1..Len(TxMsgs(S)) : TxMsgs(S)[i].type = "tx"
               /\ \A t \in S : \E i \in 1..Len(TxMsgs(S)) : TxMsgs(S)[i].tx = t
    <3>1. IsFiniteSet(S)
      BY FS_Subset, WireAssumption
    <3>2. Cardinality(S) \in Nat
      BY <3>1, FS_CardinalityType
    <3>3. Len(TxMsgs(S)) = Cardinality(S)
      BY <3>2
    <3> QED BY <3>3, TxMsgsLemma, TxListed
  <2> HIDE DEF TxMsgs
  <2>4. found \in Seq(Message) /\ BlocksFollowed(found) /\ \A i \in 1..Len(found) : found[i].type # "newPeer"
    <3>1. CASE blocks = <<>>
      BY <3>1 DEF BlocksFollowed
    <3>2. CASE blocks # <<>>
      <4> DEFINE m == [type |-> "merkleblock", block |-> blocks[1]]
                 s == TxMsgs(Txns[blocks[1]])
      <4>1. blocks[1] \in Block
        BY <2>1, <3>2
      <4>2. Txns[blocks[1]] \in SUBSET Tx /\ m \in Message /\ m.type = "merkleblock" /\ m.block = blocks[1]
        BY <4>1, WireAssumption DEF Message
      <4>3. s \in Seq(Message) /\ (\A i \in 1..Len(s) : s[i].type = "tx")
            /\ \A t \in Txns[m.block] : \E i \in 1..Len(s) : s[i].tx = t
        BY <2>3, <4>2
      <4>4. found = <<m>> \o s
        BY <3>2
      <4> HIDE DEF m, s, found
      <4>5. BlocksFollowed(<<m>> \o s)
        BY <4>2, <4>3, BlockThenTxs
      <4>6. <<m>> \o s \in Seq(Message) /\ \A i \in 1..Len(<<m>> \o s) : (<<m>> \o s)[i].type # "newPeer"
        BY <4>2, <4>3
      <4> QED BY <4>4, <4>5, <4>6
    <3> QED BY <3>1, <3>2
  <2> DEFINE sent == TxMsgs(request.txs)
  <2>5. sent \in Seq(Message) /\ \A i \in 1..Len(sent) : sent[i].type = "tx"
    BY <2>1, <2>3
  <2> HIDE DEF found, sent
  <2>6. BlocksFollowed(sent)
    BY <2>5 DEF BlocksFollowed
  <2>7. BlocksFollowed(sent \o found)
    BY <2>4, <2>5, <2>6, AppendBlocks
  <2>8. \A i \in 1..Len(sent \o found) : (sent \o found)[i].type # "newPeer"
    BY <2>4, <2>5
  <2> QED BY <2>2, <2>7, <2>8 DEF sent
<1> QED BY <1>1, <1>2 DEF Request

(* The peers one at a time.                                                *)
SameNotes(s, s2) ==
    /\ s2.registered = s.registered
    /\ s.registered => s2.requestedTxns = s.requestedTxns

LEMMA SamePeer ==
    ASSUME NEW c, NEW q, NEW s, NEW s2, PeerOK(c, q, s), SameNotes(s, s2)
    PROVE  PeerOK(c, q, s2)
  BY DEF PeerOK, SameNotes

(* A message handled without a change of the notes.                        *)
LEMMA TailPeer ==
    ASSUME NEW c, NEW q \in Seq(Message), NEW s, PeerOK(c, q, s), q # <<>>, Head(q).type # "tx"
    PROVE  /\ PeerOK(c, Tail(q), s) /\ c # "new"
           /\ c = "up" /\ s.registered => \A r \in s.requestedTxns : r[2] = 0
<1>1. c # "new"
  BY DEF PeerOK
<1>2. ASSUME c = "up", s.registered PROVE \A r \in s.requestedTxns : r[2] = 0
  <2>1. NotesFollowed(q, s.requestedTxns)
    BY <1>2 DEF PeerOK
  <2> SUFFICES ASSUME NEW r \in s.requestedTxns, r[2] # 0 PROVE FALSE
    OBVIOUS
  <2>2. Follows(q, 0, r[1])
    BY <2>1 DEF NotesFollowed
  <2> QED BY <2>2, HeadFollows
<1>3. \A i \in 1..Len(Tail(q)) : Tail(q)[i].type # "newPeer"
  <2> SUFFICES ASSUME NEW i \in 1..Len(Tail(q)) PROVE Tail(q)[i].type # "newPeer"
    OBVIOUS
  <2>1. i + 1 \in 1..Len(q) /\ i + 1 # 1 /\ Tail(q)[i] = q[i + 1]
    BY TailSeq
  <2> QED BY <2>1 DEF PeerOK
<1>4. c = "up" => BlocksFollowed(Tail(q))
  BY TailBlocks DEF PeerOK
<1> QED BY <1>1, <1>2, <1>3, <1>4 DEF PeerOK, NotesFollowed

(* More messages arrive.                                                   *)
LEMMA AppendPeer ==
    ASSUME NEW q \in Seq(Message), NEW s, PeerOK("up", q, s), NEW more \in Seq(Message),
           BlocksFollowed(more), \A i \in 1..Len(more) : more[i].type # "newPeer"
    PROVE  PeerOK("up", q \o more, s)
<1>1. BlocksFollowed(q \o more)
  BY AppendBlocks DEF PeerOK
<1>2. s.registered => NotesFollowed(q \o more, s.requestedTxns)
  BY AppendFollows DEF PeerOK, NotesFollowed
<1>3. ASSUME NEW i \in 1..Len(q \o more), (q \o more)[i].type = "newPeer" PROVE i = 1 /\ ~s.registered
  <2>0. Len(q) \in Nat /\ Len(more) \in Nat /\ Len(q \o more) = Len(q) + Len(more)
    OBVIOUS
  <2>1. CASE i <= Len(q)
    <3>1. i \in 1..Len(q) /\ (q \o more)[i] = q[i]
      BY <2>0, <2>1
    <3> QED BY <1>3, <3>1 DEF PeerOK
  <2>2. CASE i > Len(q)
    <3>1. i - Len(q) \in 1..Len(more) /\ (q \o more)[i] = more[i - Len(q)]
      BY <2>0, <2>2
    <3> QED BY <1>3, <3>1
  <2> QED BY <2>0, <2>1, <2>2
<1> QED BY <1>1, <1>2, <1>3 DEF PeerOK

(* A connection that is closed.                                            *)
LEMMA ClosedPeer ==
    ASSUME NEW c, NEW d \in {"closed", "gone"}, NEW q \in Seq(Message), NEW s, PeerOK(c, q, s),
           NEW waiting \in Seq(Message), waiting = q \/ (q # <<>> /\ waiting = Tail(q)),
           NEW n \in 0..1, n <= Len(waiting)
    PROVE  PeerOK(d, SubSeq(waiting, 1, n), s)
<1>1. ASSUME NEW i \in 1..Len(waiting), waiting[i].type = "newPeer" PROVE i = 1 /\ ~s.registered
  <2>1. CASE waiting = q
    BY <1>1, <2>1 DEF PeerOK
  <2>2. CASE q # <<>> /\ waiting = Tail(q)
    <3>1. i + 1 \in 1..Len(q) /\ i + 1 # 1 /\ waiting[i] = q[i + 1]
      BY <2>2, TailSeq
    <3> QED BY <1>1, <3>1 DEF PeerOK
  <2> QED BY <2>1, <2>2
<1>2. SubSeq(waiting, 1, n) \in Seq(Message) /\ Len(SubSeq(waiting, 1, n)) = n
      /\ \A i \in 1..n : i \in 1..Len(waiting) /\ SubSeq(waiting, 1, n)[i] = waiting[i]
  OBVIOUS
<1> QED BY <1>1, <1>2 DEF PeerOK

(* One step.                                                               *)
MStep ==
    /\ PeersOK'
    /\ AllStay' => Covered(known', peerStates', recorded' \cup takenBack')

LEMMA CoveredKept ==
    ASSUME NEW ks, NEW kt, NEW states, NEW states2, NEW rec, NEW rec2, Covered(ks, states, rec),
           Below(kt) \subseteq Below(ks) \cup BeforeCreation, rec \subseteq rec2,
           \A q \in Peer : SameNotes(states[q], states2[q])
    PROVE  Covered(kt, states2, rec2)
<1> SUFFICES ASSUME NEW b \in Below(kt) \ (BeforeCreation \cup {Checkpoint}), NEW t \in Txns[b]
             PROVE  <<t, Height[b]>> \in rec2 \/ IsNoted(states2, <<t, Height[b]>>)
  BY DEF Covered
<1> DEFINE x == <<t, Height[b]>>
<1>1. x \in rec \/ IsNoted(states, x)
  BY DEF Covered
<1> HIDE DEF x
<1>2. IsNoted(states, x) => IsNoted(states2, x)
  BY DEF IsNoted, SameNotes
<1> QED BY <1>1, <1>2 DEF x

LEMMA OthersSame ==
    ASSUME MInv, NEW p \in Peer, PeerOK(conn'[p], in'[p], peerStates'[p]),
           \A q \in Peer \ {p} : /\ conn'[q] = conn[q] /\ in'[q] = in[q]
                                 /\ SameNotes(peerStates[q], peerStates'[q])
    PROVE  PeersOK'
<1> SUFFICES ASSUME NEW q \in Peer PROVE PeerOK(conn'[q], in'[q], peerStates'[q])
  BY DEF PeersOK
<1>1. CASE q # p
  <2>1. PeerOK(conn[q], in[q], peerStates[q])
    BY DEF MInv, PeersOK
  <2>2. PeerOK(conn[q], in[q], peerStates'[q])
    BY <1>1, <2>1, SamePeer
  <2> QED BY <1>1, <2>2
<1> QED BY <1>1

(* A step that leaves all notes as they are.                               *)
LEMMA NotesKept ==
    ASSUME MInv, NEW p \in Peer, PeerOK(conn'[p], in'[p], peerStates'[p]),
           \A q \in Peer \ {p} : conn'[q] = conn[q] /\ in'[q] = in[q],
           \A q \in Peer : SameNotes(peerStates[q], peerStates'[q]),
           Below(known') \subseteq Below(known) \cup BeforeCreation, UNCHANGED <<recorded, takenBack>>,
           conn'[p] \in {"new", "up"} => conn[p] \in {"new", "up"}
    PROVE  MStep
<1>1. PeersOK'
  BY OthersSame
<1>2. AllStay' => AllStay
  BY DEF AllStay
<1>3. AllStay => Covered(known', peerStates', recorded' \cup takenBack')
  <2>1. SUFFICES ASSUME AllStay PROVE Covered(known', peerStates', recorded' \cup takenBack')
    OBVIOUS
  <2>2. Covered(known, peerStates, recorded \cup takenBack)
    BY <2>1 DEF MInv
  <2>3. recorded' = recorded /\ takenBack' = takenBack
    OBVIOUS
  <2> QED BY <2>2, <2>3, CoveredKept
<1> QED BY <1>1, <1>2, <1>3 DEF MStep

LEMMA SameRefl == \A s : SameNotes(s, s)
  BY DEF SameNotes

LEMMA HangupStays ==
    ASSUME MInv, NEW p \in Peer, NEW waiting \in Seq(Message), Hangup(p, waiting),
           waiting = in[p] \/ (in[p] # <<>> /\ waiting = Tail(in[p])), conn[p] # "new",
           known' = known, UNCHANGED wsVars
    PROVE  MStep
<1>0. NetType /\ PeerOK(conn[p], in[p], peerStates[p])
  BY DEF MInv, HInv, WInv, PeersOK
<1>1. PICK n \in {0} \cup ({1} \cap DOMAIN waiting) : in' = [in EXCEPT ![p] = SubSeq(waiting, 1, n)]
  BY DEF Hangup
<1>2. n \in 0..1 /\ n <= Len(waiting)
  OBVIOUS
<1>3. conn' = [conn EXCEPT ![p] = IF @ = "up" THEN "closed" ELSE @]
  BY DEF Hangup
<1>4. in[p] \in Seq(Message) /\ in'[p] = SubSeq(waiting, 1, n) /\ \A q \in Peer \ {p} : in'[q] = in[q]
  BY <1>0, <1>1 DEF NetType
<1>5. conn'[p] \in {"closed", "gone"} /\ \A q \in Peer \ {p} : conn'[q] = conn[q]
  BY <1>0, <1>3 DEF NetType
<1>6. PeerOK(conn'[p], SubSeq(waiting, 1, n), peerStates[p])
  BY <1>0, <1>2, <1>4, <1>5, ClosedPeer
<1>7. peerStates' = peerStates /\ UNCHANGED <<recorded, takenBack>>
  BY DEF wsVars
<1>8. PeerOK(conn'[p], in'[p], peerStates'[p])
  BY <1>4, <1>6, <1>7
<1>9. \A q \in Peer : SameNotes(peerStates[q], peerStates'[q])
  BY <1>7, SameRefl
<1> QED BY <1>4, <1>5, <1>7, <1>8, <1>9, NotesKept

(* The message of a peer that is handled, or that disconnects it.          *)
LEMMA ConsumeQueue ==
    ASSUME NetType, NEW p \in Peer, in[p] # <<>>, Consume(p)
    PROVE  in'[p] = Tail(in[p]) /\ \A q \in Peer \ {p} : in'[q] = in[q]
  BY DEF Consume, NetType

LEMMA DisconnectStays ==
    ASSUME MInv, NEW p \in Peer, in[p] # <<>>, Disconnect(p), known' = known, UNCHANGED wsVars
    PROVE  MStep
<1>1. Tail(in[p]) \in Seq(Message)
  BY DEF MInv, HInv, WInv, NetType
<1>2. conn[p] # "new"
  BY DEF MInv, PeersOK, PeerOK
<1> QED BY <1>1, <1>2, HangupStays DEF Disconnect

(* A message other than a transaction that changes no notes.               *)
LEMMA MessageStays ==
    ASSUME MInv, NEW p \in Peer, in[p] # <<>>, Head(in[p]).type # "tx", Consume(p), UNCHANGED conn,
           \A q \in Peer : SameNotes(peerStates[q], peerStates'[q]),
           Below(known') \subseteq Below(known) \cup BeforeCreation, UNCHANGED <<recorded, takenBack>>
    PROVE  MStep
<1>0. NetType /\ in[p] \in Seq(Message) /\ PeerOK(conn[p], in[p], peerStates[p])
  BY DEF MInv, HInv, WInv, PeersOK, NetType
<1>1. PeerOK(conn[p], Tail(in[p]), peerStates[p])
  BY <1>0, TailPeer
<1>2. PeerOK(conn[p], Tail(in[p]), peerStates'[p])
  BY <1>1, SamePeer
<1>3. in'[p] = Tail(in[p]) /\ \A q \in Peer \ {p} : in'[q] = in[q]
  BY <1>0, ConsumeQueue
<1>4. PeerOK(conn'[p], in'[p], peerStates'[p])
  BY <1>2, <1>3
<1> QED BY <1>3, <1>4, NotesKept

LEMMA PeerStepsStay ==
    ASSUME MInv, NEW p \in Peer, PeerSteps(p)
    PROVE  MStep
<1>0. NetType /\ RequestType /\ in[p] \in Seq(Message) /\ PeerOK(conn[p], in[p], peerStates[p])
  BY DEF MInv, HInv, WInv, PeersOK, NetType
<1>1. CASE PeerConnects(p)
  <2>1. /\ conn[p] = "new" /\ conn' = [conn EXCEPT ![p] = "up"]
        /\ in' = [in EXCEPT ![p] = <<[type |-> "newPeer"]>>]
        /\ peerStates' = peerStates /\ known' = known /\ UNCHANGED <<recorded, takenBack>>
    BY <1>1 DEF PeerConnects
  <2>2. /\ conn'[p] = "up" /\ in'[p] = <<[type |-> "newPeer"]>>
        /\ \A q \in Peer \ {p} : conn'[q] = conn[q] /\ in'[q] = in[q]
    BY <1>0, <2>1 DEF NetType
  <2>3. ~peerStates[p].registered
    BY <1>0, <2>1 DEF PeerOK
  <2>4. PeerOK("up", <<[type |-> "newPeer"]>>, peerStates[p])
    BY <2>3 DEF PeerOK, BlocksFollowed
  <2>5. PeerOK(conn'[p], in'[p], peerStates'[p])
    BY <2>1, <2>2, <2>4
  <2>6. \A q \in Peer : SameNotes(peerStates[q], peerStates'[q])
    BY <2>1, SameRefl
  <2> QED BY <2>1, <2>2, <2>5, <2>6, NotesKept
<1>2. CASE PeerDisconnects(p)
  BY <1>0, <1>2, HangupStays DEF PeerDisconnects
<1>3. ASSUME NEW more \in Seq(Message), BlocksFollowed(more),
             \A i \in 1..Len(more) : more[i].type # "newPeer",
             conn[p] = "up", in' = [in EXCEPT ![p] = @ \o more],
             UNCHANGED <<known, wsVars, conn>>
      PROVE  MStep
  <2>1. PeerOK("up", in[p] \o more, peerStates[p])
    BY <1>0, <1>3, AppendPeer
  <2>2. in'[p] = in[p] \o more /\ \A q \in Peer \ {p} : in'[q] = in[q]
    BY <1>0, <1>3 DEF NetType
  <2>3. peerStates' = peerStates /\ UNCHANGED <<recorded, takenBack>> /\ known' = known /\ conn' = conn
    BY <1>3 DEF wsVars
  <2>4. PeerOK(conn'[p], in'[p], peerStates'[p])
    BY <1>3, <2>1, <2>2, <2>3
  <2>5. \A q \in Peer : SameNotes(peerStates[q], peerStates'[q])
    BY <2>3, SameRefl
  <2> QED BY <2>2, <2>3, <2>4, <2>5, NotesKept
<1>4. CASE PeerAnswers(p)
  <2>1. Head(out[p]) \in Request
    BY <1>0, <1>4 DEF PeerAnswers, RequestType
  <2> DEFINE more == Answer(p, Head(out[p]))
  <2>2. more \in Seq(Message) /\ BlocksFollowed(more) /\ \A i \in 1..Len(more) : more[i].type # "newPeer"
    BY <1>0, <2>1, AnswerLemma, AnswerFollowed
  <2>3. conn[p] = "up" /\ in' = [in EXCEPT ![p] = @ \o more] /\ UNCHANGED <<known, wsVars, conn>>
    BY <1>4 DEF PeerAnswers
  <2> HIDE DEF more
  <2> QED BY <1>3, <2>2, <2>3
<1>5. ASSUME NEW blocks \in Seq(Block), NEW txs \in SUBSET Tx, Announce(p, blocks, txs),
             UNCHANGED <<known, wsVars, conn>>
      PROVE  MStep
  <2> DEFINE m == [type |-> "inv", blocks |-> blocks, txs |-> txs]
  <2>1. m \in Message /\ m.type = "inv"
    BY DEF Message
  <2>2. CASE conn[p] = "up"
    <3>1. in' = [in EXCEPT ![p] = Append(@, m)]
      BY <1>5, <2>2 DEF Announce
    <3> HIDE DEF m
    <3>2. Append(in[p], m) = in[p] \o <<m>> /\ <<m>> \in Seq(Message)
      BY <1>0, <2>1
    <3>3. in' = [in EXCEPT ![p] = @ \o <<m>>]
      BY <3>1, <3>2
    <3>4. BlocksFollowed(<<m>>) /\ \A i \in 1..Len(<<m>>) : <<m>>[i].type # "newPeer"
      BY <2>1 DEF BlocksFollowed
    <3> QED BY <1>3, <1>5, <2>2, <3>2, <3>3, <3>4
  <2>3. CASE conn[p] # "up"
    <3>1. in' = in /\ peerStates' = peerStates /\ conn' = conn /\ known' = known
          /\ UNCHANGED <<recorded, takenBack>>
      BY <1>5, <2>3 DEF Announce, wsVars
    <3>2. \A q \in Peer : SameNotes(peerStates[q], peerStates'[q])
      BY <3>1, SameRefl
    <3> QED BY <1>0, <3>1, <3>2, NotesKept
  <2> QED BY <2>2, <2>3
<1>6. ASSUME NEW b \in Block, PeerAdvances(p, b) PROVE MStep
  <2>1. <<b>> \in Seq(Block) /\ {} \in SUBSET Tx /\ Announce(p, <<b>>, {})
        /\ UNCHANGED <<known, wsVars, conn>>
    BY <1>6 DEF PeerAdvances
  <2> QED BY <1>5, <2>1
<1>7. ASSUME NEW t \in Unconfirmed, PeerAnnounces(p, t) PROVE MStep
  <2>1. <<>> \in Seq(Block) /\ {t} \in SUBSET Tx /\ Announce(p, <<>>, {t})
        /\ UNCHANGED <<known, wsVars, conn>>
    BY <1>7, WireAssumption DEF PeerAnnounces
  <2> QED BY <1>5, <2>1
<1> QED BY <1>1, <1>2, <1>4, <1>6, <1>7 DEF PeerSteps

LEMMA ResyncStays ==
    ASSUME MInv, Resync
    PROVE  MStep
<1>1. /\ startSync(syncPeer, peerStates) /\ UNCHANGED <<known, recorded, takenBack, conn, in>>
      /\ ChainOK(Chain) /\ RequestType /\ peerStates \in States /\ syncPeer \in Peer \cup {NoPeer}
  BY DEF Resync, MInv, HInv, WInv, WalletType
<1>2. \A q \in Peer : SameNotes(peerStates[q], peerStates'[q])
  BY <1>1, StartSyncLemma DEF SameNotes
<1>3. PeersOK'
  <2> SUFFICES ASSUME NEW q \in Peer PROVE PeerOK(conn'[q], in'[q], peerStates'[q])
    BY DEF PeersOK
  <2>1. PeerOK(conn[q], in[q], peerStates[q])
    BY DEF MInv, PeersOK
  <2> QED BY <1>1, <1>2, <2>1, SamePeer
<1>4. ASSUME AllStay' PROVE Covered(known', peerStates', recorded' \cup takenBack')
  <2>1. AllStay
    BY <1>1, <1>4 DEF AllStay
  <2>2. Covered(known, peerStates, recorded \cup takenBack)
    BY <2>1 DEF MInv
  <2>3. known' = known /\ recorded' = recorded /\ takenBack' = takenBack
    BY <1>1
  <2> QED BY <1>2, <2>2, <2>3, CoveredKept
<1> QED BY <1>3, <1>4 DEF MStep

(* A rollback leaves nothing below that was not there before.              *)
LEMMA RollbackStays ==
    ASSUME MInv, NEW b, NEW n, Rollback(b) \/ RollbackToHeight(n)
    PROVE  MStep
<1>1. /\ UNCHANGED <<conn, in, peerStates, recorded, takenBack>>
      /\ known \in SUBSET Block /\ known' \subseteq known
  BY RollbacksLemma DEF Rollback, RollbackToHeight, wsVars, MInv, HInv, WInv, ChainOK, Chain
<1>2. PeersOK' /\ (AllStay' => AllStay)
  BY <1>1 DEF MInv, PeersOK, AllStay
<1>3. Below(known') \subseteq Below(known)
  BY <1>1, BelowLemma
<1>4. ASSUME AllStay' PROVE Covered(known', peerStates', recorded' \cup takenBack')
  <2>1. Covered(known, peerStates, recorded \cup takenBack)
    BY <1>2, <1>4 DEF MInv
  <2> QED BY <1>1, <1>3, <2>1 DEF Covered
<1> QED BY <1>2, <1>4 DEF MStep

(* A new peer has no notes yet to lose.                                    *)
LEMMA NewPeerStays ==
    ASSUME MInv, NEW p \in Peer, handleNewPeerMsg(p)
    PROVE  MStep
<1> DEFINE states == [peerStates EXCEPT ![p] = NewState(p)]
<1>0. /\ ChainOK(Chain) /\ RequestType /\ NetType /\ peerStates \in States
      /\ syncPeer \in Peer \cup {NoPeer} /\ NotesTrue(peerStates)
      /\ in[p] \in Seq(Message) /\ PeerOK(conn[p], in[p], peerStates[p])
  BY DEF MInv, HInv, WInv, WalletType, PeersOK, NetType
<1>1. /\ in[p] # <<>> /\ Head(in[p]).type = "newPeer" /\ Consume(p)
      /\ UNCHANGED <<known, recorded, takenBack, conn>>
      /\ \/ startSync(NoPeer, states)
         \/ peerStates' = states
  BY DEF handleNewPeerMsg, Receives
<1>2. NewState(p) \in State /\ NewState(p).requestedTxns = {}
  BY DEF NewState, State
<1>3. states \in States /\ states[p] = NewState(p) /\ \A q \in Peer \ {p} : states[q] = peerStates[q]
  BY <1>0, <1>2 DEF States
<1> HIDE DEF states
<1>4. \A q \in Peer : SameNotes(states[q], peerStates'[q])
  <2>1. CASE startSync(NoPeer, states)
    BY <1>0, <1>3, <2>1, StartSyncLemma DEF SameNotes
  <2>2. CASE peerStates' = states
    BY <2>2, SameRefl
  <2> QED BY <1>1, <2>1, <2>2
<1>5. in'[p] = Tail(in[p]) /\ \A q \in Peer \ {p} : in'[q] = in[q]
  BY <1>0, <1>1, ConsumeQueue
<1>6. ~peerStates[p].registered
  <2>1. 1 \in 1..Len(in[p]) /\ in[p][1].type = "newPeer"
    BY <1>0, <1>1
  <2> QED BY <1>0, <2>1 DEF PeerOK
<1>7. PeerOK(conn'[p], in'[p], peerStates'[p])
  <2>1. PeerOK(conn[p], Tail(in[p]), peerStates[p]) /\ conn[p] # "new"
    BY <1>0, <1>1, TailPeer
  <2>2. \A i \in 1..Len(Tail(in[p])) : Tail(in[p])[i].type # "newPeer"
    <3> SUFFICES ASSUME NEW i \in 1..Len(Tail(in[p])) PROVE Tail(in[p])[i].type # "newPeer"
      OBVIOUS
    <3>1. i + 1 \in 1..Len(in[p]) /\ i + 1 # 1 /\ Tail(in[p])[i] = in[p][i + 1]
      BY <1>0, <1>1, TailSeq
    <3> QED BY <1>0, <3>1 DEF PeerOK
  <2>3. PeerOK(conn[p], Tail(in[p]), NewState(p))
    BY <1>2, <2>1, <2>2 DEF PeerOK, NotesFollowed
  <2>4. PeerOK(conn[p], Tail(in[p]), peerStates'[p])
    BY <1>3, <1>4, <2>3, SamePeer
  <2> QED BY <1>1, <1>5, <2>4
<1>8. PeersOK'
  BY <1>1, <1>3, <1>4, <1>5, <1>7, OthersSame
<1>9. ASSUME AllStay' PROVE Covered(known', peerStates', recorded' \cup takenBack')
  <2>1. AllStay
    BY <1>1, <1>9 DEF AllStay
  <2>2. Covered(known, peerStates, recorded \cup takenBack)
    BY <2>1 DEF MInv
  <2>3. Covered(known, states, recorded \cup takenBack)
    BY <1>3, <1>6, <2>2 DEF Covered, IsNoted
  <2>4. known' = known /\ recorded' = recorded /\ takenBack' = takenBack
    BY <1>1
  <2> QED BY <1>4, <2>3, <2>4, CoveredKept
<1> QED BY <1>8, <1>9 DEF MStep

LEMMA DonePeerStays ==
    ASSUME MInv, NEW p \in Peer, handleDonePeerMsg(p)
    PROVE  MStep
<1> DEFINE states == [peerStates EXCEPT ![p] = NoState]
<1>0. /\ ChainOK(Chain) /\ RequestType /\ NetType /\ peerStates \in States
      /\ syncPeer \in Peer \cup {NoPeer} /\ PeerOK(conn[p], in[p], peerStates[p])
  BY DEF MInv, HInv, WInv, WalletType, PeersOK
<1>1. /\ conn' = [conn EXCEPT ![p] = "gone"] /\ in' = in
      /\ \/ startSync(NoPeer, states)
         \/ peerStates' = states
         \/ peerStates' = peerStates /\ ~peerStates[p].registered
  BY DEF handleDonePeerMsg
<1>2. states \in States /\ states[p] = NoState /\ \A q \in Peer \ {p} : states[q] = peerStates[q]
  BY <1>0 DEF States
<1> HIDE DEF states
<1>3. /\ ~peerStates'[p].registered
      /\ \A q \in Peer \ {p} : SameNotes(peerStates[q], peerStates'[q])
  <2>1. CASE startSync(NoPeer, states)
    <3>1. \A q \in Peer : SameNotes(states[q], peerStates'[q])
      BY <1>0, <1>2, <2>1, StartSyncLemma DEF SameNotes
    <3> QED BY <1>2, <3>1 DEF SameNotes, NoState
  <2>2. CASE peerStates' = states
    BY <1>2, <2>2, SameRefl DEF NoState
  <2>3. CASE peerStates' = peerStates /\ ~peerStates[p].registered
    BY <2>3, SameRefl
  <2> QED BY <1>1, <2>1, <2>2, <2>3
<1>4. conn'[p] = "gone" /\ \A q \in Peer \ {p} : conn'[q] = conn[q]
  BY <1>0, <1>1 DEF NetType
<1>5. PeerOK(conn'[p], in'[p], peerStates'[p])
  BY <1>0, <1>1, <1>3, <1>4 DEF PeerOK
<1>6. PeersOK'
  BY <1>1, <1>3, <1>4, <1>5, OthersSame
<1>7. ~AllStay'
  BY <1>4 DEF AllStay
<1> QED BY <1>6, <1>7 DEF MStep

LEMMA HeadersStay ==
    ASSUME MInv, NEW p \in Peer, handleHeadersMsg(p)
    PROVE  MStep
<1> DEFINE headers == Head(in[p]).headers
           older   == SelectInSeq(headers, LAMBDA b : b \notin BeforeCreation)
           take    == IF older = 0 THEN headers ELSE SubSeq(headers, 1, older - 1)
<1>0. /\ ChainOK(Chain) /\ NetType /\ in[p] # <<>> /\ Head(in[p]).type = "headers" /\ UNCHANGED wsVars
  BY DEF MInv, HInv, WInv, handleHeadersMsg, Receives
<1>1. CASE p # syncPeer \/ ~peerStates[p].registered
  BY <1>0, <1>1, DisconnectStays DEF handleHeadersMsg
<1>2. CASE ~(p # syncPeer \/ ~peerStates[p].registered)
  <2>1. Consume(p) /\ UNCHANGED conn /\ \E bad : known' = CommitHeaders(take, bad).known
    BY <1>2 DEF handleHeadersMsg
  <2>2. Head(in[p]) \in Message
    BY <1>0, <2>1, ConsumeLemma
  <2>3. headers \in Seq(Block)
    BY <1>0, <2>2 DEF Message
  <2> HIDE DEF headers
  <2>4. /\ older \in 0..Len(headers)
        /\ \A i \in 1..Len(headers) : older = 0 \/ i < older => headers[i] \in BeforeCreation
    BY <2>3, OlderLemma
  <2> HIDE DEF older
  <2>5. take \in Seq(Block) /\ \A i \in 1..Len(take) : take[i] \in BeforeCreation
    <3>1. CASE older = 0
      BY <2>3, <2>4, <3>1
    <3>2. CASE older # 0
      <4>1. older - 1 \in 0..Len(headers)
        BY <2>3, <2>4, <3>2
      <4>2. /\ SubSeq(headers, 1, older - 1) \in Seq(Block)
            /\ Len(SubSeq(headers, 1, older - 1)) = older - 1
            /\ \A i \in 1..(older - 1) : SubSeq(headers, 1, older - 1)[i] = headers[i]
        BY <2>3, <4>1
      <4>3. \A i \in 1..(older - 1) : i \in 1..Len(headers) /\ i < older
        BY <2>3, <2>4, <4>1
      <4> QED BY <2>4, <3>2, <4>2, <4>3
    <3> QED BY <3>1, <3>2
  <2> HIDE DEF take
  <2>6. PICK bad : known' = CommitHeaders(take, bad).known
    BY <2>1
  <2>6a. Below(known') \subseteq Below(known) \cup {take[i] : i \in 1..Len(take)}
    BY <1>0, <2>5, <2>6, CommitHeadersLemma
  <2>7. Below(known') \subseteq Below(known) \cup BeforeCreation
    BY <2>5, <2>6a
  <2>8. peerStates' = peerStates /\ UNCHANGED <<recorded, takenBack>>
    BY <1>0 DEF wsVars
  <2>9. \A q \in Peer : SameNotes(peerStates[q], peerStates'[q])
    BY <2>8, SameRefl
  <2> QED BY <1>0, <2>1, <2>7, <2>8, <2>9, MessageStays
<1> QED BY <1>1, <1>2

LEMMA HeightPositive ==
    ASSUME NEW c \in Block \ {Checkpoint}
    PROVE  Height[c] # 0
<1>1. PrevBlock[c] \in Block /\ Height[c] = Height[PrevBlock[c]] + 1
  BY WireAssumption
<1>2. Height[PrevBlock[c]] \in Nat
  BY <1>1, WireAssumption
<1> QED BY <1>1, <1>2

(* A message that may add to the notes of its peer.  Confirmed notes it    *)
(* has none to lose, since their transactions would have come before.      *)
LEMMA NewNotes ==
    ASSUME MInv, NEW p \in Peer, in[p] # <<>>, Head(in[p]).type # "tx", Consume(p), UNCHANGED conn,
           peerStates[p].registered, NEW s \in State, peerStates' = [peerStates EXCEPT ![p] = s],
           conn[p] = "up" => \A r \in s.requestedTxns :
               r[2] # 0 => r \in peerStates[p].requestedTxns \/ Follows(in[p], 1, r[1]),
           recorded \cup takenBack \subseteq recorded' \cup takenBack',
           \A c \in Below(known') : c \in Below(known) \/ \A t \in Txns[c] : <<t, Height[c]>> \in s.requestedTxns
    PROVE  MStep
<1>0. /\ NetType /\ in[p] \in Seq(Message) /\ PeerOK(conn[p], in[p], peerStates[p])
      /\ peerStates \in States
  BY DEF MInv, HInv, WInv, WalletType, PeersOK, NetType
<1>1. /\ PeerOK(conn[p], Tail(in[p]), peerStates[p]) /\ conn[p] # "new"
      /\ conn[p] = "up" => \A r \in peerStates[p].requestedTxns : r[2] = 0
  BY <1>0, TailPeer
<1>2. peerStates'[p] = s /\ s.registered /\ \A q \in Peer \ {p} : peerStates'[q] = peerStates[q]
  BY <1>0 DEF States, State
<1>3. in'[p] = Tail(in[p]) /\ \A q \in Peer \ {p} : in'[q] = in[q]
  BY <1>0, ConsumeQueue
<1>4. ASSUME conn[p] = "up" PROVE NotesFollowed(Tail(in[p]), s.requestedTxns)
  <2> SUFFICES ASSUME NEW r \in s.requestedTxns, r[2] # 0 PROVE Follows(Tail(in[p]), 0, r[1])
    BY DEF NotesFollowed
  <2>1. Follows(in[p], 1, r[1])
    BY <1>1, <1>4
  <2>2. Follows(Tail(in[p]), 1 - 1, r[1])
    BY <1>0, <2>1, TailFollows
  <2> QED BY <2>2
<1>5. PeerOK(conn[p], Tail(in[p]), s)
  BY <1>1, <1>2, <1>4 DEF PeerOK
<1>6. PeerOK(conn'[p], in'[p], peerStates'[p])
  BY <1>2, <1>3, <1>5
<1>7. \A q \in Peer \ {p} : SameNotes(peerStates[q], peerStates'[q])
  BY <1>2, SameRefl
<1>8. PeersOK'
  BY <1>3, <1>6, <1>7, OthersSame
<1>9. ASSUME AllStay' PROVE Covered(known', peerStates', recorded' \cup takenBack')
  <2>1. AllStay /\ conn[p] = "up"
    BY <1>1, <1>9 DEF AllStay
  <2>2. Covered(known, peerStates, recorded \cup takenBack)
    BY <2>1 DEF MInv
  <2> SUFFICES ASSUME NEW c \in Below(known') \ (BeforeCreation \cup {Checkpoint}), NEW t \in Txns[c]
               PROVE  \/ <<t, Height[c]>> \in recorded' \cup takenBack'
                      \/ IsNoted(peerStates', <<t, Height[c]>>)
    BY DEF Covered
  <2>3. CASE c \in Below(known)
    <3>1. CASE <<t, Height[c]>> \in recorded \cup takenBack
      BY <3>1
    <3>2. CASE IsNoted(peerStates, <<t, Height[c]>>)
      <4>1. PICK q \in Peer : peerStates[q].registered /\ <<t, Height[c]>> \in peerStates[q].requestedTxns
        BY <3>2 DEF IsNoted
      <4>2. Height[c] # 0
        <5>1. c \in Block \ {Checkpoint}
          BY DEF Below
        <5> QED BY <5>1, HeightPositive
      <4>3. q # p
        BY <1>1, <2>1, <4>1, <4>2
      <4> QED BY <1>2, <4>1, <4>3 DEF IsNoted
    <3> QED BY <2>2, <2>3, <3>1, <3>2 DEF Covered
  <2>4. CASE c \notin Below(known)
    <3>1. <<t, Height[c]>> \in s.requestedTxns
      BY <2>4
    <3> QED BY <1>2, <3>1 DEF IsNoted
  <2> QED BY <2>3, <2>4
<1> QED BY <1>8, <1>9 DEF MStep

LEMMA NextBlockNotes ==
    ASSUME NEW p \in Peer, NEW state \in State, NEW ks, NEW bst, NEW heights,
           NextBlock(p, state, ks, bst, heights)
    PROVE  \E s \in State : /\ peerStates' = [peerStates EXCEPT ![p] = s]
                            /\ s.requestedTxns = state.requestedTxns
<1>1. CASE peerStates' = [peerStates EXCEPT ![p] = state]
  BY <1>1
<1>2. CASE state.requestQueue # <<>> /\ ~Current(bst, peerStates, heights)
  <2> DEFINE queue == state.requestQueue
             next == [state EXCEPT !.requestQueue = Tail(queue),
                                   !.requestedBlocks = @ \cup {Head(queue)}]
  <2>1. Head(queue) \in Block /\ Tail(queue) \in Seq(Block)
    BY <1>2 DEF State
  <2>2. next \in State /\ next.requestedTxns = state.requestedTxns
    BY <2>1 DEF State
  <2>3. peerStates' = [peerStates EXCEPT ![p] = next]
    BY <1>2 DEF NextBlock
  <2> HIDE DEF next
  <2> QED BY <2>2, <2>3
<1> QED BY <1>1, <1>2 DEF NextBlock

(* What a block that is not refused does to the notes and to the store.    *)
LEMMA ProcessBlockNotes ==
    ASSUME HInv, NEW p \in Peer, NEW b \in Block, NEW state \in State, NEW bad,
           ProcessBlock(p, b, state, bad)
    PROVE  /\ \/ known' = known
              \/ Checks(Chain, b, bad) /\ Below(known') \subseteq Below(known) \cup {b}
           /\ recorded \cup takenBack \subseteq recorded' \cup takenBack'
           /\ \E s \in State :
                 /\ peerStates' = [peerStates EXCEPT ![p] = s]
                 /\ s.requestedTxns = WithTxns(state.requestedTxns, b,
                       IF b = best \/ ~Checks(Chain, b, bad) THEN 0 ELSE Height[b])
<1> DEFINE ch      == CommitHeader(Chain, b, bad)
           newTip  == NewTip(Chain, b, bad)
           height  == IF b = best \/ ~Checks(Chain, b, bad) THEN 0 ELSE Height[b]
           heights == IF Current(ch.best, peerStates, lastBlock)
                      THEN [lastBlock EXCEPT ![p] = height] ELSE lastBlock
           notes   == WithTxns(state.requestedTxns, b, height)
           noted   == [state EXCEPT !.requestedTxns = WithTxns(@, b, height)]
           reorg   == /\ newTip /\ PrevBlock[b] # best
                      /\ Current(b, peerStates, heights)
           ancestor == CommonAncestor(Chain, b)
           end     == IF reorg THEN ancestor ELSE ch.best
           above   == IF reorg THEN {r \in recorded : r[2] > Height[ancestor]} ELSE {}
           empty   == [noted EXCEPT !.requestQueue = <<>>, !.requestedBlocks = {}]
           cleared == IF reorg THEN empty ELSE noted
<1>1. known' = ch.known
  BY DEF ProcessBlock
<1>2. \/ ch.known = known
      \/ Checks(Chain, b, bad) /\ Below(ch.known) \subseteq Below(known) \cup {b}
  <2>1. ch.known = known \/ Checks(Chain, b, bad)
    BY DEF CommitHeader, Chain
  <2>2. Below(ch.known) \subseteq Below(Chain.known) \cup {b}
    BY CommitLemma DEF HInv, WInv
  <2> QED BY <2>1, <2>2 DEF Chain
<1>3. noted \in State /\ noted.requestedTxns = notes
  <2>1. notes \subseteq Tx \X Nat
    <3>1. state.requestedTxns \subseteq Tx \X Nat /\ Txns[b] \subseteq Tx /\ height \in Nat
      BY WireAssumption DEF State
    <3> HIDE DEF height
    <3> QED BY <3>1 DEF WithTxns
  <2>2. noted = [state EXCEPT !.requestedTxns = notes]
    OBVIOUS
  <2> HIDE DEF notes, noted
  <2> QED BY <2>1, <2>2 DEF State
<1> HIDE DEF noted, notes
<1>4. empty \in State /\ empty.requestedTxns = notes
  <2>0. \A q \in Seq(Block), B \in SUBSET Block :
           LET e == [noted EXCEPT !.requestQueue = q, !.requestedBlocks = B]
           IN  e \in State /\ e.requestedTxns = noted.requestedTxns
    BY <1>3 DEF State
  <2>1. <<>> \in Seq(Block) /\ {} \in SUBSET Block
    OBVIOUS
  <2>2. empty \in State /\ empty.requestedTxns = noted.requestedTxns
    BY ONLY <2>0, <2>1, Zenon
  <2> QED BY <1>3, <2>2
<1>5. cleared \in {empty, noted}
  OBVIOUS
<1> HIDE DEF empty
<1>6. CASE newTip
  <2>1. recorded' = recorded \ above /\ takenBack' = takenBack \cup above
        /\ NextBlock(p, cleared, ch.known, end, heights)
    BY <1>6 DEF ProcessBlock, noted, empty
  <2> HIDE DEF above, cleared, end, heights, ch
  <2>2. cleared \in State /\ cleared.requestedTxns = notes
    BY <1>3, <1>4, <1>5
  <2>3. \E s \in State : /\ peerStates' = [peerStates EXCEPT ![p] = s]
                         /\ s.requestedTxns = notes
    BY <2>1, <2>2, NextBlockNotes
  <2>4. recorded \cup takenBack \subseteq recorded' \cup takenBack'
    BY <2>1
  <2> QED BY <1>1, <1>2, <2>3, <2>4 DEF notes
<1>7. CASE ~newTip
  <2>1. peerStates' = [peerStates EXCEPT ![p] = noted] /\ UNCHANGED <<recorded, takenBack>>
    BY <1>7 DEF ProcessBlock, noted
  <2> HIDE DEF ch
  <2> QED BY <1>1, <1>2, <1>3, <2>1 DEF notes
<1> QED BY <1>6, <1>7

LEMMA MerkleBlockStays ==
    ASSUME MInv, NEW p \in Peer, handleMerkleBlockMsg(p)
    PROVE  MStep
<1> DEFINE b     == Head(in[p]).block
           state == [peerStates[p] EXCEPT !.requestedBlocks = @ \ {b}]
<1>0. /\ HInv /\ ChainOK(Chain) /\ NetType /\ peerStates \in States /\ in[p] \in Seq(Message)
      /\ PeerOK(conn[p], in[p], peerStates[p])
      /\ in[p] # <<>> /\ Head(in[p]).type = "merkleblock" /\ Head(in[p]) \in Message
  BY DEF MInv, HInv, WInv, WalletType, NetType, PeersOK, handleMerkleBlockMsg, Receives
<1>1. CASE Disconnect(p) /\ UNCHANGED <<known, best, wsVars>>
  BY <1>0, <1>1, DisconnectStays
<1>2. CASE Ignore(p) /\ UNCHANGED <<known, best, wsVars>>
  <2>1. peerStates' = peerStates /\ UNCHANGED <<recorded, takenBack>> /\ known' = known
        /\ Consume(p) /\ UNCHANGED conn
    BY <1>2 DEF wsVars, Ignore
  <2>2. \A q \in Peer : SameNotes(peerStates[q], peerStates'[q])
    BY <2>1, SameRefl
  <2> QED BY <1>0, <2>1, <2>2, MessageStays
<1>3. CASE /\ peerStates[p].registered
           /\ Consume(p) /\ UNCHANGED conn
           /\ \E bad :
                 IF ~Refused(Chain, b, bad)
                 THEN ProcessBlock(p, b, state, bad)
                 ELSE /\ peerStates' = [peerStates EXCEPT ![p] = state]
                      /\ NoRequest
                      /\ UNCHANGED <<known, best, requestedTxns, mempool, recorded, takenBack, lastBlock>>
  <2>1. b \in Block
    BY <1>0 DEF Message
  <2>2. peerStates[p] \in State
    BY <1>0, <1>3 DEF States, NoState
  <2>3. state \in State /\ state.requestedTxns = peerStates[p].requestedTxns
    BY <2>2 DEF State
  <2> HIDE DEF state
  <2>4. ASSUME peerStates' = [peerStates EXCEPT ![p] = state], UNCHANGED <<known, recorded, takenBack>>
        PROVE  MStep
    <3> HIDE DEF b
    <3> QED BY <1>0, <1>3, <2>3, <2>4, NewNotes
  <2>5. ASSUME NEW bad, ProcessBlock(p, b, state, bad) PROVE MStep
    <3> DEFINE height == IF b = best \/ ~Checks(Chain, b, bad) THEN 0 ELSE Height[b]
    <3>1. /\ \/ known' = known
             \/ Checks(Chain, b, bad) /\ Below(known') \subseteq Below(known) \cup {b}
          /\ recorded \cup takenBack \subseteq recorded' \cup takenBack'
          /\ \E s \in State : /\ peerStates' = [peerStates EXCEPT ![p] = s]
                              /\ s.requestedTxns = WithTxns(state.requestedTxns, b, height)
      BY <1>0, <2>1, <2>3, <2>5, ProcessBlockNotes
    <3>2. PICK s \in State : /\ peerStates' = [peerStates EXCEPT ![p] = s]
                             /\ s.requestedTxns = WithTxns(peerStates[p].requestedTxns, b, height)
      BY <2>3, <3>1
    <3>3. ASSUME conn[p] = "up", NEW t \in Txns[b] PROVE Follows(in[p], 1, t)
      <4>1. 1 \in 1..Len(in[p]) /\ in[p][1] = Head(in[p])
        BY <1>0
      <4>2. BlocksFollowed(in[p])
        BY <1>0, <3>3 DEF PeerOK
      <4> QED BY <1>0, <3>3, <4>1, <4>2 DEF BlocksFollowed
    <3> HIDE DEF b
    <3>4. ASSUME conn[p] = "up", NEW r \in s.requestedTxns
          PROVE  r \in peerStates[p].requestedTxns \/ Follows(in[p], 1, r[1])
      <4>1. r \in peerStates[p].requestedTxns \/ r \in Txns[b] \X {height}
        BY <3>2, <3>4 DEF WithTxns
      <4>2. r \in Txns[b] \X {height} => r[1] \in Txns[b]
        OBVIOUS
      <4> QED BY <3>3, <3>4, <4>1, <4>2
    <3>5. ASSUME NEW c \in Below(known'), c \notin Below(known), NEW t \in Txns[c]
          PROVE  <<t, Height[c]>> \in s.requestedTxns
      <4>0. known \in SUBSET Block /\ best \in Below(known)
        BY <1>0, BelowLemma DEF ChainOK, Chain
      <4>1. c = b /\ b # best /\ Checks(Chain, b, bad)
        BY <3>1, <3>5, <4>0
      <4>2. <<t, Height[c]>> \in Txns[b] \X {height}
        BY <3>5, <4>1
      <4> QED BY <3>2, <4>2 DEF WithTxns
    <3> QED BY <1>0, <1>3, <3>1, <3>2, <3>4, <3>5, NewNotes
  <2> QED BY <1>3, <2>4, <2>5
<1> QED BY <1>1, <1>2, <1>3 DEF handleMerkleBlockMsg

LEMMA InvStays ==
    ASSUME MInv, NEW p \in Peer, handleInvMsg(p)
    PROVE  MStep
<1>0. /\ HInv /\ peerStates \in States /\ in[p] \in Seq(Message)
      /\ in[p] # <<>> /\ Head(in[p]).type = "inv" /\ Consume(p) /\ UNCHANGED <<known, conn>>
  BY DEF MInv, HInv, WInv, WalletType, NetType, handleInvMsg, Receives
<1>1. HInv'
  BY <1>0, InvLemma
<1>2. CASE UNCHANGED wsVars
  <2>1. peerStates' = peerStates /\ UNCHANGED <<recorded, takenBack>>
    BY <1>2 DEF wsVars
  <2>2. \A q \in Peer : SameNotes(peerStates[q], peerStates'[q])
    BY <2>1, SameRefl
  <2> QED BY <1>0, <2>1, <2>2, MessageStays
<1>3. CASE ~UNCHANGED wsVars
  <2> DEFINE msg     == Head(in[p])
             state   == peerStates[p]
             heights == IF /\ msg.blocks # <<>> /\ IsCurrent
                           /\ Last(msg.blocks) \in known
                        THEN [lastBlock EXCEPT ![p] = Height[Last(msg.blocks)]] ELSE lastBlock
             current == Current(best, peerStates, heights)
             idle    == state.requestQueue = <<>>
             wanted  == IF current THEN msg.blocks
                        ELSE IF idle THEN NewBlocks(msg.blocks) ELSE <<>>
             queue   == state.requestQueue \o wanted
             first   == IF queue # <<>> /\ (idle \/ current) THEN <<Head(queue)>> ELSE <<>>
             txs     == {t \in msg.txs : t \notin requestedTxns /\ ~haveInventory(t)}
             rest    == SubSeq(queue, Len(first) + 1, Len(queue))
             s       == [state EXCEPT !.requestQueue = rest,
                                      !.requestedBlocks = @ \cup ToSet(first),
                                      !.requestedTxns = {r \in @ : r[1] \notin txs} \cup (txs \X {0})]
  <2>1. peerStates[p].registered /\ UNCHANGED <<recorded, takenBack>>
        /\ peerStates' = [peerStates EXCEPT ![p] = s]
    BY <1>3 DEF handleInvMsg
  <2> HIDE DEF txs, rest, first
  <2>3. peerStates[p] \in State
    BY <1>0, <2>1 DEF States, NoState
  <2>4. s.registered /\ s.requestedTxns = {r \in peerStates[p].requestedTxns : r[1] \notin txs} \cup (txs \X {0})
    BY <2>3 DEF State
  <2>5. peerStates' = [peerStates EXCEPT ![p] = s]
    BY <2>1
  <2> HIDE DEF s
  <2>6. s \in State
    <3>1. peerStates'[p] = s /\ peerStates' \in States
      BY <1>0, <1>1, <2>5 DEF HInv, WInv, WalletType, States
    <3> QED BY <2>4, <3>1 DEF States, NoState
  <2>7. ASSUME NEW r \in s.requestedTxns, r[2] # 0 PROVE r \in peerStates[p].requestedTxns
    <3>1. r \notin txs \X {0}
      BY <2>7
    <3> QED BY <2>4, <2>7, <3>1
  <2> QED BY <1>0, <2>1, <2>5, <2>6, <2>7, NewNotes
<1> QED BY <1>2, <1>3

(* A transaction arrives: its note, if there is one, becomes a record.     *)
LEMMA TxStays ==
    ASSUME MInv, NEW p \in Peer, handleTxMsg(p)
    PROVE  MStep
<1> DEFINE tx    == Head(in[p]).tx
           entry == {r \in peerStates[p].requestedTxns : r[1] = tx}
<1>0. /\ NetType /\ peerStates \in States /\ in[p] \in Seq(Message)
      /\ PeerOK(conn[p], in[p], peerStates[p])
      /\ in[p] # <<>> /\ known' = known
  BY DEF MInv, HInv, WInv, WalletType, NetType, PeersOK, handleTxMsg, Receives
<1>1. CASE Disconnect(p) /\ UNCHANGED wsVars
  BY <1>0, <1>1, DisconnectStays
<1>2. ASSUME NEW s, s.registered = peerStates[p].registered,
             peerStates[p].registered => \A r \in s.requestedTxns :
                r \in peerStates[p].requestedTxns /\ r[1] # tx
      PROVE  PeerOK(conn[p], Tail(in[p]), s)
  <2>1. conn[p] # "new"
    BY <1>0 DEF PeerOK
  <2>2. \A i \in 1..Len(Tail(in[p])) : Tail(in[p])[i].type # "newPeer"
    <3> SUFFICES ASSUME NEW i \in 1..Len(Tail(in[p])) PROVE Tail(in[p])[i].type # "newPeer"
      OBVIOUS
    <3>1. i + 1 \in 1..Len(in[p]) /\ i + 1 # 1 /\ Tail(in[p])[i] = in[p][i + 1]
      BY <1>0, TailSeq
    <3> QED BY <1>0, <3>1 DEF PeerOK
  <2>3. conn[p] = "up" => BlocksFollowed(Tail(in[p]))
    BY <1>0, TailBlocks DEF PeerOK
  <2>4. ASSUME conn[p] = "up", s.registered, NEW r \in s.requestedTxns, r[2] # 0
        PROVE  Follows(Tail(in[p]), 0, r[1])
    <3>1. r \in peerStates[p].requestedTxns /\ r[1] # tx
      BY <1>2, <2>4
    <3>2. Follows(in[p], 0, r[1])
      BY <1>0, <1>2, <2>4, <3>1 DEF PeerOK, NotesFollowed
    <3> QED BY <1>0, <3>1, <3>2, HeadFollows
  <2> QED BY <2>1, <2>2, <2>3, <2>4 DEF PeerOK, NotesFollowed
<1>3. CASE ~peerStates[p].registered /\ Ignore(p) /\ UNCHANGED wsVars
  <2>1. peerStates' = peerStates /\ UNCHANGED <<recorded, takenBack>> /\ Consume(p) /\ UNCHANGED conn
    BY <1>3 DEF wsVars, Ignore
  <2>2. in'[p] = Tail(in[p]) /\ \A q \in Peer \ {p} : in'[q] = in[q]
    BY <1>0, <2>1, ConsumeQueue
  <2>3. PeerOK(conn'[p], in'[p], peerStates'[p])
    BY <1>2, <1>3, <2>1, <2>2
  <2>4. \A q \in Peer : SameNotes(peerStates[q], peerStates'[q])
    BY <2>1, SameRefl
  <2> QED BY <1>0, <2>1, <2>2, <2>3, <2>4, NotesKept
<1>4. CASE /\ peerStates[p].registered
           /\ Ignore(p)
           /\ recorded' = recorded \cup entry
           /\ takenBack' = takenBack \ entry
           /\ peerStates' = [peerStates EXCEPT ![p].requestedTxns = @ \ entry]
  <2> DEFINE s == [peerStates[p] EXCEPT !.requestedTxns = @ \ entry]
  <2>1. peerStates[p] \in State
    BY <1>0, <1>4 DEF States, NoState
  <2>2. s.registered = peerStates[p].registered
        /\ s.requestedTxns = peerStates[p].requestedTxns \ entry
    BY <2>1 DEF State
  <2>3. peerStates' = [peerStates EXCEPT ![p] = s]
    BY <1>4
  <2> HIDE DEF s
  <2>4. peerStates'[p] = s /\ \A q \in Peer \ {p} : peerStates'[q] = peerStates[q]
    BY <1>0, <2>3 DEF States
  <2>5. Consume(p) /\ UNCHANGED conn
    BY <1>4 DEF Ignore
  <2>6. in'[p] = Tail(in[p]) /\ \A q \in Peer \ {p} : in'[q] = in[q]
    BY <1>0, <2>5, ConsumeQueue
  <2>7. PeerOK(conn[p], Tail(in[p]), s)
    BY <1>2, <2>2
  <2>8. PeerOK(conn'[p], in'[p], peerStates'[p])
    BY <2>4, <2>5, <2>6, <2>7
  <2>9. \A q \in Peer \ {p} : SameNotes(peerStates[q], peerStates'[q])
    BY <2>4, SameRefl
  <2>10. PeersOK'
    BY <2>5, <2>6, <2>8, <2>9, OthersSame
  <2> HIDE DEF entry
  <2>11. ASSUME AllStay' PROVE Covered(known', peerStates', recorded' \cup takenBack')
    <3>1. AllStay
      BY <2>5, <2>11 DEF AllStay
    <3>2. Covered(known, peerStates, recorded \cup takenBack)
      BY <3>1 DEF MInv
    <3>3. recorded \cup takenBack \subseteq recorded' \cup takenBack'
      BY <1>4
    <3>4. ASSUME NEW x, IsNoted(peerStates, x) PROVE x \in recorded' \/ IsNoted(peerStates', x)
      <4>1. PICK q \in Peer : peerStates[q].registered /\ x \in peerStates[q].requestedTxns
        BY <3>4 DEF IsNoted
      <4>2. CASE q = p
        BY <1>4, <2>2, <2>4, <4>1, <4>2 DEF IsNoted
      <4>3. CASE q # p
        BY <2>4, <4>1, <4>3 DEF IsNoted
      <4> QED BY <4>2, <4>3
    <3> QED BY <1>0, <3>2, <3>3, <3>4 DEF Covered
  <2> QED BY <2>10, <2>11 DEF MStep
<1> QED BY <1>1, <1>3, <1>4 DEF handleTxMsg

LEMMA MInvInit == Init => MInv
<1> SUFFICES ASSUME Init PROVE MInv
  OBVIOUS
<1>1. HInv
  BY HInvInit
<1>2. \A p \in Peer : in[p] = <<>> /\ conn[p] = "new" /\ peerStates[p] = NoState
  BY DEF Init
<1>3. PeersOK
  BY <1>2 DEF PeersOK, PeerOK, BlocksFollowed, NoState
<1>4. Covered(known, peerStates, recorded \cup takenBack)
  <2>1. Lineage[Checkpoint] = {Checkpoint}
    <3>1. Lineage[Checkpoint] \subseteq {Checkpoint}
      <4> DEFINE C == {Checkpoint}
      <4>1. Checkpoint \in Block /\ C \in SUBSET Block /\ Checkpoint \in C
            /\ \A x \in C \ {Checkpoint} : PrevBlock[x] \in C
        BY WireAssumption
      <4> HIDE DEF C
      <4>2. Lineage[Checkpoint] \subseteq C
        BY <4>1, LineageInduction
      <4> QED BY <4>2 DEF C
    <3> QED BY <3>1, WireAssumption, LineageClosed
  <2>2. Below(known) = {Checkpoint}
    BY <2>1, WireAssumption DEF Init, Below
  <2> QED BY <2>2 DEF Covered
<1> QED BY <1>1, <1>3, <1>4 DEF MInv

LEMMA MInvNext == MInv /\ [Next]_vars => MInv'
<1> SUFFICES ASSUME MInv, [Next]_vars PROVE MInv'
  OBVIOUS
<1>1. HInv'
  BY HInvNext DEF MInv
<1>2. ASSUME NEW p \in Peer, Handle(p) PROVE MStep
  BY <1>2, NewPeerStays, HeadersStay, MerkleBlockStays, InvStays, TxStays DEF Handle
<1>3. ASSUME UNCHANGED vars PROVE MStep
  <2>1. /\ known' = known /\ peerStates' = peerStates /\ recorded' = recorded
        /\ takenBack' = takenBack /\ conn' = conn /\ in' = in
    BY <1>3 DEF vars, wsVars
  <2>2. PeersOK' /\ (AllStay' => AllStay)
    BY <2>1 DEF MInv, PeersOK, AllStay
  <2> QED BY <2>1, <2>2 DEF MStep, MInv
<1>4. MStep
  <2>1. ASSUME NEW p \in Peer, Handle(p) \/ handleDonePeerMsg(p) \/ PeerSteps(p) PROVE MStep
    BY <1>2, <2>1, DonePeerStays, PeerStepsStay
  <2>2. CASE Resync
    BY <2>2, ResyncStays
  <2>3. CASE Step
    BY <2>1, <2>2, <2>3 DEF Step
  <2> QED BY <1>3, <2>3, RollbackStays DEF Next
<1> QED BY <1>1, <1>4 DEF MStep, MInv

(* As long as the peers stay, no transaction of a block of the best chain  *)
(* is missed: the store has been told of it at its height, unless          *)
(* processReorg took that back, or a peer's note still waits for it; also  *)
(* after the user's rollbacks.                                             *)
THEOREM NothingMissed == Spec => []NoTxMissed
<1>1. MInv => NoTxMissed
  <2> SUFFICES ASSUME MInv, AllStay PROVE Missed = {}
    BY DEF NoTxMissed, AllStay
  <2>1. Covered(known, peerStates, recorded \cup takenBack)
    BY DEF MInv
  <2>2. best \in known /\ known \in SUBSET Block
    BY DEF MInv, HInv, WInv, ChainOK, Chain
  <2>3. Lineage[best] \subseteq Below(known)
    BY <2>2, LineageClosed DEF Below
  <2>4. ASSUME NEW x, IsNoted(peerStates, x) PROVE x \in Noted
    <3>1. PICK p \in Peer : peerStates[p].registered /\ x \in peerStates[p].requestedTxns
      BY <2>4 DEF IsNoted
    <3>2. p \in Registered(peerStates)
      BY <3>1 DEF Registered
    <3> QED BY <3>1, <3>2 DEF Noted
  <2>5. ASSUME NEW b \in Lineage[best] \ (BeforeCreation \cup {Checkpoint}), NEW t \in Txns[b]
        PROVE  <<t, Height[b]>> \in recorded \cup Noted \cup takenBack
    <3>1. <<t, Height[b]>> \in recorded \cup takenBack \/ IsNoted(peerStates, <<t, Height[b]>>)
      BY <2>1, <2>3, <2>5 DEF Covered
    <3> QED BY <2>4, <3>1
  <2> QED BY <2>5 DEF Missed
<1> QED BY MInvInit, MInvNext, <1>1, PTL DEF Spec
=============================================================================
