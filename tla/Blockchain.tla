------------------------------ MODULE Blockchain ------------------------------
(***************************************************************************)
(* Blockchain of blockchain.go: the operations on the chain of headers,    *)
(* on top of the store of module HeaderStore.                              *)
(*                                                                         *)
(* Who calls them: the wire service commits headers and, after a           *)
(* reorganisation, puts the tip back to the last common header             *)
(* (eight333.go); the wallet's resync calls roll the chain back from       *)
(* another goroutine; the process may stop at any time and start again.    *)
(* The rollbacks are sequences of calls of the store, and one step each    *)
(* call here: Blockchain.lock keeps CommitHeader out of them, but the      *)
(* handler's put of the last common header, which takes only               *)
(* HeaderDB.lock, and the goroutines of putToDB run in between.            *)
(* CommitHeader is one step: it holds the lock and is called by the        *)
(* handler itself, so only putToDB can run meanwhile, which only adds to   *)
(* what its lookups find.                                                  *)
(***************************************************************************)
EXTENDS HeaderStore

CONSTANTS
    Checkpoint,          \* checkpoint.Header, chosen by the creation date
    Check2,              \* checkpoint.Check2, NoHeader when it is nil
    Grace,               \* 147: the headers after the checkpoint not checked
    EpochDepth,          \* 146: how far back calcRequiredWork has to read
    CheckDifficulty,     \* params.Name # RegressionNetParams.Name
    ReduceMinDifficulty, \* params.ReduceMinDifficulty
    ValidHeader,         \* headers with the right bits and proof of work
    UintRange,           \* 2^32: heights are uint32
    RollbackTimes,       \* the times and heights the resync calls are given
    RollbackHeights,
    MaxPending,          \* bound: writes not yet done
    ChainHeight,         \* for the properties: the height and the total work
    ChainWork            \* the tree of blocks gives each header

ASSUME ChainAssumption ==
    /\ Checkpoint \in Header
    /\ Check2 \in Header \cup {NoHeader}
    /\ Grace \in Nat
    /\ EpochDepth \in Nat
    /\ CheckDifficulty \in BOOLEAN
    /\ ReduceMinDifficulty \in BOOLEAN
    /\ ValidHeader \subseteq Header
    /\ UintRange \in Nat \ {0}
    /\ RollbackTimes \subseteq Nat
    /\ RollbackHeights \subseteq Nat
    /\ MaxPending \in Nat

(* Blocks form a tree, so heights and works along it are well defined.     *)
ASSUME TreeAssumption ==
    /\ ChainHeight \in [Header -> Nat]
    /\ ChainWork \in [Header -> Nat]
    /\ ChainWork[Checkpoint] = 0
    /\ \A h \in Header : Prev[h] \in Header =>
          /\ ChainHeight[h] = ChainHeight[Prev[h]] + 1
          /\ h # Checkpoint => ChainWork[h] = ChainWork[Prev[h]] + CalcWork[h]

VARIABLES
    running,     \* the process runs and has the chain open
    reorg,       \* common ancestor CommitHeader returned to the wire service,
                 \* while the handler has not acted on it
    rollback,    \* the rollback that holds Blockchain.lock: its next call of
                 \* the store, its variable sh, and the time it walks back to
                 \* or the height it deletes after
    past         \* history: whether the process has stopped and the user has
                 \* rolled back

vars == <<cache, bestCache, bolt, boltTip, pending, running, reorg, rollback>>

NoRollback == [step |-> "idle", sh |-> NoHeader, arg |-> 0]

Best == GetBestHeader
Room == BagCardinality(pending) < MaxPending

(***************************************************************************)
(* The walks along the chain.  Back(sh, n) is n GetPreviousHeader calls    *)
(* from sh, or NoHeader when one of them fails.                            *)
(***************************************************************************)
Back(sh, n) ==
    LET back[i \in 0..n] ==
            IF i = 0 THEN sh
            ELSE IF NoSuch(back[i-1]) THEN NoHeader
            ELSE GetPreviousHeader(back[i-1])
    IN  back[n]

Least(S) == CHOOSE i \in S : \A j \in S : i <= j

(* Mutant: one pair of steps too many.                                     *)
AncestorOneTooFar(bestHeader, prevBestHeader) ==
    LET low  == Least({bestHeader.height, prevBestHeader.height})
        Majority(i) == Back(bestHeader, bestHeader.height - low + i)
        Minority(i) == Back(prevBestHeader, prevBestHeader.height - low + i)
        meet == {i \in 1..low : /\ ~NoSuch(Majority(i)) /\ ~NoSuch(Minority(i))
                                /\ Majority(i-1).header = Minority(i-1).header}
    IN  IF meet = {} THEN NoHeader ELSE Majority(Least(meet))

(* Bring both to the lower height, then step back in pairs until they meet.*)
GetCommonAncestor(bestHeader, prevBestHeader) ==
    LET low  == Least({bestHeader.height, prevBestHeader.height})
        Majority(i) == Back(bestHeader, bestHeader.height - low + i)
        Minority(i) == Back(prevBestHeader, prevBestHeader.height - low + i)
        meet == {i \in 0..low : /\ ~NoSuch(Majority(i)) /\ ~NoSuch(Minority(i))
                                /\ Majority(i).header = Minority(i).header}
    IN  IF meet = {} THEN NoHeader ELSE Majority(Least(meet))

(* The testnet rule adds targetSpacing*2 nanoseconds, so any later second  *)
(* will do; otherwise the lookups of GetSuitableBlock and GetEpoch have to *)
(* succeed.                                                                *)
calcRequiredWork(h, prevHeader) ==
    \/ ReduceMinDifficulty /\ Timestamp[h] > Timestamp[prevHeader.header]
    \/ ~NoSuch(Back(prevHeader, EpochDepth))

CheckHeader(h, prevHeader) ==
    LET height == prevHeader.height + 1
    IN  IF height <= ChainHeight[Checkpoint] + Grace
        THEN \/ NoSuch(Check2)
             \/ height # ChainHeight[Checkpoint] + Grace
             \/ h = Check2
        ELSE /\ CheckDifficulty => calcRequiredWork(h, prevHeader)
             /\ h \in ValidHeader

----------------------------------------------------------------------------
CheckpointHeader ==
    [header |-> Checkpoint, height |-> ChainHeight[Checkpoint], totalWork |-> 0]

(* Open the store; a store without a tip, or with a tip at height 0, gets  *)
(* the checkpoint.                                                         *)
NewBlockchain ==
    /\ ~running
    /\ running' = TRUE
    /\ IF NoSuch(boltTip) \/ boltTip.height = 0
       THEN /\ cache' = CacheSet(InitialCache, CheckpointHeader)
            /\ bestCache' = CheckpointHeader
            /\ pending' = BagAdd(pending, [sh |-> CheckpointHeader, newBestHeader |-> TRUE])
       ELSE /\ cache' = InitialCache
            /\ bestCache' = boltTip
            /\ UNCHANGED pending
    /\ UNCHANGED <<bolt, boltTip, reorg, rollback>>

(* Mutant: a header whose parent is unknown is taken to extend the tip.    *)
ParentOrBest(h) ==
    IF Prev[h] = Best.header \/ NoSuch(Prev[h]) THEN Best ELSE GetHeader(Prev[h])

ParentHeader(h) == IF Prev[h] = Best.header THEN Best
                   ELSE IF NoSuch(Prev[h]) THEN NoHeader ELSE GetHeader(Prev[h])

(* Mutant: CommitHeader does not take Blockchain.lock.                     *)
AcceptableUnlocked(h) ==
    /\ running /\ NoSuch(reorg) /\ Room
    /\ ~NoSuch(Best) /\ ~NoSuch(ParentHeader(h))
    /\ CheckHeader(h, ParentHeader(h))
    /\ h # Best.header

(* CommitHeader gets past its early returns: the parent is known, the      *)
(* header checks, it is not the tip.  Returning early changes nothing.     *)
Acceptable(h) ==
    /\ running /\ rollback = NoRollback /\ NoSuch(reorg) /\ Room
    /\ ~NoSuch(Best) /\ ~NoSuch(ParentHeader(h))
    /\ CheckHeader(h, ParentHeader(h))
    /\ h # Best.header

(* Mutant: every header counts as one above the tip.                       *)
StoredAboveTip(h) ==
    [header    |-> h,
     height    |-> Best.height + 1,
     totalWork |-> ParentHeader(h).totalWork + CalcWork[h]]

NewStoredHeader(h) ==
    [header    |-> h,
     height    |-> ParentHeader(h).height + 1,
     totalWork |-> ParentHeader(h).totalWork + CalcWork[h]]

Heavier(h) == NewStoredHeader(h).totalWork > Best.totalWork

CommitSide(h) ==
    /\ Acceptable(h) /\ ~Heavier(h)
    /\ Put(NewStoredHeader(h), FALSE)
    /\ UNCHANGED <<bolt, boltTip, running, reorg, rollback>>

CommitTip(h) ==
    /\ Acceptable(h) /\ Heavier(h)
    /\ ParentHeader(h).header = Best.header
    /\ Put(NewStoredHeader(h), TRUE)
    /\ UNCHANGED <<bolt, boltTip, running, reorg, rollback>>

(* No put at all when the walk back to the common ancestor fails.          *)
CommitReorg(h) ==
    /\ Acceptable(h) /\ Heavier(h)
    /\ ParentHeader(h).header # Best.header
    /\ \E ancestor \in Readable \cup {Best} :
          /\ ancestor = GetCommonAncestor(NewStoredHeader(h), Best)
          /\ Put(NewStoredHeader(h), TRUE)
          /\ reorg' = ancestor
    /\ UNCHANGED <<bolt, boltTip, running, rollback>>

CommitHeader(h) == CommitSide(h) \/ CommitTip(h) \/ CommitReorg(h)

(* handleMerkleBlockMsg, when current: the common ancestor becomes the tip *)
(* again.  The handler calls the store directly, without Blockchain.lock.  *)
PutReorg ==
    /\ running /\ ~NoSuch(reorg) /\ Room
    /\ Put(reorg, TRUE)
    /\ reorg' = NoHeader
    /\ UNCHANGED <<bolt, boltTip, running, rollback>>

(* Not current, or the header came in a headers message.                   *)
IgnoreReorg ==
    /\ running /\ ~NoSuch(reorg)
    /\ reorg' = NoHeader
    /\ UNCHANGED <<cache, bestCache, bolt, boltTip, pending, running, rollback>>

(* Rollback reads the tip, walks back to the checkpoint or the first       *)
(* header before t, one step at least, deletes what is higher from the     *)
(* file and makes the header it stopped at the tip.                        *)
Rollback(t) ==
    /\ running /\ rollback = NoRollback
    /\ ~NoSuch(Best)
    /\ Timestamp[Best.header] >= t
    /\ Best.header # Checkpoint
    /\ rollback' = [step |-> "walk", sh |-> Best, arg |-> t]
    /\ UNCHANGED <<cache, bestCache, bolt, boltTip, pending, running, reorg>>

(* One turn of the loop; a failed lookup ends the call.                    *)
RollbackWalk ==
    /\ running /\ rollback.step = "walk"
    /\ LET sh == GetPreviousHeader(rollback.sh)
       IN  \/ NoSuch(sh) /\ rollback' = NoRollback
          \/ /\ ~NoSuch(sh)
             /\ sh.header # Checkpoint /\ Timestamp[sh.header] >= rollback.arg
             /\ rollback' = [rollback EXCEPT !.sh = sh]
          \/ /\ ~NoSuch(sh)
             /\ sh.header = Checkpoint \/ Timestamp[sh.header] < rollback.arg
             /\ rollback' = [step |-> "delete", sh |-> sh,
                             arg |-> IF sh.header = Checkpoint
                                     THEN ChainHeight[Checkpoint] ELSE sh.height]
    /\ UNCHANGED <<cache, bestCache, bolt, boltTip, pending, running, reorg>>

(* RollbackToHeight keeps the tip it read and puts it back at the end.     *)
RollbackToHeight(rollbackHeight) ==
    /\ running /\ rollback = NoRollback
    /\ ~NoSuch(Best)
    /\ rollbackHeight <= Best.height
    /\ Best.header # Checkpoint
    /\ rollback' = [step |-> "delete", sh |-> Best,
                    arg |-> (rollbackHeight - 1) % UintRange]
    /\ UNCHANGED <<cache, bestCache, bolt, boltTip, pending, running, reorg>>

RollbackDelete ==
    /\ running /\ rollback.step = "delete"
    /\ DeleteAfter(rollback.arg)
    /\ rollback' = [step |-> "put", sh |-> rollback.sh, arg |-> 0]
    /\ UNCHANGED <<cache, bestCache, boltTip, pending, running, reorg>>

RollbackPut ==
    /\ running /\ rollback.step = "put" /\ Room
    /\ Put(rollback.sh, TRUE)
    /\ rollback' = NoRollback
    /\ UNCHANGED <<bolt, boltTip, running, reorg>>

PutToDB ==
    /\ running
    /\ \E w \in BagToSet(pending) : putToDB(w)
    /\ UNCHANGED <<running, reorg, rollback>>

(* Blockchain.Close, and a process that dies without it.                   *)
Close ==
    /\ running
    /\ running' = FALSE
    /\ CloseStore
    /\ reorg' = NoHeader
    /\ rollback' = NoRollback

----------------------------------------------------------------------------
Init ==
    /\ cache = <<>> /\ bestCache = NoHeader /\ pending = EmptyBag
    /\ bolt = [h \in Header |-> NoHeader] /\ boltTip = NoHeader
    /\ running = FALSE /\ reorg = NoHeader /\ rollback = NoRollback
    /\ past = {}

SyncNext ==
    \/ NewBlockchain
    \/ \E h \in Header : CommitHeader(h)
    \/ PutReorg
    \/ IgnoreReorg
    \/ PutToDB

RollbackNext ==
    \/ \E t \in RollbackTimes : Rollback(t)
    \/ \E n \in RollbackHeights : RollbackToHeight(n)
    \/ RollbackWalk
    \/ RollbackDelete
    \/ RollbackPut

Next ==
    \/ SyncNext /\ UNCHANGED past
    \/ Close /\ past' = past \cup {"restart"}
    \/ RollbackNext /\ past' = past \cup {"rollback"}

Spec == Init /\ [][Next]_<<vars, past>>
----------------------------------------------------------------------------
(***************************************************************************)
(* Properties.                                                             *)
(***************************************************************************)
StateOK ==
    /\ cache \in Seq(StoredHeader)
    /\ bestCache \in StoredHeader \cup {NoHeader}
    /\ bolt \in [Header -> StoredHeader \cup {NoHeader}]
    /\ boltTip \in StoredHeader \cup {NoHeader}
    /\ DOMAIN pending \subseteq Write
    /\ running \in BOOLEAN
    /\ reorg \in StoredHeader \cup {NoHeader}
    /\ rollback \in [step : {"walk", "delete", "put"}, sh : StoredHeader, arg : Nat]
                       \cup {NoRollback}

TypeOK == StateOK /\ past \subseteq {"restart", "rollback"}

Held == (Range(cache) \cup {bestCache, boltTip, reorg, rollback.sh}
         \cup {bolt[h] : h \in Header}
         \cup {w.sh : w \in DOMAIN pending}) \ {NoHeader}

TrueStored(sh) == /\ sh.height = ChainHeight[sh.header]
                  /\ sh.totalWork = ChainWork[sh.header]

(* CommitHeader computes a height and a total work from whatever record of *)
(* the parent it finds.  Whatever has been evicted, rolled back, lost in a *)
(* crash or written late, no record anywhere disagrees with the tree of    *)
(* blocks: the work comparison that picks the best chain compares the real *)
(* works.                                                                  *)
StoredTrue == \A sh \in Held : TrueStored(sh)

(* A header and the ones below it: the least set that has the header and   *)
(* with each header its parent.                                            *)
Lineage ==
    [h \in Header |->
        {a \in Header : \A C \in SUBSET Header :
            h \in C /\ (\A x \in C : Prev[x] \in Header => Prev[x] \in C) => a \in C}]

(* "We shouldn't go back further than the checkpoint" (Rollback), and no   *)
(* header that does not build on the checkpoint is ever stored: every tip  *)
(* the program works with, in memory or on disk, is the checkpoint or a    *)
(* descendant of it, through rollbacks, reorganisations and restarts.      *)
NotBelowCheckpoint == \A sh \in Held : Checkpoint \in Lineage[sh.header]

(* When a heavier branch takes over, the header GetCommonAncestor hands to *)
(* processReorg is the highest block the old and the new best chain share. *)
ReorgPoint ==
    [][NoSuch(reorg) /\ ~NoSuch(reorg') =>
          LET common == Lineage[bestCache.header] \cap Lineage[bestCache'.header]
          IN  /\ reorg'.header \in common
              /\ \A h \in common : ChainHeight[h] <= ChainHeight[reorg'.header]]_vars

(* While the process runs the tip only ever moves to a header with more    *)
(* work or back to an ancestor of itself.  A rollback puts a header it     *)
(* read several calls of the store before, and the handler's put of the    *)
(* reorganisation point may come at any place between them: neither moves  *)
(* the tip sideways, to a branch that did not win on work.                 *)
TipMoves ==
    [][running /\ running' =>
          \/ bestCache'.totalWork > bestCache.totalWork
          \/ bestCache'.header \in Lineage[bestCache.header]]_vars

(* A header is kept if the bolt file has it or a pending write will put it *)
(* there.                                                                  *)
Kept == {h \in Header : ~NoSuch(bolt[h])} \cup {w.sh.header : w \in DOMAIN pending}

(* While the process only follows the network, the chain under everything  *)
(* it works with is complete: whatever the cache evicts and in whatever    *)
(* order the writes are done, the tip, every cached header and every       *)
(* parent down to the checkpoint is on disk or about to be.  A process     *)
(* that stops with writes pending, or a rollback, may leave holes.         *)
NoHole ==
    past = {} =>
        /\ \A h \in Kept \ {Checkpoint} : Prev[h] \in Kept
        /\ \A sh \in (Range(cache) \cup {bestCache, boltTip, reorg}) \ {NoHeader} :
              sh.header \in Kept

(* The tip a restart will read has its own record, so the restarted        *)
(* process can look up the tip by hash, however often it has stopped with  *)
(* writes pending; holds as long as nothing is rolled back.                *)
TipRecorded ==
    "rollback" \notin past /\ ~NoSuch(boltTip) => bolt[boltTip.header] = boltTip
=============================================================================
