# A TLA+ model of the BitcoinCash SPV wallet

This directory holds a verification project for the wallet in `src/`: TLA+ modules of
its core components, TLC configurations that check them on small instances, and proofs,
checked by TLAPS, of the safety properties of the chain, the transaction store, the wallet's
answers, the download, the keys, the fee loop, the difficulty rule, escrow transactions and
the peer manager's registrations for every instance.

## 1. The system

The wallet is a light client. It keeps the chain of block headers, asks peers for the
blocks its bloom filter matches, records the transactions that touch its keys, and
offers a wallet API on top. Its parts:

| Component | Source | State | Operations |
|---|---|---|---|
| Header store | `headers.go` | bolt file (headers, tip), bounded cache, `bestCache`, writes in flight | `Put` (memory now, file later), `GetHeader`, `GetBestHeader`, `DeleteAfter`, `initializeCache`, `Close` |
| Blockchain | `blockchain.go` | the store under a lock | `CommitHeader`, `GetCommonAncestor`, `Rollback`, `RollbackToHeight`, `Close` |
| Transaction store | `txstore.go`, `db/` | tables utxos, stxos, txns; `txids` in memory | `Ingest`, `CheckDoubleSpends`, `markAsDead`, `processReorg`, `PopulateAdrs` |
| Wire service | `eight333.go` | `syncPeer`, `peerStates`, `requestedTxns`, `mempool` | one handler per message, `startSync`, `Current`, `Resync` |
| Key manager | `keys.go`, `db/keys.go` | table keys | `lookahead`, `GetFreshKey`, `MarkKeyAsUsed`, `NewAddress`, `ImportKey` |
| Peer manager | `peers.go` | `connectedPeers`, address manager | connect, verack, disconnect, pick an address, `Stop` |
| Merkle block check | `mblock.go` | none | `checkMBlock` |
| Difficulty rule | `blockchain.go` | none | `calcRequiredWork`, `GetEpoch`, `GetSuitableBlock`, `calcDiffAdjust` |
| Transaction building | `sortsignsend.go`, `txsizes.go` | none of its own | coin selection, fee loop, `BumpFee`, sweeping, multisig |
| Wallet API | `wallet.go` | none of its own | the calls the user makes; `Balance`, `GetConfirmations` |
| Exchange rates | `exchangerates/` | the last rates of three web services | `Run`, `GetExchangeRate`, `GetLatestRate`, `GetAllRates` |
| Around it | `fees.go`, `api/`, `cli/`, `cmd/`, `gui/`, `config.go`, `tor.go`, `mock.go` | settings | wrappers, I/O, assets |

How they interact. The peer manager's goroutines, one per connection and kind of event,
send on the unbuffered channel `msgChan`. A single goroutine of the wire service takes
the messages and runs a handler to its end. Handlers commit headers to the blockchain,
ingest transactions into the store, and send requests to peers. `Ingest` marks keys as
used, which extends the lookahead window. API calls arrive in goroutines of their own and
touch every component directly: `Broadcast` ingests, `NewAddress` marks keys, the resync
calls roll the chain back and run `startSync`. The exchange rates stand apart: only the window
(`cmd/bitcoincash/main.go`) reads them. Only the two databases survive a restart.

What is hard about it:

- file writes are started in goroutines that nothing orders, and a restart drops the rest;
- a reorganisation is resolved in two calls that are not under one lock, and a rollback of
  the user is a sequence of calls of the store that the second may fall between;
- the resync calls lower the tip while the download goes on, and leave headers above it;
- transactions are asked for in one handler and ingested in another, with a height noted
  in between, from a peer that may have left;
- double spends and reorganisations kill transactions recursively, over stale snapshots;
- whether the wallet is current is a guess from heights that go stale;
- key derivation and address requests are sequences of table calls without a lock;
- `onDisconnection` and `Stop` wait, for a message to be taken or for a peer to end, while
  they hold the mutex others need to get on;
- balance, pending transactions and filter are computed from tables whose rows are written
  at different moments of `Ingest`, and the balance may be read while they are;
- the fee of a payment depends on the inputs it makes necessary; escrow parties must arrive
  at one transaction without talking; a partial merkle tree is walked with a stack and
  positions kept by hand.

The properties that make each part correct are in section 3, the complete list of
hazards, with source lines, in `PROJECT.json`.

## 2. Modules

| Module | Models | Extends |
|---|---|---|
| `HeaderStore` | `HeaderDB`, `HeaderCache` | |
| `Blockchain` | `Blockchain` over the header store, and the step in which the wire service puts the reorganisation point back | `HeaderStore` |
| `BlockchainProofs` | seven theorems | `Blockchain`, `NatLemmas` |
| `Difficulty` | the difficulty arithmetic of `blockchain.go` | `Argument` |
| `Ledger` | abstract: what the transaction store promises | |
| `TxStore` | the transaction store over its three tables; instantiates `Ledger` | |
| `MarkAsDead` | the store with `markAsDead` as the code runs it, row by row; shown to implement `TxStore`, which has its closed form | `TxStore` |
| `TxStoreProofs` | eight theorems, among them the two refinements | `MarkAsDead` |
| `WalletView` | what is computed from the tables: `Balance`, `GetConfirmations`, `Transactions`, `GetPendingInv`, `GimmeFilter` | `TxStore` |
| `ConfirmedStxo` | `checkIfStxoIsConfirmed` as the code runs it, compared with the closed form in `WalletView` | `WalletView` |
| `WalletViewProofs` | seven theorems | `ConfirmedStxo`, `BalanceReader`, `TxStoreProofs` |
| `BalanceReader` | `Balance` table by table, beside a store that writes row by row | `MarkAsDead`, `WalletView` |
| `IngestRace` | `Ingest` step by step, from two goroutines | `TxStore` |
| `WireService` | the handlers, with remote peers as environment | |
| `WireServiceProofs` | three theorems | `WireService`, `NatLemmas` |
| `PeerManager` | the goroutines around `peerMutex` and `msgChan`, with the message loop and `Close` | |
| `PeerManagerProofs` | two theorems | `PeerManager` |
| `KeyManager` | `KeyManager`, the table keys and the calls on them | |
| `KeyManagerProofs` | five theorems | `KeyManager`, `NatLemmas` |
| `NatLemmas` | lemmas: least numbers, induction over a set of numbers, loops | |
| `TxSizes` | `txsizes.go`, `fees.go` | |
| `Spending` | one payment, sweep or fee bump, with the fee loop | `TxSizes` |
| `Multisig` | escrow scripts, `CreateMultisigSignature`, `Multisign` | `TxSizes`, `Argument` |
| `Argument` | the argument of a function that is checked on its own | |
| `AlgorithmProofs` | six theorems | `Spending`, `Multisig`, `Difficulty`, `NatLemmas` |
| `MerkleBlock` | `checkMBlock`, and the tree a peer encodes | |
| `MCBlockchain`, `MCTxStore`, `MCBalanceReader`, `MCIngestRace`, `MCWireService`, `MCPeerManager`, `MCKeyManager` | small instances for TLC | their component |
| `MCAlgorithms` | bounded inputs and properties of the algorithms | `Spending`, `Multisig`, `MerkleBlock`, `Difficulty` |

An operator whose comment begins with *Mutant* is a wrong version of the definition that
follows it. It is used to see that a property fails when the code has that mistake; no
specification uses it.

### HeaderStore and Blockchain

A block is a model value; `Prev`, `CalcWork` and `Timestamp` are functions of it. `cache`
and `bestCache` are the memory of the process, `bolt` and `boltTip` the two buckets of the
file, `pending` the bag of goroutines started by `Put` that have not run. `Put` changes
memory and adds to `pending`; `PutToDB` runs any one of them. `Close` stands for an orderly
stop and for a crash: in both the pending writes are lost, because `Close` never releases
`HeaderDB.lock`.

`CommitHeader` is split by its outcome: `CommitSide`, `CommitTip`, `CommitReorg`. A call
that returns early changes nothing and has no action. The common ancestor it returns is
kept in `reorg` until the handler acts on it (`PutReorg`) or does not (`IgnoreReorg`);
between the two the user's rollbacks may run.

`CommitHeader` is one step: it holds `Blockchain.lock` to its end, and the only calls of the
store from outside that lock are the handler's own. `PutReorg` is such a call: it takes the
store's lock and not that of the blockchain. So a rollback, which runs in the goroutine of
the API, is the sequence of its calls of the store. `Rollback` reads the tip, `RollbackWalk`
is one turn of the loop, `RollbackToHeight` reads the tip and subtracts in `uint32` (modulo
`UintRange`), `RollbackDelete` is `DeleteAfter` and `RollbackPut` the `Put` at the end. The
variable `rollback` holds what comes next, the header the walk has come to and its argument.
`PutReorg`, file writes and a restart may come between any two of these steps; another
commit or rollback may not. `past` is a history variable: whether the process has
restarted or rolled back since it was new.

Header checks are abstracted: `ValidHeader` are the headers with the right bits and proof of
work, and `calcRequiredWork` keeps what can fail for reasons of state, the lookups `EpochDepth` headers back; the number it computes
is the matter of `Difficulty`. The regtest exception
and the testnet rule are constants. Lookups walk the cache and the file exactly as the
code does, so an evicted or deleted header makes them fail. The properties speak of `Lineage`, the ancestors of a
header, as the least set that holds the header and is closed under `Prev`; the walk of
`GetCommonAncestor` is a recursive function over the number of steps.

### Difficulty

A header is a timestamp and a total work, a chain a sequence of them. `GetSuitableBlock` is
the middle one of three headers in the order `sort.Sort` gives so short a slice: it inserts
them one by one, and the `Less` of `blockSorter`, which is also true of equals, moves an
equal one in front, so that of equal timestamps the older header comes first (`Less`). The
work between the two medians is spread over the bounded time between them, and
`BigToCompact` loses the low bytes as the compact form does: `Units` are the powers of 256
it chooses from. 144 blocks, 2^256 and the target limit are constants; 288 and 72 are twice
and half the first. The variable `input` (module `Argument`, shared with `Multisig`) is the
argument of the function under check; it never changes.

### Ledger, TxStore, MarkAsDead, WalletView, BalanceReader and IngestRace

Rows are functions from outpoints and txids. An output of ours may be paid to a key or to
a watched script; the two differ only in values the model leaves out. `Filtered` are the
transactions stored only because an entry of `additionalFilters` matches. `Ingest` is one
action with all of its effects, including the early returns, the first seen rule, the
death of double spends, the loop over the stxos that stops at the first row, and the
refresh of `txids`. Inputs are arbitrary: any transaction at any height at any time.

`TxStore` states the effect of `markAsDead` as a closed form (`Doomed`, `UtxosWithout`,
`StxosWithout`, `TxnsWithout`): all descendants die, their rows go, what they spent of
others comes back.

`MarkAsDead` is the same store with the recursion as the code runs it. A call of
`processReorg` or of `Ingest` with double spends begins (`BeginReorg`, `BeginIngest`), marks
one transaction after the other (`CallMark`) and ends (`EndReorg`, `EndIngest`). `stack`
holds the calls of `markAsDead`, each with the rows left of the snapshot it took when it
started; `HandleRow` is one round of its loop, for any row that is left, and may push a
recursive call; `DropOutputs` is what follows the loop. `tables` are the tables as they
change; the variables of `TxStore` keep those the call found until it ends, so that
`TxStore` is implemented without a further mapping (`StoreSpec`): the closed form takes
place in the last step. `MarkAsDeadExact` says that the tables are then those of the closed
form, `MarkEnds` that a call comes to its end.

`Ledger` is the promise without the tables: a transaction is absent, pending or confirmed;
a pending one is accepted only without a conflict; a confirmed one displaces its conflicts;
what goes takes with it only descendants. `TxStore` instantiates it (`INSTANCE Ledger WITH
status <- Status`), where a row of `txns` that is missing or at -1 is absent. `txids`, which
lags behind `txns`, is not part of the mapping, so a stale entry can only refuse a step.

`WalletView` adds no step. Its operators are functions of the tables, evaluated in every
reachable state of `TxStore`, that is between two calls of the store, at any tip: the
user's resync calls lower the tip without `processReorg`, so it may lie below the heights
in the tables. Where the code takes the first matching row of a query
without an order, the operator returns the set of the answers. Heights of the answers are
unsigned of width `Uint`: the -1 of a dead transaction, and a height above the tip by more
than one, wrap around to a number of confirmations as they do in 32 bits.
`checkIfStxoIsConfirmed` is stated in closed form (`ConfirmedAnswers`): the answers of the
rows that the recursion can reach along unconfirmed spends. `ConfirmedStxo` has the recursion
itself, and `CheckExact` says that in every reachable store the two give the same answers.

`BalanceReader` is `Balance` while the store works. The API calls it in a goroutine of its
own, and it takes no lock over its three queries, so it may read the utxos before, the
stxos in the middle of and the transactions after a call. What it does for a coin depends
on no other coin, so the reader is followed for one coin, any one: `ReadUtxos`, `ReadStxos`
with the answer of `checkIfStxoIsConfirmed`, `CountCoin` with the height of the transaction
and the tip. The store is that of `MarkAsDead`, so its recursion runs row by row, and the
writes of `Ingest` after the marking are steps too: `PutOutputs`, `MoveInput` for each
input, `PutSpendHeight`, `PutTxn`. Two accesses remain one step where a reader that takes
the utxos first cannot see between them, because it has the utxos from before or asks for a
row that is gone; the place where it can, between the deletion of a stxo and the new height
of its spender, is `StxosRead`. While a transaction is marked dead its row in `txns` is at
-1 before its coins are gone, and -1 wraps around, so the balance may count such a coin as
confirmed. That is the exception in `BalanceBacked`: `backed` notes whether, since the utxos
were read, the coin belonged to or descended from a transaction that was confirmed or that
a call under way was killing, confirming or reviving (`Touched`). Nothing else may be
counted.

`IngestRace` has the variables of `TxStore` and, per caller, where its `Ingest` is. Every
access to a table takes and releases the lock by itself, so a call is a sequence of steps.
A step ends wherever `Ingest` holds something it has read and will act on; writes in a row
that depend on nothing else are one step, and so is `markAsDead`, in its closed form. The
code has finer interleavings; every one in the module is one of the code's, which is what a
run that shows a violation needs. `Broadcast` calls at height 0, the wire service at any.

### WireService

One action per handler. `in[p]` are the messages of peer `p` in the order its goroutine
sends them on `msgChan`; `out[p]` the requests it has not answered. `donePeerMsg` comes
from another goroutine than the peer's messages and may overtake the last of these.
Remote peers are external: they connect, answer requests in order, announce new blocks and
transactions, move to heavier chains and leave. They are honest, so `checkMBlock` succeeds
and every header checks. `Push...Msg` drop a request that repeats the previous one of its
kind, as the peer library does. The chain is reduced to the headers a lookup finds (`known`) and
the best one; evictions and file writes are the matter of `Blockchain`. `Rollback` and
`RollbackToHeight` are those of the user's resync calls, `Resync` the call that follows
them. A rollback is one step here, as `Blockchain` has it call by call. It lowers the tip
(`RollbackToHeight` puts back the one it found) and loses any of the headers above the
height, because the file's are deleted and those in the cache stay until they are evicted;
`haveInventory` then still finds the latter and drops their blocks. With headers lost,
lookups may fail: a header is refused when its parent is gone or the walk to the common
ancestor breaks off (`Connects`, `Walks`, `Refused`), and a check that reads far back may
fail for any header (`bad`). `GetBlockLocator` names the best chain down to the first header
that is gone; the code's is sparse and ends after 500 entries, all are named here.
`recorded` are the transactions and heights that went to
`Ingest` and that `processReorg` has not taken back; `takenBack`, a history variable no
handler reads, are those it took back and that have not been ingested again. `CommitHeaders`
and `NewBlocks` are the loops of `handleHeadersMsg` and `handleInvMsg`. Time stands still: `Recent` are the
blocks less than a day old, `BeforeCreation` the ones synced by headers only.

Left out: filter and rebroadcast messages, listeners, `blockScore` and `falsePositives`
(the one is lowered only under an error that is never returned, the other never raised),
the regression test exemptions, and the data race of `Resync`, which is one step here.

### PeerManager

A connection request becomes a peer with a reader goroutine (`reader`), which runs the
`onXxx` listeners, and a reporter (`disc`), which waits for the end and runs
`onDisconnection`. `holder` and `query` are the two sides of `peerMutex`. A critical section
that cannot block is one step; `onDisconnection` (a send on `msgChan`), `Stop` (waiting for
peers) and `getMoreAddresses` (DNS lookups) are split where they block. `takeXxx` is the
rendezvous on the unbuffered channel: sender and loop move together. API calls are
`updateFiltersMsg` (`send`) and `ConnectedPeers` (`lock`), one after the other for
`Broadcast`. The goroutines of `Stop` share the variable `peer` of the loop that starts
them, read at `Disconnect` and again at `WaitForDisconnect`. Closing a quit channel that
the loop has not made yet is the state `panic`. The contents of messages are left out; they
are the matter of `WireService`. connmgr and the address book are external: a request is
made only for an address no connected peer has, fails or connects, and is used once.

### KeyManager

`rows[purpose]` is the table in rowid order. Each call on `KeysDB` is one step, since each
takes the table's lock; `lookahead`, `GetFreshKey` and `NewAddress` are sequences of such
steps (`task[g]` says where goroutine `g` is). Indexes in `Invalid` derive no key and are
skipped. `ImportKey` inserts one of the chain's own keys under purpose -1, which makes the
insert of the derived key fail. With fewer than two unused keys `NewAddress` panics, which
is a stop of the process. `GetUnused` are the places of the unused rows; `First` and `Second`
are the two entries of the list, in the order of rowid, that the code reads. Any number of
goroutines ask for addresses (`User`), as API calls do; `returned` lists what they got, with
the length of the list when the call began (`since`). `CurrentAddress` is a read of the
table, hence an operator.

### TxSizes, Spending and Multisig

`Spending` is one call on a given wallet. `buildTx`, `fetchInputs`, `raiseFee` and
`authorTx` are the rounds of `NewUnsignedTransaction`; `coins` is the order the selector
gives (value times age, equals in any order, since they come out of a map), `total` its
partial sums. `SweepAddress` and `BumpFee` are one step each. Scripts pay to a key hash.
The estimated sizes are those of `txsizes.go` as coded: without the ten bytes of version,
lock time and counts, and with a quarter of a multisig script. The fees are the ones
`NewSPVWallet` configures.

In `Multisig` a redeem script is its bytes, because `LockTimeFromRedeemScript` reads at a
fixed offset; 33 bytes of a key are one repeated number. A signature is what it commits to:
the transaction, the index and the value found at that index of the caller's list. A node
(external) accepts an input if both signatures commit to the true value.

### MerkleBlock

`checkMBlock` round by round, with its stack, positions and flag bits; `end` says how the
loop ended, `panic` included. Hashes are terms, hence free of collisions. `Encode` is what
an honest peer sends: the flags and hashes of a partial tree in depth first order, the flags
padded to whole bytes.

## 3. Runs

Passing runs:

| Run | Bounds | Properties |
|---|---|---|
| `chain` | 8 headers with a branch that overtakes a longer chain and is overtaken again, `CacheSize` 1, 2 writes in flight, restarts at any time, rollbacks to 2 times and 2 heights | `StoredTrue`, `NotBelowCheckpoint`, `NoHole`, `TipRecorded`, `TipMoves`, `ReorgPoint` |
| `txstore` | `MarkSpec`, with every order of the rows; 4 transactions with a diamond and two conflicts, heights to 2, tips 0 to 3 and 8, every set of watch-only outputs | `NoDoubleSpend`, `NoDeadRows`, `NoCoinLost`, `MarkAsDeadExact`, `CheckExact`, `LedgerSpec`, `StoreSpec`, `MarkEnds`, `ChangeCounted`, `HistoryAgrees`, `PendingAnnounced`, `StoredAreRelayed` |
| `balance_reader` | `ReaderSpec`; 4 transactions: one pays us, two spend it and conflict, one spends the change of one of these; heights to 1, tips 0 to 2 and 7, one coin followed, any | `BalanceBacked` |
| `wire_forks` | 2 peers on two branches of a tree of 5 blocks, answers of 2 blocks, a transaction in a block of each branch and announced before, the user's rollbacks to one block and one height | `HeightsTrue`, `NoTxMissed` |
| `keys` | 2 purposes, window 2, 2 payers, 2 users, an invalid index, an importable key | `KeysInOrder`, `FreshForEachCall`, `OpensWithWindow`, `CurrentKept` |
| `peers` | 2 requests, one of them to a peer without the services, 1 API goroutine, one `Close` | `NoPeerLost`, `CallsReturn`, `DepartedForgotten`, `StopEntered` |
| `algorithms` | wallets of up to 4 rows, at most 3 inputs, 4 amounts, all fee levels; honest blocks of up to 7 transactions with every set of matches; any up to 4 hashes and 6 flags for blocks of up to 3; 18 timeouts; escrows of 2 inputs and 3 outputs in every order, with and without a lock time, at 2 fees; chains of 7 headers with 4 timestamps each in any order | `SpendExact`, `FeeBounds`, `SpendEnds`, `MBlockComplete`, `MBlockSound`, `LockTimeRead`, `SignersAgree`, `DifficultyDamped`, `OutlierHarmless` |

`keys` also checks `TypeOK`. It is proved for `KeyManager`, `Blockchain`, `WireService`,
`TxStore` and `PeerManager`. Why the bounds are enough: a cache
of one header (the code keeps one more than its size) evicts in every chain of three, so
all walks reach the file; two writes in flight can land in either order; the tree has a
common ancestor neither at the tip nor at the checkpoint; the rollbacks to a time and to a
height end between the tip and the checkpoint and at the checkpoint. Four transactions give a
descendant on two paths, a conflict of two spenders and a spender that conflicts with
both. The reader's instance has heights to 1, since `Balance` only asks whether a height is
positive, and room for a coin whose backing dies two generations up while it is read. Two
peers give a sync peer and another one, and answers of two blocks leave a queue. A window of two is the least that `NewAddress` can live with. Two requests give a
report that waits for the mutex another one holds, and a `Stop` whose goroutines see each
other's peer; the API goroutine is the third party. The values 400, 700 and 1500 lie so that a second and
a third input are needed only because of the fee, and below and above the dust limit; four
rows make the limit on inputs bind. Blocks of 1, 2, 3, 5, 6 and 7 transactions have every
shape of ragged edge in trees up to depth three. The timeouts are the borders of each
encoding of a number, of one to four bytes, with and without a sign byte, up to the largest
number TLC has; the theorem covers the rest. A depth of four
keeps the two triples of headers apart, as 144 does; `Times` spreads far enough for both
bounds of the duration and for durations of zero and below.

Deadlock is checked except where the system may stop: the wire service, when everything is
downloaded and every peer gone; the peer manager, after `Close` and with every request used
up; a payment that is built.

Runs in which the code does not do what the source says of it (see `findings` in
`PROJECT.json` for the quotations):

| Run | Property | What happens |
|---|---|---|
| `txstore_spent` | `SpentIsMoved` | a spent output returns to utxos when its transaction confirms |
| `wire_reorg` | `ReorgResynced` | after a reorganisation the tip stays at the common ancestor |
| `wire_sync_peer` | `SyncStarts` | a peer that is gone stays the sync peer |
| `ingest_race` | `AtMostOneSpender` | two `Ingest` calls at once leave two conflicting transactions live |
| `keys_twice` | `NeverReturnedTwice` | two `NewAddress` calls at once return the same address |

What the passing properties do not claim. `NoHole` is about a process that has neither
restarted nor rolled back, and counts a header whose write is in flight as kept: no header is
lost for good, but a lookup may miss it for a while. `TipRecorded` is about a file that was
never rolled back; it says that the tip a restart reads has its record, not that it is the
latest tip. `BalanceBacked` excepts transactions that a call under way decides about.
`HistoryAgrees` excepts what `Transactions` shows as dead, which includes a confirmed
transaction above a tip the user has lowered. `FreshForEachCall` lets overlapping calls share an
address (`keys_twice`). `OpensWithWindow` is about openings that succeed; with an imported key
that blocks the lookahead none does. `NoTxMissed` is claimed while no peer leaves
and but for what `processReorg` took back (`takenBack`, which the `wire_forks` instance does
fill): those transactions are not asked for again if the branch was known already.
`CallsReturn` is claimed for block listeners that return by themselves: one that asks for
the connected peers from inside the handler stops the loop for good. `SignersAgree` says
the values fit only if the signer lists the inputs in the order of BIP 69; in another order
every party still works on the same transaction, but a signature may commit to the value of
another input. `ChangeCounted` is claimed for change of coins that came from outside.

No property says that a download comes to its end, because it need not. A block that connects
without being the new tip, on a branch of equal work, ends its handler before the next
request is made. And after the resync calls, of which `src/README.md` says "Use this to
re-download merkle blocks in case of missed transactions", headers above the lowered tip
that are still in the cache count as known, so that their blocks are not asked for; the
same filter is what `wire_reorg` shows after a reorganisation.

The model also shows behaviour that no document rules out and that has no run of its own:

- while a transaction is marked dead, the balance may count its coin as confirmed;
- `Transactions` shows a confirmed transaction above a tip the user has lowered as dead;
- two writes of the tip may land in the wrong order, and a restart goes on from the older;
- queued blocks stay queued once the wallet counts as current;
- after a reorganisation while current, the tip may move forward again over blocks that are
  known already, in a download that is not current; the transactions the store took back in
  them stay unconfirmed;
- a leaving peer takes the transactions of its last merkle block with it;
- `Stop` may wait for a peer nobody disconnects, or return while one is connected, and
  `Close` right after `Start` closes a nil channel;
- a transaction asked for twice and sent twice disconnects an honest peer;
- the test networks' rule adds 1200 nanoseconds to a timestamp, not 1200 seconds.

Read in the source, not modelled: `limitMap` does nothing for the type it is called with;
`OrphanHeaderError`, and so the resync from an orphan, is never returned; `SweepAddress`
ignores the error of `Broadcast`; `GetLatestRate` ignores the
error of its fetch, and `GetAllRates` hands out a map another goroutine writes to.

### Fairness

`FairSpec` of `WireService` assumes weak fairness, for each peer, of handling its messages,
of handling its `donePeerMsg` and of its answers. The first two hold because blocked
senders on a Go channel are served first in, first out, and handlers do not block on
the network (`QueueMessage` is asynchronous). The third says that a connected peer answers;
a peer that does not is dropped by the library's timeouts, which is `PeerDisconnects`.
Nothing obliges a peer to connect, to announce or to stay.

`Spec` of `PeerManager` assumes strong fairness of each goroutine that waits for the mutex
or for the channel (readers, reporters, API callers, `Stop`) and weak fairness of the loop,
of lookups and of the helpers of `Stop`. Strong fairness is needed because the mutex may be
free and taken again and again; the queues of Go's `RWMutex` (whose starvation mode hands
the lock over) and of channels are first come first served. Remote peers, users and connmgr
owe nothing. `Spending` assumes that the call goes on (weak fairness of its one goroutine),
and `MarkAsDead` that a call of `Ingest` or `processReorg` does (weak fairness of `Marking`):
it waits for nobody but the lock of the tables, which is held for one access at a time.
Keys, chain and the reader of the balance have no liveness property.

## 4. Proofs

TLAPS proves, for every value of the constants that satisfies the named assumptions:

| Theorem | Says |
|---|---|
| `BlockchainProofs!TypeCorrect` | `Spec => []TypeOK` |
| `BlockchainProofs!RecordsTrue` | `Spec => []StoredTrue` |
| `BlockchainProofs!ChainComplete` | `Spec => []NoHole` |
| `BlockchainProofs!TipOnDisk` | `Spec => []TipRecorded` |
| `BlockchainProofs!AboveCheckpoint` | `Spec => []NotBelowCheckpoint` |
| `BlockchainProofs!TipMovesRight` | `Spec => TipMoves`, an action property |
| `BlockchainProofs!ReorgAtFork` | `Spec => ReorgPoint`, an action property |
| `TxStoreProofs!TypeCorrect` | `Spec => []TypeOK` |
| `TxStoreProofs!DoubleSpendSafety` | `Spec => []NoDoubleSpend` |
| `TxStoreProofs!DeadRowSafety` | `Spec => []NoDeadRows` |
| `TxStoreProofs!CoinSafety` | `Spec => []NoCoinLost` |
| `TxStoreProofs!ImplementsLedger` | `Spec => LedgerSpec` |
| `TxStoreProofs!MarkedExactly` | `MarkSpec => []MarkAsDeadExact` |
| `TxStoreProofs!ImplementsStore` | `MarkSpec => StoreSpec` |
| `TxStoreProofs!RecursionSafety` | `MarkSpec` implies the four invariants above and `LedgerSpec` |
| `WalletViewProofs!BalanceIsBacked` | `ReaderSpec => []BalanceBacked` |
| `WalletViewProofs!ReaderImplementsMark` | `ReaderSpec => MarkSafety`, the safety part of `MarkSpec` |
| `WalletViewProofs!ChangeIsCounted` | `Spec => []ChangeCounted` |
| `WalletViewProofs!HistoryIsRight` | `Spec => []HistoryAgrees` |
| `WalletViewProofs!PendingIsAnnounced` | `Spec => []PendingAnnounced` |
| `WalletViewProofs!FilterFollowsTables` | `Spec => []StoredAreRelayed` |
| `WalletViewProofs!CheckIsExact` | `Spec => []CheckExact` |
| `WireServiceProofs!TypeCorrect` | `Spec => []TypeOK` |
| `WireServiceProofs!HeightsRight` | `Spec => []HeightsTrue` |
| `WireServiceProofs!NothingMissed` | `Spec => []NoTxMissed` |
| `KeyManagerProofs!TypeCorrect` | `Spec => []TypeOK` |
| `KeyManagerProofs!ChainInOrder` | `Spec => []KeysInOrder` |
| `KeyManagerProofs!WindowWhenOpen` | `Spec => OpensWithWindow`, an action property |
| `KeyManagerProofs!CurrentIsKept` | `Spec => CurrentKept`, an action property |
| `KeyManagerProofs!FreshAddresses` | `Spec => []FreshForEachCall` |
| `AlgorithmProofs!SpendIsExact` | `Spec => []SpendExact` |
| `AlgorithmProofs!FeeIsBounded` | `Spec => []FeeBounds` |
| `AlgorithmProofs!RuleIsDamped` | `DifficultyDamped` for every chain in `ChainInputs` |
| `AlgorithmProofs!OutlierIsHarmless` | `OutlierHarmless` for every chain in `OutlierInputs` |
| `AlgorithmProofs!SignersAlwaysAgree` | `SignersAgree` for every escrow in `EscrowInputs` |
| `AlgorithmProofs!LockTimeAlwaysRead` | `LockTimeRead` for every script in `ScriptInputs` |
| `PeerManagerProofs!TypeCorrect` | `Spec => []TypeOK` |
| `PeerManagerProofs!NoPeerIsLost` | `Spec => []NoPeerLost` |

Assumptions. `HeaderAssumption` and `ChainAssumption` give the constants their types;
`TreeAssumption` says that heights and works along the tree of blocks are well defined,
with the work counted from the checkpoint. `TxAssumption` and `StxoAssumption` are types
and the distinctness of `None`. `UintAssumption` says that the unsigned type holds every
height and tip, with a few blocks above. `KeyAssumption` has a window of at
least one, finitely many indexes without a key and distinct goroutines. `WireAssumption` says
that blocks other than the checkpoint have a parent one lower and with less work, that every
block matches a set of finitely many transactions, and types. `SpendAssumption` says that wallets are finite sets of rows
with natural values and heights. `PeerAssumption` keeps connections apart from the names of
other owners of the mutex. `AncestryAssumption` says that of any transactions one spends
from none of them: a txid is a hash over the outputs the inputs name, so that there are
no cycles. `DifficultyAssumption` has an even depth of at least four, as 144 is;
`TargetsAssumption` says that targets are at least two and not above the limit, and that the
work of a block is at least twice the depth (of the order of 2^32 against 288 at the easiest
target), so that the integer divisions do not end in zero; `UnitsAssumption` says that
`Units` are 1, 256, 256^2 and so on up to one the limit fits.
`EscrowAssumption` numbers the outpoints of an escrow in the order of BIP 69 and makes
values integers and fees natural numbers; `ScriptAssumption` makes timeouts uint32. TLC
evaluates all of them on the instances.

Blockchain. The inductive invariant is `IInv`: the types, every header of the file is
filed under its own hash (`Keyed`), and every record held anywhere is true to the tree and
descends from the checkpoint (`HeldOK`); without the latter the checkpoint itself could be
committed again as a child of its parent, with another work. `StoredTrue` alone is not
inductive, because a lookup by hash must be known to return the record of that hash before
`CommitHeader` can add to its height and work. The invariants are proved of `Operation`,
which is `Next` without the history variable `past` (`NextOperation`). The lemmas
`CacheSetLemma`, `GetHeaderLemma` and `ParentLemma` say what the cache and the lookups
return, `NewHeaderLemma` that the new record is true, `PutHeld` that `Put` adds one record
and loses none that matters; `IInvNext` has one step per action. `ChainComplete` adds
that the chain is complete while `past` is empty (`Complete`), since a header is accepted only
if its parent was found, and what is found is in the cache, the file or in flight, hence kept;
`TipOnDisk` that the tip has its record while nothing was rolled back (`TipHasRecord`). `TipMovesRight` needs `TInv`, which adds `OneChain`: the tip in memory,
the ancestor that waits in `reorg` and the header the rollback has come to stay on one chain,
whatever runs in between, so that a late `PutReorg` or `RollbackPut` moves the tip only up
or down. It is inductive because `Blockchain.lock` keeps commits out of a rollback and the
handler acts on `reorg` before it commits again; two headers that are both ancestors of a
third are comparable (`ComparableParent`). `ReorgAtFork` is about the walk of
`GetCommonAncestor`: by induction over its steps (`NatLemmas!NatSetInduction`) both sides
stay in their lineages and above every shared header, and meet in one.

TxStore. `IInv` adds to the three properties `SpendsRow` (an stxo's spender really spends
that output) and `RowKept` (every output of ours of a live transaction has a row in one
table or the other). The first makes a spender of one row the same for every live
transaction that spends it; without the second `NoCoinLost` cannot be carried over a step
that kills a spender. `DoomedLemma` says that the doomed set is closed under spending,
`KillLemma` that removing such a set keeps the invariant, and `ReorgStep` and `IngestStep`
use it for the two operations.

MarkAsDead. `MarkInv` says of a call under way (`Good`): the tables differ from those it
found only in rows of doomed transactions; the spender of a row that is gone is finished or
on the stack; an output of a transaction that stays has been moved back if its row is gone
and is as it was otherwise; every call has in what is left of its snapshot all rows that
concern it and are still in the table, and the rows it is about to move back are there;
and what was to be killed is finished, on the stack or still to do. The last but one is the
reason the stale snapshot does no harm: a row that a recursive call has removed meanwhile may be
handled again, but never one that would be moved back a second time, because its spender
would have to be on the stack twice, and the calls on the stack spend from each other
(`Chained`), which without cycles (`NoCycle`) they cannot. When stack and list are empty
this is the closed form (`MarksEnd`). `ImplementsStore` maps the last step of a call to
`Ingest` or `processReorg` and all others to stutters, and with the theorems above the
store with the recursion has all their properties.

Ledger. `DoomedDescends` shows that the doomed set lies inside the descendants, by using it
as one of the closed sets that `Descendants` intersects; `StatusKilled` that removing it is
`Without`. `LedgerIngest` splits by height and by whether the transaction is stored: at
height 0 the first seen rule means that there is nothing to displace, so the step is `See`
or a stutter; at a height it is `Confirm`. `LedgerReorg` maps `processReorg` to `Reorganise`.
`IInv` is needed for the types and for `NoDoubleSpend`.

WalletView. `VInv` adds to the store's `IInv` that a row with a height belongs to a confirmed
transaction (`HeightsBacked`; the heights of rows lag behind those of `txns`, so this is the
only direction that holds), that `txids` is right for live transactions (`TxidsFresh`), that
an unconfirmed utxo is not also an stxo (`PendingIsUnspent`; for a confirmed one it may be,
see `txstore_spent`) and that a live transaction that pays us nothing spent a row
(`SpenderHasRow`). Each of four properties then follows without a further induction. For
`CheckIsExact`, the rows visited from a coin are the least set closed under unconfirmed
spends (`VisitedLeast`, `VisitedUnfold`); without cycles a row is not visited from itself
(`VisitedAcyclic`). The closed form solves the equation of the recursion (`ClosedUnfold`),
and it is the only solution (`RecursionUnique`): of the rows where another one differed,
one would have nothing below it that differs.

BalanceReader. `ReaderImplementsMark` makes everything proved of `MarkSpec`'s tables hold for
those a call finds: the writes of `Ingest` after the marking are stutters of `MarkAsDead` but
the last. In the middle of a call the tables differ from those only in rows of transactions
the call touches (`MarkedTables`, `LiveTables`, `IngestOK`, `StxosReadKnown`). So a reader
that finds its coin not backed at each of its steps has read, of that coin and of all its
ancestors, rows that `VInv` holds of, and none of these has a height (`NotConfirmed`): it
does not call the coin confirmed (`ReaderOK`). An ancestor that becomes backed meanwhile
sets `backed`, which is what the property allows for.

WireService. `WInv` has the types, that the best header is among those a lookup
finds (`ChainOK`; rollbacks leave holes, so these are not closed under parents) and what the requests on their way ask for, since the answers are computed from
them. `HeightsTrue` is inductive only with the notes of all peers (`NotesTrue`): the height
is noted in the handler of the merkle block and used in that of the transaction. `MInv` adds
for `NothingMissed` what holds between a peer's queue and its notes (`PeerOK`): the
transactions of a merkle block follow it before any other kind of message, every confirmed
note still has its transaction ahead, and `newPeerMsg` comes first. `Covered` says that each
transaction of every block below any header that a lookup finds (`Below`), not only of the
best chain, is stored, noted or taken back: the best chain may move to any such header
without a message about the blocks below, and nobody asks for a block in a hole. A rollback
makes that set smaller (`RollbackStays`) and a commit adds one block to it (`BelowLemma`,
`CommitLemma`). The proof of it showed that the property is false without the exception `takenBack`: on an
instance with a branch of four blocks and a second peer far ahead TLC has a counterexample
that the instance of `wire_forks` is too small for.

KeyManager. `KInv` has the types, `KeysInOrder`, and where the goroutines may be between two
calls: a key about to be put is the next of the chain or somebody else has put it
(`PutPending`), a key about to be marked is in the table (`MarkPending`), what was returned is
used (`ReturnedUsed`), the keys there are and those still to be added make up the window while
the wallet opens (`Filling`), and only one goroutine runs before it is open (`Quiet`). It
holds for any number of goroutines. `FreshAddresses` adds `AskedIsNew`: the key a call is
about to be given had not been returned when the call began, because it was unused when it
was read and what has been returned is used; calls that return meanwhile do not change that.

Difficulty. Each step keeps or reverses the order: the quotient by a time (`DivMonotone`),
the target of a work, and the rounding to 23 bits, where a larger number may get a larger
unit but never a smaller value. Bounds on the number of blocks between the two medians
(the triples are apart and each median is one of its three) and on the bounded time become
bounds on the target. For `OutlierIsHarmless`, one wrong timestamp is in at most one of the
triples, and the median of that one still has a time within its triple (`MedianNear`).

Multisig. `InPlaceSort` is some rearrangement in order. There is one: an element goes to
the place given by the number of those before it, ties broken by the index
(`SortedExists`). And there is only one, since of the elements up to a given one all
rearrangements have equally many (`CountPermuted`, `SortedUnique`). The fee and the share
of it depend on the lengths only, so both parties sort rearrangements of one list.
`LockTimeAlwaysRead` follows `left`, what remains of a number after each of its bytes
(`NumBytesAre`); read backwards it is what the reader has of the number before it adds that
byte (`PushedNumberIs`). `ScriptPlaces` has the place of the lock time after three keys.

Spending. `LoopInv` says that the target fee is the fee of some number of inputs, and that
every beginning shorter than what was last selected cannot pay for itself (`~Affordable`);
at the end this is minimality. It rests on `FeeGrows` (a longer beginning needs a fee at
least as high) and `SelectLeast` (the selector takes the shortest beginning that reaches
the target). `FeeIsBounded` follows from it and from arithmetic on the dust limit. That the
partial sums are natural numbers is part of `buildTx`, since the sum is a recursive function.

PeerManager. `IInv` has the types and whose the mutex is (`LockOwned`): a report has it from
the send to the moment the loop takes the message, `Stop` from its first step to its last,
and a lookup meets neither. On top of it `Tracked` says of each request what it has left in
the tables: a request that is no peer yet nothing; a live connection the goroutine that waits
for its end and, until `Stop` empties the map, an entry in it; an entry in the map a report
that is still to come; and, if its reader reads, an entry at the wire service, because
it reads only after its `newPeerMsg` has been taken, and a report takes the peer out of the
map before it is taken out there. `Visits` keeps the peers `Stop` has still to come to in the map. One lemma per
goroutine, for any number of connections and callers; that an owner gives the mutex back is
liveness and stays with TLC.

Only model-checked: `MBlockComplete` and `MBlockSound`, where the walk over the partial tree
and the tree a peer encodes are `RECURSIVE` operators over trees and sequences, which the
prover cannot do induction over; and all liveness: `CallsReturn`,
`DepartedForgotten`, `StopEntered`, `SpendEnds`, `MarkEnds`.

## 5. Not modelled

- `Prune` and printing of the header store: only tests and a debugging command call them.
- Signatures, keys as numbers, and the scripts of single-key inputs: cryptography, out of
  TLC's reach; `Multisig` keeps what a signature commits to.
- The bits of the bloom filter: `GimmeFilter` is the set of its elements.
- Filter, address and rebroadcast messages, and the listeners' callbacks: they change no
  state a property speaks of. Block listeners appear in `PeerManager` as a call that takes
  its time.
- The lists of addresses and watched scripts, and the race of two `PopulateAdrs` on them:
  `Ours` is a constant, as every property compares outputs that are ours with rows.
- The data race of `Resync` with the message loop: one step in the model; a Go program that
  races on a map may stop.
- A crash in the middle of `Ingest` or `markAsDead` (`txstore.go:280-391`, `442-458`): a restart
  of the store comes between calls. The code writes row after row without a transaction of the
  database, so such a crash may lose a coin or leave rows of a dead transaction;
  `NoCoinLost` and `NoDeadRows` are claimed for calls that come to their end.
- `exchangerates/`: a cache of the answers of web services, read by the window only; it
  shares no state with the wallet.
- `api/`, `cli/`, `cmd/`, `gui/`: wrappers around the wallet API, generated code, argument
  parsing and assets. `config.go`, `tor.go`, `mock.go`, `interface.go`: settings, a dialer,
  test doubles and declarations. None of them holds protocol state.

About a third of the lines of the implementation are mapped; most of the rest is in the
files of the last two items.

## 6. Plan

Done: header store, blockchain and difficulty, transaction store with its abstract
specification and its race, the wallet's answers and their reader, wire service, peer manager, keys,
payments, escrow, merkle blocks; the proofs of section 4. Next:

1. A crash between two rows of `markAsDead` and of `Ingest`, from the states `BalanceReader`
   has, with what holds of the tables that such a wallet opens.
2. `MerkleBlock` as a state machine, round by round, with an invariant between the stack and
   the tree, so that `MBlockSound` can be proved as `MarkAsDeadExact` is.
3. `IngestRace` with `markAsDead` row by row.
