----------------------------- MODULE WalletView ------------------------------
(***************************************************************************)
(* What the wallet answers from the tables of TxStore: the balance and the *)
(* confirmations of wallet.go, the pending transactions it announces again *)
(* and the bloom filter it loads into its peers.                           *)
(*                                                                         *)
(* `watched' are the outputs whose rows carry the flag WatchOnly, `tip' is *)
(* the height of the best header.                                          *)
(***************************************************************************)
EXTENDS TxStore

CONSTANT Uint    \* 2^32, the width of a height in the answers

ASSUME UintAssumption == Uint \in Nat /\ MaxHeight + 7 < Uint

Rows(st, watched) == {o \in Out \ watched : st[o] # None}

(* The height is subtracted as an unsigned number: the answer wraps around *)
(* for the height -1 of a dead transaction, and for a height above the tip *)
(* plus one.                                                               *)
ConfirmationsAt(height, tip) ==
    IF height = 0 THEN 0 ELSE (tip - (height % Uint) + 1) % Uint

GetConfirmations(t, tip) == ConfirmationsAt(txns[t], tip)

(* Mutant: the row of the coin itself decides without its height.          *)
OwnRowUnchecked(o, at) == TRUE

(* Mutant: off by one.                                                     *)
OwnRowAbove(o, at) == at > 1

OwnRow(o, at) == at > 0

(* The rows the loop of checkIfStxoIsConfirmed may stop at: those spent by *)
(* the transaction of the coin o, and otherwise the row of o itself.       *)
Inputs(st, o, watched) == {r \in Rows(st, watched) : st[r].spendTxid = Creator[o]}
OwnRows(st, o, at, watched) ==
    {r \in Rows(st, watched) \ Inputs(st, o, watched) : r = o /\ st[r].atHeight = at}

(* An input that is not confirmed itself is checked in its turn.           *)
Deferred(st, o, watched) == {r \in Inputs(st, o, watched) : st[r].spendHeight <= 0}

(* The coins that are checked when o is: the least set that holds o and    *)
(* the deferred inputs of its members.                                     *)
Visited(st, o, watched) ==
    {r \in Out : \A C \in SUBSET Out :
        o \in C /\ (\A x \in C : Deferred(st, x, watched) \subseteq C) => r \in C}

(* What the loop may answer for o without another call.                    *)
Answers(st, o, at, watched) ==
    IF Inputs(st, o, watched) \cup OwnRows(st, o, at, watched) = {} THEN {FALSE}
    ELSE {OwnRow(r, at) : r \in OwnRows(st, o, at, watched)} \cup
         {TRUE : r \in Inputs(st, o, watched) \ Deferred(st, o, watched)}

(***************************************************************************)
(* checkIfStxoIsConfirmed in closed form (module ConfirmedStxo has the     *)
(* recursion of the code): the first row that matches decides, and the     *)
(* order of the rows is not fixed, so the result is the set of the answers.*)
(***************************************************************************)
ConfirmedAnswers(st, o, at, watched) ==
    UNION {Answers(st, x, IF x = o THEN at ELSE st[x].atHeight, watched) :
              x \in Visited(st, o, watched)}

(* Whether Balance counts the coin o as confirmed.                         *)
Counted(o, tip, watched) ==
    IF GetConfirmations(Creator[o], tip) > 0 THEN {TRUE}
    ELSE ConfirmedAnswers(stxos, o, utxos[o], watched)

Stored == {t \in Tx : txns[t] # None}

(* Mutant: an unconfirmed height is a height like others.                  *)
ConfsOfAny(t, tip) == tip - txns[t] + 1

Confs(t, tip) == IF txns[t] <= 0 THEN txns[t] ELSE tip - txns[t] + 1

(* The list of the transactions, where `old' are those seen six hours ago. *)
Transactions(tip, old) ==
    [t \in Stored |->
        LET confs == Confs(t, tip)
        IN  CASE confs < 0 -> [status |-> "DEAD", confirmations |-> 0]
              [] confs = 0 -> [status |-> IF t \in old THEN "STUCK" ELSE "UNCONFIRMED", confirmations |-> 0]
              [] confs \in 1..5 -> [status |-> "PENDING", confirmations |-> confs]
              [] OTHER -> [status |-> "CONFIRMED", confirmations |-> confs]]

BalanceCoins(watched) == {o \in Out \ watched : utxos[o] # None /\ txns[Creator[o]] # None}

(* Mutant: only transactions with change are announced again.              *)
PendingByCoins ==
    {Creator[o] : o \in {p \in Out : utxos[p] = 0}}

(* The transactions of the inv, found through the heights of the rows.     *)
GetPendingInv ==
    {Creator[o] : o \in {p \in Out : utxos[p] = 0}} \cup
    {stxos[o].spendTxid : o \in {p \in Out : stxos[p] # None /\ stxos[p].spendHeight = 0}}

(* Mutant: the outputs already spent are not watched.                      *)
FilterOfCoins == {o \in Out : utxos[o] # None}

(* The outpoints of the filter; our addresses and scripts are in it too.   *)
GimmeFilter == {o \in Out : utxos[o] # None \/ stxos[o] # None}

(* A peer relays a transaction, alone or with its block, that pays to an   *)
(* address of the filter or spends an outpoint of it.  (Of the additional  *)
(* filters it matches whole pushes only, Ingest any part of a script.)     *)
Relayed(t) == (\E o \in Ours : Creator[o] = t) \/ Spends[t] \cap GimmeFilter # {}

----------------------------------------------------------------------------
Confirmed(t) == txns[t] # None /\ txns[t] > 0

(* The height of the best header: new blocks raise it before anything is   *)
(* ingested, and the user's resync (ReSyncBlockchain and                   *)
(* ResyncBlockchainHeight) lowers it below the heights in the tables       *)
(* without a call of processReorg, so any height goes with any tables.     *)
Tips == 0..(MaxHeight + 1) \cup {MaxHeight + 6}

Parents(t) == {Creator[o] : o \in {p \in Spends[t] : stxos[p] # None}}

(* The least set that holds t and the parents of its members.              *)
Ancestry(t) ==
    {a \in Tx : \A C \in SUBSET Tx : t \in C /\ (\A u \in C : Parents(u) \subseteq C) => a \in C}

(* "If a spend of confirmed coins is made, the resulting change should be  *)
(* also counted as confirmed", for coins that came from outside: a coin of *)
(* a pending transaction all of whose inputs are confirmed coins of ours   *)
(* that do not themselves descend from ours counts as confirmed in every   *)
(* order of the rows.                                                      *)
ChangeCounted ==
    \A tip \in Tips : \A o \in BalanceCoins({}) :
        LET t == Creator[o] IN
        (/\ txns[t] = 0 /\ Spends[t] # {}
         /\ \A i \in Spends[t] : /\ stxos[i] # None /\ stxos[i].spendTxid = t
                                 /\ stxos[i].atHeight > 0
                                 /\ Parents(Creator[i]) = {})
            => Counted(o, tip, {}) = {TRUE}

(* Transactions and GetConfirmations, two computations from the same       *)
(* heights, agree on every transaction that is not shown as dead, for any  *)
(* tip, also one the user lowered; and what Transactions shows fits the    *)
(* balance between two calls of the store: no coin of a confirmed          *)
(* transaction is counted as unconfirmed, and no coin of a dead one is     *)
(* counted.  Only a transaction in a block above the lowered tip is shown  *)
(* as dead while its coins are counted as confirmed.                       *)
HistoryAgrees ==
    \A tip \in Tips : \A t \in Stored :
        LET shown == Transactions(tip, {})[t]
            coins == {o \in BalanceCoins({}) : Creator[o] = t}
            counted == \A o \in coins : Counted(o, tip, {}) = {TRUE}
        IN  /\ shown.status # "DEAD" => shown.confirmations = GetConfirmations(t, tip)
            /\ shown.status = "DEAD" => IF txns[t] > tip THEN counted ELSE coins = {}
            /\ shown.confirmations > 0 => counted

(* GetPendingInv finds pending transactions through rows that are written  *)
(* at other times than txns: still every pending transaction with a coin   *)
(* of ours left, or with an input of ours, is announced again, and a       *)
(* transaction that lost against a double spend or a reorganisation never. *)
PendingAnnounced ==
    /\ \A t \in GetPendingInv : Live(t)
    /\ \A t \in Tx : txns[t] = 0 /\ (\/ \E o \in Out : Creator[o] = t /\ utxos[o] # None
                                     \/ \E o \in Out : stxos[o] # None /\ stxos[o].spendTxid = t)
                        => t \in GetPendingInv

(* The filter follows the tables: the peers relay every transaction the    *)
(* wallet counts as valid when it is confirmed, and every one that spends  *)
(* a coin of ours, after any kill or reorganisation.                       *)
StoredAreRelayed ==
    /\ \A t \in Tx \ Filtered : Live(t) => Relayed(t)
    /\ \A t \in Tx : (\E o \in Ours : o \in Spends[t] /\ Live(Creator[o])) => Relayed(t)
=============================================================================
