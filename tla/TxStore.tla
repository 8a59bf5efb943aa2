------------------------------- MODULE TxStore -------------------------------
(***************************************************************************)
(* TxStore of txstore.go over the tables of db/utxo.go, db/stxo.go and     *)
(* db/txns.go: what the wallet remembers of the transactions that touch    *)
(* its addresses, and how it follows double spends and reorganisations.    *)
(*                                                                         *)
(* A transaction is its txid; an output is an element of Out.  The tables  *)
(* are keyed as in the database: utxos and stxos by outpoint, txns by      *)
(* txid.  The rest of a row (values, scripts, timestamps) is left out:     *)
(* no decision below depends on it.  Callers are arbitrary: any            *)
(* transaction may be ingested at any height in any order, as peers and    *)
(* the user's Broadcast may deliver them, and any reorganisation may come  *)
(* in between.                                                             *)
(***************************************************************************)
EXTENDS Integers

CONSTANTS
    Tx,          \* transactions that pass CheckTransactionSanity
    Out,         \* the outputs of these transactions
    Creator,     \* the transaction an output belongs to (Op.Hash)
    Spends,      \* the outputs a transaction's inputs refer to
    Ours,        \* the outputs to our keys or to watched scripts
    Filtered,    \* transactions an entry of additionalFilters matches
    MaxHeight,   \* bound: block heights
    None         \* no such row

ASSUME TxAssumption ==
    /\ Creator \in [Out -> Tx]
    /\ Spends \in [Tx -> SUBSET Out]
    /\ Ours \subseteq Out /\ Filtered \subseteq Tx
    /\ MaxHeight \in Nat
    /\ None \notin Int

Dead == -1               \* the height of a transaction known to be invalid
Heights == 0..MaxHeight  \* 0: not confirmed

Stxo == [atHeight : Heights, spendHeight : Heights, spendTxid : Tx]

ASSUME StxoAssumption == None \notin Stxo

VARIABLES
    utxos,   \* height of each unspent output (AtHeight), or None
    stxos,   \* the spent outputs
    txns,    \* height of each stored transaction, Dead, or None
    txids    \* TxStore.txids, the copy of the heights kept in memory

vars == <<utxos, stxos, txns, txids>>

Live(t) == txns[t] # None /\ txns[t] # Dead

----------------------------------------------------------------------------
(***************************************************************************)
(* markAsDead.  The code walks a snapshot of the stxos and calls itself on *)
(* the spender of every output of the dead transaction; the walk ends with *)
(* all descendants dead, their rows gone, and the outputs they spent of    *)
(* others back among the utxos.                                            *)
(***************************************************************************)
Spenders(S) == {stxos[o].spendTxid : o \in {p \in Out : stxos[p] # None /\ Creator[p] \in S}}

(* The least set that holds S and the spenders of its members' outputs.    *)
Doomed(S) ==
    {t \in Tx : \A C \in SUBSET Tx : S \subseteq C /\ Spenders(C) \subseteq C => t \in C}

SpentBy(o, D) == stxos[o] # None /\ stxos[o].spendTxid \in D

UtxosWithout(D) ==
    [o \in Out |-> IF Creator[o] \in D THEN None
                   ELSE IF SpentBy(o, D) THEN stxos[o].atHeight ELSE utxos[o]]

StxosWithout(D) ==
    [o \in Out |-> IF Creator[o] \in D \/ SpentBy(o, D) THEN None ELSE stxos[o]]

TxnsWithout(D) ==
    [t \in Tx |-> IF t \in D /\ txns[t] # None THEN Dead ELSE txns[t]]

(* Mutant: only unconfirmed transactions are looked at.                    *)
UnconfirmedDoubleSpends(tx) ==
    {t \in Tx \ {tx} : txns[t] = 0 /\ Spends[t] \cap Spends[tx] # {}}

(* Stored transactions that are not dead and share an input with tx.       *)
CheckDoubleSpends(tx) ==
    {t \in Tx \ {tx} : Live(t) /\ Spends[t] \cap Spends[tx] # {}}

(* Mutant: a conflict is no reason to refuse an unconfirmed transaction.   *)
AnySeenRule(dubs, height) == TRUE

(* A transaction that is not in a block yields to the ones already seen.   *)
FirstSeenRule(dubs, height) == height = 0 => dubs = {}

(* "Check to see if we've already processed this tx."                      *)
Processed(tx, height) ==
    /\ txids[tx] # None
    /\ txids[tx] > 0 \/ (txids[tx] = 0 /\ height = 0)

(* PopulateAdrs copies the heights of all stored transactions to txids and *)
(* never removes one.                                                      *)
Populated(stored) == [t \in Tx |-> IF stored[t] # None THEN stored[t] ELSE txids[t]]

(* With a height, the loop over the stxos stops at the FIRST row tx        *)
(* spends: older rows come before the ones this call wrote, in an order    *)
(* the query does not fix.                                                 *)
SpendHeightUpdates(st, older, height) ==
    IF height > 0 /\ older # {}
    THEN {[st EXCEPT ![o].spendHeight = height] : o \in older}
    ELSE {st}

(***************************************************************************)
(* Ingest, once the double spends are dead, on the tables u, st and tn.    *)
(* `gained' are the outputs that pay us, put into utxos whatever was       *)
(* there; `spent' the inputs found among the utxos, which become stxos.  A *)
(* transaction with neither, with no stxo to confirm and with no           *)
(* additional filter it matches is not stored, but the double spends it    *)
(* exposed stay dead.                                                      *)
(***************************************************************************)
IngestInto(tx, height, u, st, tn) ==
    LET gained == {o \in Ours : Creator[o] = tx}
        u1     == [o \in Out |-> IF o \in gained THEN height ELSE u[o]]
        spent  == {o \in Spends[tx] : u1[o] # None}
        st1    == [o \in Out |-> IF o \in spent
                                 THEN [atHeight |-> u1[o], spendHeight |-> height, spendTxid |-> tx]
                                 ELSE st[o]]
        older  == {o \in Out \ spent : st[o] # None /\ st[o].spendTxid = tx}
        hit    == gained # {} \/ spent # {} \/ (height > 0 /\ older # {}) \/ tx \in Filtered
    IN  /\ utxos' = [o \in Out |-> IF o \in spent THEN None ELSE u1[o]]
        /\ stxos' \in SpendHeightUpdates(st1, older, height)
        /\ txns' = [t \in Tx |-> IF t = tx /\ hit /\ (tn[t] = None \/ tn[t] <= 0)
                                 THEN height ELSE tn[t]]
        /\ txids' = IF hit THEN Populated(txns') ELSE txids

Ingest(tx, height) ==
    LET dubs == CheckDoubleSpends(tx)
        D    == Doomed(dubs)
    IN  /\ ~Processed(tx, height)
        /\ FirstSeenRule(dubs, height)
        /\ IngestInto(tx, height, UtxosWithout(D), StxosWithout(D), TxnsWithout(D))

(* Every transaction confirmed above the last common block is dead.  The   *)
(* copy in txids is not refreshed.                                         *)
processReorg(lastGoodHeight) ==
    LET D == Doomed({t \in Tx : txns[t] # None /\ txns[t] > lastGoodHeight})
    IN  /\ utxos' = UtxosWithout(D)
        /\ stxos' = StxosWithout(D)
        /\ txns' = TxnsWithout(D)
        /\ UNCHANGED txids

(* Called whenever the filter is rebuilt (GimmeFilter), an address is      *)
(* added or a resync is asked for.                                         *)
PopulateAdrs == txids' = Populated(txns) /\ UNCHANGED <<utxos, stxos, txns>>

(* A new process starts from the tables.                                   *)
NewTxStore == txids' = txns /\ UNCHANGED <<utxos, stxos, txns>>

----------------------------------------------------------------------------
Init ==
    /\ utxos = [o \in Out |-> None]
    /\ stxos = [o \in Out |-> None]
    /\ txns = [t \in Tx |-> None]
    /\ txids = [t \in Tx |-> None]

Next ==
    \/ \E tx \in Tx, height \in Heights : Ingest(tx, height)
    \/ \E lastGoodHeight \in Heights : processReorg(lastGoodHeight)
    \/ PopulateAdrs
    \/ NewTxStore

Spec == Init /\ [][Next]_vars

----------------------------------------------------------------------------
(***************************************************************************)
(* The ledger these tables implement.                                      *)
(***************************************************************************)
Status ==
    [t \in Tx |-> IF ~Live(t) THEN "absent" ELSE IF txns[t] = 0 THEN "pending" ELSE "confirmed"]

L == INSTANCE Ledger WITH status <- Status

(* Every step of Ingest, processReorg and the restarts is a step of the    *)
(* ledger or leaves it alone: nothing pending is accepted against a        *)
(* conflict, a block displaces exactly what conflicts with it, and what    *)
(* markAsDead kills beyond that descends from it.                          *)
LedgerSpec == L!Spec

----------------------------------------------------------------------------
(***************************************************************************)
(* Properties.                                                             *)
(***************************************************************************)
TypeOK ==
    /\ utxos \in [Out -> Heights \cup {None}]
    /\ stxos \in [Out -> Stxo \cup {None}]
    /\ txns \in [Tx -> Heights \cup {Dead, None}]
    /\ txids \in [Tx -> Heights \cup {Dead, None}]

(* CheckDoubleSpends and markAsDead together: whatever arrives in whatever *)
(* order, two transactions that spend the same output are never both       *)
(* counted as valid.                                                       *)
NoDoubleSpend ==
    \A t, u \in Tx : t # u /\ Live(t) /\ Live(u) => Spends[t] \cap Spends[u] = {}

(* A dead transaction leaves nothing behind in the tables the wallet       *)
(* spends from: no row of utxos or stxos belongs to, or is spent by, a     *)
(* transaction that is not valid.                                          *)
NoDeadRows ==
    /\ \A o \in Out : utxos[o] # None => Live(Creator[o])
    /\ \A o \in Out : stxos[o] # None => Live(Creator[o]) /\ Live(stxos[o].spendTxid)

(* Killing and reviving transactions loses no money: an output of ours, of *)
(* a valid transaction, that no valid transaction spends is among the      *)
(* utxos.                                                                  *)
NoCoinLost ==
    \A o \in Ours : Live(Creator[o]) /\ (\A t \in Tx : Live(t) => o \notin Spends[t])
                       => utxos[o] # None

(* "Failed to move utxo to stxo": once a stored transaction has spent an   *)
(* output, the output is no longer offered for spending.                   *)
SpentIsMoved == \A o \in Out : stxos[o] # None => utxos[o] = None
=============================================================================
