---------------------------- MODULE TxStoreProofs ----------------------------
(***************************************************************************)
(* Proofs about modules TxStore and MarkAsDead, for every set of           *)
(* transactions and every order in which they are ingested, killed and     *)
(* revived.                                                                *)
(***************************************************************************)
EXTENDS MarkAsDead, TLAPS

(* A spent output is spent by the transaction its row names.               *)
SpendsRow == \A o \in Out : stxos[o] # None => o \in Spends[stxos[o].spendTxid]

(* An output of ours of a valid transaction has a row in one of the tables.*)
RowKept == \A o \in Ours : Live(Creator[o]) => utxos[o] # None \/ stxos[o] # None

IInv == TypeOK /\ NoDoubleSpend /\ NoDeadRows /\ SpendsRow /\ RowKept

(* What is doomed are transactions, among them the ones it starts from.    *)
LEMMA DoomedLemma ==
    ASSUME NEW S \in SUBSET Tx
    PROVE  S \subseteq Doomed(S) /\ Doomed(S) \subseteq Tx
  BY DEF Doomed

(* The tables after markAsDead: typed, and every row that is left belongs  *)
(* to transactions that were valid and are not among the dead.             *)
LEMMA KillLemma ==
    ASSUME IInv, NEW D \in SUBSET Tx
    PROVE  /\ UtxosWithout(D) \in [Out -> Heights \cup {None}]
           /\ StxosWithout(D) \in [Out -> Stxo \cup {None}]
           /\ TxnsWithout(D) \in [Tx -> Heights \cup {Dead, None}]
           /\ \A t \in Tx : TxnsWithout(D)[t] # None /\ TxnsWithout(D)[t] # Dead =>
                 Live(t) /\ t \notin D /\ TxnsWithout(D)[t] = txns[t]
           /\ \A t \in Tx : Live(t) /\ t \notin D => TxnsWithout(D)[t] = txns[t]
           /\ \A o \in Out : UtxosWithout(D)[o] # None =>
                 Live(Creator[o]) /\ Creator[o] \notin D
           /\ \A o \in Out : StxosWithout(D)[o] # None =>
                 /\ StxosWithout(D)[o] = stxos[o]
                 /\ Live(Creator[o]) /\ Creator[o] \notin D
                 /\ Live(stxos[o].spendTxid) /\ stxos[o].spendTxid \notin D
           /\ \A o \in Ours : Live(Creator[o]) /\ Creator[o] \notin D =>
                 UtxosWithout(D)[o] # None \/ StxosWithout(D)[o] # None
<1> USE TxAssumption DEF IInv, TypeOK
<1>1. ASSUME NEW o \in Out, SpentBy(o, D)
      PROVE  stxos[o] \in Stxo /\ stxos[o].atHeight \in Heights /\ stxos[o].atHeight # None
  BY <1>1 DEF SpentBy, Stxo, Heights
<1>2. UtxosWithout(D) \in [Out -> Heights \cup {None}]
  BY <1>1 DEF UtxosWithout
<1>3. StxosWithout(D) \in [Out -> Stxo \cup {None}]
  BY DEF StxosWithout
<1>4. TxnsWithout(D) \in [Tx -> Heights \cup {Dead, None}]
  BY DEF TxnsWithout
<1>5. \A t \in Tx : TxnsWithout(D)[t] # None /\ TxnsWithout(D)[t] # Dead =>
         Live(t) /\ t \notin D /\ TxnsWithout(D)[t] = txns[t]
  BY DEF TxnsWithout, Live
<1>6. \A t \in Tx : Live(t) /\ t \notin D => TxnsWithout(D)[t] = txns[t]
  BY DEF TxnsWithout
<1>7. \A o \in Out : UtxosWithout(D)[o] # None => Live(Creator[o]) /\ Creator[o] \notin D
  BY DEF UtxosWithout, SpentBy, NoDeadRows
<1>8. \A o \in Out : StxosWithout(D)[o] # None =>
         /\ StxosWithout(D)[o] = stxos[o]
         /\ Live(Creator[o]) /\ Creator[o] \notin D
         /\ Live(stxos[o].spendTxid) /\ stxos[o].spendTxid \notin D
  BY DEF StxosWithout, SpentBy, NoDeadRows
<1>9. \A o \in Ours : Live(Creator[o]) /\ Creator[o] \notin D =>
         UtxosWithout(D)[o] # None \/ StxosWithout(D)[o] # None
  <2> SUFFICES ASSUME NEW o \in Ours, Live(Creator[o]), Creator[o] \notin D
               PROVE  UtxosWithout(D)[o] # None \/ StxosWithout(D)[o] # None
    OBVIOUS
  <2>1. o \in Out
    OBVIOUS
  <2>2. CASE SpentBy(o, D)
    BY <1>1, <2>1, <2>2 DEF UtxosWithout
  <2>3. CASE ~SpentBy(o, D)
    BY <2>1, <2>3 DEF UtxosWithout, StxosWithout, RowKept
  <2> QED BY <2>2, <2>3
<1> QED BY <1>2, <1>3, <1>4, <1>5, <1>6, <1>7, <1>8, <1>9

LEMMA IInvInit == Init => IInv
  BY TxAssumption DEF Init, IInv, TypeOK, NoDoubleSpend, NoDeadRows, SpendsRow, RowKept, Live

(* A reorganisation.                                                       *)
LEMMA ReorgStep ==
    ASSUME IInv, NEW n \in Heights, processReorg(n)
    PROVE  IInv'
<1> DEFINE S == {t \in Tx : txns[t] # None /\ txns[t] > n}
           D == Doomed(S)
<1>1. D \in SUBSET Tx
  BY DoomedLemma
<1>2. utxos' = UtxosWithout(D) /\ stxos' = StxosWithout(D)
      /\ txns' = TxnsWithout(D) /\ txids' = txids
  BY DEF processReorg
<1> HIDE DEF D
<1>3. TypeOK'
  BY <1>1, <1>2, KillLemma DEF IInv, TypeOK
<1>4. \A t \in Tx : Live(t)' <=> Live(t) /\ t \notin D
  BY <1>1, <1>2, KillLemma DEF Live
<1>5. NoDoubleSpend'
  BY <1>4 DEF IInv, NoDoubleSpend
<1>6. NoDeadRows'
  <2>1. \A o \in Out : Creator[o] \in Tx
    BY TxAssumption
  <2>2. \A o \in Out : stxos'[o] # None => stxos'[o].spendTxid \in Tx
    BY <1>3 DEF TypeOK, Stxo
  <2> QED BY <1>1, <1>2, <1>4, <2>1, <2>2, KillLemma DEF NoDeadRows
<1>7. SpendsRow'
  BY <1>1, <1>2, KillLemma DEF IInv, SpendsRow
<1>8. RowKept'
  <2>1. \A o \in Ours : Creator[o] \in Tx
    BY TxAssumption
  <2> QED BY <1>1, <1>2, <1>4, <2>1, KillLemma DEF RowKept
<1> QED BY <1>3, <1>5, <1>6, <1>7, <1>8 DEF IInv

(* Ingest.  A transaction is stored as valid only after every valid        *)
(* transaction it conflicts with has been killed; the rows it adds are its *)
(* own outputs and the outputs it spends.                                  *)
LEMMA IngestStep ==
    ASSUME IInv, NEW tx \in Tx, NEW height \in Heights, Ingest(tx, height)
    PROVE  IInv'
<1> DEFINE dubs   == CheckDoubleSpends(tx)
           D      == Doomed(dubs)
           gained == {o \in Ours : Creator[o] = tx}
           u0     == UtxosWithout(D)
           u1     == [o \in Out |-> IF o \in gained THEN height ELSE u0[o]]
           spent  == {o \in Spends[tx] : u1[o] # None}
           st0    == StxosWithout(D)
           row(o) == [atHeight |-> u1[o], spendHeight |-> height, spendTxid |-> tx]
           st1    == [o \in Out |-> IF o \in spent THEN row(o) ELSE st0[o]]
           older  == {o \in Out \ spent : st0[o] # None /\ st0[o].spendTxid = tx}
           t1     == TxnsWithout(D)
           hit    == gained # {} \/ spent # {} \/ (height > 0 /\ older # {}) \/ tx \in Filtered
<1>1. /\ utxos' = [o \in Out |-> IF o \in spent THEN None ELSE u1[o]]
      /\ stxos' \in SpendHeightUpdates(st1, older, height)
      /\ txns' = [t \in Tx |-> IF t = tx /\ hit /\ (t1[t] = None \/ t1[t] <= 0)
                               THEN height ELSE t1[t]]
      /\ txids' = IF hit THEN Populated(txns') ELSE txids
  BY DEF Ingest, IngestInto
<1>2. dubs \subseteq D /\ D \in SUBSET Tx
  BY DoomedLemma DEF CheckDoubleSpends
<1> HIDE DEF D
<1>3. /\ u0 \in [Out -> Heights \cup {None}]
      /\ st0 \in [Out -> Stxo \cup {None}]
      /\ t1 \in [Tx -> Heights \cup {Dead, None}]
      /\ \A t \in Tx : t1[t] # None /\ t1[t] # Dead => Live(t) /\ t \notin D /\ t1[t] = txns[t]
      /\ \A t \in Tx : Live(t) /\ t \notin D => t1[t] = txns[t]
      /\ \A o \in Out : u0[o] # None => Live(Creator[o]) /\ Creator[o] \notin D
      /\ \A o \in Out : st0[o] # None =>
            /\ st0[o] = stxos[o]
            /\ Live(Creator[o]) /\ Creator[o] \notin D
            /\ Live(stxos[o].spendTxid) /\ stxos[o].spendTxid \notin D
      /\ \A o \in Ours : Live(Creator[o]) /\ Creator[o] \notin D => u0[o] # None \/ st0[o] # None
  BY <1>2, KillLemma
<1>4. /\ u1 \in [Out -> Heights \cup {None}]
      /\ \A o \in spent : o \in Out /\ u1[o] \in Heights /\ row(o) \in Stxo /\ row(o) # None
  BY <1>3, TxAssumption, StxoAssumption DEF Stxo
<1>5. st1 \in [Out -> Stxo \cup {None}]
  BY <1>3, <1>4
<1> HIDE DEF u0, st0, t1
(* Confirming a row changes its height only.                               *)
<1>6. /\ stxos' \in [Out -> Stxo \cup {None}]
      /\ \A o \in Out : stxos'[o] # None <=> st1[o] # None
      /\ \A o \in Out : st1[o] # None => stxos'[o].spendTxid = st1[o].spendTxid
  <2>1. CASE height > 0 /\ older # {}
    <3>1. PICK q \in older : stxos' = [st1 EXCEPT ![q].spendHeight = height]
      BY <1>1, <2>1 DEF SpendHeightUpdates
    <3>2. q \in Out /\ st1[q] # None /\ st1[q] \in Stxo
      BY <1>3, <1>5, <3>1
    <3>3. [st1[q] EXCEPT !.spendHeight = height] \in Stxo
          /\ [st1[q] EXCEPT !.spendHeight = height].spendTxid = st1[q].spendTxid
      BY <3>2 DEF Stxo
    <3>4. stxos' = [st1 EXCEPT ![q] = [st1[q] EXCEPT !.spendHeight = height]]
      BY <3>1, <3>2, <1>5
    <3> HIDE DEF st1
    <3> QED BY <1>5, <3>2, <3>3, <3>4, StxoAssumption
  <2>2. CASE ~(height > 0 /\ older # {})
    <3>1. stxos' = st1
      BY <1>1, <2>2 DEF SpendHeightUpdates
    <3> HIDE DEF st1
    <3> QED BY <1>5, <3>1
  <2> QED BY <2>1, <2>2
<1>7. TypeOK'
  <2>1. utxos' \in [Out -> Heights \cup {None}]
    BY <1>1, <1>4
  <2>2. txns' \in [Tx -> Heights \cup {Dead, None}]
    BY <1>1, <1>3
  <2>3. txids' \in [Tx -> Heights \cup {Dead, None}]
    BY <1>1, <2>2 DEF IInv, TypeOK, Populated
  <2> QED BY <1>6, <2>1, <2>2, <2>3 DEF TypeOK
<1>8. \A t \in Tx \ {tx} : Live(t)' <=> Live(t) /\ t \notin D
  BY <1>1, <1>3 DEF Live
<1>9. hit => Live(tx)'
  <2> SUFFICES ASSUME hit PROVE Live(tx)'
    OBVIOUS
  <2>1. height # None /\ height # Dead
    BY TxAssumption DEF Heights, Dead
  <2>2. CASE t1[tx] = None \/ t1[tx] <= 0
    BY <1>1, <2>1, <2>2 DEF Live
  <2>3. CASE ~(t1[tx] = None \/ t1[tx] <= 0)
    <3>1. t1[tx] # None /\ t1[tx] # Dead
      BY <2>3 DEF Dead
    <3> QED BY <1>1, <2>3, <3>1 DEF Live
  <2> QED BY <2>2, <2>3
<1>10. Live(tx) /\ tx \notin D => Live(tx)'
  <2> SUFFICES ASSUME Live(tx), tx \notin D PROVE Live(tx)'
    OBVIOUS
  <2>1. t1[tx] = txns[tx]
    BY <1>3
  <2>2. CASE hit
    BY <1>9, <2>2
  <2>3. CASE ~hit
    BY <1>1, <2>1, <2>3 DEF Live
  <2> QED BY <2>2, <2>3
<1>11. NoDoubleSpend'
  <2>1. \A t \in Tx \ {tx} : Live(t)' => Spends[t] \cap Spends[tx] = {}
    BY <1>2, <1>8 DEF CheckDoubleSpends
  <2>2. \A t, u \in Tx \ {tx} : t # u /\ Live(t)' /\ Live(u)' => Spends[t] \cap Spends[u] = {}
    BY <1>8 DEF IInv, NoDoubleSpend
  <2> QED BY <2>1, <2>2 DEF NoDoubleSpend
<1>12. \A t \in Tx : Live(t) /\ t \notin D => Live(t)'
  BY <1>8, <1>10
<1>13. NoDeadRows'
  <2> DEFINE LiveNext(t) == txns'[t] # None /\ txns'[t] # Dead
  <2>1. \A t \in Tx : Live(t) /\ t \notin D => LiveNext(t)
    BY <1>12 DEF Live
  <2>2. hit => LiveNext(tx)
    BY <1>9 DEF Live
  <2>3. ASSUME NEW o \in Out, u1[o] # None PROVE LiveNext(Creator[o])
    <3>1. CASE o \in gained
      BY <2>2, <3>1
    <3>2. CASE o \notin gained
      BY <1>3, <2>1, <2>3, <3>2, TxAssumption
    <3> QED BY <3>1, <3>2
  <2>4. ASSUME NEW o \in Out, st1[o] # None
        PROVE  LiveNext(Creator[o]) /\ LiveNext(st1[o].spendTxid)
    <3>1. CASE o \in spent
      <4>1. LiveNext(tx)
        BY <2>2, <3>1
      <4>2. st1[o].spendTxid = tx
        BY <3>1
      <4>3. u1[o] # None
        BY <3>1
      <4> HIDE DEF st1, u1, LiveNext
      <4> QED BY <2>3, <4>1, <4>2, <4>3
    <3>2. CASE o \notin spent
      <4>1. st1[o] = st0[o]
        BY <3>2
      <4>2. st0[o] # None
        BY <2>4, <4>1
      <4>3. Creator[o] \in Tx /\ st0[o] = stxos[o] /\ st0[o] \in Stxo
        BY <1>3, <4>2, TxAssumption
      <4>4. stxos[o].spendTxid \in Tx
        BY <4>3 DEF Stxo
      <4> HIDE DEF st1, LiveNext
      <4> QED BY <1>3, <2>1, <4>1, <4>2, <4>3, <4>4
    <3> QED BY <3>1, <3>2
  <2>5. \A o \in Out : utxos'[o] # None => u1[o] # None
    BY <1>1
  <2> HIDE DEF u1, st1
  <2> QED BY <1>6, <2>3, <2>4, <2>5 DEF NoDeadRows, Live
<1>14. SpendsRow'
  <2>1. ASSUME NEW o \in Out, st1[o] # None PROVE o \in Spends[st1[o].spendTxid]
    <3>1. CASE o \in spent
      BY <3>1
    <3>2. CASE o \notin spent
      BY <1>3, <2>1, <3>2 DEF IInv, SpendsRow
    <3> QED BY <3>1, <3>2
  <2> HIDE DEF st1
  <2> QED BY <1>6, <2>1 DEF SpendsRow
<1>15. RowKept'
  <2> SUFFICES ASSUME NEW o \in Ours, Live(Creator[o])'
               PROVE  utxos'[o] # None \/ stxos'[o] # None
    BY DEF RowKept
  <2>1. o \in Out /\ Creator[o] \in Tx
    BY TxAssumption
  <2>2. CASE o \in spent
    <3>1. st1[o] # None
      BY <1>4, <2>1, <2>2
    <3> HIDE DEF st1
    <3> QED BY <1>6, <2>1, <3>1
  <2>3. CASE o \notin spent /\ o \in gained
    <3>1. height # None
      BY TxAssumption DEF Heights
    <3> QED BY <1>1, <2>1, <2>3, <3>1
  <2>4. CASE o \notin spent /\ o \notin gained
    <3>1. Live(Creator[o]) /\ Creator[o] \notin D
      BY <1>8, <2>1, <2>4
    <3>2. u0[o] # None \/ st0[o] # None
      BY <1>3, <3>1
    <3>3. u0[o] # None => utxos'[o] # None
      BY <1>1, <2>1, <2>4
    <3>4. st0[o] # None => st1[o] # None
      BY <2>1, <2>4
    <3> HIDE DEF st1
    <3> QED BY <1>6, <2>1, <3>2, <3>3, <3>4
  <2> QED BY <2>2, <2>3, <2>4
<1> QED BY <1>7, <1>11, <1>13, <1>14, <1>15 DEF IInv

LEMMA IInvNext == IInv /\ [Next]_vars => IInv'
<1> SUFFICES ASSUME IInv, [Next]_vars PROVE IInv'
  OBVIOUS
<1>1. ASSUME NEW tx \in Tx, NEW height \in Heights, Ingest(tx, height) PROVE IInv'
  BY <1>1, IngestStep
<1>2. ASSUME NEW n \in Heights, processReorg(n) PROVE IInv'
  BY <1>2, ReorgStep
<1>3. CASE PopulateAdrs \/ NewTxStore \/ UNCHANGED vars
  <2>1. txids' \in [Tx -> Heights \cup {Dead, None}]
    BY <1>3 DEF PopulateAdrs, NewTxStore, vars, Populated, IInv, TypeOK
  <2>2. UNCHANGED <<utxos, stxos, txns>>
    BY <1>3 DEF PopulateAdrs, NewTxStore, vars
  <2> QED BY <2>1, <2>2
       DEF IInv, TypeOK, NoDoubleSpend, NoDeadRows, SpendsRow, RowKept, Live
<1> QED BY <1>1, <1>2, <1>3 DEF Next

(* The types of the tables.                                                *)
THEOREM TypeCorrect == Spec => []TypeOK
<1>1. IInv => TypeOK
  BY DEF IInv
<1> QED BY IInvInit, IInvNext, <1>1, PTL DEF Spec

(* Of two transactions that spend the same output the wallet counts at     *)
(* most one, for every set of transactions and every order of arrivals,    *)
(* reorganisations and restarts.                                           *)
THEOREM DoubleSpendSafety == Spec => []NoDoubleSpend
<1>1. IInv => NoDoubleSpend
  BY DEF IInv
<1> QED BY IInvInit, IInvNext, <1>1, PTL DEF Spec

(* No row of a dead transaction, or spent by one, is left.                 *)
THEOREM DeadRowSafety == Spec => []NoDeadRows
<1>1. IInv => NoDeadRows
  BY DEF IInv
<1> QED BY IInvInit, IInvNext, <1>1, PTL DEF Spec

(* No coin is lost by markAsDead, processReorg and re-ingestion.           *)
THEOREM CoinSafety == Spec => []NoCoinLost
<1>1. IInv => NoCoinLost
  <2> SUFFICES ASSUME IInv, NEW o \in Ours, Live(Creator[o]),
                      \A t \in Tx : Live(t) => o \notin Spends[t]
               PROVE  utxos[o] # None
    BY DEF NoCoinLost
  <2>1. o \in Out
    BY TxAssumption
  <2>2. CASE stxos[o] # None
    <3>1. stxos[o].spendTxid \in Tx
      BY <2>1, <2>2 DEF IInv, TypeOK, Stxo
    <3> QED BY <2>1, <2>2, <3>1 DEF IInv, NoDeadRows, SpendsRow
  <2>3. CASE stxos[o] = None
    BY <2>3 DEF IInv, RowKept
  <2> QED BY <2>2, <2>3
<1> QED BY IInvInit, IInvNext, <1>1, PTL DEF Spec

----------------------------------------------------------------------------
(***************************************************************************)
(* The tables implement the ledger.  What markAsDead reaches through the   *)
(* stxos descends, because a row names a transaction that spends it        *)
(* (SpendsRow); the rest is reading off what each operation does to txns.  *)
(***************************************************************************)
LEMMA DoomedDescends ==
    ASSUME IInv, NEW S \in SUBSET Tx
    PROVE  Doomed(S) \in L!Dropped(S)
<1>1. ASSUME NEW C \in SUBSET Tx, L!ClosedUnderSpending(C) PROVE Spenders(C) \subseteq C
  <2> SUFFICES ASSUME NEW o \in Out, stxos[o] # None, Creator[o] \in C
               PROVE  stxos[o].spendTxid \in C
    BY DEF Spenders
  <2>1. stxos[o].spendTxid \in Tx
    BY DEF IInv, TypeOK, Stxo
  <2>2. o \in Spends[stxos[o].spendTxid]
    BY DEF IInv, SpendsRow
  <2> QED BY <1>1, <2>1, <2>2 DEF L!ClosedUnderSpending
<1>2. Doomed(S) \subseteq L!Descendants(S)
  BY <1>1 DEF Doomed, L!Descendants
<1> QED BY <1>2, DoomedLemma DEF L!Dropped

(* The status of a transaction after markAsDead.                           *)
LEMMA StatusKilled ==
    ASSUME IInv, NEW D \in SUBSET Tx, NEW t \in Tx, NEW v, v = TxnsWithout(D)[t]
    PROVE  L!Without(D)[t] = IF v = None \/ v = Dead THEN "absent"
                             ELSE IF v = 0 THEN "pending" ELSE "confirmed"
<1>1. CASE t \in D
  BY <1>1 DEF L!Without, TxnsWithout, Dead
<1>2. CASE t \notin D
  BY <1>2 DEF L!Without, TxnsWithout, Status, Live
<1> QED BY <1>1, <1>2

LEMMA LedgerReorg ==
    ASSUME IInv, NEW n \in Heights, processReorg(n)
    PROVE  L!Reorganise
<1> DEFINE S == {t \in Tx : txns[t] # None /\ txns[t] > n}
           D == Doomed(S)
<1>1. S \in SUBSET {t \in Tx : Status[t] = "confirmed"}
  BY TxAssumption DEF Status, Live, Dead, Heights, IInv, TypeOK
<1>2. D \in L!Dropped(S) /\ D \in SUBSET Tx
  BY DoomedDescends, DoomedLemma
<1>3. txns' = TxnsWithout(D)
  BY DEF processReorg
<1> HIDE DEF S, D
<1>4. Status' = L!Without(D)
  <2>1. \A t \in Tx : Status'[t] = L!Without(D)[t]
    BY <1>2, <1>3, StatusKilled DEF Status, Live
  <2> QED BY <2>1 DEF Status, L!Without
<1> QED BY <1>1, <1>2, <1>4 DEF L!Reorganise

LEMMA LedgerIngest ==
    ASSUME IInv, NEW tx \in Tx, NEW height \in Heights, Ingest(tx, height)
    PROVE  L!See(tx) \/ L!Confirm(tx) \/ UNCHANGED Status
<1> DEFINE dubs == CheckDoubleSpends(tx)
           D    == Doomed(dubs)
           t1   == TxnsWithout(D)
<1>1. PICK hit \in BOOLEAN :
         txns' = [t \in Tx |-> IF t = tx /\ hit /\ (t1[t] = None \/ t1[t] <= 0)
                               THEN height ELSE t1[t]]
  <2> DEFINE gained == {o \in Ours : Creator[o] = tx}
             u1     == [o \in Out |-> IF o \in gained THEN height ELSE UtxosWithout(D)[o]]
             spent  == {o \in Spends[tx] : u1[o] # None}
             st0    == StxosWithout(D)
             older  == {o \in Out \ spent : st0[o] # None /\ st0[o].spendTxid = tx}
             h      == gained # {} \/ spent # {} \/ (height > 0 /\ older # {})
                         \/ tx \in Filtered
  <2>1. h \in BOOLEAN
    OBVIOUS
  <2>2. txns' = [t \in Tx |-> IF t = tx /\ h /\ (t1[t] = None \/ t1[t] <= 0)
                              THEN height ELSE t1[t]]
    BY DEF Ingest, IngestInto
  <2> HIDE DEF h
  <2> QED BY <2>1, <2>2
<1>2. FirstSeenRule(dubs, height)
  BY DEF Ingest, IngestInto
<1>3. dubs \in SUBSET Tx /\ dubs = L!Conflicts(tx)
  <2>1. \A t \in Tx : Live(t) <=> ~L!Absent(t)
    BY DEF L!Absent, Status
  <2> QED BY <2>1 DEF CheckDoubleSpends, L!Conflicts
<1> HIDE DEF dubs
<1>4. D \in L!Dropped(dubs) /\ D \in SUBSET Tx
  BY <1>3, DoomedDescends, DoomedLemma
<1> DEFINE W == L!Without(D)
<1>5. /\ DOMAIN W = Tx
      /\ \A t \in Tx \ {tx} : Status'[t] = W[t]
  <2>1. DOMAIN W = Tx
    BY DEF L!Without
  <2>2. \A t \in Tx \ {tx} : txns'[t] = t1[t]
    BY <1>1
  <2> HIDE DEF D, t1
  <2>3. \A t \in Tx \ {tx} : Status'[t] = W[t]
    <3> SUFFICES ASSUME NEW t \in Tx \ {tx} PROVE Status'[t] = W[t]
      OBVIOUS
    <3>1. txns'[t] = TxnsWithout(D)[t]
      BY <2>2 DEF t1
    <3> HIDE DEF W
    <3>2. W[t] = IF txns'[t] = None \/ txns'[t] = Dead THEN "absent"
                 ELSE IF txns'[t] = 0 THEN "pending" ELSE "confirmed"
      BY <1>4, <3>1, StatusKilled DEF W
    <3> QED BY <3>2 DEF Status, Live
  <2> QED BY <2>1, <2>3
<1>6. DOMAIN Status = Tx /\ DOMAIN Status' = Tx
  BY DEF Status
(* Of tx itself: nothing new, or it gets the height it is ingested at.     *)
<1>7. Status'[tx] = W[tx] \/ Status'[tx] = IF height = 0 THEN "pending" ELSE "confirmed"
  <2>1. CASE txns'[tx] = t1[tx]
    <3>1. W[tx] = IF txns'[tx] = None \/ txns'[tx] = Dead THEN "absent"
                  ELSE IF txns'[tx] = 0 THEN "pending" ELSE "confirmed"
      BY <1>4, <2>1, StatusKilled
    <3> QED BY <3>1 DEF Status, Live
  <2>2. CASE txns'[tx] = height
    <3>1. height # None /\ height # Dead
      BY TxAssumption DEF Heights, Dead
    <3> QED BY <2>2, <3>1 DEF Status, Live
  <2> QED BY <1>1, <2>1, <2>2
<1> HIDE DEF D, t1, W
<1>8. CASE height > 0
  <2>1. CASE Status'[tx] = W[tx]
    <3>1. Status' = W
      BY <1>5, <1>6, <2>1 DEF Status, L!Without, W
    <3> QED BY <1>3, <1>4, <3>1 DEF L!Confirm, W
  <2>2. CASE Status'[tx] = "confirmed"
    <3>1. Status' = [W EXCEPT ![tx] = "confirmed"]
      BY <1>5, <1>6, <2>2 DEF Status, L!Without, W
    <3> QED BY <1>3, <1>4, <3>1 DEF L!Confirm, W
  <2> QED BY <1>7, <1>8, <2>1, <2>2
<1>9. CASE height = 0
  <2>1. dubs = {} /\ D = {}
    <3>1. dubs = {}
      BY <1>2, <1>9 DEF FirstSeenRule
    <3>2. Spenders({}) = {}
      BY DEF Spenders
    <3> QED BY <3>1, <3>2 DEF D, Doomed
  <2>2. W = Status
    BY <2>1 DEF W, L!Without, Status
  <2>3. CASE Status'[tx] = Status[tx]
    <3>1. Status' = Status
      BY <1>5, <1>6, <2>2, <2>3 DEF Status
    <3> QED BY <3>1
  <2>4. CASE Status'[tx] = "pending" /\ Status[tx] = "absent"
    <3>1. Status' = [Status EXCEPT ![tx] = "pending"]
      BY <1>5, <1>6, <2>2, <2>4 DEF Status
    <3> QED BY <1>3, <2>1, <2>4, <3>1 DEF L!See, L!Absent
  (* A transaction that is stored as valid already keeps its height.       *)
  <2>5. CASE Status'[tx] = "pending" /\ Status[tx] = "confirmed"
    <3>1. txns[tx] \in Int /\ txns[tx] > 0 /\ txns[tx] # None
      BY <2>5, TxAssumption DEF Dead, Status, Live, IInv, TypeOK, Heights
    <3>2. t1[tx] = txns[tx]
      BY <2>1 DEF t1, TxnsWithout
    <3>3. txns'[tx] = txns[tx]
      BY <1>1, <3>1, <3>2
    <3>4. Status'[tx] = Status[tx]
      BY <3>3 DEF Status, Live
    <3> QED BY <3>4, <2>5
  <2>6. Status[tx] = "absent" \/ Status[tx] = "pending" \/ Status[tx] = "confirmed"
    BY DEF Status
  <2>7. Status'[tx] = Status[tx] \/ Status'[tx] = "pending"
    BY <1>7, <1>9, <2>2
  <2> QED BY <2>3, <2>4, <2>5, <2>6, <2>7
<1> QED BY <1>8, <1>9 DEF Heights

(* Every behaviour of the store is, seen through Status, a behaviour of    *)
(* the ledger.                                                             *)
THEOREM ImplementsLedger == Spec => LedgerSpec
<1>1. Init => L!Init
  BY DEF Init, L!Init, Status, Live
<1>2. IInv /\ [Next]_vars => [L!Next]_Status
  <2> SUFFICES ASSUME IInv, [Next]_vars PROVE L!Next \/ UNCHANGED Status
    OBVIOUS
  <2>1. ASSUME NEW tx \in Tx, NEW height \in Heights, Ingest(tx, height)
        PROVE  L!Next \/ UNCHANGED Status
    BY <2>1, LedgerIngest DEF L!Next
  <2>2. ASSUME NEW n \in Heights, processReorg(n) PROVE L!Next
    BY <2>2, LedgerReorg DEF L!Next
  <2>3. CASE PopulateAdrs \/ NewTxStore \/ UNCHANGED vars
    BY <2>3 DEF PopulateAdrs, NewTxStore, vars, Status, Live
  <2> QED BY <2>1, <2>2, <2>3 DEF Next
<1> QED BY IInvInit, IInvNext, <1>1, <1>2, PTL DEF Spec, LedgerSpec, L!Spec

----------------------------------------------------------------------------
(***************************************************************************)
(* markAsDead row by row.  `old' are the tables the caller found, tb those *)
(* of now, stk the stack, D the transactions doomed, kl the ones to kill   *)
(* and td those of them still to be marked.  X are transactions about to   *)
(* be marked in the step at hand.                                          *)
(***************************************************************************)
TableType == [u : [Out -> Heights \cup {None}], s : [Out -> Stxo \cup {None}],
              t : [Tx -> Heights \cup {Dead, None}]]

RowType == [op : Out, stxo : Stxo]
FrameType == [txid : Tx, rows : SUBSET RowType]

Gone(old, tb, o) == old.s[o] # None /\ tb.s[o] = None

OnStack(stk, t) == \E i \in 1..Len(stk) : stk[i].txid = t

(* Nothing of t is left in the tables.                                     *)
Finished(tb, t) ==
    /\ \A o \in Out : Creator[o] = t => tb.s[o] = None /\ tb.u[o] = None
    /\ \A o \in Out : tb.s[o] # None => tb.s[o].spendTxid # t
    /\ tb.t[t] \in {Dead, None}

(* What the caller finds.                                                  *)
OldOK(old, D) ==
    /\ old \in TableType
    /\ \A o \in Out : old.s[o] # None => o \in Spends[old.s[o].spendTxid]
    /\ D \subseteq Tx
    /\ \A o \in Out : old.s[o] # None /\ Creator[o] \in D => old.s[o].spendTxid \in D

(* A row that is gone has its spender marked, or being marked; and an      *)
(* output of a transaction that stays is moved back with its row.          *)
TablesOK(old, tb, stk, D, X) ==
    /\ tb \in TableType
    /\ \A o \in Out : tb.s[o] = old.s[o] \/ tb.s[o] = None
    /\ \A o \in Out : Gone(old, tb, o) =>
          /\ old.s[o].spendTxid \in D
          /\ \/ Finished(tb, old.s[o].spendTxid)
             \/ OnStack(stk, old.s[o].spendTxid)
             \/ old.s[o].spendTxid \in X
    /\ \A t \in Tx : tb.t[t] = old.t[t] \/ (t \in D /\ old.t[t] # None /\ tb.t[t] = Dead)
    /\ \A o \in Out : Creator[o] \notin D =>
          tb.u[o] = IF Gone(old, tb, o) THEN old.s[o].atHeight ELSE old.u[o]

(* Each call on the stack spends from the one below.                       *)
Chained(old, stk) ==
    \A i \in 1..Len(stk) : i > 1 =>
        \E o \in Out : old.s[o] # None /\ Creator[o] = stk[i - 1].txid
                          /\ old.s[o].spendTxid = stk[i].txid

(* The rows left of the snapshots: those a call moves back are still in    *)
(* the table, and it has all that concern it.                              *)
FramesOK(old, tb, stk, D) ==
    /\ stk \in Seq(FrameType)
    /\ \A i \in 1..Len(stk) : stk[i].txid \in D
    /\ \A i \in 1..Len(stk) : \A row \in stk[i].rows :
          /\ old.s[row.op] # None /\ row.stxo = old.s[row.op]
          /\ row.stxo.spendTxid = stk[i].txid => tb.s[row.op] # None
    /\ \A i \in 1..Len(stk) : \A o \in Out :
          tb.s[o] # None /\ (old.s[o].spendTxid = stk[i].txid \/ Creator[o] = stk[i].txid)
              => [op |-> o, stxo |-> old.s[o]] \in stk[i].rows
    /\ Chained(old, stk)

KillOK(tb, stk, D, kl, td, X) ==
    /\ kl \subseteq D /\ td \subseteq kl
    /\ \A t \in kl : t \in td \/ t \in X \/ OnStack(stk, t) \/ Finished(tb, t)

Good(old, tb, stk, D, kl, td, X) ==
    /\ OldOK(old, D)
    /\ TablesOK(old, tb, stk, D, X)
    /\ FramesOK(old, tb, stk, D)
    /\ KillOK(tb, stk, D, kl, td, X)

(* No transaction spends from itself through others, so the running call   *)
(* is of a transaction that no other call is of, and none of them spends   *)
(* from it.                                                                *)
LEMMA NoCycle ==
    ASSUME NEW old, NEW D, OldOK(old, D), NEW stk \in Seq(FrameType), Chained(old, stk),
           stk # <<>>, NEW j \in 1..Len(stk)
    PROVE  /\ j < Len(stk) => stk[j].txid # stk[Len(stk)].txid
           /\ \A o \in Out : old.s[o] # None /\ Creator[o] = stk[Len(stk)].txid
                                => old.s[o].spendTxid # stk[j].txid
<1> DEFINE n == Len(stk)
           C == {stk[i].txid : i \in j..n}
<1>1. n \in Nat /\ j \in Nat /\ 1 <= j /\ j <= n
  OBVIOUS
<1>2. \A i \in 1..n : stk[i].txid \in Tx
  <2>1. \A i \in 1..n : stk[i] \in FrameType
    OBVIOUS
  <2> QED BY <2>1 DEF FrameType
<1>3. C \in SUBSET Tx /\ stk[j].txid \in C /\ stk[n].txid \in C
  BY <1>1, <1>2
<1>4. PICK t \in C : \A o \in Spends[t] : Creator[o] \notin C
  BY <1>3, AncestryAssumption
<1>5. PICK i \in j..n : t = stk[i].txid
  BY <1>4
(* Above the lowest of them each has an input from the one below.          *)
<1>6. ASSUME NEW k \in j..n, k > j PROVE \E o \in Spends[stk[k].txid] : Creator[o] \in C
  <2>1. PICK o \in Out : old.s[o] # None /\ Creator[o] = stk[k - 1].txid
                            /\ old.s[o].spendTxid = stk[k].txid
    BY <1>1, <1>6 DEF Chained
  <2>2. o \in Spends[stk[k].txid]
    BY <2>1 DEF OldOK
  <2>3. k - 1 \in j..n
    BY <1>1, <1>6
  <2> QED BY <2>1, <2>2, <2>3
<1>7. t = stk[j].txid
  BY <1>1, <1>4, <1>5, <1>6
<1>8. j < n => stk[j].txid # stk[n].txid
  BY <1>1, <1>4, <1>6, <1>7
<1>9. ASSUME NEW o \in Out, old.s[o] # None, Creator[o] = stk[n].txid,
             old.s[o].spendTxid = stk[j].txid
      PROVE  FALSE
  BY <1>3, <1>4, <1>7, <1>9 DEF OldOK
<1> QED BY <1>8, <1>9

LEMMA TableOf ==
    ASSUME NEW u \in [Out -> Heights \cup {None}], NEW s \in [Out -> Stxo \cup {None}],
           NEW t \in [Tx -> Heights \cup {Dead, None}]
    PROVE  [u |-> u, s |-> s, t |-> t] \in TableType
  BY DEF TableType

LEMMA FrameRest ==
    ASSUME NEW g \in FrameType, NEW row
    PROVE  [g EXCEPT !.rows = @ \ {row}] = [txid |-> g.txid, rows |-> g.rows \ {row}]
  BY DEF FrameType

(* What the calls on the tables return.                                    *)
LEMMA DeadRowLemma ==
    ASSUME NEW tb \in TableType, NEW row \in RowType
    PROVE  /\ markStxoAsDead(tb, row) \in TableType
           /\ markStxoAsDead(tb, row).u = tb.u
           /\ markStxoAsDead(tb, row).s = [tb.s EXCEPT ![row.op] = None]
           /\ markStxoAsDead(tb, row).t =
                 [t \in Tx |-> IF t = row.stxo.spendTxid /\ tb.t[t] # None THEN Dead ELSE tb.t[t]]
<1> DEFINE d   == row.stxo.spendTxid
           tb1 == DeleteStxo(tb, row.op)
           tb2 == UpdateHeight(tb1, d)
<1>1. d \in Tx /\ row.op \in Out
  BY DEF RowType, Stxo
<1>2. tb1 = [u |-> tb.u, s |-> [tb.s EXCEPT ![row.op] = None], t |-> tb.t]
  BY DEF DeleteStxo, TableType
<1>3. tb1 \in TableType
  BY <1>1, <1>2 DEF TableType
<1>4. tb2 = [u |-> tb1.u, s |-> tb1.s,
             t |-> IF tb1.t[d] = None THEN tb1.t ELSE [tb1.t EXCEPT ![d] = Dead]]
  BY <1>2 DEF UpdateHeight
<1>5. (IF tb.t[d] = None THEN tb.t ELSE [tb.t EXCEPT ![d] = Dead])
         = [t \in Tx |-> IF t = d /\ tb.t[t] # None THEN Dead ELSE tb.t[t]]
  BY <1>1 DEF TableType
<1>6. tb2 \in TableType
  BY <1>1, <1>3, <1>4 DEF TableType
<1> QED BY <1>2, <1>4, <1>5, <1>6 DEF markStxoAsDead

LEMMA PutLemma ==
    ASSUME NEW tb \in TableType, NEW row \in RowType
    PROVE  /\ PutUtxo(tb, row) \in TableType
           /\ PutUtxo(tb, row).u = [tb.u EXCEPT ![row.op] = row.stxo.atHeight]
           /\ PutUtxo(tb, row).s = tb.s
           /\ PutUtxo(tb, row).t = tb.t
<1>1. row.op \in Out /\ row.stxo.atHeight \in Heights
  BY DEF RowType, Stxo
<1>2. PutUtxo(tb, row) = [u |-> [tb.u EXCEPT ![row.op] = row.stxo.atHeight], s |-> tb.s, t |-> tb.t]
  BY DEF PutUtxo, TableType
<1> QED BY <1>1, <1>2 DEF TableType

LEMMA DropLemma ==
    ASSUME NEW tb \in TableType, NEW d \in Tx, NEW r,
           r = UpdateHeight(DeleteUtxos(tb, {o \in Out : Creator[o] = d}), d)
    PROVE  /\ r \in TableType
           /\ r.u = [o \in Out |-> IF Creator[o] = d THEN None ELSE tb.u[o]]
           /\ r.s = tb.s
           /\ r.t = [t \in Tx |-> IF t = d /\ tb.t[t] # None THEN Dead ELSE tb.t[t]]
<1> DEFINE tb1 == DeleteUtxos(tb, {o \in Out : Creator[o] = d})
<1>1. tb1 = [u |-> [o \in Out |-> IF Creator[o] = d THEN None ELSE tb.u[o]], s |-> tb.s, t |-> tb.t]
  <2>1. [o \in Out |-> IF o \in {p \in Out : Creator[p] = d} THEN None ELSE tb.u[o]]
           = [o \in Out |-> IF Creator[o] = d THEN None ELSE tb.u[o]]
    OBVIOUS
  <2> QED BY <2>1 DEF DeleteUtxos, TableType
<1>2. tb1 \in TableType
  <2>1. [o \in Out |-> IF Creator[o] = d THEN None ELSE tb.u[o]] \in [Out -> Heights \cup {None}]
    BY DEF TableType
  <2>2. tb.s \in [Out -> Stxo \cup {None}] /\ tb.t \in [Tx -> Heights \cup {Dead, None}]
    BY DEF TableType
  <2> HIDE DEF tb1
  <2> QED BY <1>1, <2>1, <2>2 DEF TableType
<1>3. r = [u |-> tb1.u, s |-> tb1.s,
           t |-> IF tb1.t[d] = None THEN tb1.t ELSE [tb1.t EXCEPT ![d] = Dead]]
  BY <1>1 DEF UpdateHeight
<1>4. (IF tb.t[d] = None THEN tb.t ELSE [tb.t EXCEPT ![d] = Dead])
         = [t \in Tx |-> IF t = d /\ tb.t[t] # None THEN Dead ELSE tb.t[t]]
  BY DEF TableType
<1>5. r \in TableType
  <2>1. (IF tb1.t[d] = None THEN tb1.t ELSE [tb1.t EXCEPT ![d] = Dead])
           \in [Tx -> Heights \cup {Dead, None}]
    BY <1>2 DEF TableType
  <2>2. tb1.u \in [Out -> Heights \cup {None}] /\ tb1.s \in [Out -> Stxo \cup {None}]
    BY <1>2 DEF TableType
  <2> QED BY <1>3, <2>1, <2>2, TableOf
<1> QED BY <1>1, <1>3, <1>4, <1>5

(* A transaction of which nothing is left stays so, if no output of it is  *)
(* put back.                                                               *)
LEMMA StaysFinished ==
    ASSUME NEW tb, NEW r, NEW t \in Tx, Finished(tb, t),
           \A o \in Out : r.s[o] = tb.s[o] \/ r.s[o] = None,
           \A o \in Out : Creator[o] = t => r.u[o] = tb.u[o] \/ r.u[o] = None,
           r.t[t] = tb.t[t] \/ r.t[t] = Dead
    PROVE  Finished(r, t)
  BY DEF Finished

(* The rows that are left of a call.                                       *)
Without(stk, row) == [stk EXCEPT ![Len(stk)].rows = @ \ {row}]

LEMMA WithoutLemma ==
    ASSUME NEW stk \in Seq(FrameType), stk # <<>>, NEW row
    PROVE  /\ Without(stk, row) \in Seq(FrameType)
           /\ Len(Without(stk, row)) = Len(stk) /\ Len(stk) \in Nat /\ Len(stk) >= 1
           /\ \A i \in 1..Len(stk) :
                 /\ Without(stk, row)[i].txid = stk[i].txid
                 /\ Without(stk, row)[i].rows = IF i = Len(stk) THEN stk[i].rows \ {row}
                                                ELSE stk[i].rows
<1> DEFINE n == Len(stk)
           f == [stk[n] EXCEPT !.rows = @ \ {row}]
<1>1. n \in Nat /\ n >= 1 /\ stk[n] \in FrameType
  OBVIOUS
<1>2. f = [txid |-> stk[n].txid, rows |-> stk[n].rows \ {row}] /\ f \in FrameType
  <2>1. stk[n].txid \in Tx /\ stk[n].rows \in SUBSET RowType
    BY <1>1 DEF FrameType
  <2>2. f = [txid |-> stk[n].txid, rows |-> stk[n].rows \ {row}]
    BY <1>1, FrameRest
  <2>3. stk[n].rows \ {row} \in SUBSET RowType
    BY <2>1
  <2> QED BY <2>1, <2>2, <2>3 DEF FrameType
<1>3. Without(stk, row) = [stk EXCEPT ![n] = f]
  BY <1>1 DEF Without
<1> HIDE DEF f
<1>4. [stk EXCEPT ![n] = f] \in Seq(FrameType) /\ Len([stk EXCEPT ![n] = f]) = n
  BY <1>1, <1>2
<1>5. \A i \in 1..n : [stk EXCEPT ![n] = f][i] = IF i = n THEN f ELSE stk[i]
  BY <1>1
<1> HIDE DEF n
<1>6. \A i \in 1..n :
         /\ Without(stk, row)[i].txid = stk[i].txid
         /\ Without(stk, row)[i].rows = IF i = n THEN stk[i].rows \ {row} ELSE stk[i].rows
  <2>1. f.txid = stk[n].txid /\ f.rows = stk[n].rows \ {row}
    BY <1>2
  <2> QED BY <1>3, <1>5, <2>1
<1> QED BY <1>1, <1>3, <1>4, <1>6 DEF n

(* A round of the loop that takes the row of an output of the running      *)
(* call's transaction, or of an output it spent.                           *)
RowTaken(tb, stk, row, r) ==
    LET top == stk[Len(stk)].txid
        d   == row.stxo.spendTxid
    IN  /\ row \in stk[Len(stk)].rows
        /\ d = top \/ Creator[row.op] = top
        /\ r \in TableType
        /\ \A p \in Out : r.s[p] = IF p = row.op THEN None ELSE tb.s[p]
        /\ \A t \in Tx : r.t[t] = IF t = d /\ tb.t[t] # None THEN Dead ELSE tb.t[t]
        /\ \A p \in Out : r.u[p] = IF p = row.op /\ d = top THEN row.stxo.atHeight ELSE tb.u[p]

(* The output moved back is of a transaction that is not finished: its row *)
(* was still there.                                                        *)
LEMMA RowGone ==
    ASSUME NEW old, NEW tb, NEW stk, NEW D, NEW kl, NEW td, Good(old, tb, stk, D, kl, td, {}),
           stk # <<>>, NEW row, NEW r, RowTaken(tb, stk, row, r)
    PROVE  Good(old, r, Without(stk, row), D, kl, td, {row.stxo.spendTxid})
<1> SUFFICES ASSUME NEW n, n = Len(stk), row \in stk[n].rows,
                    NEW d, d = row.stxo.spendTxid,
                    d = stk[n].txid \/ Creator[row.op] = stk[n].txid,
                    r \in TableType,
                    \A p \in Out : r.s[p] = IF p = row.op THEN None ELSE tb.s[p],
                    \A t \in Tx : r.t[t] = IF t = d /\ tb.t[t] # None THEN Dead ELSE tb.t[t],
                    \A p \in Out : r.u[p] = IF p = row.op /\ d = stk[n].txid
                                            THEN row.stxo.atHeight ELSE tb.u[p]
             PROVE  Good(old, r, Without(stk, row), D, kl, td, {d})
  BY DEF RowTaken
<1> DEFINE o == row.op
           rest == Without(stk, row)
<1>1. /\ OldOK(old, D) /\ TablesOK(old, tb, stk, D, {}) /\ FramesOK(old, tb, stk, D)
      /\ KillOK(tb, stk, D, kl, td, {})
  BY DEF Good
<1>2. stk \in Seq(FrameType)
  BY <1>1 DEF FramesOK
<1>3. /\ rest \in Seq(FrameType) /\ Len(rest) = n /\ n \in Nat /\ n >= 1
      /\ \A i \in 1..n : /\ rest[i].txid = stk[i].txid
                         /\ rest[i].rows = IF i = n THEN stk[i].rows \ {row} ELSE stk[i].rows
  <2>1. /\ Without(stk, row) \in Seq(FrameType)
        /\ Len(Without(stk, row)) = Len(stk) /\ Len(stk) \in Nat /\ Len(stk) >= 1
        /\ \A i \in 1..Len(stk) :
              /\ Without(stk, row)[i].txid = stk[i].txid
              /\ Without(stk, row)[i].rows = IF i = Len(stk) THEN stk[i].rows \ {row}
                                             ELSE stk[i].rows
    BY ONLY <1>2, stk # <<>>, WithoutLemma
  <2> QED BY <2>1
<1> HIDE DEF rest
<1>4. \A i \in 1..n : stk[i] \in FrameType /\ stk[i].txid \in Tx /\ stk[i].rows \subseteq RowType
  <2>1. \A i \in 1..n : stk[i] \in FrameType
    BY <1>2
  <2> QED BY <2>1 DEF FrameType
<1>5. row \in RowType /\ o \in Out /\ d \in Tx /\ row.stxo \in Stxo
  BY <1>3, <1>4 DEF RowType, Stxo
<1>6. /\ old.s[o] # None /\ row.stxo = old.s[o] /\ stk[n].txid \in D /\ d = old.s[o].spendTxid
      /\ d = stk[n].txid => tb.s[o] # None
  BY <1>1, <1>3 DEF FramesOK
<1>7. d \in D
  BY <1>1, <1>5, <1>6 DEF OldOK
<1>8. /\ \A p \in Out : r.s[p] = IF p = o THEN None ELSE tb.s[p]
      /\ \A p \in Out : p # o \/ d # stk[n].txid => r.u[p] = tb.u[p]
      /\ d = stk[n].txid => r.u[o] = old.s[o].atHeight
  BY <1>5, <1>6
<1>9. \A t \in Tx : r.t[t] = tb.t[t] \/ (t = d /\ tb.t[t] # None /\ r.t[t] = Dead)
  OBVIOUS
<1> HIDE DEF o
<1>10. \A t \in Tx : Finished(tb, t) => Finished(r, t)
  <2> SUFFICES ASSUME NEW t \in Tx, Finished(tb, t) PROVE Finished(r, t)
    OBVIOUS
  <2>1. d = stk[n].txid => Creator[o] # t
    BY <1>5, <1>6 DEF Finished
  <2>2. \A p \in Out : r.s[p] = tb.s[p] \/ r.s[p] = None
    BY <1>8
  <2>3. \A p \in Out : Creator[p] = t => r.u[p] = tb.u[p] \/ r.u[p] = None
    BY <1>8, <2>1
  <2>4. r.t[t] = tb.t[t] \/ r.t[t] = Dead
    BY <1>9
  <2> QED BY <2>2, <2>3, <2>4, StaysFinished
<1>11. \A t : OnStack(stk, t) <=> OnStack(rest, t)
  BY <1>3 DEF OnStack
<1>12. TablesOK(old, r, rest, D, {d})
  <2>1. \A p \in Out : r.s[p] = old.s[p] \/ r.s[p] = None
    BY <1>1, <1>8 DEF TablesOK
  <2>2. \A p \in Out : Gone(old, r, p) <=> Gone(old, tb, p) \/ p = o
    BY <1>5, <1>6, <1>8 DEF Gone
  <2>3. ASSUME NEW p \in Out, Gone(old, r, p)
        PROVE  /\ old.s[p].spendTxid \in D
               /\ \/ Finished(r, old.s[p].spendTxid)
                  \/ OnStack(rest, old.s[p].spendTxid)
                  \/ old.s[p].spendTxid \in {d}
    <3>1. CASE p = o
      BY <3>1, <1>6, <1>7
    <3>2. CASE Gone(old, tb, p)
      <4>1. old.s[p].spendTxid \in D /\ D \subseteq Tx
        BY <1>1, <3>2 DEF TablesOK, OldOK
      <4>2. Finished(tb, old.s[p].spendTxid) \/ OnStack(stk, old.s[p].spendTxid)
        BY <1>1, <3>2 DEF TablesOK
      <4> QED BY <4>1, <4>2, <1>10, <1>11
    <3> QED BY <2>2, <2>3, <3>1, <3>2
  <2>4. \A t \in Tx : r.t[t] = old.t[t] \/ (t \in D /\ old.t[t] # None /\ r.t[t] = Dead)
    <3>1. \A t \in Tx : tb.t[t] = old.t[t] \/ (t \in D /\ old.t[t] # None /\ tb.t[t] = Dead)
      BY <1>1 DEF TablesOK
    <3> QED BY <3>1, <1>7, <1>9
  <2>5. ASSUME NEW p \in Out, Creator[p] \notin D
        PROVE  r.u[p] = IF Gone(old, r, p) THEN old.s[p].atHeight ELSE old.u[p]
    <3>1. CASE p = o
      BY <2>2, <2>5, <3>1, <1>6, <1>8 DEF o
    <3>2. CASE p # o
      BY <2>2, <2>5, <3>2, <1>1, <1>8 DEF TablesOK
    <3> QED BY <3>1, <3>2
  <2> QED BY <2>1, <2>3, <2>4, <2>5 DEF TablesOK
<1>13. FramesOK(old, r, rest, D)
  <2>1. \A i \in 1..n : rest[i].txid \in D
    BY <1>1, <1>3 DEF FramesOK
  <2>2. ASSUME NEW i \in 1..n, NEW q \in rest[i].rows
        PROVE  /\ old.s[q.op] # None /\ q.stxo = old.s[q.op]
               /\ q.stxo.spendTxid = rest[i].txid => r.s[q.op] # None
    <3>1. q \in stk[i].rows /\ rest[i].txid = stk[i].txid /\ q \in RowType
      BY <1>3, <1>4
    <3>2. /\ old.s[q.op] # None /\ q.stxo = old.s[q.op]
          /\ q.stxo.spendTxid = stk[i].txid => tb.s[q.op] # None
      BY <1>1, <3>1 DEF FramesOK
    <3>3. ASSUME q.stxo.spendTxid = stk[i].txid, q.op = o PROVE FALSE
      <4>1. q = row
        BY <1>5, <1>6, <3>1, <3>2, <3>3 DEF RowType, o
      <4>2. i # n
        BY <1>3, <4>1
      <4>3. i < n
        BY <1>3, <4>2
      <4>4. Chained(old, stk)
        BY <1>1 DEF FramesOK
      <4>5. /\ stk[i].txid # stk[n].txid
            /\ \A p \in Out : old.s[p] # None /\ Creator[p] = stk[n].txid
                                 => old.s[p].spendTxid # stk[i].txid
        BY <1>1, <1>2, <4>3, <4>4, NoCycle
      <4> QED BY <4>1, <4>5, <3>3, <1>5, <1>6 DEF o
    <3>4. q.op \in Out
      BY <3>1 DEF RowType
    <3> QED BY <3>1, <3>2, <3>3, <3>4, <1>8
  <2>3. ASSUME NEW i \in 1..n, NEW p \in Out, r.s[p] # None,
               old.s[p].spendTxid = rest[i].txid \/ Creator[p] = rest[i].txid
        PROVE  [op |-> p, stxo |-> old.s[p]] \in rest[i].rows
    <3>1. tb.s[p] # None /\ p # o
      BY <1>8, <2>3
    <3>2. [op |-> p, stxo |-> old.s[p]] \in stk[i].rows
      BY <1>1, <1>3, <2>3, <3>1 DEF FramesOK
    <3>3. [op |-> p, stxo |-> old.s[p]] # row
      BY <3>1 DEF o
    <3> QED BY <1>3, <3>2, <3>3
  <2>4. Chained(old, rest)
    <3>1. Chained(old, stk)
      BY <1>1 DEF FramesOK
    <3>2. ASSUME NEW i \in 1..n, i > 1
          PROVE  \E p \in Out : old.s[p] # None /\ Creator[p] = rest[i - 1].txid
                                   /\ old.s[p].spendTxid = rest[i].txid
      <4>1. i - 1 \in 1..n
        BY <1>3, <3>2
      <4>2. rest[i].txid = stk[i].txid /\ rest[i - 1].txid = stk[i - 1].txid
        BY <1>3, <4>1
      <4> QED BY <3>1, <3>2, <4>2 DEF Chained
    <3> QED BY <1>3, <3>2 DEF Chained
  <2> QED BY <1>3, <2>1, <2>2, <2>3, <2>4 DEF FramesOK
<1>14. KillOK(r, rest, D, kl, td, {d})
  <2> SUFFICES ASSUME NEW t \in kl
               PROVE  t \in td \/ t \in {d} \/ OnStack(rest, t) \/ Finished(r, t)
    BY <1>1 DEF KillOK
  <2>1. t \in td \/ OnStack(stk, t) \/ Finished(tb, t)
    BY <1>1 DEF KillOK
  <2>2. kl \subseteq Tx
    BY <1>1 DEF OldOK, KillOK
  <2> QED BY <2>1, <2>2, <1>10, <1>11
<1> QED BY <1>1, <1>12, <1>13, <1>14 DEF Good, rest

(* A row that does not concern the running call.                           *)
LEMMA RowPassed ==
    ASSUME NEW old, NEW tb, NEW stk, NEW D, NEW kl, NEW td, Good(old, tb, stk, D, kl, td, {}),
           stk # <<>>, NEW n, n = Len(stk), NEW row \in stk[n].rows,
           row.stxo.spendTxid # stk[n].txid, Creator[row.op] # stk[n].txid
    PROVE  Good(old, tb, Without(stk, row), D, kl, td, {})
<1> DEFINE rest == Without(stk, row)
<1>1. /\ OldOK(old, D) /\ TablesOK(old, tb, stk, D, {}) /\ FramesOK(old, tb, stk, D)
      /\ KillOK(tb, stk, D, kl, td, {})
  BY DEF Good
<1>2. stk \in Seq(FrameType)
  BY <1>1 DEF FramesOK
<1>3. /\ rest \in Seq(FrameType) /\ Len(rest) = n /\ n \in Nat /\ n >= 1
      /\ \A i \in 1..n : /\ rest[i].txid = stk[i].txid
                         /\ rest[i].rows = IF i = n THEN stk[i].rows \ {row} ELSE stk[i].rows
  <2>1. /\ Without(stk, row) \in Seq(FrameType)
        /\ Len(Without(stk, row)) = Len(stk) /\ Len(stk) \in Nat /\ Len(stk) >= 1
        /\ \A i \in 1..Len(stk) :
              /\ Without(stk, row)[i].txid = stk[i].txid
              /\ Without(stk, row)[i].rows = IF i = Len(stk) THEN stk[i].rows \ {row}
                                             ELSE stk[i].rows
    BY ONLY <1>2, stk # <<>>, WithoutLemma
  <2> QED BY <2>1
<1> HIDE DEF rest
<1>4. \A t : OnStack(stk, t) <=> OnStack(rest, t)
  BY <1>3 DEF OnStack
<1>5. TablesOK(old, tb, rest, D, {}) /\ KillOK(tb, rest, D, kl, td, {})
  BY <1>1, <1>4 DEF TablesOK, KillOK
<1>6. FramesOK(old, tb, rest, D)
  <2>1. \A i \in 1..n : rest[i].txid \in D
    BY <1>1, <1>3 DEF FramesOK
  <2>2. ASSUME NEW i \in 1..n, NEW q \in rest[i].rows
        PROVE  /\ old.s[q.op] # None /\ q.stxo = old.s[q.op]
               /\ q.stxo.spendTxid = rest[i].txid => tb.s[q.op] # None
    <3>1. q \in stk[i].rows /\ rest[i].txid = stk[i].txid
      BY <1>3
    <3> QED BY <1>1, <3>1 DEF FramesOK
  <2>3. ASSUME NEW i \in 1..n, NEW p \in Out, tb.s[p] # None,
               old.s[p].spendTxid = rest[i].txid \/ Creator[p] = rest[i].txid
        PROVE  [op |-> p, stxo |-> old.s[p]] \in rest[i].rows
    <3>1. [op |-> p, stxo |-> old.s[p]] \in stk[i].rows
      BY <1>1, <1>3, <2>3 DEF FramesOK
    <3>2. i = n => [op |-> p, stxo |-> old.s[p]] # row
      <4>1. rest[i].txid = stk[i].txid
        BY <1>3
      <4>2. [op |-> p, stxo |-> old.s[p]] = row => row.op = p /\ row.stxo = old.s[p]
        OBVIOUS
      <4> QED BY <2>3, <4>1, <4>2
    <3> QED BY <1>3, <3>1, <3>2
  <2>4. Chained(old, rest)
    <3>1. Chained(old, stk)
      BY <1>1 DEF FramesOK
    <3>2. ASSUME NEW i \in 1..n, i > 1
          PROVE  \E p \in Out : old.s[p] # None /\ Creator[p] = rest[i - 1].txid
                                   /\ old.s[p].spendTxid = rest[i].txid
      <4>1. i - 1 \in 1..n
        BY <1>3, <3>2
      <4>2. rest[i].txid = stk[i].txid /\ rest[i - 1].txid = stk[i - 1].txid
        BY <1>3, <4>1
      <4> QED BY <3>1, <3>2, <4>2 DEF Chained
    <3> QED BY <1>3, <3>2 DEF Chained
  <2> QED BY <1>3, <2>1, <2>2, <2>3, <2>4 DEF FramesOK
<1> QED BY <1>1, <1>5, <1>6 DEF Good, rest

(* A call of markAsDead, by the caller or by itself.                       *)
LEMMA CallStarts ==
    ASSUME NEW old, NEW tb, NEW stk, NEW D, NEW kl, NEW td, NEW d \in D,
           Good(old, tb, stk, D, kl, td, {d}),
           stk # <<>> => \E o \in Out : old.s[o] # None /\ Creator[o] = stk[Len(stk)].txid
                                           /\ old.s[o].spendTxid = d
    PROVE  Good(old, tb, Append(stk, Frame(d, tb)), D, kl, td, {})
<1> DEFINE n == Len(stk)
           f == Frame(d, tb)
           up == Append(stk, f)
<1>1. /\ OldOK(old, D) /\ TablesOK(old, tb, stk, D, {d}) /\ FramesOK(old, tb, stk, D)
      /\ KillOK(tb, stk, D, kl, td, {d})
  BY DEF Good
<1>2. stk \in Seq(FrameType) /\ n \in Nat /\ d \in Tx
  BY <1>1 DEF FramesOK, OldOK
<1>3. /\ tb.s \in [Out -> Stxo \cup {None}]
      /\ \A o \in Out : tb.s[o] # None => tb.s[o] = old.s[o] /\ old.s[o] # None
  BY <1>1 DEF TablesOK, TableType
<1>4. f.txid = d /\ f.rows = Snapshot(d, tb) /\ f \in FrameType
  <2>1. ASSUME NEW row \in Snapshot(d, tb) PROVE row \in RowType
    BY <1>3 DEF Snapshot, RowType
  <2> QED BY <1>2, <2>1 DEF Frame, FrameType
<1>5. /\ \A row \in f.rows : /\ old.s[row.op] # None /\ row.stxo = old.s[row.op]
                             /\ tb.s[row.op] # None
      /\ \A o \in Out : tb.s[o] # None /\ (old.s[o].spendTxid = d \/ Creator[o] = d)
                           => [op |-> o, stxo |-> old.s[o]] \in f.rows
  BY <1>3, <1>4 DEF Snapshot
<1> HIDE DEF f
<1>6. /\ up \in Seq(FrameType) /\ Len(up) = n + 1
      /\ \A i \in 1..(n + 1) : up[i] = IF i = n + 1 THEN f ELSE stk[i]
  BY <1>2, <1>4
<1> HIDE DEF up, n
<1>7. \A t : OnStack(up, t) <=> OnStack(stk, t) \/ t = d
  BY <1>2, <1>4, <1>6 DEF OnStack, n
<1>8. TablesOK(old, tb, up, D, {}) /\ KillOK(tb, up, D, kl, td, {})
  BY <1>1, <1>7 DEF TablesOK, KillOK
<1>9. FramesOK(old, tb, up, D)
  <2>1. ASSUME NEW i \in 1..(n + 1)
        PROVE  /\ up[i].txid \in D
               /\ \A row \in up[i].rows :
                     /\ old.s[row.op] # None /\ row.stxo = old.s[row.op]
                     /\ row.stxo.spendTxid = up[i].txid => tb.s[row.op] # None
               /\ \A o \in Out :
                     tb.s[o] # None /\ (old.s[o].spendTxid = up[i].txid \/ Creator[o] = up[i].txid)
                        => [op |-> o, stxo |-> old.s[o]] \in up[i].rows
    <3>1. CASE i = n + 1
      BY <1>4, <1>5, <1>6, <3>1
    <3>2. CASE i \in 1..n
      <4>1. up[i] = stk[i]
        BY <1>2, <1>6, <3>2
      <4> QED BY <1>1, <3>2, <4>1 DEF FramesOK, n
    <3> QED BY <1>2, <3>1, <3>2
  <2>2. Chained(old, up)
    <3> SUFFICES ASSUME NEW i \in 1..(n + 1), i > 1
                 PROVE  \E o \in Out : old.s[o] # None /\ Creator[o] = up[i - 1].txid
                                          /\ old.s[o].spendTxid = up[i].txid
      BY <1>6 DEF Chained
    <3>1. i - 1 \in 1..n /\ up[i - 1] = stk[i - 1]
      BY <1>2, <1>6
    <3>2. CASE i = n + 1
      <4>1. up[i].txid = d /\ i - 1 = n /\ stk # <<>>
        BY <1>2, <1>4, <1>6, <3>1, <3>2 DEF n
      <4> QED BY <3>1, <4>1 DEF n
    <3>3. CASE i \in 1..n
      <4>1. up[i] = stk[i] /\ Chained(old, stk)
        BY <1>1, <1>2, <1>6, <3>3 DEF FramesOK
      <4> QED BY <3>1, <3>3, <4>1 DEF Chained, n
    <3> QED BY <1>2, <3>2, <3>3
  <2> QED BY <1>6, <2>1, <2>2 DEF FramesOK
<1> QED BY <1>1, <1>8, <1>9 DEF Good, up, f

LEMMA PrefixLemma ==
    ASSUME NEW S, NEW q \in Seq(S), NEW m \in 0..Len(q)
    PROVE  /\ SubSeq(q, 1, m) \in Seq(S) /\ Len(SubSeq(q, 1, m)) = m
           /\ \A i \in 1..m : SubSeq(q, 1, m)[i] = q[i]
  OBVIOUS

(* A call returns: its transaction is finished.                            *)
LEMMA CallEnds ==
    ASSUME NEW old, NEW tb, NEW stk, NEW D, NEW kl, NEW td, Good(old, tb, stk, D, kl, td, {}),
           stk # <<>>, NEW d, d = stk[Len(stk)].txid, stk[Len(stk)].rows = {},
           NEW r \in TableType,
           \A o \in Out : r.u[o] = IF Creator[o] = d THEN None ELSE tb.u[o],
           r.s = tb.s,
           \A t \in Tx : r.t[t] = IF t = d /\ tb.t[t] # None THEN Dead ELSE tb.t[t]
    PROVE  Good(old, r, SubSeq(stk, 1, Len(stk) - 1), D, kl, td, {})
<1> DEFINE n == Len(stk)
           down == SubSeq(stk, 1, n - 1)
<1>1. /\ OldOK(old, D) /\ TablesOK(old, tb, stk, D, {}) /\ FramesOK(old, tb, stk, D)
      /\ KillOK(tb, stk, D, kl, td, {})
  BY DEF Good
<1>2. stk \in Seq(FrameType) /\ n \in Nat /\ n >= 1 /\ n - 1 \in Nat
  BY <1>1 DEF FramesOK
<1>3. down \in Seq(FrameType) /\ Len(down) = n - 1 /\ \A i \in 1..(n - 1) : down[i] = stk[i]
  <2>1. n - 1 \in 0..Len(stk)
    BY <1>2
  <2> QED BY ONLY <1>2, <2>1, PrefixLemma
<1> HIDE DEF down
<1>4. d \in D /\ d \in Tx
  BY <1>1, <1>2 DEF FramesOK, OldOK
<1>5. Finished(r, d)
  <2>1. \A o \in Out : tb.s[o] # None => tb.s[o].spendTxid # d /\ Creator[o] # d
    <3>1. \A o \in Out : tb.s[o] # None =>
             ~(old.s[o].spendTxid = stk[n].txid \/ Creator[o] = stk[n].txid)
      <4>1. n \in 1..Len(stk)
        BY <1>2
      <4>2. \A o \in Out : tb.s[o] # None
               /\ (old.s[o].spendTxid = stk[n].txid \/ Creator[o] = stk[n].txid)
                  => [op |-> o, stxo |-> old.s[o]] \in stk[n].rows
        BY <1>1, <4>1 DEF FramesOK
      <4> QED BY <4>2
    <3>2. \A o \in Out : tb.s[o] # None => tb.s[o] = old.s[o]
      BY <1>1 DEF TablesOK
    <3> QED BY <3>1, <3>2
  <2>2. \A o \in Out : Creator[o] = d => r.u[o] = None
    OBVIOUS
  <2>3. r.t[d] \in {Dead, None}
    BY <1>4
  <2> QED BY <2>1, <2>2, <2>3 DEF Finished
<1>6. \A t \in Tx : Finished(tb, t) => Finished(r, t)
  <2> SUFFICES ASSUME NEW t \in Tx, Finished(tb, t) PROVE Finished(r, t)
    OBVIOUS
  <2>1. \A o \in Out : r.s[o] = tb.s[o] \/ r.s[o] = None
    OBVIOUS
  <2>2. \A o \in Out : Creator[o] = t => r.u[o] = tb.u[o] \/ r.u[o] = None
    OBVIOUS
  <2>3. r.t[t] = tb.t[t] \/ r.t[t] = Dead
    OBVIOUS
  <2> QED BY <2>1, <2>2, <2>3, StaysFinished
<1>7. \A t : OnStack(stk, t) => OnStack(down, t) \/ t = d
  BY <1>2, <1>3 DEF OnStack
<1>8. \A t \in Tx : Finished(tb, t) \/ OnStack(stk, t) => Finished(r, t) \/ OnStack(down, t)
  BY <1>5, <1>6, <1>7
<1>9. TablesOK(old, r, down, D, {})
  <2>1. \A o \in Out : Gone(old, r, o) <=> Gone(old, tb, o)
    BY DEF Gone
  <2>2. \A o \in Out : r.s[o] = old.s[o] \/ r.s[o] = None
    BY <1>1 DEF TablesOK
  <2>3. \A o \in Out : Gone(old, r, o) =>
           /\ old.s[o].spendTxid \in D
           /\ Finished(r, old.s[o].spendTxid) \/ OnStack(down, old.s[o].spendTxid)
    <3>1. \A o \in Out : Gone(old, tb, o) =>
             /\ old.s[o].spendTxid \in D /\ old.s[o].spendTxid \in Tx
             /\ Finished(tb, old.s[o].spendTxid) \/ OnStack(stk, old.s[o].spendTxid)
      BY <1>1 DEF TablesOK, OldOK
    <3> QED BY <1>8, <2>1, <3>1
  <2>4. \A t \in Tx : r.t[t] = old.t[t] \/ (t \in D /\ old.t[t] # None /\ r.t[t] = Dead)
    <3>1. \A t \in Tx : tb.t[t] = old.t[t] \/ (t \in D /\ old.t[t] # None /\ tb.t[t] = Dead)
      BY <1>1 DEF TablesOK
    <3>2. \A t \in Tx : r.t[t] = tb.t[t] \/ (t = d /\ tb.t[t] # None /\ r.t[t] = Dead)
      OBVIOUS
    <3> QED BY <1>4, <3>1, <3>2
  <2>5. \A o \in Out : Creator[o] \notin D =>
           r.u[o] = IF Gone(old, r, o) THEN old.s[o].atHeight ELSE old.u[o]
    <3>1. \A o \in Out : Creator[o] \notin D =>
             tb.u[o] = IF Gone(old, tb, o) THEN old.s[o].atHeight ELSE old.u[o]
      BY <1>1 DEF TablesOK
    <3>2. \A o \in Out : Creator[o] \notin D => r.u[o] = tb.u[o]
      BY <1>4
    <3> QED BY <2>1, <3>1, <3>2
  <2> QED BY <2>2, <2>3, <2>4, <2>5 DEF TablesOK
<1>10. FramesOK(old, r, down, D)
  <2>1. \A i \in 1..(n - 1) : i \in 1..n
    BY <1>2
  <2>2. \A i \in 1..(n - 1) :
           /\ down[i].txid \in D
           /\ \A row \in down[i].rows :
                 /\ old.s[row.op] # None /\ row.stxo = old.s[row.op]
                 /\ row.stxo.spendTxid = down[i].txid => r.s[row.op] # None
           /\ \A o \in Out :
                 r.s[o] # None /\ (old.s[o].spendTxid = down[i].txid \/ Creator[o] = down[i].txid)
                    => [op |-> o, stxo |-> old.s[o]] \in down[i].rows
    BY <1>1, <1>3, <2>1 DEF FramesOK
  <2>3. Chained(old, down)
    <3> SUFFICES ASSUME NEW i \in 1..(n - 1), i > 1
                 PROVE  \E o \in Out : old.s[o] # None /\ Creator[o] = down[i - 1].txid
                                          /\ old.s[o].spendTxid = down[i].txid
      BY <1>3 DEF Chained
    <3>1. i - 1 \in 1..(n - 1) /\ i \in 1..n
      BY <1>2
    <3>2. Chained(old, stk)
      BY <1>1 DEF FramesOK
    <3> QED BY <1>3, <3>1, <3>2 DEF Chained
  <2> QED BY <1>3, <2>2, <2>3 DEF FramesOK
<1>11. KillOK(r, down, D, kl, td, {})
  <2>1. kl \subseteq Tx
    BY <1>1 DEF KillOK, OldOK
  <2> QED BY <1>1, <1>8, <2>1 DEF KillOK
<1> QED BY <1>1, <1>9, <1>10, <1>11 DEF Good, down

(* The caller begins with the tables as they are.                          *)
LEMMA MarksBegin ==
    ASSUME IInv, NEW kl \in SUBSET Tx
    PROVE  Good(Tables, Tables, <<>>, Doomed(kl), kl, kl, {})
<1> DEFINE D == Doomed(kl)
<1>1. Tables.u = utxos /\ Tables.s = stxos /\ Tables.t = txns
  BY DEF Tables
<1>2. Tables \in TableType
  <2>1. /\ utxos \in [Out -> Heights \cup {None}] /\ stxos \in [Out -> Stxo \cup {None}]
        /\ txns \in [Tx -> Heights \cup {Dead, None}]
    BY DEF IInv, TypeOK
  <2> QED BY <2>1, TableOf DEF Tables
<1>3. kl \subseteq D /\ D \subseteq Tx
  BY DoomedLemma
<1>4. ASSUME NEW o \in Out, stxos[o] # None, Creator[o] \in D
      PROVE  stxos[o].spendTxid \in D
  <2>1. stxos[o].spendTxid \in Tx
    BY <1>4 DEF IInv, TypeOK, Stxo
  <2>2. ASSUME NEW C \in SUBSET Tx, kl \subseteq C, Spenders(C) \subseteq C
        PROVE  stxos[o].spendTxid \in C
    <3>1. Creator[o] \in C
      BY <1>4, <2>2 DEF Doomed
    <3> QED BY <1>4, <2>2, <3>1 DEF Spenders
  <2> QED BY <2>1, <2>2 DEF Doomed
<1> HIDE DEF D
<1>5. OldOK(Tables, D)
  BY <1>1, <1>2, <1>3, <1>4 DEF OldOK, IInv, SpendsRow
<1>6. TablesOK(Tables, Tables, <<>>, D, {})
  BY <1>2 DEF TablesOK, Gone
<1>7. FramesOK(Tables, Tables, <<>>, D)
  BY DEF FramesOK, Chained
<1>8. KillOK(Tables, <<>>, D, kl, kl, {})
  BY <1>3 DEF KillOK
<1> QED BY <1>5, <1>6, <1>7, <1>8 DEF Good, D

(* When all are marked, those finished hold the killed ones and the        *)
(* spenders of their outputs, and so all that are doomed.                  *)
LEMMA MarksEnd ==
    ASSUME IInv, NEW kl \in SUBSET Tx, NEW tb, Good(Tables, tb, <<>>, Doomed(kl), kl, {}, {})
    PROVE  /\ tb.u = UtxosWithout(Doomed(kl)) /\ tb.s = StxosWithout(Doomed(kl))
           /\ tb.t = TxnsWithout(Doomed(kl))
           /\ tb = [u |-> tb.u, s |-> tb.s, t |-> tb.t]
<1> DEFINE D == Doomed(kl)
           C == {t \in Tx : Finished(tb, t)}
<1>1. Tables.u = utxos /\ Tables.s = stxos /\ Tables.t = txns
  BY DEF Tables
<1>2. OldOK(Tables, D) /\ TablesOK(Tables, tb, <<>>, D, {}) /\ KillOK(tb, <<>>, D, kl, {}, {})
  BY DEF Good
<1>3. ~ \E t : OnStack(<<>>, t)
  BY DEF OnStack
<1>4. kl \subseteq C
  BY <1>2, <1>3 DEF KillOK
<1>5. \A o \in Out : Gone(Tables, tb, o) =>
         stxos[o].spendTxid \in D /\ Finished(tb, stxos[o].spendTxid)
  BY <1>1, <1>2, <1>3 DEF TablesOK
<1>6. Spenders(C) \subseteq C
  <2> SUFFICES ASSUME NEW o \in Out, stxos[o] # None, Creator[o] \in C
               PROVE  stxos[o].spendTxid \in C
    BY DEF Spenders
  <2>1. Gone(Tables, tb, o)
    BY <1>1 DEF Gone, Finished
  <2>2. stxos[o].spendTxid \in Tx
    BY DEF IInv, TypeOK, Stxo
  <2> QED BY <1>5, <2>1, <2>2
<1>7. D \subseteq C
  BY <1>4, <1>6 DEF Doomed
<1> HIDE DEF D
<1>8. \A o \in Out : tb.s[o] = stxos[o] \/ tb.s[o] = None
  BY <1>1, <1>2 DEF TablesOK
<1>9. \A o \in Out : Gone(Tables, tb, o) <=> SpentBy(o, D)
  <2> SUFFICES ASSUME NEW o \in Out PROVE Gone(Tables, tb, o) <=> SpentBy(o, D)
    OBVIOUS
  <2>1. Gone(Tables, tb, o) => SpentBy(o, D)
    BY <1>1, <1>5 DEF Gone, SpentBy
  <2>2. ASSUME SpentBy(o, D), tb.s[o] # None PROVE FALSE
    <3>1. Finished(tb, stxos[o].spendTxid)
      BY <1>7, <2>2 DEF SpentBy
    <3> QED BY <1>8, <2>2, <3>1 DEF Finished
  <2> QED BY <1>1, <2>1, <2>2 DEF Gone, SpentBy
<1>10. \A o \in Out : Creator[o] \in D => tb.s[o] = None /\ tb.u[o] = None
  BY <1>7 DEF Finished
<1>11. tb \in TableType
  BY <1>2 DEF TablesOK
<1>12. /\ tb.u \in [Out -> Heights \cup {None}] /\ tb.s \in [Out -> Stxo \cup {None}]
       /\ tb.t \in [Tx -> Heights \cup {Dead, None}]
       /\ tb = [u |-> tb.u, s |-> tb.s, t |-> tb.t]
  BY <1>11 DEF TableType
<1>13. tb.s = StxosWithout(D)
  <2>1. \A o \in Out : tb.s[o] = IF Creator[o] \in D \/ SpentBy(o, D) THEN None ELSE stxos[o]
    BY <1>1, <1>8, <1>9, <1>10 DEF Gone
  <2> QED BY <1>12, <2>1 DEF StxosWithout
<1>14. tb.u = UtxosWithout(D)
  <2>1. \A o \in Out : Creator[o] \notin D =>
           tb.u[o] = IF Gone(Tables, tb, o) THEN stxos[o].atHeight ELSE utxos[o]
    BY <1>1, <1>2 DEF TablesOK
  <2>2. \A o \in Out : tb.u[o] = IF Creator[o] \in D THEN None
                                 ELSE IF SpentBy(o, D) THEN stxos[o].atHeight ELSE utxos[o]
    BY <1>9, <1>10, <2>1
  <2> QED BY <1>12, <2>2 DEF UtxosWithout
<1>15. tb.t = TxnsWithout(D)
  <2>1. \A t \in Tx : tb.t[t] = txns[t] \/ (t \in D /\ txns[t] # None /\ tb.t[t] = Dead)
    BY <1>1, <1>2 DEF TablesOK
  <2>2. \A t \in Tx : t \in D => tb.t[t] \in {Dead, None}
    BY <1>7 DEF Finished
  <2>3. \A t \in Tx : tb.t[t] = IF t \in D /\ txns[t] # None THEN Dead ELSE txns[t]
    BY <2>1, <2>2
  <2> QED BY <1>12, <2>3 DEF TxnsWithout
<1> QED BY <1>12, <1>13, <1>14, <1>15 DEF D

(* The store with the recursion: its invariant holds for the tables the    *)
(* variables of TxStore keep, the caller's guards still hold, and the      *)
(* recursion is where it should be.                                        *)
CallOK ==
    \/ call \in [by : {"processReorg"}, height : Heights]
    \/ /\ call \in [by : {"Ingest"}, tx : Tx, height : Heights]
       /\ ~Processed(call.tx, call.height)
       /\ FirstSeenRule(CheckDoubleSpends(call.tx), call.height)

MarkInv ==
    /\ IInv
    /\ call = NoCall => stack = <<>> /\ todo = {}
    /\ call # NoCall => CallOK /\ Good(Tables, tables, stack, Doomed(Killed), Killed, todo, {})

LEMMA KilledLemma == Killed \in SUBSET Tx
  BY DEF Killed, Reorged, CheckDoubleSpends

LEMMA BeginStep ==
    ASSUME MarkInv, NEW c, NEW kl \in SUBSET Tx, Begin(c, kl), CallOK', Killed' = kl
    PROVE  MarkInv' /\ UNCHANGED vars
<1>1. UNCHANGED vars /\ call = NoCall /\ call' = c /\ todo' = kl /\ tables' = Tables /\ stack' = stack
  BY DEF Begin
<1>2. IInv' /\ Tables' = Tables
  BY <1>1 DEF MarkInv, IInv, vars, Tables, TypeOK, NoDoubleSpend, NoDeadRows, SpendsRow, RowKept, Live
<1>3. Good(Tables, Tables, <<>>, Doomed(kl), kl, kl, {})
  BY MarksBegin DEF MarkInv
<1>4. stack = <<>>
  BY <1>1 DEF MarkInv
<1>5. Doomed(Killed)' = Doomed(kl)
  BY <1>1 DEF Doomed, Spenders, vars
<1>6. call' # NoCall
  BY DEF CallOK, NoCall
<1> QED BY <1>1, <1>2, <1>3, <1>4, <1>5, <1>6 DEF MarkInv

LEMMA MarkStep ==
    ASSUME MarkInv, call # NoCall, UNCHANGED <<vars, call>>,
           Good(Tables, tables', stack', Doomed(Killed), Killed, todo', {})
    PROVE  MarkInv'
<1>1. IInv' /\ Tables' = Tables
  BY DEF MarkInv, IInv, vars, Tables, TypeOK, NoDoubleSpend, NoDeadRows, SpendsRow, RowKept, Live
<1>2. Killed' = Killed
  BY DEF Killed, CheckDoubleSpends, Reorged, Live, vars
<1>3. Doomed(Killed)' = Doomed(Killed)
  BY <1>2 DEF Doomed, Spenders, vars
<1>4. CallOK'
  BY DEF MarkInv, CallOK, Processed, FirstSeenRule, CheckDoubleSpends, Live, vars
<1> QED BY <1>1, <1>2, <1>3, <1>4 DEF MarkInv

(* One round of the loop.                                                  *)
LEMMA RowStep ==
    ASSUME MarkInv, HandleRow
    PROVE  MarkInv' /\ UNCHANGED vars
<1> DEFINE n == Len(stack)
           D == Doomed(Killed)
<1>1. stack # <<>> /\ call # NoCall /\ UNCHANGED <<vars, call, todo>>
  BY DEF HandleRow, MarkInv
<1>2. Good(Tables, tables, stack, D, Killed, todo, {})
  BY <1>1 DEF MarkInv
<1>3. stack \in Seq(FrameType) /\ tables \in TableType /\ OldOK(Tables, D)
  BY <1>2 DEF Good, FramesOK, TablesOK
<1>4. PICK row \in stack[n].rows :
         LET tb1  == IF row.stxo.spendTxid = stack[n].txid
                     THEN PutUtxo(markStxoAsDead(tables, row), row) ELSE tables
             tb2  == markStxoAsDead(tb1, row)
         IN  IF Creator[row.op] = stack[n].txid
             THEN tables' = tb2 /\ stack' = Descend(Without(stack, row), row, tb2)
             ELSE tables' = tb1 /\ stack' = Without(stack, row)
  BY DEF HandleRow, Top, Without
<1> DEFINE d == row.stxo.spendTxid
<1>5. n \in 1..Len(stack) /\ stack[n] \in FrameType
  BY <1>1, <1>3
<1>6. row \in RowType /\ row.op \in Out /\ d \in Tx
  <2>1. row \in RowType
    BY <1>5 DEF FrameType
  <2> QED BY <2>1 DEF RowType, Stxo
<1>7. Tables.s[row.op] # None /\ row.stxo = Tables.s[row.op] /\ stack[n].txid \in D
  BY <1>2, <1>5 DEF Good, FramesOK
<1>8. CASE d = stack[n].txid
  <2>1. Creator[row.op] # stack[n].txid
    <3>1. Chained(Tables, stack)
      BY <1>2 DEF Good, FramesOK
    <3>2. \A o \in Out : Tables.s[o] # None /\ Creator[o] = stack[n].txid
                            => Tables.s[o].spendTxid # stack[n].txid
      BY <1>1, <1>3, <1>5, <3>1, NoCycle
    <3> QED BY <1>6, <1>7, <1>8, <3>2
  <2>2. tables' = PutUtxo(markStxoAsDead(tables, row), row) /\ stack' = Without(stack, row)
    BY <1>4, <1>8, <2>1
  <2>3. /\ markStxoAsDead(tables, row) \in TableType
        /\ markStxoAsDead(tables, row).u = tables.u
        /\ markStxoAsDead(tables, row).s = [tables.s EXCEPT ![row.op] = None]
        /\ markStxoAsDead(tables, row).t =
              [t \in Tx |-> IF t = d /\ tables.t[t] # None THEN Dead ELSE tables.t[t]]
    BY <1>3, <1>6, DeadRowLemma
  <2>4. /\ tables' \in TableType
        /\ tables'.u = [tables.u EXCEPT ![row.op] = row.stxo.atHeight]
        /\ tables'.s = [tables.s EXCEPT ![row.op] = None]
        /\ tables'.t = [t \in Tx |-> IF t = d /\ tables.t[t] # None THEN Dead ELSE tables.t[t]]
    BY <1>6, <2>2, <2>3, PutLemma
  <2>5. /\ \A p \in Out : tables'.s[p] = IF p = row.op THEN None ELSE tables.s[p]
        /\ \A t \in Tx : tables'.t[t] = IF t = d /\ tables.t[t] # None THEN Dead ELSE tables.t[t]
        /\ \A p \in Out : tables'.u[p] = IF p = row.op /\ d = stack[n].txid
                                         THEN row.stxo.atHeight ELSE tables.u[p]
    BY <1>3, <1>6, <1>8, <2>4 DEF TableType
  <2>6. Good(Tables, tables', stack', D, Killed, todo, {d})
    <3>1. RowTaken(tables, stack, row, tables')
      BY <1>8, <2>4, <2>5 DEF RowTaken
    <3> QED BY ONLY <1>1, <1>2, <2>2, <3>1, RowGone
  <2>7. OnStack(stack', d)
    BY <1>1, <1>3, <1>5, <1>8, <2>2, WithoutLemma DEF OnStack
  <2>8. Good(Tables, tables', stack', D, Killed, todo, {})
    BY <2>6, <2>7 DEF Good, TablesOK, KillOK
  <2> QED BY <1>1, <2>8, MarkStep
<1>9. CASE d # stack[n].txid /\ Creator[row.op] = stack[n].txid
  <2>1. tables' = markStxoAsDead(tables, row)
        /\ stack' = Append(Without(stack, row), Frame(d, tables'))
    BY <1>4, <1>9 DEF Descend
  <2>2. /\ tables' \in TableType
        /\ tables'.u = tables.u
        /\ tables'.s = [tables.s EXCEPT ![row.op] = None]
        /\ tables'.t = [t \in Tx |-> IF t = d /\ tables.t[t] # None THEN Dead ELSE tables.t[t]]
    BY <1>3, <1>6, <2>1, DeadRowLemma
  <2>3. /\ \A p \in Out : tables'.s[p] = IF p = row.op THEN None ELSE tables.s[p]
        /\ \A t \in Tx : tables'.t[t] = IF t = d /\ tables.t[t] # None THEN Dead ELSE tables.t[t]
        /\ \A p \in Out : tables'.u[p] = IF p = row.op /\ d = stack[n].txid
                                         THEN row.stxo.atHeight ELSE tables.u[p]
    BY <1>3, <1>6, <1>9, <2>2 DEF TableType
  <2>4. Good(Tables, tables', Without(stack, row), D, Killed, todo, {d})
    <3>1. RowTaken(tables, stack, row, tables')
      BY <1>9, <2>2, <2>3 DEF RowTaken
    <3> QED BY ONLY <1>1, <1>2, <3>1, RowGone
  <2>5. d \in D
    BY <1>3, <1>6, <1>7, <1>9 DEF OldOK
  <2>6. Without(stack, row) # <<>> =>
           \E o \in Out : Tables.s[o] # None
              /\ Creator[o] = Without(stack, row)[Len(Without(stack, row))].txid
              /\ Tables.s[o].spendTxid = d
    <3>1. /\ Len(Without(stack, row)) = n
          /\ Without(stack, row)[n].txid = stack[n].txid
      BY <1>1, <1>3, <1>5, WithoutLemma
    <3> QED BY <1>6, <1>7, <1>9, <3>1
  <2>7. Good(Tables, tables', stack', D, Killed, todo, {})
    BY <2>1, <2>4, <2>5, <2>6, CallStarts
  <2> QED BY <1>1, <2>7, MarkStep
<1>10. CASE d # stack[n].txid /\ Creator[row.op] # stack[n].txid
  <2>1. tables' = tables /\ stack' = Without(stack, row)
    BY <1>4, <1>10
  <2>2. Good(Tables, tables', stack', D, Killed, todo, {})
    BY <1>1, <1>2, <1>10, <2>1, RowPassed
  <2> QED BY <1>1, <2>2, MarkStep
<1> QED BY <1>8, <1>9, <1>10, <1>1

LEMMA CallStep ==
    ASSUME MarkInv, CallMark
    PROVE  MarkInv' /\ UNCHANGED vars
<1> DEFINE D == Doomed(Killed)
<1>1. PICK d \in todo : todo' = todo \ {d} /\ stack' = <<Frame(d, tables)>>
  BY DEF CallMark
<1>2. stack = <<>> /\ call # NoCall /\ UNCHANGED <<vars, call, tables>>
  BY <1>1 DEF CallMark, MarkInv
<1>3. Good(Tables, tables, <<>>, D, Killed, todo, {})
  BY <1>2 DEF MarkInv
<1>4. d \in D
  BY <1>1, <1>3 DEF Good, KillOK
<1>5. Good(Tables, tables, <<>>, D, Killed, todo', {d})
  <2>1. TablesOK(Tables, tables, <<>>, D, {d})
    BY <1>3 DEF Good, TablesOK
  <2>2. KillOK(tables, <<>>, D, Killed, todo', {d})
    BY <1>1, <1>3 DEF Good, KillOK
  <2> QED BY <1>3, <2>1, <2>2 DEF Good
<1>6. Append(<<>>, Frame(d, tables)) = <<Frame(d, tables)>>
  OBVIOUS
<1>7. Good(Tables, tables, Append(<<>>, Frame(d, tables)), D, Killed, todo', {})
  BY ONLY <1>4, <1>5, CallStarts
<1>8. Good(Tables, tables', stack', D, Killed, todo', {})
  BY <1>1, <1>2, <1>6, <1>7
<1> QED BY <1>2, <1>8, MarkStep

LEMMA DropStep ==
    ASSUME MarkInv, DropOutputs
    PROVE  MarkInv' /\ UNCHANGED vars
<1> DEFINE D == Doomed(Killed)
           d == stack[Len(stack)].txid
<1>1. /\ stack # <<>> /\ call # NoCall /\ UNCHANGED <<vars, call, todo>>
      /\ stack[Len(stack)].rows = {}
      /\ tables' = UpdateHeight(DeleteUtxos(tables, {o \in Out : Creator[o] = d}), d)
      /\ stack' = SubSeq(stack, 1, Len(stack) - 1)
  BY DEF DropOutputs, MarkInv, Top
<1>2. Good(Tables, tables, stack, D, Killed, todo, {})
  BY <1>1 DEF MarkInv
<1>3. stack \in Seq(FrameType) /\ tables \in TableType
  BY <1>2 DEF Good, FramesOK, TablesOK
<1>4. d \in Tx
  <2>1. stack[Len(stack)] \in FrameType
    BY <1>1, <1>3
  <2> QED BY <2>1 DEF FrameType
<1> HIDE DEF d
<1>5. /\ tables' \in TableType
      /\ tables'.u = [o \in Out |-> IF Creator[o] = d THEN None ELSE tables.u[o]]
      /\ tables'.s = tables.s
      /\ tables'.t = [t \in Tx |-> IF t = d /\ tables.t[t] # None THEN Dead ELSE tables.t[t]]
  BY <1>1, <1>3, <1>4, DropLemma
<1>6. /\ \A o \in Out : tables'.u[o] = IF Creator[o] = d THEN None ELSE tables.u[o]
      /\ \A t \in Tx : tables'.t[t] = IF t = d /\ tables.t[t] # None THEN Dead ELSE tables.t[t]
  BY <1>5
<1>7. Good(Tables, tables', stack', D, Killed, todo', {})
  BY ONLY <1>1, <1>2, <1>5, <1>6, CallEnds DEF d
<1> QED BY <1>1, <1>7, MarkStep

(* What the caller finds when it goes on.                                  *)
LEMMA AllMarkedLemma ==
    ASSUME MarkInv, AllMarked
    PROVE  LET D == Doomed(Killed)
           IN  tables = [u |-> UtxosWithout(D), s |-> StxosWithout(D), t |-> TxnsWithout(D)]
<1>1. Good(Tables, tables, <<>>, Doomed(Killed), Killed, {}, {}) /\ IInv
  BY DEF MarkInv, AllMarked
<1> QED BY <1>1, KilledLemma, MarksEnd

LEMMA EndReorgStep ==
    ASSUME MarkInv, EndReorg
    PROVE  MarkInv' /\ \E n \in Heights : processReorg(n)
<1> DEFINE D == Doomed(Killed)
<1>1. AllMarked /\ call.by = "processReorg" /\ call # NoCall
  BY DEF EndReorg, AllMarked
<1>2. tables.u = UtxosWithout(D) /\ tables.s = StxosWithout(D) /\ tables.t = TxnsWithout(D)
  BY <1>1, AllMarkedLemma
<1>3. call.height \in Heights /\ Killed = Reorged(call.height)
  BY <1>1 DEF MarkInv, CallOK, Killed
<1>4. utxos' = UtxosWithout(D) /\ stxos' = StxosWithout(D) /\ txns' = TxnsWithout(D)
      /\ txids' = txids /\ call' = NoCall /\ todo' = {} /\ stack' = <<>>
  BY <1>1, <1>2 DEF EndReorg, AllMarked
<1>5. processReorg(call.height)
  BY <1>3, <1>4 DEF processReorg, Reorged
<1>6. IInv'
  BY <1>3, <1>5, ReorgStep DEF MarkInv
<1> QED BY <1>3, <1>4, <1>5, <1>6 DEF MarkInv

LEMMA EndIngestStep ==
    ASSUME MarkInv, EndIngest
    PROVE  MarkInv' /\ \E tx \in Tx, height \in Heights : Ingest(tx, height)
<1> DEFINE D == Doomed(Killed)
<1>1. AllMarked /\ call.by = "Ingest" /\ call # NoCall
  BY DEF EndIngest, AllMarked
<1>2. tables.u = UtxosWithout(D) /\ tables.s = StxosWithout(D) /\ tables.t = TxnsWithout(D)
  BY <1>1, AllMarkedLemma
<1>3. /\ call.tx \in Tx /\ call.height \in Heights /\ Killed = CheckDoubleSpends(call.tx)
      /\ ~Processed(call.tx, call.height)
      /\ FirstSeenRule(CheckDoubleSpends(call.tx), call.height)
  BY <1>1 DEF MarkInv, CallOK, Killed
<1>4. IngestInto(call.tx, call.height, UtxosWithout(D), StxosWithout(D), TxnsWithout(D))
  BY <1>2 DEF EndIngest
<1>5. Ingest(call.tx, call.height)
  BY <1>3, <1>4 DEF Ingest
<1>6. IInv'
  BY <1>3, <1>5, IngestStep DEF MarkInv
<1>7. call' = NoCall /\ todo' = {} /\ stack' = <<>>
  BY <1>1 DEF EndIngest, AllMarked
<1> QED BY <1>3, <1>5, <1>6, <1>7 DEF MarkInv

(* With nothing to kill nothing is doomed, and the closed form leaves the  *)
(* tables alone.                                                           *)
LEMMA NothingKilled ==
    ASSUME IInv
    PROVE  LET D == Doomed({})
           IN  UtxosWithout(D) = utxos /\ StxosWithout(D) = stxos /\ TxnsWithout(D) = txns
<1>1. Spenders({}) \subseteq {}
  BY DEF Spenders
<1>2. Doomed({}) = {}
  BY <1>1 DEF Doomed
<1>3. /\ utxos \in [Out -> Heights \cup {None}] /\ stxos \in [Out -> Stxo \cup {None}]
      /\ txns \in [Tx -> Heights \cup {Dead, None}]
  BY DEF IInv, TypeOK
<1> QED BY <1>2, <1>3 DEF UtxosWithout, StxosWithout, TxnsWithout, SpentBy

LEMMA PlainStep ==
    ASSUME MarkInv, NEW tx \in Tx, NEW height \in Heights, PlainIngest(tx, height)
    PROVE  MarkInv' /\ Ingest(tx, height)
<1> DEFINE D == Doomed({})
<1>1. /\ call = NoCall /\ UNCHANGED markVars /\ ~Processed(tx, height)
      /\ CheckDoubleSpends(tx) = {} /\ IngestInto(tx, height, utxos, stxos, txns)
  BY DEF PlainIngest
<1>2. UtxosWithout(D) = utxos /\ StxosWithout(D) = stxos /\ TxnsWithout(D) = txns
  BY NothingKilled DEF MarkInv
<1> HIDE DEF D
<1>3. IngestInto(tx, height, UtxosWithout(D), StxosWithout(D), TxnsWithout(D))
  BY <1>1, <1>2
<1>4. Ingest(tx, height)
  BY <1>1, <1>3 DEF Ingest, FirstSeenRule, D
<1>5. IInv'
  BY <1>4, IngestStep DEF MarkInv
<1> QED BY <1>1, <1>4, <1>5 DEF MarkInv, markVars

LEMMA MarkInvInit == MarkInit => MarkInv
  BY IInvInit DEF MarkInit, MarkInv

(* Every step keeps the invariant, and is a step of TxStore or leaves its  *)
(* variables alone.                                                        *)
LEMMA MarkInvNext ==
    ASSUME MarkInv, [MarkNext]_<<vars, markVars>>
    PROVE  MarkInv' /\ [Next]_vars
<1>1. ASSUME NEW n \in Heights, BeginReorg(n) PROVE MarkInv' /\ UNCHANGED vars
  <2> DEFINE c == [by |-> "processReorg", height |-> n]
  <2>1. Begin(c, Reorged(n)) /\ call' = c /\ UNCHANGED vars
    BY <1>1 DEF BeginReorg, Begin
  <2>2. call' \in [by : {"processReorg"}, height : Heights]
    BY <2>1
  <2>3. CallOK'
    BY <2>2 DEF CallOK
  <2>4. Killed' = Reorged(n)
    BY <2>1 DEF Killed, Reorged, vars
  <2>5. Reorged(n) \in SUBSET Tx
    BY DEF Reorged
  <2> QED BY <2>1, <2>3, <2>4, <2>5, BeginStep
<1>2. ASSUME NEW tx \in Tx, NEW height \in Heights, BeginIngest(tx, height)
      PROVE  MarkInv' /\ UNCHANGED vars
  <2> DEFINE c == [by |-> "Ingest", tx |-> tx, height |-> height]
  <2>1. Begin(c, CheckDoubleSpends(tx)) /\ call' = c /\ UNCHANGED vars
    BY <1>2 DEF BeginIngest, Begin
  <2>2. /\ call' \in [by : {"Ingest"}, tx : Tx, height : Heights]
        /\ call'.tx = tx /\ call'.height = height /\ call'.by = "Ingest"
    BY <2>1
  <2>3. CheckDoubleSpends(tx)' = CheckDoubleSpends(tx)
    BY <2>1 DEF CheckDoubleSpends, Live, vars
  <2>4. CallOK'
    <3>1. ~Processed(tx, height)' /\ FirstSeenRule(CheckDoubleSpends(tx), height)'
      BY <1>2, <2>1, <2>3 DEF BeginIngest, Processed, FirstSeenRule, vars
    <3> QED BY <2>2, <3>1 DEF CallOK
  <2>5. Killed' = CheckDoubleSpends(tx)
    BY <2>2, <2>3 DEF Killed
  <2>6. CheckDoubleSpends(tx) \in SUBSET Tx
    BY DEF CheckDoubleSpends
  <2> QED BY <2>1, <2>4, <2>5, <2>6, BeginStep
<1>3. ASSUME NEW tx \in Tx, NEW height \in Heights, PlainIngest(tx, height)
      PROVE  MarkInv' /\ Next
  BY <1>3, PlainStep DEF Next
<1>4. CASE CallMark \/ HandleRow \/ DropOutputs
  BY <1>4, CallStep, RowStep, DropStep
<1>5. CASE EndReorg
  BY <1>5, EndReorgStep DEF Next
<1>6. CASE EndIngest
  BY <1>6, EndIngestStep DEF Next
<1>7. CASE Refresh
  <2>1. Next /\ UNCHANGED markVars /\ call = NoCall
    BY <1>7 DEF Refresh, Next
  <2>2. IInv'
    BY <2>1, IInvNext DEF MarkInv
  <2> QED BY <2>1, <2>2 DEF MarkInv, markVars
<1>8. CASE UNCHANGED <<vars, markVars>>
  <2>1. CASE call = NoCall
    <3>1. IInv'
      BY <1>8, IInvNext DEF MarkInv
    <3> QED BY <1>8, <2>1, <3>1 DEF MarkInv, markVars
  <2>2. CASE call # NoCall
    BY <1>8, <2>2, MarkStep DEF MarkInv, markVars
  <2> QED BY <1>8, <2>1, <2>2
<1> QED BY <1>1, <1>2, <1>3, <1>4, <1>5, <1>6, <1>7, <1>8 DEF MarkNext, Marking

(* markAsDead of txstore.go, a recursion in a loop over rows it read before *)
(* the recursion changed them, leaves exactly the tables of the closed     *)
(* form, in whatever order the rows come.                                  *)
THEOREM MarkedExactly == MarkSpec => []MarkAsDeadExact
<1>1. MarkInv => MarkAsDeadExact
  BY AllMarkedLemma DEF MarkAsDeadExact
<1> QED BY MarkInvInit, MarkInvNext, <1>1, PTL DEF MarkSpec

(* So TxStore, whose Ingest and processReorg kill in one step, is what the *)
(* code implements, and what is proved of TxStore holds of the recursion.  *)
THEOREM ImplementsStore == MarkSpec => StoreSpec
<1>1. MarkInit => Init
  BY DEF MarkInit
<1> QED BY MarkInvInit, MarkInvNext, <1>1, PTL DEF MarkSpec, StoreSpec, Spec

(* The safety of the closed form, carried over to the recursion: the       *)
(* tables a call finds, and those it leaves behind, are typed, free of     *)
(* double spends and of dead rows, and miss no coin; and the ledger they   *)
(* stand for is the one of Ledger.                                         *)
THEOREM RecursionSafety ==
    MarkSpec => [](TypeOK /\ NoDoubleSpend /\ NoDeadRows /\ NoCoinLost) /\ LedgerSpec
  BY ImplementsStore, TypeCorrect, DoubleSpendSafety, DeadRowSafety, CoinSafety,
     ImplementsLedger, PTL DEF StoreSpec
=============================================================================
