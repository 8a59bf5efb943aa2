-------------------------- MODULE WalletViewProofs --------------------------
(***************************************************************************)
(* Proofs about module WalletView: what the wallet answers from its tables *)
(* is right, for every set of transactions and every order in which they   *)
(* are ingested, killed and revived.                                       *)
(***************************************************************************)
EXTENDS ConfirmedStxo, BalanceReader, TxStoreProofs

(* The heights of the rows lag behind those of the transactions, but a row *)
(* with a height belongs to a confirmed transaction.                       *)
HeightsBacked ==
    /\ \A o \in Out : utxos[o] # None /\ utxos[o] > 0 => Confirmed(Creator[o])
    /\ \A o \in Out : stxos[o] # None /\ stxos[o].atHeight > 0 => Confirmed(Creator[o])
    /\ \A o \in Out : stxos[o] # None /\ stxos[o].spendHeight > 0
                         => Confirmed(stxos[o].spendTxid)

(* The copy of the heights in memory is right for valid transactions.      *)
TxidsFresh == \A t \in Tx : Live(t) => txids[t] = txns[t]

(* An unconfirmed coin is not among the spent ones.                        *)
PendingIsUnspent == \A o \in Out : utxos[o] = 0 => stxos[o] = None

(* A valid transaction that pays us nothing still has a row it spent.      *)
SpenderHasRow ==
    \A t \in Tx \ Filtered :
        Live(t) /\ (\A o \in Ours : Creator[o] # t) =>
            \E o \in Out : stxos[o] # None /\ stxos[o].spendTxid = t

VInv == IInv /\ HeightsBacked /\ TxidsFresh /\ PendingIsUnspent /\ SpenderHasRow

LEMMA VInvInit == Init => VInv
<1> SUFFICES ASSUME Init PROVE VInv
  OBVIOUS
<1>1. /\ \A o \in Out : utxos[o] = None /\ stxos[o] = None
      /\ \A t \in Tx : ~Live(t)
      /\ None # 0
  BY TxAssumption DEF Init, Live
<1> QED BY <1>1, IInvInit
     DEF VInv, HeightsBacked, TxidsFresh, PendingIsUnspent, SpenderHasRow

(* The doomed transactions are closed under spending.                      *)
LEMMA DoomedClosed ==
    ASSUME IInv, NEW S \in SUBSET Tx
    PROVE  Spenders(Doomed(S)) \subseteq Doomed(S)
<1> SUFFICES ASSUME NEW o \in Out, stxos[o] # None, Creator[o] \in Doomed(S)
             PROVE  stxos[o].spendTxid \in Doomed(S)
  BY DEF Spenders
<1>1. stxos[o].spendTxid \in Tx
  BY DEF IInv, TypeOK, Stxo
<1>2. ASSUME NEW C \in SUBSET Tx, S \subseteq C, Spenders(C) \subseteq C
      PROVE  stxos[o].spendTxid \in C
  <2>1. Creator[o] \in C
    BY <1>2 DEF Doomed
  <2> QED BY <1>2, <2>1 DEF Spenders
<1> QED BY <1>1, <1>2 DEF Doomed

(* What is left after markAsDead keeps its height, and what a survivor     *)
(* spent is left.                                                          *)
LEMMA KillView ==
    ASSUME VInv, NEW D \in SUBSET Tx, Spenders(D) \subseteq D
    PROVE  /\ \A o \in Out : UtxosWithout(D)[o] # None /\ UtxosWithout(D)[o] > 0
                 => Confirmed(Creator[o]) /\ Creator[o] \notin D
           /\ \A o \in Out : UtxosWithout(D)[o] = 0 => StxosWithout(D)[o] = None
           /\ \A o \in Out : stxos[o] # None /\ stxos[o].spendTxid \notin D
                 => StxosWithout(D)[o] = stxos[o]
<1> USE TxAssumption DEF VInv
<1>1. ASSUME NEW o \in Out, UtxosWithout(D)[o] # None, UtxosWithout(D)[o] > 0
      PROVE  Confirmed(Creator[o]) /\ Creator[o] \notin D
  <2>1. Creator[o] \notin D
    BY <1>1 DEF UtxosWithout
  <2>2. CASE SpentBy(o, D)
    BY <1>1, <2>1, <2>2 DEF UtxosWithout, SpentBy, HeightsBacked
  <2>3. CASE ~SpentBy(o, D)
    BY <1>1, <2>1, <2>3 DEF UtxosWithout, HeightsBacked
  <2> QED BY <2>1, <2>2, <2>3
<1>2. ASSUME NEW o \in Out, UtxosWithout(D)[o] = 0 PROVE StxosWithout(D)[o] = None
  <2>1. CASE Creator[o] \in D \/ SpentBy(o, D)
    BY <2>1 DEF StxosWithout
  <2>2. CASE ~(Creator[o] \in D \/ SpentBy(o, D))
    BY <1>2, <2>2 DEF UtxosWithout, StxosWithout, PendingIsUnspent
  <2> QED BY <2>1, <2>2
<1>3. ASSUME NEW o \in Out, stxos[o] # None, stxos[o].spendTxid \notin D
      PROVE  StxosWithout(D)[o] = stxos[o]
  BY <1>3 DEF StxosWithout, SpentBy, Spenders
<1> QED BY <1>1, <1>2, <1>3

LEMMA ViewReorg ==
    ASSUME VInv, NEW n \in Heights, processReorg(n)
    PROVE  VInv'
<1> DEFINE S == {t \in Tx : txns[t] # None /\ txns[t] > n}
           D == Doomed(S)
<1>1. D \in SUBSET Tx /\ Spenders(D) \subseteq D
  BY DoomedLemma, DoomedClosed DEF VInv
<1>2. utxos' = UtxosWithout(D) /\ stxos' = StxosWithout(D)
      /\ txns' = TxnsWithout(D) /\ txids' = txids
  BY DEF processReorg
<1>3. IInv'
  BY ReorgStep DEF VInv
<1> HIDE DEF D
<1>4. \A t \in Tx : Live(t)' <=> Live(t) /\ t \notin D
  BY <1>1, <1>2, KillLemma DEF Live, VInv
<1>5. \A t \in Tx : Confirmed(t) /\ t \notin D => Confirmed(t)'
  BY <1>2 DEF Confirmed, TxnsWithout
<1>6. \A o \in Out : stxos'[o] # None =>
         /\ stxos'[o] = stxos[o] /\ Creator[o] \in Tx /\ stxos[o].spendTxid \in Tx
         /\ Creator[o] \notin D /\ stxos[o].spendTxid \notin D
  BY <1>1, <1>2, KillLemma, TxAssumption DEF VInv, IInv, TypeOK, Stxo
<1>7. HeightsBacked'
  <2>1. \A o \in Out : utxos'[o] # None /\ utxos'[o] > 0 => Confirmed(Creator[o])'
    BY <1>1, <1>2, <1>5, KillView, TxAssumption
  <2>2. \A o \in Out : stxos'[o] # None /\ stxos'[o].atHeight > 0 => Confirmed(Creator[o])'
    BY <1>5, <1>6 DEF VInv, HeightsBacked
  <2>3. \A o \in Out : stxos'[o] # None /\ stxos'[o].spendHeight > 0
                          => txns'[stxos'[o].spendTxid] # None /\ txns'[stxos'[o].spendTxid] > 0
    BY <1>5, <1>6 DEF VInv, HeightsBacked, Confirmed
  <2> QED BY <2>1, <2>2, <2>3 DEF HeightsBacked, Confirmed
<1>8. TxidsFresh'
  BY <1>1, <1>2, <1>4, KillLemma DEF VInv, TxidsFresh
<1>9. PendingIsUnspent'
  BY <1>1, <1>2, KillView DEF PendingIsUnspent
<1>10. SpenderHasRow'
  <2> SUFFICES ASSUME NEW t \in Tx \ Filtered, Live(t)', \A o \in Ours : Creator[o] # t
               PROVE  \E o \in Out : stxos'[o] # None /\ stxos'[o].spendTxid = t
    BY DEF SpenderHasRow
  <2>1. Live(t) /\ t \notin D
    BY <1>4
  <2>2. PICK o \in Out : stxos[o] # None /\ stxos[o].spendTxid = t
    BY <2>1 DEF VInv, SpenderHasRow
  <2>3. stxos'[o] = stxos[o]
    BY <1>1, <1>2, <2>1, <2>2, KillView
  <2> QED BY <2>2, <2>3
<1> QED BY <1>3, <1>7, <1>8, <1>9, <1>10 DEF VInv

(* The row the loop of Ingest confirms changes its height only.            *)
LEMMA ConfirmedRow ==
    ASSUME NEW st, st \in [Out -> Stxo \cup {None}],
           NEW older \in SUBSET {o \in Out : st[o] # None},
           NEW height \in Heights, NEW s \in SpendHeightUpdates(st, older, height),
           NEW o \in Out
    PROVE  /\ s[o] # None <=> st[o] # None
           /\ st[o] # None => /\ s[o].spendTxid = st[o].spendTxid
                              /\ s[o].atHeight = st[o].atHeight
                              /\ \/ s[o].spendHeight = st[o].spendHeight
                                 \/ o \in older /\ height > 0 /\ s[o].spendHeight = height
<1>1. CASE height > 0 /\ older # {}
  <2>1. PICK q \in older : s = [st EXCEPT ![q].spendHeight = height]
    BY <1>1 DEF SpendHeightUpdates
  <2>2. q \in Out /\ st[q] \in Stxo
    OBVIOUS
  <2>3. s = [st EXCEPT ![q] = [st[q] EXCEPT !.spendHeight = height]]
    BY <2>1, <2>2
  <2>4. /\ [st[q] EXCEPT !.spendHeight = height] \in Stxo
        /\ [st[q] EXCEPT !.spendHeight = height].spendTxid = st[q].spendTxid
        /\ [st[q] EXCEPT !.spendHeight = height].atHeight = st[q].atHeight
        /\ [st[q] EXCEPT !.spendHeight = height].spendHeight = height
    BY <2>2 DEF Stxo
  <2>5. CASE o = q
    BY <1>1, <2>2, <2>3, <2>4, <2>5, StxoAssumption
  <2>6. CASE o # q
    BY <2>3, <2>6
  <2> QED BY <2>5, <2>6
<1>2. CASE ~(height > 0 /\ older # {})
  BY <1>2 DEF SpendHeightUpdates
<1> QED BY <1>1, <1>2

LEMMA ViewIngest ==
    ASSUME VInv, NEW tx \in Tx, NEW height \in Heights, Ingest(tx, height)
    PROVE  VInv'
<1> DEFINE dubs   == CheckDoubleSpends(tx)
           D      == Doomed(dubs)
           gained == {o \in Ours : Creator[o] = tx}
           u0     == UtxosWithout(D)
           u1     == [o \in Out |-> IF o \in gained THEN height ELSE u0[o]]
           spent  == {o \in Spends[tx] : u1[o] # None}
           st0    == StxosWithout(D)
           row(o) == [atHeight |-> u1[o], spendHeight |-> height, spendTxid |-> tx]
           st1    == [o \in Out |-> IF o \in spent THEN row(o) ELSE st0[o]]
           older  == {o \in Out \ spent : st0[o] # None /\ st0[o].spendTxid = tx}
           t1     == TxnsWithout(D)
           hit    == gained # {} \/ spent # {} \/ (height > 0 /\ older # {}) \/ tx \in Filtered
<1>1. /\ utxos' = [o \in Out |-> IF o \in spent THEN None ELSE u1[o]]
      /\ stxos' \in SpendHeightUpdates(st1, older, height)
      /\ txns' = [t \in Tx |-> IF t = tx /\ hit /\ (t1[t] = None \/ t1[t] <= 0)
                               THEN height ELSE t1[t]]
      /\ txids' = IF hit THEN Populated(txns') ELSE txids
      /\ ~Processed(tx, height)
  BY DEF Ingest, IngestInto
<1>2. IInv /\ IInv'
  BY IngestStep DEF VInv
<1>3. dubs \subseteq D /\ D \in SUBSET Tx /\ Spenders(D) \subseteq D
  BY <1>2, DoomedLemma, DoomedClosed DEF CheckDoubleSpends
<1> HIDE DEF D
<1>4. /\ u0 \in [Out -> Heights \cup {None}]
      /\ st0 \in [Out -> Stxo \cup {None}]
      /\ t1 \in [Tx -> Heights \cup {Dead, None}]
      /\ \A t \in Tx : t1[t] # None /\ t1[t] # Dead => Live(t) /\ t \notin D /\ t1[t] = txns[t]
      /\ \A t \in Tx : Live(t) /\ t \notin D => t1[t] = txns[t]
      /\ \A o \in Out : st0[o] # None =>
            /\ st0[o] = stxos[o]
            /\ Live(Creator[o]) /\ Creator[o] \notin D
            /\ Live(stxos[o].spendTxid) /\ stxos[o].spendTxid \notin D
  BY <1>2, <1>3, KillLemma
<1>5. /\ \A o \in Out : u0[o] # None /\ u0[o] > 0 => Confirmed(Creator[o]) /\ Creator[o] \notin D
      /\ \A o \in Out : u0[o] = 0 => st0[o] = None
      /\ \A o \in Out : stxos[o] # None /\ stxos[o].spendTxid \notin D => st0[o] = stxos[o]
  BY <1>3, KillView
<1> HIDE DEF u0, st0, t1
<1>6. /\ \A o \in spent : o \in Out /\ u1[o] \in Heights /\ row(o) \in Stxo /\ row(o) # None
      /\ \A o \in Out : u1[o] # None => u1[o] \in Heights
  BY <1>4, TxAssumption, StxoAssumption DEF Stxo
<1>7. st1 \in [Out -> Stxo \cup {None}] /\ older \in SUBSET {o \in Out : st1[o] # None}
  BY <1>4, <1>6
<1>8. \A o \in Out :
         /\ stxos'[o] # None <=> st1[o] # None
         /\ st1[o] # None => /\ stxos'[o].spendTxid = st1[o].spendTxid
                             /\ stxos'[o].atHeight = st1[o].atHeight
                             /\ \/ stxos'[o].spendHeight = st1[o].spendHeight
                                \/ o \in older /\ height > 0 /\ stxos'[o].spendHeight = height
  <2> HIDE DEF st1, older
  <2> QED BY <1>1, <1>7, ConfirmedRow
<1>9. \A t \in Tx \ {tx} : Live(t)' <=> Live(t) /\ t \notin D
  BY <1>1, <1>4 DEF Live
<1>10. \A t \in Tx : Confirmed(t) /\ t \notin D => Confirmed(t)'
  <2> SUFFICES ASSUME NEW t \in Tx, Confirmed(t), t \notin D PROVE Confirmed(t)'
    OBVIOUS
  <2>1. t1[t] = txns[t] /\ txns[t] # None /\ txns[t] \in Int /\ txns[t] > 0
    BY <1>2, <1>4, TxAssumption DEF Confirmed, Live, Dead, IInv, TypeOK, Heights
  <2> QED BY <1>1, <2>1 DEF Confirmed
<1>11. hit /\ height > 0 => Confirmed(tx)'
  <2> SUFFICES ASSUME hit, height > 0 PROVE Confirmed(tx)'
    OBVIOUS
  <2>1. height # None
    BY TxAssumption DEF Heights
  <2>2. CASE t1[tx] = None \/ t1[tx] <= 0
    BY <1>1, <2>1, <2>2 DEF Confirmed
  <2>3. CASE ~(t1[tx] = None \/ t1[tx] <= 0)
    <3>1. t1[tx] \in Int /\ t1[tx] > 0
      BY <1>4, <2>3 DEF Heights, Dead
    <3> QED BY <1>1, <2>3, <3>1 DEF Confirmed
  <2> QED BY <2>2, <2>3
(* A coin with a height, before it is moved.                               *)
<1>12. ASSUME NEW o \in Out, u1[o] # None, u1[o] > 0 PROVE Confirmed(Creator[o])'
  <2>1. CASE o \in gained
    BY <1>11, <1>12, <2>1
  <2>2. CASE o \notin gained
    <3>1. u0[o] # None /\ u0[o] > 0 /\ Creator[o] \in Tx
      BY <1>12, <2>2, TxAssumption
    <3> QED BY <1>5, <1>10, <3>1
  <2> QED BY <2>1, <2>2
<1>13. HeightsBacked'
  <2>1. \A o \in Out : utxos'[o] # None /\ utxos'[o] > 0 => Confirmed(Creator[o])'
    BY <1>1, <1>12
  <2>2. ASSUME NEW o \in Out, st1[o] # None
        PROVE  /\ st1[o].atHeight > 0 => Confirmed(Creator[o])'
               /\ st1[o].spendHeight > 0 =>
                     txns'[st1[o].spendTxid] # None /\ txns'[st1[o].spendTxid] > 0
    <3>1. CASE o \in spent
      <4>1. st1[o] = row(o) /\ hit
        BY <3>1, <1>6
      <4>2. /\ u1[o] > 0 => Confirmed(Creator[o])'
            /\ height > 0 => Confirmed(tx)'
        BY <1>6, <1>11, <1>12, <3>1, <4>1
      <4>3. st1[o].atHeight = u1[o] /\ st1[o].spendHeight = height /\ st1[o].spendTxid = tx
        BY <4>1
      <4> HIDE DEF st1, u1, hit
      <4> QED BY <4>2, <4>3 DEF Confirmed
    <3>2. CASE o \notin spent
      <4>1. st1[o] = st0[o] /\ st0[o] # None
        BY <2>2, <3>2
      <4>2. st0[o] = stxos[o] /\ stxos[o] # None /\ stxos[o] \in Stxo
        BY <1>4, <4>1
      <4>3. Creator[o] \in Tx \ D /\ stxos[o].spendTxid \in Tx \ D
        BY <1>4, <4>1, <4>2, TxAssumption DEF Stxo
      <4>4. /\ stxos[o].atHeight > 0 => Confirmed(Creator[o])'
            /\ stxos[o].spendHeight > 0 => Confirmed(stxos[o].spendTxid)
        BY <1>10, <4>2, <4>3 DEF VInv, HeightsBacked
      <4> HIDE DEF st1
      <4> QED BY <1>10, <4>1, <4>2, <4>3, <4>4 DEF Confirmed
    <3> QED BY <3>1, <3>2
  <2>3. \A o \in older : height > 0 => st1[o].spendTxid = tx /\ Confirmed(tx)'
    BY <1>11
  <2>4. ASSUME NEW o \in Out, stxos'[o] # None, stxos'[o].spendHeight > 0
        PROVE  txns'[stxos'[o].spendTxid] # None /\ txns'[stxos'[o].spendTxid] > 0
    <3> HIDE DEF st1, older
    <3> QED BY <1>8, <2>2, <2>3, <2>4 DEF Confirmed
  <2>5. \A o \in Out : stxos'[o] # None /\ stxos'[o].atHeight > 0 => Confirmed(Creator[o])'
    <3> HIDE DEF st1, older
    <3> QED BY <1>8, <2>2
  <2> QED BY <2>1, <2>4, <2>5 DEF HeightsBacked, Confirmed
<1>14. TxidsFresh'
  <2> SUFFICES ASSUME NEW t \in Tx, Live(t)' PROVE txids'[t] = txns'[t]
    BY DEF TxidsFresh
  <2>1. CASE hit
    <3>1. txids' = Populated(txns')
      BY <1>1, <2>1
    <3> HIDE DEF hit
    <3> QED BY <3>1 DEF Populated, Live
  <2>2. CASE ~hit
    <3>1. txids' = txids /\ txns'[t] = t1[t]
      BY <1>1, <2>2
    <3>2. Live(t) /\ t1[t] = txns[t]
      BY <1>4, <3>1 DEF Live
    <3> QED BY <3>1, <3>2 DEF VInv, TxidsFresh
  <2> QED BY <2>1, <2>2
(* A transaction whose output is spent is known, so it is not ingested     *)
(* again as an unconfirmed one.                                            *)
<1>15. PendingIsUnspent'
  <2> SUFFICES ASSUME NEW o \in Out, utxos'[o] = 0 PROVE stxos'[o] = None
    BY DEF PendingIsUnspent
  <2>1. o \notin spent /\ u1[o] = 0
    BY <1>1, TxAssumption
  <2>2. st1[o] = st0[o]
    BY <2>1
  <2>3. CASE o \in gained
    <3> SUFFICES ASSUME st0[o] # None PROVE FALSE
      <4> HIDE DEF st1, older
      <4> QED BY <1>8, <2>2
    <3>1. height = 0 /\ Live(tx)
      BY <1>4, <2>1, <2>3
    <3>2. txids[tx] = txns[tx] /\ txns[tx] \in Heights
      BY <1>2, <3>1 DEF VInv, TxidsFresh, IInv, TypeOK, Live
    <3>3. txids[tx] # None /\ (txids[tx] > 0 \/ txids[tx] = 0)
      BY <3>2, TxAssumption DEF Heights
    <3> QED BY <1>1, <3>1, <3>3 DEF Processed
  <2>4. CASE o \notin gained
    <3>1. st0[o] = None
      BY <1>5, <2>1, <2>4
    <3> HIDE DEF st1, older
    <3> QED BY <1>8, <2>2, <3>1
  <2> QED BY <2>3, <2>4
<1>16. SpenderHasRow'
  <2> SUFFICES ASSUME NEW t \in Tx \ Filtered, Live(t)', \A o \in Ours : Creator[o] # t
               PROVE  \E o \in Out : st1[o] # None /\ st1[o].spendTxid = t
    <3> HIDE DEF st1, older
    <3> QED BY <1>8 DEF SpenderHasRow
  <2>1. ASSUME Live(t), t \notin D
        PROVE  \E o \in Out : st1[o] # None /\ st1[o].spendTxid = t
    <3>1. PICK o \in Out : stxos[o] # None /\ stxos[o].spendTxid = t
      BY <2>1 DEF VInv, SpenderHasRow
    <3>2. st0[o] = stxos[o] /\ o \in Spends[t]
      BY <1>2, <1>5, <2>1, <3>1 DEF IInv, SpendsRow
    <3>3. CASE o \in spent
      <4>1. t = tx
        BY <1>3, <2>1, <3>2, <3>3 DEF CheckDoubleSpends
      <4>2. st1[o] # None /\ st1[o].spendTxid = tx
        BY <1>6, <3>3
      <4> QED BY <4>1, <4>2
    <3>4. CASE o \notin spent
      BY <3>1, <3>2, <3>4
    <3> QED BY <3>3, <3>4
  <2>2. CASE t # tx
    BY <1>9, <2>1, <2>2
  <2>3. CASE t = tx /\ hit
    <3>1. gained = {} /\ (spent # {} \/ older # {})
      BY <2>3
    <3>2. ASSUME NEW o \in spent PROVE st1[o] # None /\ st1[o].spendTxid = t /\ o \in Out
      BY <1>6, <2>3
    <3>3. ASSUME NEW o \in older PROVE st1[o] # None /\ st1[o].spendTxid = t /\ o \in Out
      BY <1>6, <2>3
    <3> HIDE DEF st1, spent, older
    <3> QED BY <3>1, <3>2, <3>3
  <2>4. CASE t = tx /\ ~hit
    <3>1. txns'[t] = t1[t]
      BY <1>1, <2>4
    <3>2. Live(t) /\ t \notin D
      BY <1>4, <3>1 DEF Live
    <3> QED BY <2>1, <3>2
  <2> QED BY <2>2, <2>3, <2>4
<1> QED BY <1>2, <1>13, <1>14, <1>15, <1>16 DEF VInv

LEMMA VInvNext == VInv /\ [Next]_vars => VInv'
<1> SUFFICES ASSUME VInv, [Next]_vars PROVE VInv'
  OBVIOUS
<1>1. ASSUME NEW tx \in Tx, NEW height \in Heights, Ingest(tx, height) PROVE VInv'
  BY <1>1, ViewIngest
<1>2. ASSUME NEW n \in Heights, processReorg(n) PROVE VInv'
  BY <1>2, ViewReorg
<1>3. CASE PopulateAdrs \/ NewTxStore \/ UNCHANGED vars
  <2>1. IInv'
    BY IInvNext DEF VInv
  <2>2. UNCHANGED <<utxos, stxos, txns>>
    BY <1>3 DEF PopulateAdrs, NewTxStore, vars
  <2>3. TxidsFresh'
    BY <1>3 DEF PopulateAdrs, NewTxStore, vars, Populated, VInv, IInv, TypeOK, TxidsFresh, Live
  <2> QED BY <2>1, <2>2, <2>3
       DEF VInv, HeightsBacked, PendingIsUnspent, SpenderHasRow, Live, Confirmed
<1> QED BY <1>1, <1>2, <1>3 DEF Next

LEMMA VInvAlways == Spec => []VInv
  BY VInvInit, VInvNext, PTL DEF Spec

----------------------------------------------------------------------------
(* Change of a pending spend of confirmed coins from outside counts as     *)
(* confirmed in every order of the rows: the only rows a check meets are   *)
(* the inputs of the spend, and those have a height.                       *)
THEOREM ChangeIsCounted == Spec => []ChangeCounted
<1>1. VInv => ChangeCounted
  <2> SUFFICES ASSUME VInv, NEW tip \in Tips, NEW o \in BalanceCoins({}), NEW t, t = Creator[o],
                      txns[t] = 0, Spends[t] # {},
                      \A i \in Spends[t] : /\ stxos[i] # None /\ stxos[i].spendTxid = t
                                           /\ stxos[i].atHeight > 0
                                           /\ Parents(Creator[i]) = {}
               PROVE  Counted(o, tip, {}) = {TRUE}
    BY DEF ChangeCounted
  <2>1. o \in Out /\ t \in Tx /\ utxos[o] # None
    BY TxAssumption DEF BalanceCoins
  <2>2. \A i \in Spends[t] : i \in Out /\ Creator[i] \in Tx
    BY <2>1, TxAssumption
  <2>3. Inputs(stxos, o, {}) = Spends[t]
    <3>1. \A r \in Inputs(stxos, o, {}) : r \in Spends[t]
      BY DEF Inputs, Rows, VInv, IInv, SpendsRow
    <3>2. \A i \in Spends[t] : i \in Inputs(stxos, o, {})
      BY <2>2 DEF Inputs, Rows
    <3> QED BY <3>1, <3>2
  <2>4. \A i \in Spends[t] : Inputs(stxos, i, {}) = {}
    <3> SUFFICES ASSUME NEW i \in Spends[t], NEW r \in Inputs(stxos, i, {}) PROVE FALSE
      OBVIOUS
    <3>1. r \in Out /\ stxos[r] # None /\ r \in Spends[Creator[i]]
      BY DEF Inputs, Rows, VInv, IInv, SpendsRow
    <3> QED BY <3>1 DEF Parents
  <2>5. \A x \in Visited(stxos, o, {}) : x = o \/ x \in Spends[t]
    <3> DEFINE C == {o} \cup Spends[t]
    <3>1. C \in SUBSET Out /\ o \in C
      BY <2>1, <2>2
    <3>2. \A x \in C : Deferred(stxos, x, {}) \subseteq C
      BY <2>3, <2>4 DEF Deferred
    <3> HIDE DEF C
    <3>3. \A x \in Visited(stxos, o, {}) : x \in C
      BY <3>1, <3>2 DEF Visited
    <3> QED BY <3>3 DEF C
  (* The coin itself has no row of its own to answer for it.               *)
  <2>6. OwnRows(stxos, o, utxos[o], {}) = {}
    <3>1. utxos[o] = 0
      BY <2>1 DEF VInv, HeightsBacked, Confirmed, IInv, TypeOK, Heights
    <3>2. stxos[o] = None
      BY <2>1, <3>1 DEF VInv, PendingIsUnspent
    <3> QED BY <3>2 DEF OwnRows, Rows
  <2>7. Answers(stxos, o, utxos[o], {}) = IF Spends[t] \subseteq Deferred(stxos, o, {}) THEN {} ELSE {TRUE}
    BY <2>3, <2>6 DEF Answers
  <2>8. \A i \in Spends[t] : Answers(stxos, i, stxos[i].atHeight, {}) = {TRUE}
    <3> SUFFICES ASSUME NEW i \in Spends[t] PROVE Answers(stxos, i, stxos[i].atHeight, {}) = {TRUE}
      OBVIOUS
    <3>1. OwnRows(stxos, i, stxos[i].atHeight, {}) = {i}
      BY <2>2, <2>4 DEF OwnRows, Rows
    <3>2. OwnRow(i, stxos[i].atHeight) = TRUE
      BY <2>2 DEF OwnRow
    <3> QED BY <2>4, <3>1, <3>2 DEF Answers
  <2>9. o \notin Spends[t]
    <3>1. utxos[o] = 0
      BY <2>1 DEF VInv, HeightsBacked, Confirmed, IInv, TypeOK, Heights
    <3>2. stxos[o] = None
      BY <2>1, <3>1 DEF VInv, PendingIsUnspent
    <3> QED BY <3>2
  <2>10. o \in Visited(stxos, o, {}) /\ Deferred(stxos, o, {}) \subseteq Visited(stxos, o, {})
    BY <2>1, <2>2, <2>3 DEF Visited, Deferred
  <2> DEFINE A(x) == Answers(stxos, x, IF x = o THEN utxos[o] ELSE stxos[x].atHeight, {})
  <2>11. ConfirmedAnswers(stxos, o, utxos[o], {}) = UNION {A(x) : x \in Visited(stxos, o, {})}
    BY DEF ConfirmedAnswers
  <2>12. /\ A(o) = IF Spends[t] \subseteq Deferred(stxos, o, {}) THEN {} ELSE {TRUE}
         /\ \A i \in Spends[t] : A(i) = {TRUE}
    BY <2>7, <2>8, <2>9
  <2> HIDE DEF A
  <2>13. \A x \in Visited(stxos, o, {}) : A(x) \subseteq {TRUE}
    BY <2>5, <2>12
  <2>14. \E x \in Visited(stxos, o, {}) : A(x) = {TRUE}
    <3>1. CASE Spends[t] \subseteq Deferred(stxos, o, {})
      BY <2>10, <2>12, <3>1
    <3>2. CASE ~(Spends[t] \subseteq Deferred(stxos, o, {}))
      BY <2>10, <2>12, <3>2
    <3> QED BY <3>1, <3>2
  <2>15. ConfirmedAnswers(stxos, o, utxos[o], {}) = {TRUE}
    BY <2>11, <2>13, <2>14
  <2>16. GetConfirmations(t, tip) = 0
    BY DEF GetConfirmations, ConfirmationsAt
  <2> QED BY <2>15, <2>16 DEF Counted
<1> QED BY VInvAlways, <1>1, PTL

(* Transactions and GetConfirmations agree, and what the history shows     *)
(* fits the balance, for every tip: above the tables' heights, and below   *)
(* them after a resync by the user.                                        *)
THEOREM HistoryIsRight == Spec => []HistoryAgrees
<1>1. VInv => HistoryAgrees
  <2> SUFFICES ASSUME VInv, NEW tip \in Tips, NEW t \in Stored
               PROVE  LET shown == Transactions(tip, {})[t]
                          coins == {o \in BalanceCoins({}) : Creator[o] = t}
                          counted == \A o \in coins : Counted(o, tip, {}) = {TRUE}
                      IN  /\ shown.status # "DEAD" =>
                                shown.confirmations = GetConfirmations(t, tip)
                          /\ shown.status = "DEAD" =>
                                IF txns[t] > tip THEN counted ELSE coins = {}
                          /\ shown.confirmations > 0 => counted
    BY Zenon DEF HistoryAgrees
  <2> DEFINE shown == Transactions(tip, {})[t]
             coins == {o \in BalanceCoins({}) : Creator[o] = t}
             counted == \A o \in coins : Counted(o, tip, {}) = {TRUE}
             Agrees == /\ shown.status # "DEAD" =>
                             shown.confirmations = GetConfirmations(t, tip)
                       /\ shown.status = "DEAD" =>
                             IF txns[t] > tip THEN counted ELSE coins = {}
                       /\ shown.confirmations > 0 => counted
  <2> SUFFICES Agrees
    OBVIOUS
  <2>1. t \in Tx /\ txns[t] # None /\ txns[t] \in Heights \cup {Dead}
    BY DEF Stored, VInv, IInv, TypeOK
  <2>2. tip \in Nat /\ tip < Uint - 1 /\ MaxHeight \in Nat /\ Uint \in Nat
    BY <2>1, TxAssumption, UintAssumption DEF Tips
  <2>3. CASE txns[t] = Dead
    <3>1. Confs(t, tip) = Dead /\ Dead < 0 /\ ~(txns[t] > tip)
      BY <2>2, <2>3 DEF Confs, Dead
    <3>2. shown.status = "DEAD" /\ shown.confirmations = 0
      BY <3>1 DEF Transactions
    <3>3. coins = {}
      BY <2>3 DEF BalanceCoins, Live, VInv, IInv, NoDeadRows
    <3> HIDE DEF shown, coins, counted
    <3> QED BY <3>1, <3>2, <3>3
  <2>4. CASE txns[t] = 0
    <3>1. Confs(t, tip) = 0 /\ GetConfirmations(t, tip) = 0
      BY <2>4 DEF Confs, GetConfirmations, ConfirmationsAt
    <3>2. shown.status = "UNCONFIRMED" /\ shown.confirmations = 0
      BY <3>1 DEF Transactions
    <3> HIDE DEF shown, coins, counted
    <3> QED BY <3>1, <3>2
  <2>5. CASE txns[t] \in Heights /\ txns[t] > 0
    <3> DEFINE n == tip - txns[t] + 1
    <3>1. txns[t] \in Nat /\ txns[t] < Uint /\ MaxHeight < Uint /\ txns[t] <= MaxHeight
      BY <2>2, <2>5, UintAssumption DEF Heights
    <3>2. txns[t] % Uint = txns[t]
      BY <2>2, <3>1
    <3>3. GetConfirmations(t, tip) = n % Uint
      BY <2>5, <3>2 DEF GetConfirmations, ConfirmationsAt
    <3>4. Confs(t, tip) = n
      BY <2>5, <3>1 DEF Confs
    <3>5. n \in Int /\ n < Uint /\ -Uint < n
      BY <2>2, <2>5, <3>1
    <3>6. GetConfirmations(t, tip) > 0 => counted
      BY DEF Counted
    <3>7. CASE n > 0
      <4>1. GetConfirmations(t, tip) = n
        BY <2>2, <3>3, <3>5, <3>7
      <4> HIDE DEF n
      <4>2. shown.status # "DEAD" /\ shown.confirmations = n
        <5>1. CASE n \in 1..5
          BY <3>4, <3>5, <3>7, <5>1 DEF Transactions
        <5>2. CASE n \notin 1..5
          BY <3>4, <3>5, <3>7, <5>2 DEF Transactions
        <5> QED BY <5>1, <5>2
      <4> HIDE DEF shown, coins, counted
      <4> QED BY <3>6, <3>7, <4>1, <4>2
    <3>8. CASE n = 0
      <4>1. GetConfirmations(t, tip) = 0
        BY <2>2, <3>3, <3>8
      <4> HIDE DEF n
      <4>2. shown.status = "UNCONFIRMED" /\ shown.confirmations = 0
        BY <3>4, <3>8 DEF Transactions
      <4> HIDE DEF shown, coins, counted
      <4> QED BY <4>1, <4>2
    (* The tip is lower than the block before the transaction's own.       *)
    <3>9. CASE n < 0
      <4>1. n % Uint = n + Uint
        <5>1. n + Uint \in 0..(Uint - 1)
          BY <2>2, <3>5, <3>9
        <5> HIDE DEF n
        <5> QED BY <2>2, <3>5, <5>1
      <4>2. GetConfirmations(t, tip) > 0 /\ txns[t] > tip
        BY <2>2, <3>1, <3>3, <3>5, <3>9, <4>1
      <4> HIDE DEF n
      <4>3. shown.status = "DEAD" /\ shown.confirmations = 0
        BY <3>4, <3>9 DEF Transactions
      <4> HIDE DEF shown, coins, counted
      <4> QED BY <3>6, <4>2, <4>3
    <3> HIDE DEF Agrees, n
    <3> QED BY <3>5, <3>7, <3>8, <3>9
  <2>6. txns[t] = Dead \/ txns[t] = 0 \/ (txns[t] \in Heights /\ txns[t] > 0)
    BY <2>1 DEF Heights
  <2> HIDE DEF Agrees
  <2> QED BY <2>3, <2>4, <2>5, <2>6
<1> QED BY VInvAlways, <1>1, PTL

(* Every pending transaction that touches a row is announced again, and    *)
(* no dead one.                                                            *)
THEOREM PendingIsAnnounced == Spec => []PendingAnnounced
<1>1. VInv => PendingAnnounced
  <2> SUFFICES ASSUME VInv PROVE PendingAnnounced
    OBVIOUS
  <2>1. \A t \in GetPendingInv : Live(t)
    <3>1. 0 # None
      BY TxAssumption
    <3> QED BY <3>1 DEF GetPendingInv, VInv, IInv, NoDeadRows
  <2>2. ASSUME NEW t \in Tx, txns[t] = 0, NEW o \in Out, Creator[o] = t, utxos[o] # None
        PROVE  t \in GetPendingInv
    <3>1. utxos[o] = 0
      BY <2>2 DEF VInv, IInv, TypeOK, Heights, HeightsBacked, Confirmed
    <3> QED BY <2>2, <3>1 DEF GetPendingInv
  <2>3. ASSUME NEW t \in Tx, txns[t] = 0, NEW o \in Out, stxos[o] # None, stxos[o].spendTxid = t
        PROVE  t \in GetPendingInv
    <3>1. stxos[o].spendHeight \in Heights
      BY <2>3 DEF VInv, IInv, TypeOK, Stxo
    <3>2. stxos[o].spendHeight = 0
      BY <2>3, <3>1 DEF VInv, HeightsBacked, Confirmed, Heights
    <3> QED BY <2>3, <3>2 DEF GetPendingInv
  <2> QED BY <2>1, <2>2, <2>3 DEF PendingAnnounced
<1> QED BY VInvAlways, <1>1, PTL

(* The peers relay what the wallet has to hear of.                         *)
THEOREM FilterFollowsTables == Spec => []StoredAreRelayed
<1>1. VInv => StoredAreRelayed
  <2> SUFFICES ASSUME VInv PROVE StoredAreRelayed
    OBVIOUS
  <2>1. ASSUME NEW t \in Tx \ Filtered, Live(t) PROVE Relayed(t)
    <3>1. CASE \E o \in Ours : Creator[o] = t
      BY <3>1 DEF Relayed
    <3>2. CASE \A o \in Ours : Creator[o] # t
      <4>1. PICK o \in Out : stxos[o] # None /\ stxos[o].spendTxid = t
        BY <2>1, <3>2 DEF VInv, SpenderHasRow
      <4>2. o \in Spends[t] /\ o \in GimmeFilter
        BY <4>1 DEF VInv, IInv, SpendsRow, GimmeFilter
      <4> QED BY <4>2 DEF Relayed
    <3> QED BY <3>1, <3>2
  <2>2. ASSUME NEW t \in Tx, NEW o \in Ours, o \in Spends[t], Live(Creator[o])
        PROVE  Relayed(t)
    <3>1. o \in GimmeFilter
      BY <2>2, TxAssumption DEF VInv, IInv, RowKept, GimmeFilter
    <3> QED BY <2>2, <3>1 DEF Relayed
  <2> QED BY <2>1, <2>2 DEF StoredAreRelayed
<1> QED BY VInvAlways, <1>1, PTL

----------------------------------------------------------------------------
(***************************************************************************)
(* The recursion of checkIfStxoIsConfirmed and its closed form.  The       *)
(* coins that are checked form a set without cycles, since a transaction   *)
(* spends only outputs of earlier ones; so the closed form solves the      *)
(* recursion, and nothing else does.                                       *)
(***************************************************************************)

(* A deferred row was spent by the transaction of the coin it defers.      *)
LEMMA DeferredSpent ==
    ASSUME VInv, NEW o, NEW watched, NEW r \in Deferred(stxos, o, watched)
    PROVE  /\ r \in Rows(stxos, watched) /\ r \in Out /\ r \in Inputs(stxos, o, watched)
           /\ Creator[o] \in Tx => r \in Spends[Creator[o]]
<1>1. r \in Rows(stxos, watched) /\ r \in Out /\ r \in Inputs(stxos, o, watched)
      /\ stxos[r] # None /\ stxos[r].spendTxid = Creator[o]
  BY DEF Deferred, Inputs, Rows
<1>2. r \in Spends[Creator[o]]
  BY <1>1 DEF VInv, IInv, SpendsRow
<1> QED BY <1>1, <1>2

LEMMA VisitedClosed ==
    ASSUME NEW o \in Out, NEW watched
    PROVE  /\ o \in Visited(stxos, o, watched) /\ Visited(stxos, o, watched) \subseteq Out
           /\ \A x \in Visited(stxos, o, watched) : Deferred(stxos, x, watched) \subseteq Visited(stxos, o, watched)
<1>1. \A x : Deferred(stxos, x, watched) \subseteq Out
  BY DEF Deferred, Inputs, Rows
<1> QED BY <1>1 DEF Visited

LEMMA VisitedLeast ==
    ASSUME NEW st, NEW o, NEW watched, NEW C \in SUBSET Out, o \in C,
           \A x \in C : Deferred(st, x, watched) \subseteq C
    PROVE  Visited(st, o, watched) \subseteq C
  BY DEF Visited

(* The coins checked for o are o and those checked for its deferred rows.  *)
LEMMA VisitedUnfold ==
    ASSUME NEW o \in Out, NEW watched
    PROVE  Visited(stxos, o, watched) = {o} \cup UNION {Visited(stxos, r, watched) : r \in Deferred(stxos, o, watched)}
<1> DEFINE C == {o} \cup UNION {Visited(stxos, r, watched) : r \in Deferred(stxos, o, watched)}
<1>1. \A r \in Deferred(stxos, o, watched) : r \in Out
  BY DEF Deferred, Inputs, Rows
<1>2. C \in SUBSET Out
  BY <1>1, VisitedClosed
<1>3. ASSUME NEW x \in C PROVE Deferred(stxos, x, watched) \subseteq C
  <2>1. CASE x = o
    BY <1>1, <2>1, VisitedClosed
  <2>2. CASE x # o
    <3>1. PICK r \in Deferred(stxos, o, watched) : x \in Visited(stxos, r, watched)
      BY <2>2
    <3>2. Deferred(stxos, x, watched) \subseteq Visited(stxos, r, watched)
      BY <1>1, <3>1, VisitedClosed
    <3> QED BY <3>2
  <2> QED BY <2>1, <2>2
<1>4. Visited(stxos, o, watched) \subseteq C
  <2>1. o \in C
    OBVIOUS
  <2> HIDE DEF C
  <2> QED BY <1>2, <1>3, <2>1, VisitedLeast
<1>5. ASSUME NEW r \in Deferred(stxos, o, watched) PROVE Visited(stxos, r, watched) \subseteq Visited(stxos, o, watched)
  <2>1. r \in Visited(stxos, o, watched) /\ Visited(stxos, o, watched) \in SUBSET Out
    BY VisitedClosed
  <2>2. \A x \in Visited(stxos, o, watched) : Deferred(stxos, x, watched) \subseteq Visited(stxos, o, watched)
    BY VisitedClosed
  <2> QED BY <2>1, <2>2, VisitedLeast
<1>6. C \subseteq Visited(stxos, o, watched)
  BY <1>5, VisitedClosed
<1> QED BY <1>4, <1>6

(* The question never comes back to the coin it started from.              *)
LEMMA VisitedAcyclic ==
    ASSUME VInv, NEW o \in Out, NEW watched, NEW r \in Deferred(stxos, o, watched)
    PROVE  o \notin Visited(stxos, r, watched)
<1> SUFFICES ASSUME o \in Visited(stxos, r, watched) PROVE FALSE
  OBVIOUS
<1> DEFINE V == {x \in Visited(stxos, r, watched) : o \in Visited(stxos, x, watched)}
           C == {Creator[x] : x \in V}
<1>1. r \in Out
  BY DeferredSpent
<1>2. V \subseteq Out /\ r \in V
  BY <1>1, VisitedClosed
<1>3. ASSUME NEW x \in V PROVE \E y \in V : y \in Deferred(stxos, x, watched)
  <2>1. CASE x = o
    BY <1>2, <2>1
  <2>2. CASE x # o
    <3>1. PICK y \in Deferred(stxos, x, watched) : o \in Visited(stxos, y, watched)
      BY <1>2, <2>2, VisitedUnfold
    <3>2. y \in Visited(stxos, r, watched)
      BY <1>1, <3>1, VisitedClosed
    <3> QED BY <3>1, <3>2
  <2> QED BY <2>1, <2>2
<1>4. C \in SUBSET Tx /\ Creator[r] \in C
  BY <1>2, TxAssumption
<1>5. PICK t \in C : \A p \in Spends[t] : Creator[p] \notin C
  BY <1>4, AncestryAssumption
<1>6. PICK x \in V : t = Creator[x]
  OBVIOUS
<1>7. PICK y \in V : y \in Deferred(stxos, x, watched)
  BY <1>3
<1>8. y \in Spends[Creator[x]]
  BY <1>2, <1>7, DeferredSpent, TxAssumption
<1> QED BY <1>5, <1>6, <1>8

(* One call: its own answers, and those of the rows it defers to.          *)
LEMMA DecideSplit ==
    ASSUME VInv, NEW o, NEW at, NEW watched, NEW deeper
    PROVE  Decide(o, at, watched, deeper)
             = Answers(stxos, o, at, watched) \cup UNION {deeper[r] : r \in Deferred(stxos, o, watched)}
<1> DEFINE rows == {r \in Rows(stxos, watched) :
                        stxos[r].spendTxid = Creator[o] \/ (r = o /\ stxos[r].atHeight = at)}
           decides(r) == IF stxos[r].spendTxid # Creator[o] THEN {OwnRow(r, at)}
                         ELSE IF stxos[r].spendHeight > 0 THEN {TRUE}
                         ELSE deeper[r]
           I == Inputs(stxos, o, watched)
           D == Deferred(stxos, o, watched)
           W == OwnRows(stxos, o, at, watched)
<1>1. rows = I \cup W /\ D \subseteq I /\ I \cap W = {}
  BY DEF Inputs, OwnRows, Deferred
<1>2. \A r \in W : decides(r) = {OwnRow(r, at)}
  BY DEF OwnRows, Inputs
<1>3. \A r \in I \ D : decides(r) = {TRUE}
  <2>1. ASSUME NEW r \in I \ D PROVE stxos[r].spendHeight > 0 /\ stxos[r].spendTxid = Creator[o]
    <3>1. r \in Out /\ stxos[r] # None /\ stxos[r].spendTxid = Creator[o] /\ ~(stxos[r].spendHeight <= 0)
      BY DEF Inputs, Deferred, Rows
    <3>2. stxos[r].spendHeight \in Int
      BY <3>1, TxAssumption DEF VInv, IInv, TypeOK, Stxo, Heights
    <3> QED BY <3>1, <3>2
  <2> QED BY <2>1
<1>4. \A r \in D : decides(r) = deeper[r]
  <2>1. ASSUME NEW r \in D PROVE ~(stxos[r].spendHeight > 0) /\ stxos[r].spendTxid = Creator[o]
    <3>1. r \in Out /\ stxos[r] # None /\ stxos[r].spendTxid = Creator[o] /\ stxos[r].spendHeight <= 0
      BY DEF Inputs, Deferred, Rows
    <3>2. stxos[r].spendHeight \in Int
      BY <3>1, TxAssumption DEF VInv, IInv, TypeOK, Stxo, Heights
    <3> QED BY <3>1, <3>2
  <2> QED BY <2>1
<1>5. Decide(o, at, watched, deeper) = IF rows = {} THEN {FALSE} ELSE UNION {decides(r) : r \in rows}
  BY DEF Decide
<1>6. Answers(stxos, o, at, watched) = IF I \cup W = {} THEN {FALSE}
                                ELSE {OwnRow(r, at) : r \in W} \cup {TRUE : r \in I \ D}
  BY DEF Answers
<1> HIDE DEF rows, decides, I, D, W
<1>7. CASE I \cup W = {}
  BY <1>1, <1>5, <1>6, <1>7 DEF D
<1>8. CASE I \cup W # {}
  <2>1. UNION {decides(r) : r \in I \cup W}
          = {OwnRow(r, at) : r \in W} \cup {TRUE : r \in I \ D} \cup UNION {deeper[r] : r \in D}
    <3> DEFINE A == {OwnRow(r, at) : r \in W} \cup {TRUE : r \in I \ D} \cup UNION {deeper[r] : r \in D}
    <3>1. ASSUME NEW r \in I \cup W, NEW z \in decides(r) PROVE z \in A
      <4>1. CASE r \in W
        BY <1>2, <3>1, <4>1
      <4>2. CASE r \in I \ D
        BY <1>3, <3>1, <4>2
      <4>3. CASE r \in D
        BY <1>4, <3>1, <4>3
      <4> QED BY <4>1, <4>2, <4>3
    <3>2. ASSUME NEW z \in A PROVE \E r \in I \cup W : z \in decides(r)
      <4>1. CASE \E r \in W : z = OwnRow(r, at)
        BY <1>2, <4>1
      <4>2. CASE z = TRUE /\ \E r \in I \ D : TRUE
        BY <1>3, <4>2
      <4>3. CASE \E r \in D : z \in deeper[r]
        BY <1>1, <1>4, <4>3
      <4> QED BY <4>1, <4>2, <4>3
    <3> HIDE DEF A
    <3>3. UNION {decides(r) : r \in I \cup W} = A
      BY <3>1, <3>2
    <3> QED BY <3>3 DEF A
  <2> QED BY <1>1, <1>5, <1>6, <1>8, <2>1 DEF D
<1> QED BY <1>7, <1>8

(* The answers of the coins that are checked for the row r.                *)
RowAnswers(r, watched) ==
    UNION {Answers(stxos, x, stxos[x].atHeight, watched) : x \in Visited(stxos, r, watched)}

LEMMA RowClosedForm ==
    ASSUME NEW r, NEW watched
    PROVE  ConfirmedAnswers(stxos, r, stxos[r].atHeight, watched) = RowAnswers(r, watched)
<1>1. \A x : (IF x = r THEN stxos[r].atHeight ELSE stxos[x].atHeight) = stxos[x].atHeight
  OBVIOUS
<1> QED BY <1>1 DEF ConfirmedAnswers, RowAnswers

(* The closed form solves the recursion.                                   *)
LEMMA ClosedUnfold ==
    ASSUME VInv, NEW o \in Out, NEW at, NEW watched
    PROVE  ConfirmedAnswers(stxos, o, at, watched)
             = Answers(stxos, o, at, watched)
                 \cup UNION {RowAnswers(r, watched) : r \in Deferred(stxos, o, watched)}
<1> DEFINE a(x) == Answers(stxos, x, IF x = o THEN at ELSE stxos[x].atHeight, watched)
           D == Deferred(stxos, o, watched)
<1>1. Visited(stxos, o, watched) = {o} \cup UNION {Visited(stxos, r, watched) : r \in D}
  BY VisitedUnfold
<1>2. a(o) = Answers(stxos, o, at, watched)
  OBVIOUS
<1>3. \A r \in D : \A x \in Visited(stxos, r, watched) : a(x) = Answers(stxos, x, stxos[x].atHeight, watched)
  BY VisitedAcyclic
<1>4. ConfirmedAnswers(stxos, o, at, watched) = UNION {a(x) : x \in Visited(stxos, o, watched)}
  BY DEF ConfirmedAnswers
<1> HIDE DEF a, D
<1>5. UNION {a(x) : x \in Visited(stxos, o, watched)} = a(o) \cup UNION {RowAnswers(r, watched) : r \in D}
  BY <1>1, <1>3 DEF RowAnswers
<1> QED BY <1>2, <1>4, <1>5 DEF D

(* No other function solves it.                                            *)
LEMMA RecursionUnique ==
    ASSUME VInv, NEW watched, NEW f,
           f = [r \in Rows(stxos, watched) |-> Decide(r, stxos[r].atHeight, watched, f)]
    PROVE  \A r \in Rows(stxos, watched) : f[r] = RowAnswers(r, watched)
<1> DEFINE B == {r \in Rows(stxos, watched) : f[r] # RowAnswers(r, watched)}
           C == {Creator[r] : r \in B}
<1> SUFFICES ASSUME B # {} PROVE FALSE
  OBVIOUS
<1>1. B \subseteq Out
  BY DEF Rows
<1>2. C \in SUBSET Tx /\ C # {}
  BY <1>1, TxAssumption
<1>3. PICK t \in C : \A p \in Spends[t] : Creator[p] \notin C
  BY <1>2, AncestryAssumption
<1>4. PICK r \in B : t = Creator[r]
  OBVIOUS
<1>5. \A y \in Deferred(stxos, r, watched) : f[y] = RowAnswers(y, watched)
  <2> TAKE y \in Deferred(stxos, r, watched)
  <2>1. y \in Rows(stxos, watched) /\ y \in Spends[t]
    BY <1>1, <1>4, DeferredSpent, TxAssumption
  <2>2. y \notin B
    BY <1>3, <2>1
  <2> QED BY <2>1, <2>2
<1>6. f[r] = Decide(r, stxos[r].atHeight, watched, f)
  <2>1. r \in Rows(stxos, watched)
    OBVIOUS
  <2> QED BY <2>1
<1>7. f[r] = Answers(stxos, r, stxos[r].atHeight, watched)
                \cup UNION {f[y] : y \in Deferred(stxos, r, watched)}
  BY <1>6, DecideSplit
<1>8. RowAnswers(r, watched) = Answers(stxos, r, stxos[r].atHeight, watched)
                \cup UNION {RowAnswers(y, watched) : y \in Deferred(stxos, r, watched)}
  BY <1>1, ClosedUnfold, RowClosedForm
<1>9. UNION {f[y] : y \in Deferred(stxos, r, watched)}
        = UNION {RowAnswers(y, watched) : y \in Deferred(stxos, r, watched)}
  BY <1>5
<1> QED BY <1>7, <1>8, <1>9

(* checkIfStxoIsConfirmed ends and answers what its closed form says, in   *)
(* every reachable store, for any set of watch-only coins and any order of *)
(* the rows: the answers of a coin are those of the coins it descends from *)
(* along unconfirmed spends.                                               *)
THEOREM CheckIsExact == Spec => []CheckExact
<1>1. VInv => CheckExact
  <2> SUFFICES ASSUME VInv, NEW watched \in SUBSET Ours, NEW o \in BalanceCoins(watched)
               PROVE  checkIfStxoIsConfirmed(o, utxos[o], watched)
                        = ConfirmedAnswers(stxos, o, utxos[o], watched)
    BY DEF CheckExact
  <2> DEFINE Solves(f) == f = [r \in Rows(stxos, watched) |-> Decide(r, stxos[r].atHeight, watched, f)]
             g == [r \in Rows(stxos, watched) |-> RowAnswers(r, watched)]
             check == CHOOSE f : Solves(f)
  <2>1. o \in Out
    BY DEF BalanceCoins
  <2>2. \A x, at, f : (\A r \in Rows(stxos, watched) : f[r] = RowAnswers(r, watched)) /\ x \in Out
            => Decide(x, at, watched, f) = ConfirmedAnswers(stxos, x, at, watched)
    <3> SUFFICES ASSUME NEW x \in Out, NEW at, NEW f,
                        \A r \in Rows(stxos, watched) : f[r] = RowAnswers(r, watched)
                 PROVE  Decide(x, at, watched, f) = ConfirmedAnswers(stxos, x, at, watched)
      OBVIOUS
    <3>1. UNION {f[r] : r \in Deferred(stxos, x, watched)}
            = UNION {RowAnswers(r, watched) : r \in Deferred(stxos, x, watched)}
      BY DeferredSpent
    <3>2. Decide(x, at, watched, f)
            = Answers(stxos, x, at, watched) \cup UNION {f[r] : r \in Deferred(stxos, x, watched)}
      BY DecideSplit
    <3>3. ConfirmedAnswers(stxos, x, at, watched)
            = Answers(stxos, x, at, watched)
                \cup UNION {RowAnswers(r, watched) : r \in Deferred(stxos, x, watched)}
      BY ClosedUnfold
    <3> QED BY <3>1, <3>2, <3>3
  <2>3. \A r \in Rows(stxos, watched) : g[r] = RowAnswers(r, watched)
    OBVIOUS
  <2>4. \A r \in Rows(stxos, watched) : r \in Out
    BY DEF Rows
  <2> HIDE DEF g
  <2>5. \A r \in Rows(stxos, watched) : Decide(r, stxos[r].atHeight, watched, g) = RowAnswers(r, watched)
    BY <2>2, <2>3, <2>4, RowClosedForm
  <2>6. Solves(g)
    BY <2>5 DEF g
  <2>7. Solves(check)
    <3> HIDE DEF Solves
    <3> QED BY <2>6
  <2> HIDE DEF check
  <2>8. \A r \in Rows(stxos, watched) : check[r] = RowAnswers(r, watched)
    BY <2>7, RecursionUnique
  <2>9. Decide(o, utxos[o], watched, check) = ConfirmedAnswers(stxos, o, utxos[o], watched)
    BY <2>1, <2>2, <2>8
  <2>10. checkIfStxoIsConfirmed(o, utxos[o], watched) = Decide(o, utxos[o], watched, check)
    BY DEF checkIfStxoIsConfirmed, check
  <2> QED BY <2>9, <2>10
<1> QED BY <1>1, VInvAlways, PTL

----------------------------------------------------------------------------
(***************************************************************************)
(* Balance in a goroutine of its own.  In the middle of a call the tables  *)
(* differ from those the call found only in rows of transactions the call  *)
(* touches, so whatever the reader picks up of other transactions was in   *)
(* tables for which VInv holds.                                            *)
(***************************************************************************)

(* The store with its writes one by one is that of MarkAsDead.             *)
MarkSafety == MarkInit /\ [][MarkNext]_<<vars, markVars>>

IngestType == [written : {"outputs", "rows"}, tx : Tx, height : Heights,
               u : [Out -> Heights \cup {None}], s : [Out -> Stxo \cup {None}],
               inputs : SUBSET Out]

IngestOK ==
    ingest # NoIngest =>
        /\ ingest \in IngestType
        /\ \A o \in Out : ingest.u[o] # None =>
              Creator[o] = ingest.tx \/ ingest.u[o] = Marked.u[o]
        /\ \A o \in Out : ingest.s[o] # None =>
              ingest.s[o].spendTxid = ingest.tx \/ ingest.s[o] = Marked.s[o]

(* The rows of st that no call touches are those the call found.           *)
RowsKnown(st) ==
    \A r \in Out : st[r] # None /\ st[r].spendTxid \notin Touched => st[r] = stxos[r]

LEMMA MarkedTables ==
    ASSUME VInv, MarkInv
    PROVE  /\ Marked \in TableType
           /\ \A o \in Out : Marked.s[o] # None => Marked.s[o] = stxos[o]
           /\ \A o \in Out : Marked.u[o] # None /\ Creator[o] \notin Doomed(Killed) =>
                 \/ Marked.u[o] = utxos[o]
                 \/ stxos[o] # None /\ Marked.u[o] = stxos[o].atHeight
           /\ \A t \in Tx \ Doomed(Killed) : Marked.t[t] = txns[t]
<1> DEFINE D == Doomed(Killed)
<1>1. CASE call = NoCall
  BY <1>1 DEF Marked, Tables, TableType, VInv, IInv, TypeOK
<1>2. CASE call # NoCall
  <2>1. Marked = tables /\ TablesOK(Tables, tables, stack, D, {})
    BY <1>2 DEF Marked, MarkInv, Good
  <2>2. Tables.s = stxos /\ Tables.u = utxos /\ Tables.t = txns
    BY DEF Tables
  <2>3. Marked \in TableType
    BY <2>1 DEF TablesOK
  <2>4. \A o \in Out : Marked.s[o] # None => Marked.s[o] = stxos[o]
    BY <2>1, <2>2 DEF TablesOK
  <2>5. \A o \in Out : Marked.u[o] # None /\ Creator[o] \notin D =>
                 \/ Marked.u[o] = utxos[o]
                 \/ stxos[o] # None /\ Marked.u[o] = stxos[o].atHeight
    BY <2>1, <2>2 DEF TablesOK, Gone
  <2>6. \A t \in Tx \ D : Marked.t[t] = txns[t]
    BY <2>1, <2>2 DEF TablesOK
  <2> QED BY <2>3, <2>4, <2>5, <2>6
<1> QED BY <1>1, <1>2

(* What the reader finds of transactions no call touches.                  *)
LEMMA LiveTables ==
    ASSUME VInv, MarkInv, IngestOK
    PROVE  /\ \A o \in Out : live.u[o] # None =>
                 /\ live.u[o] \in Heights
                 /\ Creator[o] \notin Touched =>
                       Live(Creator[o]) /\ (live.u[o] > 0 => Confirmed(Creator[o]))
           /\ live.s \in [Out -> Stxo \cup {None}] /\ RowsKnown(live.s)
           /\ \A t \in Tx \ Touched : live.t[t] = txns[t]
<1> DEFINE D == Doomed(Killed)
<1>1. D \subseteq Touched /\ (ingest # NoIngest => ingest.tx \in Touched)
  BY DEF Touched
<1>2. ASSUME NEW o \in Out, live.u[o] # None
      PROVE  /\ live.u[o] \in Heights
             /\ Creator[o] \notin Touched => live.u[o] = Marked.u[o]
  BY <1>1, <1>2, MarkedTables DEF live, IngestOK, IngestType, TableType
<1>3. ASSUME NEW o \in Out, live.u[o] # None, Creator[o] \notin Touched
      PROVE  Live(Creator[o]) /\ (live.u[o] > 0 => Confirmed(Creator[o]))
  <2>1. \/ live.u[o] = utxos[o]
        \/ stxos[o] # None /\ live.u[o] = stxos[o].atHeight
    BY <1>1, <1>2, <1>3, MarkedTables
  <2> QED BY <1>3, <2>1 DEF VInv, IInv, NoDeadRows, HeightsBacked
<1>4. live.s \in [Out -> Stxo \cup {None}] /\ RowsKnown(live.s)
  <2>1. CASE ingest = NoIngest
    BY <2>1, MarkedTables DEF live, TableType, RowsKnown
  <2>2. CASE ingest # NoIngest
    <3>1. live.s = ingest.s /\ ingest.s \in [Out -> Stxo \cup {None}]
      BY <2>2 DEF live, IngestOK, IngestType
    <3>2. \A r \in Out : ingest.s[r] # None /\ ingest.s[r].spendTxid \notin Touched
                            => ingest.s[r] = stxos[r]
      BY <1>1, <2>2, MarkedTables DEF IngestOK
    <3> QED BY <3>1, <3>2 DEF RowsKnown
  <2> QED BY <2>1, <2>2
<1>5. \A t \in Tx \ Touched : live.t[t] = txns[t]
  BY <1>1, MarkedTables DEF live
<1> QED BY <1>2, <1>3, <1>4, <1>5
LEMMA StxosReadKnown ==
    ASSUME VInv, MarkInv, IngestOK, NEW s \in StxosRead
    PROVE  s \in [Out -> Stxo \cup {None}] /\ RowsKnown(s)
<1>1. live.s \in [Out -> Stxo \cup {None}] /\ RowsKnown(live.s)
  BY LiveTables
<1>2. CASE s = live.s
  BY <1>1, <1>2
<1>3. CASE s # live.s
  <2>1. stack # <<>> /\ \E row \in Top.rows : s = [live.s EXCEPT ![row.op] = None]
    BY <1>3, Zenon DEF StxosRead
  <2>2. PICK row \in Top.rows : s = [live.s EXCEPT ![row.op] = None]
    BY <2>1
  <2>3. \A r \in Out : s[r] = None \/ s[r] = live.s[r]
    BY <1>1, <2>2
  <2>4. s \in [Out -> Stxo \cup {None}]
    BY <1>1, <2>2
  <2> HIDE DEF live
  <2> QED BY <1>1, <2>3, <2>4 DEF RowsKnown
<1> QED BY <1>2, <1>3

(* A coin that is not backed stays unconfirmed in checkIfStxoIsConfirmed.  *)
LEMMA NotConfirmed ==
    ASSUME VInv, NEW st \in [Out -> Stxo \cup {None}], RowsKnown(st), NEW o \in Out, ~Backed(o),
           NEW at \in Heights, ~(at > 0), NEW watched
    PROVE  TRUE \notin ConfirmedAnswers(st, o, at, watched)
<1> DEFINE A == Ancestry(Creator[o])
           C == {y \in Out : Creator[y] \in A}
<1>1. \A t \in A : ~Confirmed(t) /\ t \notin Touched
  BY DEF Backed
<1>2. o \in C
  BY TxAssumption DEF Ancestry
<1>3. ASSUME NEW y \in C, NEW r \in Inputs(st, y, watched)
      PROVE  /\ r \in Out /\ st[r] = stxos[r] /\ stxos[r] # None /\ stxos[r] \in Stxo
             /\ stxos[r].spendTxid = Creator[y] /\ Creator[r] \in A
  <2>1. r \in Out /\ st[r] # None /\ st[r].spendTxid = Creator[y] /\ Creator[y] \in A
    BY <1>3 DEF Inputs, Rows
  <2>2. st[r] = stxos[r] /\ stxos[r] \in Stxo
    BY <1>1, <2>1 DEF RowsKnown
  <2>3. r \in Spends[Creator[y]]
    BY <2>1, <2>2 DEF VInv, IInv, SpendsRow
  <2>4. Creator[r] \in Tx /\ Creator[r] \in Parents(Creator[y])
    BY <2>1, <2>2, <2>3, TxAssumption DEF Parents
  <2>5. Creator[r] \in A
    BY <2>1, <2>4 DEF Ancestry
  <2> QED BY <2>1, <2>2, <2>5
<1>4. \A y \in C : Deferred(st, y, watched) \subseteq C
  BY <1>3 DEF Deferred
<1>5. ASSUME NEW x \in C, NEW h \in Heights, x = o => h = at, TRUE \in Answers(st, x, h, watched),
             x # o => st[x] # None /\ st[x].atHeight = h /\ st[x] = stxos[x]
      PROVE  FALSE
  <2>1. \/ \E r \in OwnRows(st, x, h, watched) : OwnRow(r, h)
        \/ \E r \in Inputs(st, x, watched) : r \notin Deferred(st, x, watched)
    BY <1>5 DEF Answers
  <2>2. x \in Out /\ Creator[x] \in A /\ ~Confirmed(Creator[x])
    BY <1>1
  <2>3. ~(h > 0)
    BY <1>5, <2>2 DEF VInv, HeightsBacked
  <2>4. PICK r \in Inputs(st, x, watched) : r \notin Deferred(st, x, watched)
    BY <2>1, <2>3 DEF OwnRow
  <2>5. stxos[r].spendTxid = Creator[x] /\ stxos[r] \in Stxo /\ st[r] = stxos[r] /\ r \in Out
        /\ stxos[r] # None
    BY <1>3, <2>4
  <2>6. stxos[r].spendHeight \in Heights /\ ~(stxos[r].spendHeight <= 0)
    BY <2>4, <2>5 DEF Deferred, Stxo
  <2>7. stxos[r].spendHeight > 0
    BY <2>6 DEF Heights
  <2> QED BY <2>2, <2>5, <2>7 DEF VInv, HeightsBacked
(* Past o itself the loop comes only to rows it deferred to.               *)
<1> DEFINE B == {y \in C : y = o \/ (st[y] # None /\ st[y] = stxos[y])}
<1>6. \A y \in B : Deferred(st, y, watched) \subseteq B
  BY <1>3, <1>4 DEF Deferred
<1>7. Visited(st, o, watched) \subseteq B
  <2>1. o \in B /\ B \in SUBSET Out
    BY <1>2
  <2> HIDE DEF B
  <2> QED BY <1>6, <2>1, VisitedLeast
<1>8. ASSUME NEW x \in Visited(st, o, watched),
             TRUE \in Answers(st, x, IF x = o THEN at ELSE st[x].atHeight, watched)
      PROVE  FALSE
  <2> DEFINE h == IF x = o THEN at ELSE st[x].atHeight
  <2>1. x \in C /\ (x # o => st[x] # None /\ st[x] = stxos[x])
    BY <1>7
  <2>2. x \in Out /\ (x # o => st[x] \in Stxo)
    BY <2>1
  <2>3. h \in Heights
    BY <2>2 DEF Stxo
  <2>4. (x = o => h = at) /\ (x # o => st[x].atHeight = h)
    OBVIOUS
  <2> HIDE DEF h, C
  <2> QED BY <1>5, <1>8, <2>1, <2>3, <2>4 DEF h
<1> QED BY <1>8 DEF ConfirmedAnswers

(* Every step of the store is one of MarkAsDead, or between two of them.   *)
LEMMA StoreStep ==
    ASSUME IngestOK, ReaderNext
    PROVE  [MarkNext]_<<vars, markVars>>
<1>1. CASE ReadUtxos \/ ReadStxos \/ CountCoin \/ Return
  BY <1>1 DEF ReadUtxos, ReadStxos, CountCoin, Return
<1>2. CASE (\E tx \in Tx, height \in Heights : PutOutputs(tx, height)) \/ MoveInput \/ PutSpendHeight
  BY <1>2 DEF PutOutputs, MoveInput, PutSpendHeight
<1>3. CASE PutTxn
  <2>1. ingest.tx \in Tx /\ ingest.height \in Heights
    BY <1>3 DEF PutTxn, IngestOK, IngestType
  <2>2. EndIngest \/ PlainIngest(ingest.tx, ingest.height)
    BY <1>3 DEF PutTxn
  <2> QED BY <2>1, <2>2 DEF MarkNext, Marking
<1>4. CASE OtherCalls
  BY <1>4 DEF OtherCalls, MarkNext, Marking
<1> QED BY <1>1, <1>2, <1>3, <1>4 DEF ReaderNext, StoreMoves

LEMMA IngestStepOK ==
    ASSUME VInv, MarkInv, IngestOK, ReaderNext
    PROVE  IngestOK'
<1>1. CASE ReadUtxos \/ ReadStxos \/ CountCoin \/ Return
  <2>1. UNCHANGED <<vars, markVars, ingest>>
    BY <1>1 DEF ReadUtxos, ReadStxos, CountCoin, Return
  <2> QED BY <2>1 DEF IngestOK, Marked, Tables, vars, markVars
<1>2. ASSUME NEW tx \in Tx, NEW height \in Heights, PutOutputs(tx, height)
      PROVE  IngestOK'
  <2> DEFINE u == [o \in Out |-> IF o \in Ours /\ Creator[o] = tx THEN height ELSE Marked.u[o]]
  <2>1. /\ ingest' = [written |-> "outputs", tx |-> tx, height |-> height, u |-> u, s |-> Marked.s,
                      inputs |-> {o \in Spends[tx] : u[o] # None}]
        /\ UNCHANGED <<vars, markVars>>
    BY <1>2 DEF PutOutputs
  <2>2. Marked' = Marked
    BY <2>1 DEF Marked, Tables, vars, markVars
  <2>3. Marked.u \in [Out -> Heights \cup {None}] /\ Marked.s \in [Out -> Stxo \cup {None}]
    BY MarkedTables DEF TableType
  <2>4. u \in [Out -> Heights \cup {None}]
    BY <2>3
  <2>5. {o \in Spends[tx] : u[o] # None} \in SUBSET Out
    BY TxAssumption
  <2>6. \A o \in Out : Creator[o] = tx \/ u[o] = Marked.u[o]
    OBVIOUS
  <2> HIDE DEF u
  <2>7. ingest' \in IngestType
    BY <2>1, <2>3, <2>4, <2>5 DEF IngestType
  <2>8. ingest'.u = u /\ ingest'.s = Marked.s /\ ingest'.tx = tx
    BY <2>1
  <2> QED BY <2>2, <2>6, <2>7, <2>8 DEF IngestOK
<1>3. CASE MoveInput
  <2>1. /\ ingest # NoIngest /\ ingest \in IngestType
        /\ UNCHANGED <<vars, markVars>>
    BY <1>3 DEF MoveInput, IngestOK
  <2>2. Marked' = Marked
    BY <2>1 DEF Marked, Tables, vars, markVars
  <2>3. PICK o \in InputsLeft :
           ingest' = [ingest EXCEPT !.u[o] = None,
                        !.s[o] = [atHeight |-> ingest.u[o], spendHeight |-> ingest.height,
                                  spendTxid |-> ingest.tx]]
    BY <1>3 DEF MoveInput
  <2> DEFINE row == [atHeight |-> ingest.u[o], spendHeight |-> ingest.height,
                     spendTxid |-> ingest.tx]
             u == [ingest.u EXCEPT ![o] = None]
             s == [ingest.s EXCEPT ![o] = row]
  <2>4. o \in Out /\ ingest.u[o] \in Heights /\ ingest.height \in Heights /\ ingest.tx \in Tx
    BY <2>1 DEF InputsLeft, IngestType
  <2>5. row \in Stxo /\ row.spendTxid = ingest.tx
    BY <2>4 DEF Stxo
  <2>6. /\ u \in [Out -> Heights \cup {None}] /\ u[o] = None
        /\ \A q \in Out : q # o => u[q] = ingest.u[q]
    BY <2>1, <2>4 DEF IngestType
  <2>7. /\ s \in [Out -> Stxo \cup {None}] /\ s[o] = row
        /\ \A q \in Out : q # o => s[q] = ingest.s[q]
    BY <2>1, <2>4, <2>5 DEF IngestType
  <2>8. ingest' = [ingest EXCEPT !.u = u, !.s = s]
    BY <2>1, <2>3 DEF IngestType
  <2> HIDE DEF row, u, s
  <2>9. ingest' \in IngestType /\ ingest'.u = u /\ ingest'.s = s /\ ingest'.tx = ingest.tx
    BY <2>1, <2>6, <2>7, <2>8 DEF IngestType
  <2>10. \A q \in Out : u[q] # None => Creator[q] = ingest.tx \/ u[q] = Marked.u[q]
    BY <2>1, <2>6 DEF IngestOK
  <2>11. \A q \in Out : s[q] # None => s[q].spendTxid = ingest.tx \/ s[q] = Marked.s[q]
    BY <2>1, <2>5, <2>7 DEF IngestOK
  <2> QED BY <2>2, <2>9, <2>10, <2>11 DEF IngestOK
<1>4. CASE PutSpendHeight
  <2>1. /\ ingest # NoIngest /\ ingest \in IngestType
        /\ UNCHANGED <<vars, markVars>>
    BY <1>4 DEF PutSpendHeight, IngestOK
  <2>2. Marked' = Marked
    BY <2>1 DEF Marked, Tables, vars, markVars
  <2> DEFINE older == {o \in Out \ ingest.inputs : ingest.s[o] # None
                                                   /\ ingest.s[o].spendTxid = ingest.tx}
             st == ingest.s
  <2>3. PICK s \in SpendHeightUpdates(st, older, ingest.height) :
           ingest' = [ingest EXCEPT !.written = "rows", !.s = s]
    BY <1>4 DEF PutSpendHeight
  <2>4. st \in [Out -> Stxo \cup {None}] /\ older \in SUBSET {o \in Out : st[o] # None}
        /\ ingest.height \in Heights
    BY <2>1 DEF IngestType
  <2>5. \A o \in older : st[o] # None /\ st[o].spendTxid = ingest.tx /\ o \in Out
    OBVIOUS
  <2>6. /\ s \in [Out -> Stxo \cup {None}]
        /\ \A o \in Out : s[o] = st[o] \/ s[o].spendTxid = ingest.tx
    <3> HIDE DEF st, older
    <3>1. CASE s = st
      BY <2>4, <3>1
    <3>2. CASE s # st
      <4>1. PICK q \in older : s = [st EXCEPT ![q].spendHeight = ingest.height]
        BY <2>3, <3>2 DEF SpendHeightUpdates
      <4>2. q \in Out /\ st[q] \in Stxo /\ st[q].spendTxid = ingest.tx
        BY <2>4, <2>5
      <4>3. s = [st EXCEPT ![q] = [st[q] EXCEPT !.spendHeight = ingest.height]]
        BY <2>4, <4>1, <4>2
      <4>4. /\ [st[q] EXCEPT !.spendHeight = ingest.height] \in Stxo
            /\ [st[q] EXCEPT !.spendHeight = ingest.height].spendTxid = ingest.tx
        BY <2>4, <4>2 DEF Stxo
      <4> QED BY <2>4, <4>2, <4>3, <4>4
    <3> QED BY <3>1, <3>2
  <2> HIDE DEF older
  <2>7. ingest' \in IngestType /\ ingest'.u = ingest.u /\ ingest'.s = s /\ ingest'.tx = ingest.tx
    BY <2>1, <2>3, <2>6 DEF IngestType
  <2>8. \A q \in Out : s[q] # None => s[q].spendTxid = ingest.tx \/ s[q] = Marked.s[q]
    BY <2>1, <2>6 DEF IngestOK
  <2> QED BY <2>1, <2>2, <2>7, <2>8 DEF IngestOK
<1>5. CASE PutTxn \/ OtherCalls
  BY <1>5 DEF PutTxn, OtherCalls, IngestOK
<1> QED BY <1>1, <1>2, <1>3, <1>4, <1>5 DEF ReaderNext, StoreMoves

(* A coin that was never backed since the utxos were read belongs to a     *)
(* valid transaction still, has no height and is not called confirmed.     *)
ReaderOK ==
    \/ reader = Idle
    \/ /\ reader \in [step : {"utxos", "stxos", "counted"}, coin : Out, at : Heights,
                      confirmed : BOOLEAN, backed : BOOLEAN]
       /\ ~reader.backed =>
             /\ ~reader.confirmed
             /\ reader.step # "counted" =>
                   /\ ~Backed(reader.coin) /\ Live(Creator[reader.coin])
                   /\ ~(reader.at > 0)

RInv == VInv /\ MarkInv /\ IngestOK /\ ReaderOK

LEMMA Untouched ==
    ASSUME NEW o \in Out, ~Backed(o)
    PROVE  Creator[o] \in Tx /\ Creator[o] \notin Touched /\ ~Confirmed(Creator[o])
<1>1. Creator[o] \in Ancestry(Creator[o]) /\ Creator[o] \in Tx
  BY TxAssumption DEF Ancestry
<1> QED BY <1>1 DEF Backed

(* A transaction no call touches stays valid.                              *)
LEMMA StaysLive ==
    ASSUME VInv, MarkInv, IngestOK, NEW t \in Tx, t \notin Touched, Live(t),
           \/ \E tx \in Tx, height \in Heights : PutOutputs(tx, height)
           \/ MoveInput \/ PutSpendHeight \/ PutTxn \/ OtherCalls
    PROVE  Live(t)'
<1>1. Marked.t[t] = txns[t]
  BY MarkedTables DEF Touched
<1>2. CASE UNCHANGED txns
  BY <1>2 DEF Live
<1>3. CASE EndReorg
  <2>1. txns' = Marked.t
    BY <1>3 DEF EndReorg, AllMarked, Marked
  <2> QED BY <1>1, <2>1 DEF Live
<1>4. CASE PutTxn
  <2>1. ingest.height \in Heights
    BY <1>4 DEF PutTxn, IngestOK, IngestType
  <2>2. CASE EndIngest
    <3>1. call # NoCall /\ Marked = tables /\ call.height \in Heights
      BY <2>2 DEF EndIngest, AllMarked, Marked, MarkInv, CallOK
    <3>2. txns'[t] = call.height \/ txns'[t] = tables.t[t]
      BY <2>2 DEF EndIngest, IngestInto
    <3> QED BY <1>1, <3>1, <3>2, TxAssumption DEF Live, Heights, Dead
  <2>3. CASE PlainIngest(ingest.tx, ingest.height)
    <3>1. txns'[t] = ingest.height \/ txns'[t] = txns[t]
      BY <2>3 DEF PlainIngest, IngestInto
    <3> QED BY <2>1, <3>1, TxAssumption DEF Live, Heights, Dead
  <2> QED BY <1>4, <2>2, <2>3 DEF PutTxn
<1>5. ASSUME ~PutTxn, ~EndReorg PROVE UNCHANGED txns
  BY <1>5 DEF PutOutputs, MoveInput, PutSpendHeight, OtherCalls, vars, BeginReorg, BeginIngest,
              Begin, CallMark, HandleRow, DropOutputs, Refresh, PopulateAdrs, NewTxStore
<1> QED BY <1>2, <1>3, <1>4, <1>5

LEMMA ReaderStep ==
    ASSUME RInv, ReaderNext
    PROVE  ReaderOK'
<1> DEFINE R == [step : {"utxos", "stxos", "counted"}, coin : Out, at : Heights,
                 confirmed : BOOLEAN, backed : BOOLEAN]
<1>1. ASSUME reader # Idle PROVE reader \in R
  BY <1>1 DEF RInv, ReaderOK
<1>2. CASE ReadUtxos
  <2>1. PICK o \in Out :
          /\ live.u[o] # None
          /\ reader' = [step |-> "utxos", coin |-> o, at |-> live.u[o], confirmed |-> FALSE,
                        backed |-> Backed(o)]
    BY <1>2 DEF ReadUtxos
  <2>2. UNCHANGED <<vars, markVars, ingest>>
    BY <1>2 DEF ReadUtxos
  <2>3. Backed(o)' <=> Backed(o)
    BY <2>2 DEF Backed, Ancestry, Parents, Confirmed, Touched, Doomed, Spenders, Killed,
                CheckDoubleSpends, Reorged, Live, vars, markVars
  <2>4. Live(Creator[o])' <=> Live(Creator[o])
    BY <2>2 DEF Live, vars
  <2>5. live.u[o] \in Heights /\ Backed(o) \in BOOLEAN
    BY <2>1, LiveTables DEF RInv, Backed
  <2>6. ~Backed(o) => Live(Creator[o]) /\ ~(live.u[o] > 0)
    BY <2>1, LiveTables, Untouched DEF RInv
  <2> HIDE DEF live
  <2>7. reader' \in R /\ reader'.coin = o /\ reader'.at = live.u[o]
        /\ reader'.confirmed = FALSE /\ reader'.backed = Backed(o)
    BY <2>1, <2>5
  <2> QED BY <2>3, <2>4, <2>6, <2>7 DEF ReaderOK
<1>3. CASE ReadStxos
  <2>1. PICK s \in StxosRead, watched \in SUBSET (Ours \ {reader.coin}) :
          \E answer \in ConfirmedAnswers(s, reader.coin, reader.at, watched) :
              reader' = [reader EXCEPT !.step = "stxos", !.confirmed = answer]
    BY <1>3 DEF ReadStxos
  <2>2. PICK answer \in ConfirmedAnswers(s, reader.coin, reader.at, watched) :
              reader' = [reader EXCEPT !.step = "stxos", !.confirmed = answer]
    BY <2>1
  <2>3. reader.step = "utxos" /\ reader \in R /\ UNCHANGED <<vars, markVars, ingest>>
    BY <1>1, <1>3 DEF ReadStxos, Idle
  <2>4. answer \in BOOLEAN
    <3>1. ASSUME NEW x, NEW h, NEW a \in Answers(s, x, h, watched) PROVE a \in BOOLEAN
      <4>1. \/ a = FALSE \/ a = TRUE
            \/ \E r \in OwnRows(s, x, h, watched) : a = OwnRow(r, h)
        BY <3>1, Zenon DEF Answers
      <4>2. \A r : OwnRow(r, h) \in BOOLEAN
        BY DEF OwnRow
      <4> QED BY ONLY <4>1, <4>2, Zenon
    <3> QED BY <2>2, <3>1 DEF ConfirmedAnswers
  <2>5. s \in [Out -> Stxo \cup {None}] /\ RowsKnown(s)
    BY StxosReadKnown DEF RInv
  <2>6. ~reader.backed => /\ ~Backed(reader.coin) /\ Live(Creator[reader.coin])
                          /\ ~(reader.at > 0)
    BY <2>3 DEF RInv, ReaderOK, Idle
  <2>7. reader.coin \in Out /\ reader.at \in Heights
    BY <2>3
  <2>8. ~reader.backed => ~answer
    <3>1. ~reader.backed => TRUE \notin ConfirmedAnswers(s, reader.coin, reader.at, watched)
      BY <2>5, <2>6, <2>7, NotConfirmed DEF RInv
    <3> QED BY ONLY <2>2, <2>4, <3>1, Zenon
  <2>9. /\ reader' \in R /\ reader'.coin = reader.coin /\ reader'.at = reader.at
        /\ reader'.confirmed = answer /\ reader'.backed = reader.backed
    BY <2>2, <2>3, <2>4
  <2>10. ~Backed(reader.coin) => ~Backed(reader.coin)'
    BY <2>3, <2>9 DEF Backed, Ancestry, Parents, Confirmed, Touched, Doomed, Spenders, Killed,
                CheckDoubleSpends, Reorged, Live, vars, markVars
  <2>11. Live(Creator[reader.coin]) => Live(Creator[reader.coin])'
    BY <2>3, <2>9 DEF Live, vars
  <2> QED BY <2>6, <2>8, <2>9, <2>10, <2>11 DEF ReaderOK
<1>4. CASE CountCoin
  <2> DEFINE height == live.t[Creator[reader.coin]]
  <2>1. reader.step = "stxos" /\ reader \in R
    <3>1. reader.step = "stxos"
      BY <1>4 DEF CountCoin
    <3> QED BY <1>1, <3>1 DEF Idle
  <2>2. CASE reader' = Idle
    BY <2>2 DEF ReaderOK
  <2>3. CASE reader' # Idle
    <3>1. PICK tip \in Tips :
             reader' = [reader EXCEPT !.step = "counted",
                           !.confirmed = @ \/ ConfirmationsAt(height, tip) > 0]
      BY <1>4, <2>3 DEF CountCoin
    <3>2. ~reader.backed => /\ ~Backed(reader.coin) /\ Live(Creator[reader.coin])
                            /\ ~reader.confirmed
      BY <2>1 DEF RInv, ReaderOK, Idle
    <3>3. ~reader.backed => height = 0
      <4> SUFFICES ASSUME ~reader.backed PROVE height = 0
        OBVIOUS
      <4>1. /\ Creator[reader.coin] \in Tx /\ Creator[reader.coin] \notin Touched
            /\ ~Confirmed(Creator[reader.coin])
        BY <2>1, <3>2, Untouched
      <4>2. height = txns[Creator[reader.coin]]
        BY <4>1, LiveTables DEF RInv
      <4> QED BY <3>2, <4>1, <4>2 DEF Live, Confirmed, RInv, VInv, IInv, TypeOK, Heights
    <3> HIDE DEF height
    <3>4. ~reader.backed => ~(ConfirmationsAt(height, tip) > 0)
      BY <3>3 DEF ConfirmationsAt
    <3> DEFINE some == ConfirmationsAt(height, tip) > 0
    <3>5. some \in BOOLEAN /\ reader' = [reader EXCEPT !.step = "counted", !.confirmed = reader.confirmed \/ some]
      BY <2>1, <3>1
    <3> HIDE DEF some
    <3>6. /\ reader' \in R /\ reader'.step = "counted" /\ reader'.backed = reader.backed
          /\ reader'.confirmed = (reader.confirmed \/ some)
      BY <2>1, <3>5
    <3> QED BY <3>2, <3>4, <3>6 DEF ReaderOK, some
  <2> QED BY <2>2, <2>3
<1>5. CASE Return
  BY <1>5 DEF Return, ReaderOK
<1>6. CASE StoreMoves
  <2>1. CASE reader.step \in {"idle", "counted"}
    <3>1. reader' = reader
      BY <1>6, <2>1 DEF StoreMoves
    <3> QED BY <2>1, <3>1 DEF RInv, ReaderOK, Idle
  <2>2. CASE reader.step \notin {"idle", "counted"}
    <3>1. reader \in R
      BY <1>1, <2>2 DEF Idle
    <3> DEFINE o == reader.coin
    <3>2. PICK b \in BOOLEAN : b = Backed(o)' /\ reader' = [reader EXCEPT !.backed = reader.backed \/ b]
      BY <1>6, <2>2, <3>1 DEF StoreMoves, Backed
    <3>3. /\ reader' \in R /\ reader'.coin = o /\ reader'.at = reader.at
          /\ reader'.confirmed = reader.confirmed /\ reader'.backed = (reader.backed \/ b)
      BY <3>1, <3>2
    <3>4. ~reader.backed => ~Backed(o) /\ Live(Creator[o]) /\ ~(reader.at > 0) /\ ~reader.confirmed
      BY <2>2 DEF RInv, ReaderOK, Idle
    <3>5. ~reader.backed => Live(Creator[o])'
      BY <1>6, <3>1, <3>4, Untouched, StaysLive DEF RInv, StoreMoves
    <3> QED BY <3>2, <3>3, <3>4, <3>5 DEF ReaderOK
  <2> QED BY <2>1, <2>2
<1> QED BY <1>2, <1>3, <1>4, <1>5, <1>6 DEF ReaderNext

LEMMA RInvInit == ReaderInit => RInv
  BY VInvInit, MarkInvInit DEF ReaderInit, MarkInit, RInv, IngestOK, ReaderOK

LEMMA RInvNext ==
    ASSUME RInv, [ReaderNext]_<<vars, markVars, ingest, reader>>
    PROVE  RInv' /\ [MarkNext]_<<vars, markVars>>
<1>1. [MarkNext]_<<vars, markVars>>
  BY StoreStep DEF RInv
<1>2. MarkInv' /\ VInv'
  BY <1>1, MarkInvNext, VInvNext DEF RInv
<1>3. CASE ReaderNext
  BY <1>1, <1>2, <1>3, IngestStepOK, ReaderStep DEF RInv
<1>4. CASE UNCHANGED <<vars, markVars, ingest, reader>>
  <2>1. IngestOK'
    BY <1>4 DEF RInv, IngestOK, Marked, Tables, vars, markVars
  <2>2. ReaderOK'
    BY <1>4 DEF RInv, ReaderOK, Backed, Ancestry, Parents, Confirmed, Touched, Doomed, Spenders,
                Killed, CheckDoubleSpends, Reorged, Live, vars, markVars
  <2> QED BY <1>1, <1>2, <2>1, <2>2 DEF RInv
<1> QED BY <1>3, <1>4

(* The money Balance calls confirmed is backed by a block, or belongs to   *)
(* transactions a call under way decides about, however its three reads    *)
(* fall between the writes of the store, for any order of the rows and any *)
(* set of watch-only coins.                                                *)
THEOREM BalanceIsBacked == ReaderSpec => []BalanceBacked
<1>1. RInv => BalanceBacked
  BY DEF RInv, ReaderOK, BalanceBacked, Idle
<1> QED BY RInvInit, RInvNext, <1>1, PTL DEF ReaderSpec

(* The writes of Ingest taken one by one come to the calls of MarkAsDead,  *)
(* so what is proved of those holds while others read.                     *)
THEOREM ReaderImplementsMark == ReaderSpec => MarkSafety
<1>1. ReaderInit => MarkInit
  BY DEF ReaderInit
<1> QED BY RInvInit, RInvNext, <1>1, PTL DEF ReaderSpec, MarkSafety
=============================================================================
