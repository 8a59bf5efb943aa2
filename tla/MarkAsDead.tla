------------------------------ MODULE MarkAsDead ------------------------------
(***************************************************************************)
(* The transaction store with markAsDead of txstore.go as the code runs    *)
(* it: a loop over a snapshot of the stxos, taken when the call starts,    *)
(* with a recursive call in the middle of the loop.  Module TxStore has    *)
(* its effect as a closed form; here processReorg and Ingest call it for   *)
(* one transaction after the other, and the tables change row by row.      *)
(*                                                                         *)
(* The order of the rows of a query is not fixed, so the loop takes any    *)
(* row that is left of its snapshot.  While a call is under way the        *)
(* variables of TxStore keep the tables it found; its result becomes       *)
(* theirs when it returns.                                                 *)
(***************************************************************************)
EXTENDS TxStore, Sequences

(* A txid is a hash over the outputs its inputs name: there are no cycles. *)
ASSUME AncestryAssumption ==
    \A C \in SUBSET Tx : C # {} => \E t \in C : \A o \in Spends[t] : Creator[o] \notin C

VARIABLES
    call,     \* processReorg or Ingest with double spends, while it marks
    todo,     \* the transactions the caller has yet to mark
    stack,    \* the calls of markAsDead: [txid, rows], the last one runs
    tables    \* [u, s, t]: utxos, stxos and txns during a call

markVars == <<call, todo, stack, tables>>

NoCall == [by |-> "nobody"]

(* Calls on the tables.                                                    *)
Tables == [u |-> utxos, s |-> stxos, t |-> txns]

(* Mutant: the output is not put back.                                     *)
UtxoForgotten(tb, row) == tb

PutUtxo(tb, row) == [tb EXCEPT !.u[row.op] = row.stxo.atHeight]
DeleteUtxos(tb, ops) == [tb EXCEPT !.u = [o \in Out |-> IF o \in ops THEN None ELSE tb.u[o]]]
DeleteStxo(tb, op) == [tb EXCEPT !.s[op] = None]
UpdateHeight(tb, txid) ==
    IF tb.t[txid] = None THEN tb ELSE [tb EXCEPT !.t[txid] = Dead]

(* Mutant: the row stays.                                                  *)
SpenderDeadOnly(tb, row) == UpdateHeight(tb, row.stxo.spendTxid)

(* markStxoAsDead: the row goes, its spender is dead.                      *)
markStxoAsDead(tb, row) == UpdateHeight(DeleteStxo(tb, row.op), row.stxo.spendTxid)

(* The rows the loop of a call does something for; it passes over others.  *)
Snapshot(txid, tb) ==
    {[op |-> o, stxo |-> tb.s[o]] :
        o \in {p \in Out : tb.s[p] # None /\ txid \in {tb.s[p].spendTxid, Creator[p]}}}

Frame(txid, tb) == [txid |-> txid, rows |-> Snapshot(txid, tb)]

Top == stack[Len(stack)]

----------------------------------------------------------------------------
(* The transactions a call kills.                                          *)
Reorged(lastGoodHeight) == {t \in Tx : txns[t] # None /\ txns[t] > lastGoodHeight}

Killed ==
    IF call.by = "Ingest" THEN CheckDoubleSpends(call.tx)
    ELSE IF call.by = "processReorg" THEN Reorged(call.height) ELSE {}

Begin(c, killed) ==
    /\ call = NoCall
    /\ killed # {}
    /\ call' = c
    /\ todo' = killed
    /\ tables' = Tables
    /\ UNCHANGED <<vars, stack>>

BeginReorg(lastGoodHeight) ==
    Begin([by |-> "processReorg", height |-> lastGoodHeight], Reorged(lastGoodHeight))

BeginIngest(tx, height) ==
    /\ ~Processed(tx, height)
    /\ FirstSeenRule(CheckDoubleSpends(tx), height)
    /\ Begin([by |-> "Ingest", tx |-> tx, height |-> height], CheckDoubleSpends(tx))

(* Mutant: the loop does not move on.                                      *)
CallMarkAgain ==
    /\ stack = <<>>
    /\ \E txid \in todo : stack' = <<Frame(txid, tables)>>
    /\ UNCHANGED <<vars, call, todo, tables>>

(* The caller's loop.                                                      *)
CallMark ==
    /\ stack = <<>>
    /\ \E txid \in todo :
          /\ todo' = todo \ {txid}
          /\ stack' = <<Frame(txid, tables)>>
    /\ UNCHANGED <<vars, call, tables>>

(* Mutant: only the spender is marked, not what spends from it.            *)
WithoutDescent(stk, row, tb) == stk

(* The recursive call.                                                     *)
Descend(stk, row, tb) == Append(stk, Frame(row.stxo.spendTxid, tb))

(* One round of the loop: a spent output is moved back, and what spends an *)
(* output of the dead transaction dies with it.                            *)
HandleRow ==
    /\ stack # <<>>
    /\ \E row \in Top.rows :
          LET rest == [stack EXCEPT ![Len(stack)].rows = @ \ {row}]
              tb1  == IF row.stxo.spendTxid = Top.txid
                      THEN PutUtxo(markStxoAsDead(tables, row), row) ELSE tables
              tb2  == markStxoAsDead(tb1, row)
          IN  IF Creator[row.op] = Top.txid
              THEN tables' = tb2 /\ stack' = Descend(rest, row, tb2)
              ELSE tables' = tb1 /\ stack' = rest
    /\ UNCHANGED <<vars, call, todo>>

(* After the loop: "Dead utxos should just be deleted".                    *)
DropOutputs ==
    /\ stack # <<>>
    /\ Top.rows = {}
    /\ tables' = UpdateHeight(DeleteUtxos(tables, {o \in Out : Creator[o] = Top.txid}), Top.txid)
    /\ stack' = SubSeq(stack, 1, Len(stack) - 1)
    /\ UNCHANGED <<vars, call, todo>>

AllMarked == call # NoCall /\ todo = {} /\ stack = <<>>

EndReorg ==
    /\ AllMarked /\ call.by = "processReorg"
    /\ call' = NoCall
    /\ utxos' = tables.u /\ stxos' = tables.s /\ txns' = tables.t
    /\ tables' = None
    /\ UNCHANGED <<txids, todo, stack>>

(* Ingest goes on with the tables markAsDead left.                         *)
EndIngest ==
    /\ AllMarked /\ call.by = "Ingest"
    /\ call' = NoCall
    /\ IngestInto(call.tx, call.height, tables.u, tables.s, tables.t)
    /\ tables' = None
    /\ UNCHANGED <<todo, stack>>

(* Operations that call markAsDead for nothing.                            *)
PlainIngest(tx, height) ==
    /\ call = NoCall
    /\ ~Processed(tx, height)
    /\ CheckDoubleSpends(tx) = {}
    /\ IngestInto(tx, height, utxos, stxos, txns)
    /\ UNCHANGED markVars

Refresh == call = NoCall /\ (PopulateAdrs \/ NewTxStore) /\ UNCHANGED markVars

----------------------------------------------------------------------------
MarkInit ==
    /\ Init
    /\ call = NoCall /\ todo = {} /\ stack = <<>>
    /\ tables = None

Marking == CallMark \/ HandleRow \/ DropOutputs \/ EndReorg \/ EndIngest

MarkNext ==
    \/ \E lastGoodHeight \in Heights : BeginReorg(lastGoodHeight)
    \/ \E tx \in Tx, height \in Heights : BeginIngest(tx, height) \/ PlainIngest(tx, height)
    \/ Marking
    \/ Refresh

(* A call goes on until it returns.                                        *)
MarkSpec == MarkInit /\ [][MarkNext]_<<vars, markVars>> /\ WF_<<vars, markVars>>(Marking)

----------------------------------------------------------------------------
(* The stale snapshot does no harm: whatever order the rows come in, and   *)
(* though rows that a recursive call has removed or moved are handled      *)
(* again, the calls for a reorganisation or for the double spends of a     *)
(* transaction leave the tables of the closed form.                        *)
MarkAsDeadExact ==
    AllMarked =>
        LET D == Doomed(Killed)
        IN  tables = [u |-> UtxosWithout(D), s |-> StxosWithout(D), t |-> TxnsWithout(D)]

(* The recursion ends: every call of processReorg and Ingest returns.      *)
MarkEnds == (call # NoCall) ~> (call = NoCall)

(* So the store with its row by row recursion implements the store whose   *)
(* Ingest and processReorg use the closed form.                            *)
StoreSpec == Spec
=============================================================================
