----------------------------- MODULE IngestRace ------------------------------
(***************************************************************************)
(* Ingest of txstore.go as two goroutines run it at once: Broadcast calls  *)
(* it from the goroutine of the API, at height 0, while the handlers of    *)
(* the wire service call it from theirs.  The lock of the tables and the   *)
(* one of txids are each held for a single access, so a call is a sequence *)
(* of steps.  A step ends wherever Ingest holds something it has read and  *)
(* will act on; writes in a row that depend on nothing else (the outputs,  *)
(* an input's new stxo and the deletion of its utxo, the height of a row)  *)
(* are one step, and markAsDead is one in its closed form.  Every          *)
(* behaviour here is one of the code; the code has finer ones besides.     *)
(* The variables are those of TxStore.                                     *)
(***************************************************************************)
EXTENDS TxStore

Caller == {"api", "wire"}

VARIABLE call   \* of each caller: where its Ingest is, and its local variables

raceVars == <<utxos, stxos, txns, txids, call>>

Idle == [pc |-> "idle"]

At(c, pc) == call[c].pc = pc

Goto(c, pc) == call' = [call EXCEPT ![c].pc = pc]

Return(c) == call' = [call EXCEPT ![c] = Idle]

(* The calls on the tables.                                                *)
PutUtxos(ops, height) == [o \in Out |-> IF o \in ops THEN height ELSE utxos[o]]
DeleteUtxo(op) == [utxos EXCEPT ![op] = None]
GetAllUtxos == {<<o, utxos[o]>> : o \in {p \in Out : utxos[p] # None}}
PutStxo(op, stxo) == [stxos EXCEPT ![op] = stxo]
GetTxn(tx) == txns[tx]
PutTxn(tx, height) == [txns EXCEPT ![tx] = height]

gained(tx) == {o \in Ours : Creator[o] = tx}

(* The call, to the lookup in txids.                                       *)
IngestStarts(c, tx, height) ==
    /\ At(c, "idle")
    /\ c = "api" => height = 0
    /\ ~Processed(tx, height)
    /\ call' = [call EXCEPT ![c] = [pc |-> "check", tx |-> tx, height |-> height,
                                    dubs |-> {}, inputs |-> {}, hit |-> tx \in Filtered]]
    /\ UNCHANGED vars

(* CheckDoubleSpends reads txns once; the verdict is used after the lock   *)
(* of the tables is gone.                                                   *)
IngestChecks(c) ==
    LET dubs == CheckDoubleSpends(call[c].tx)
    IN  /\ At(c, "check")
        /\ IF FirstSeenRule(dubs, call[c].height)
           THEN call' = [call EXCEPT ![c].dubs = dubs, ![c].pc = "kill"]
           ELSE Return(c)
        /\ UNCHANGED vars

IngestKills(c) ==
    LET D == Doomed(call[c].dubs)
    IN  /\ At(c, "kill")
        /\ utxos' = UtxosWithout(D)
        /\ stxos' = StxosWithout(D)
        /\ txns' = TxnsWithout(D)
        /\ Goto(c, "outputs")
        /\ UNCHANGED txids

IngestGains(c) ==
    LET new == gained(call[c].tx)
    IN  /\ At(c, "outputs")
        /\ utxos' = PutUtxos(new, call[c].height)
        /\ call' = [call EXCEPT ![c].hit = @ \/ new # {}, ![c].pc = "snapshot"]
        /\ UNCHANGED <<stxos, txns, txids>>

(* Utxos().GetAll(): the rows the inputs are looked up in.                 *)
IngestReadsUtxos(c) ==
    LET found == {u \in GetAllUtxos : u[1] \in Spends[call[c].tx]}
    IN  /\ At(c, "snapshot")
        /\ call' = [call EXCEPT ![c].inputs = found, ![c].pc = "inputs"]
        /\ UNCHANGED vars

(* One input found in that snapshot moves to the stxos.                    *)
IngestSpends(c) ==
    At(c, "inputs") /\ \E in \in call[c].inputs :
        /\ stxos' = PutStxo(in[1], [atHeight |-> in[2], spendHeight |-> call[c].height,
                                    spendTxid |-> call[c].tx])
        /\ utxos' = DeleteUtxo(in[1])
        /\ call' = [call EXCEPT ![c].inputs = @ \ {in}, ![c].hit = TRUE]
        /\ UNCHANGED <<txns, txids>>

IngestConfirmsStxo(c) ==
    LET own == {o \in Out : stxos[o] # None /\ stxos[o].spendTxid = call[c].tx}
    IN  /\ At(c, "inputs") /\ call[c].inputs = {}
        /\ stxos' \in SpendHeightUpdates(stxos, own, call[c].height)
        /\ call' = [call EXCEPT ![c].hit = @ \/ (call[c].height > 0 /\ own # {}), ![c].pc = "record"]
        /\ UNCHANGED <<utxos, txns, txids>>

(* The section under txidsMutex.                                           *)
IngestRecords(c) ==
    LET tx == call[c].tx
        new == GetTxn(tx) = None \/ GetTxn(tx) <= 0
    IN  /\ At(c, "record")
        /\ call[c].hit
        /\ txns' = IF new THEN PutTxn(tx, call[c].height) ELSE txns
        /\ txids' = [txids EXCEPT ![tx] = IF new THEN call[c].height ELSE @]
        /\ Goto(c, "populate")
        /\ UNCHANGED <<utxos, stxos>>

IngestNoHit(c) == At(c, "record") /\ ~call[c].hit /\ Return(c) /\ UNCHANGED vars

IngestPopulates(c) == At(c, "populate") /\ PopulateAdrs /\ Return(c)

(* The wire service's goroutine also runs processReorg.                    *)
WireReorg == At("wire", "idle") /\ UNCHANGED call
             /\ \E lastGoodHeight \in Heights : processReorg(lastGoodHeight)

----------------------------------------------------------------------------
RaceInit == Init /\ call = [c \in Caller |-> Idle]

RaceNext ==
    \/ \E c \in Caller :
         \/ \E tx \in Tx, height \in Heights : IngestStarts(c, tx, height)
         \/ IngestChecks(c) \/ IngestKills(c) \/ IngestGains(c)
         \/ IngestReadsUtxos(c) \/ IngestSpends(c) \/ IngestConfirmsStxo(c)
         \/ IngestRecords(c) \/ IngestNoHit(c) \/ IngestPopulates(c)
    \/ WireReorg

RaceSpec == RaceInit /\ [][RaceNext]_raceVars

(* "Ingest puts a tx into the DB atomically", so two calls at once, as     *)
(* Broadcast makes them beside the wire service, leave the wallet with at  *)
(* most one of two transactions that spend the same output, as one after   *)
(* the other would (NoDoubleSpend of TxStore).                             *)
AtMostOneSpender ==
    (\A c \in Caller : At(c, "idle")) => NoDoubleSpend
=============================================================================
