---------------------------- MODULE BalanceReader ----------------------------
(***************************************************************************)
(* Balance of wallet.go, called by the API in a goroutine of its own while *)
(* the store works: it reads the utxos, then the stxos, then the           *)
(* transaction of every coin, and takes no lock over the three.  What it   *)
(* does for a coin depends on no other coin, so the reader is followed for *)
(* one coin, any one.                                                      *)
(*                                                                         *)
(* The store is that of MarkAsDead, with the writes of Ingest that come    *)
(* after the marking taken one by one as well.  Where the code makes two   *)
(* accesses in one step here, a reader that takes the utxos first cannot   *)
(* see between them: it has the utxos from before the step or asks for a   *)
(* row that is gone.  The one place where it can is between the deletion   *)
(* of a stxo and the new height of its spender (see StxosRead).            *)
(***************************************************************************)
EXTENDS MarkAsDead, WalletView

VARIABLES
    ingest,   \* the tables as Ingest has written them so far, or NoIngest
    reader    \* Balance for one coin

NoIngest == [written |-> "nothing"]
Idle == [step |-> "idle"]

(* The tables in the database.                                             *)
Marked == IF call = NoCall THEN Tables ELSE tables
live ==
    IF ingest = NoIngest THEN Marked
    ELSE [u |-> ingest.u, s |-> ingest.s, t |-> Marked.t]

----------------------------------------------------------------------------
(* Ingest after its double spends are dead: the outputs that pay us, then  *)
(* the inputs found among the utxos, then the height of a row tx spent     *)
(* before, and the transaction itself last.                                *)
PutOutputs(tx, height) ==
    /\ ingest = NoIngest
    /\ \/ AllMarked /\ call = [by |-> "Ingest", tx |-> tx, height |-> height]
       \/ call = NoCall /\ ~Processed(tx, height) /\ CheckDoubleSpends(tx) = {}
    /\ LET u == [o \in Out |-> IF o \in Ours /\ Creator[o] = tx THEN height ELSE Marked.u[o]]
       IN  ingest' = [written |-> "outputs", tx |-> tx, height |-> height, u |-> u, s |-> Marked.s,
                      inputs |-> {o \in Spends[tx] : u[o] # None}]
    /\ UNCHANGED <<vars, markVars>>

(* The inputs that are still utxos.                                        *)
InputsLeft == {o \in ingest.inputs : ingest.u[o] # None}

MoveInput ==
    /\ ingest # NoIngest /\ ingest.written = "outputs"
    /\ \E o \in InputsLeft :
          ingest' = [ingest EXCEPT !.u[o] = None,
                        !.s[o] = [atHeight |-> ingest.u[o], spendHeight |-> ingest.height,
                                  spendTxid |-> ingest.tx]]
    /\ UNCHANGED <<vars, markVars>>

PutSpendHeight ==
    /\ ingest # NoIngest /\ ingest.written = "outputs" /\ InputsLeft = {}
    /\ \E s \in SpendHeightUpdates(ingest.s,
                    {o \in Out \ ingest.inputs : ingest.s[o] # None
                                                 /\ ingest.s[o].spendTxid = ingest.tx},
                    ingest.height) :
          ingest' = [ingest EXCEPT !.written = "rows", !.s = s]
    /\ UNCHANGED <<vars, markVars>>

PutTxn ==
    /\ ingest # NoIngest /\ ingest.written = "rows"
    /\ EndIngest \/ PlainIngest(ingest.tx, ingest.height)
    /\ utxos' = ingest.u /\ stxos' = ingest.s
    /\ ingest' = NoIngest

(* The calls of the store that Ingest is not in the middle of.             *)
OtherCalls ==
    /\ ingest = NoIngest
    /\ \/ \E lastGoodHeight \in Heights : BeginReorg(lastGoodHeight)
       \/ \E tx \in Tx, height \in Heights : BeginIngest(tx, height)
       \/ CallMark \/ HandleRow \/ DropOutputs \/ EndReorg
       \/ Refresh
    /\ UNCHANGED ingest

----------------------------------------------------------------------------
(* The transactions a call under way kills, confirms or revives.           *)
Touched == Doomed(Killed) \cup
           (IF ingest # NoIngest THEN {ingest.tx} ELSE {})

(* Money that a block backs, or that a call under way decides about.       *)
Backed(o) == \E t \in Ancestry(Creator[o]) : Confirmed(t) \/ t \in Touched

(* The rows a reader of the stxos may find: markStxoAsDead deletes a row   *)
(* before it writes the height of the spender.                             *)
StxosRead ==
    {live.s} \cup (IF stack = <<>> THEN {}
                   ELSE {[live.s EXCEPT ![row.op] = None] : row \in Top.rows})

ReadUtxos ==
    /\ reader = Idle
    /\ \E o \in Out :
          /\ live.u[o] # None
          /\ reader' = [step |-> "utxos", coin |-> o, at |-> live.u[o], confirmed |-> FALSE,
                        backed |-> Backed(o)]
    /\ UNCHANGED <<vars, markVars, ingest>>

(* The snapshot is what checkIfStxoIsConfirmed will be asked about.        *)
ReadStxos ==
    /\ reader.step = "utxos"
    /\ \E s \in StxosRead, watched \in SUBSET (Ours \ {reader.coin}) :
          \E answer \in ConfirmedAnswers(s, reader.coin, reader.at, watched) :
              reader' = [reader EXCEPT !.step = "stxos", !.confirmed = answer]
    /\ UNCHANGED <<vars, markVars, ingest>>

(* GetConfirmations reads the transaction and the tip; without a           *)
(* transaction the coin is passed over.                                    *)
CountCoin ==
    /\ reader.step = "stxos"
    /\ LET height == live.t[Creator[reader.coin]]
       IN  \/ height = None /\ reader' = Idle
           \/ /\ height # None
              /\ \E tip \in Tips :
                    reader' = [reader EXCEPT !.step = "counted",
                                  !.confirmed = @ \/ ConfirmationsAt(height, tip) > 0]
    /\ UNCHANGED <<vars, markVars, ingest>>

Return == reader.step = "counted" /\ reader' = Idle /\ UNCHANGED <<vars, markVars, ingest>>

(* While the store moves on, the reader keeps what it read; `backed' says  *)
(* whether its coin was backed at some time since it read the utxos.       *)
StoreMoves ==
    /\ \/ \E tx \in Tx, height \in Heights : PutOutputs(tx, height)
       \/ MoveInput \/ PutSpendHeight \/ PutTxn
       \/ OtherCalls
    /\ IF reader.step \in {"idle", "counted"} THEN UNCHANGED reader
       ELSE \E o \in {reader.coin} :
               reader' = [reader EXCEPT !.backed = @ \/ Backed(o)']

----------------------------------------------------------------------------
ReaderInit == MarkInit /\ ingest = NoIngest /\ reader = Idle

ReaderNext == StoreMoves \/ ReadUtxos \/ ReadStxos \/ CountCoin \/ Return

ReaderSpec == ReaderInit /\ [][ReaderNext]_<<vars, markVars, ingest, reader>>

----------------------------------------------------------------------------
(* Balance never calls money confirmed that no block backs, although it    *)
(* puts its answer together from tables that change in between: a coin it  *)
(* counts as confirmed belongs to, or descends from one of our             *)
(* transactions that, at some time since the utxos were read, was          *)
(* confirmed or was being killed, confirmed or revived by a call of the    *)
(* store under way.  (While a transaction is killed or revived its height  *)
(* of -1 wraps around to a number of confirmations, so the exception is    *)
(* needed.)                                                                *)
BalanceBacked == reader.step = "counted" /\ reader.confirmed => reader.backed
=============================================================================
