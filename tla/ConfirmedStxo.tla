---------------------------- MODULE ConfirmedStxo ----------------------------
(***************************************************************************)
(* checkIfStxoIsConfirmed of wallet.go as the code runs it, a recursion    *)
(* through the rows of the stxos.  Module WalletView uses its closed form; *)
(* here the two are compared on every store the wallet can reach.          *)
(***************************************************************************)
EXTENDS WalletView

(* Mutant: an input that is not confirmed itself is not followed further.  *)
CheckOneLevel(o, at, watched) ==
    LET inputs == Inputs(stxos, o, watched)
        own    == OwnRows(stxos, o, at, watched)
    IN  IF inputs \cup own = {} THEN {FALSE}
        ELSE {OwnRow(r, at) : r \in own} \cup {stxos[r].spendHeight > 0 : r \in inputs}

(* The row that comes first decides; of the rows of the coin's own inputs  *)
(* an unconfirmed one passes the question on, to the answers in `deeper'.  *)
Decide(o, at, watched, deeper) ==
    LET rows == {r \in Rows(stxos, watched) :
                    stxos[r].spendTxid = Creator[o] \/ (r = o /\ stxos[r].atHeight = at)}
        decides(r) == IF stxos[r].spendTxid # Creator[o] THEN {OwnRow(r, at)}
                      ELSE IF stxos[r].spendHeight > 0 THEN {TRUE}
                      ELSE deeper[r]
    IN  IF rows = {} THEN {FALSE} ELSE UNION {decides(r) : r \in rows}

checkIfStxoIsConfirmed(o, at, watched) ==
    LET check[r \in Rows(stxos, watched)] == Decide(r, stxos[r].atHeight, watched, check)
    IN  Decide(o, at, watched, check)

(* The recursion ends and answers what the closed form says, whichever     *)
(* rows are watch-only, also where an output has a row in both tables and  *)
(* where chains of unconfirmed spends meet.                                *)
CheckExact ==
    \A watched \in SUBSET Ours : \A o \in BalanceCoins(watched) :
        checkIfStxoIsConfirmed(o, utxos[o], watched) = ConfirmedAnswers(stxos, o, utxos[o], watched)
=============================================================================
