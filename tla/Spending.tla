------------------------------ MODULE Spending ------------------------------
(***************************************************************************)
(* sortsignsend.go: how a payment gets its inputs, its fee and its change. *)
(* One call of Spend (or EstimateSpendFee), SweepAddress or BumpFee on a   *)
(* given wallet; the loop of NewUnsignedTransaction is a loop of the       *)
(* model.  Keys and signatures are left out, and so is Broadcast, which is *)
(* Ingest of module TxStore.                                               *)
(*                                                                         *)
(* All scripts are pay-to-pubkey-hash, the only kind whose output the      *)
(* wallet can spend itself.                                                *)
(***************************************************************************)
EXTENDS TxSizes, Sequences, FiniteSets

CONSTANTS
    Rows,        \* rows of the utxo table
    Wallets,     \* sets of rows: the wallets to spend from
    Amounts,     \* amounts to pay
    Height,      \* height of the best header
    MaxInputs    \* MaxInputs of the coin selector

ASSUME SpendAssumption ==
    /\ \A W \in Wallets : W \subseteq Rows /\ IsFiniteSet(W)
    /\ \A row \in Rows : row.value \in Nat /\ row.atHeight \in Nat /\ row.watchOnly \in BOOLEAN
    /\ Amounts \subseteq Nat
    /\ Height \in Nat /\ MaxInputs \in Nat

----------------------------------------------------------------------------
VARIABLES
    utxos,       \* the rows of the wallet
    amount,      \* what to pay
    feeLevel,
    coins,       \* the coins in the order of the selector
    total,       \* the values of the first 0, 1, 2 ... coins
    targetFee,
    picked,      \* number of coins selected
    change,      \* the output to ourselves, 0 for none
    pc

vars == <<utxos, amount, feeLevel, coins, total, targetFee, picked, change, pc>>
args == <<utxos, amount, feeLevel>>

(* Rows we can sign for.  A rollback may make the number of confirmations  *)
(* negative.                                                               *)
gatherCoins ==
    {[row |-> u, value |-> u.value,
      confs |-> IF u.atHeight > 0 THEN Height - u.atHeight ELSE 0]
        : u \in {v \in utxos : ~v.watchOnly}}

ValueAge(c) == c.value * c.confs

(* MaxValueAgeCoinSelector sorts by value times age; the order of equals   *)
(* is that of a map.                                                       *)
Orders(S) ==
    {s \in [1..Cardinality(S) -> S] :
        \A i, j \in DOMAIN s : i < j => s[i] # s[j] /\ ValueAge(s[i]) >= ValueAge(s[j])}

Totals(s) ==
    LET sum[k \in Nat] == IF k = 0 THEN 0 ELSE sum[k - 1] + s[k].value
    IN  [n \in 0..Len(s) |-> sum[n]]

(* The beginnings that reach the target; the selector takes the shortest.  *)
Enough(target) == {n \in 1..Len(coins) : n <= MaxInputs /\ total[n] >= target}

(* Mutant: any of them.                                                    *)
SelectAny(target) == Enough(target)

CoinSelect(target) == {n \in Enough(target) : \A k \in Enough(target) : n <= k}

RequiredFee(n) == EstimateSerializeSize(n, 1, TRUE, "P2PKH") * GetFeePerByte(feeLevel)

----------------------------------------------------------------------------
(* buildTx: the dust check, the coins, and the fee for one input.          *)
buildTx ==
    /\ pc = "spend"
    /\ \/ /\ IsDustAmount(amount, P2PKHPkScriptSize)
          /\ pc' = "dust" /\ UNCHANGED <<coins, total, targetFee>>
       \/ /\ ~IsDustAmount(amount, P2PKHPkScriptSize)
          /\ coins' \in Orders(gatherCoins)
          /\ total' = Totals(coins') /\ total' \in [0..Len(coins') -> Nat]
          /\ targetFee' = RequiredFee(1)
          /\ pc' = "fetchInputs"
    /\ UNCHANGED <<args, picked, change>>

fetchInputs ==
    /\ pc = "fetchInputs"
    /\ \/ /\ Enough(amount + targetFee) = {}
          /\ pc' = "insufficient" /\ UNCHANGED picked
       \/ /\ picked' \in CoinSelect(amount + targetFee)
          /\ pc' = "checkFee"
    /\ UNCHANGED <<args, coins, total, targetFee, change>>

(* Mutant: the target stays what it was.                                   *)
raiseNothing ==
    /\ pc = "checkFee"
    /\ total[picked] - amount < RequiredFee(picked)
    /\ pc' = "fetchInputs"
    /\ UNCHANGED <<args, coins, total, targetFee, picked, change>>

(* More inputs make the transaction larger: the fee may not be covered.    *)
raiseFee ==
    /\ pc = "checkFee"
    /\ total[picked] - amount < RequiredFee(picked)
    /\ targetFee' = RequiredFee(picked)
    /\ pc' = "fetchInputs"
    /\ UNCHANGED <<args, coins, total, picked, change>>

(* Mutant: the change is computed with the fee that was aimed at.          *)
authorAtTarget ==
    LET rest == total[picked] - amount - targetFee
    IN  /\ pc = "checkFee" /\ total[picked] - amount >= RequiredFee(picked)
        /\ change' = IF rest # 0 /\ ~IsDustAmount(rest, P2PKHOutputSize) THEN rest ELSE 0
        /\ pc' = "built"
        /\ UNCHANGED <<args, coins, total, targetFee, picked>>

authorTx ==
    LET rest == total[picked] - amount - RequiredFee(picked)
    IN  /\ pc = "checkFee" /\ total[picked] - amount >= RequiredFee(picked)
        /\ change' = IF rest # 0 /\ ~IsDustAmount(rest, P2PKHOutputSize) THEN rest ELSE 0
        /\ pc' = "built"
        /\ UNCHANGED <<args, coins, total, targetFee, picked>>

(* EstimateSpendFee: what the inputs hold and the outputs do not.          *)
SpendFee == total[picked] - amount - change

(***************************************************************************)
(* SweepAddress of given inputs: the output is what the fee leaves, or     *)
(* nothing.  BumpFee sweeps one unconfirmed row.                           *)
(***************************************************************************)
Sweep(s, inputType) ==
    /\ coins' = s /\ picked' = Len(s)
    /\ total' = Totals(s) /\ total' \in [0..Len(s) -> Nat]
    /\ targetFee' = EstimateSerializeSize(Len(s), 1, FALSE, inputType) * GetFeePerByte(feeLevel)
    /\ change' = IF total'[Len(s)] > targetFee' THEN total'[Len(s)] - targetFee' ELSE 0
    /\ pc' = "swept"
    /\ UNCHANGED args

SweepAddress ==
    /\ pc = "sweep"
    /\ \E s \in Orders(gatherCoins), inputType \in InputTypes : Sweep(s, inputType)

(* The errors of BumpFee: the transaction is unknown, confirmed or dead,   *)
(* has no unconfirmed row, or the first one is watched only.               *)
BumpFee ==
    /\ pc = "bump"
    /\ \/ pc' = "notFound" /\ UNCHANGED <<args, coins, total, targetFee, picked, change>>
       \/ \E c \in {d \in gatherCoins : d.row.atHeight = 0} : Sweep(<<c>>, "P2PKH")

----------------------------------------------------------------------------
Init ==
    /\ utxos \in Wallets
    /\ \/ pc = "spend" /\ amount \in Amounts /\ feeLevel \in FeeLevels \ {"FEE_BUMP"}
       \/ pc = "sweep" /\ amount = 0 /\ feeLevel \in FeeLevels /\ gatherCoins # {}
       \/ pc = "bump" /\ amount = 0 /\ feeLevel = "FEE_BUMP"
    /\ coins = <<>> /\ total = [n \in {0} |-> 0]
    /\ targetFee = 0 /\ picked = 0 /\ change = 0

Next == buildTx \/ fetchInputs \/ raiseFee \/ authorTx \/ SweepAddress \/ BumpFee

Spec == Init /\ [][Next]_vars /\ WF_vars(Next)

----------------------------------------------------------------------------
(***************************************************************************)
(* Properties.                                                             *)
(***************************************************************************)
Affordable(n) == total[n] >= amount + RequiredFee(n)

(* The fee loop of NewUnsignedTransaction starts from the fee of one input *)
(* and raises its target.  It ends with the shortest beginning of the      *)
(* coins that pays the amount and its own fee, and gives up only if no     *)
(* beginning does.                                                         *)
SpendExact ==
    /\ pc = "built" => /\ picked \in 1..Len(coins) /\ Affordable(picked)
                       /\ \A n \in 1..(picked - 1) : ~Affordable(n)
    /\ pc = "insufficient" => \A n \in 1..Len(coins) : n <= MaxInputs => ~Affordable(n)

(* The fee of a payment covers the estimated size of the transaction with  *)
(* all its inputs, and exceeds it only by an amount too small for change.  *)
FeeBounds ==
    pc = "built" => /\ SpendFee >= RequiredFee(picked)
                    /\ SpendFee < RequiredFee(picked) + 573
                    /\ change > 0 => ~IsDustAmount(change, P2PKHPkScriptSize)

(* The fee loop ends.                                                      *)
SpendEnds == <>(pc \in {"built", "dust", "insufficient", "swept", "notFound"})
=============================================================================
