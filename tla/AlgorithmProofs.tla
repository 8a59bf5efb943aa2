-------------------------- MODULE AlgorithmProofs --------------------------
(***************************************************************************)
(* Four of the wallet's algorithms, for every input.                       *)
(*                                                                         *)
(* The fee loop of NewUnsignedTransaction ends in the shortest affordable  *)
(* beginning of the coins, for every wallet, amount and fee level.  The    *)
(* loop invariant says that every beginning shorter than the one the last  *)
(* target was computed for is not affordable.  Fees grow with the number   *)
(* of inputs, so a beginning that misses the target computed for `picked'  *)
(* and is at least as long misses its own.                                 *)
(*                                                                         *)
(* The difficulty rule gives a bounded target for every depth, spacing,    *)
(* target and timestamps, and a target close to the right one if a single  *)
(* timestamp is wrong.  Each of its steps (the quotient of work and time,  *)
(* the target of a work, the rounding to 23 bits) keeps or reverses the    *)
(* order, so bounds on the blocks and on the time between the two headers  *)
(* become bounds on the target.                                            *)
(*                                                                         *)
(* The parties of an escrow build the same transaction: of a list and an   *)
(* order there is one sorted rearrangement, whatever list it is made from. *)
(* And the lock time of an escrow script is read back whatever its size:   *)
(* `left', what remains of a number after each of its bytes, is also what  *)
(* the reader has of it before it adds that byte.                          *)
(***************************************************************************)
EXTENDS Spending, Multisig, Difficulty, NatLemmas, FiniteSetTheorems, FunctionTheorems, TLAPS

(* The number of inputs the target fee was computed for.                   *)
Base == IF picked = 0 THEN 1 ELSE picked

Looping ==
    /\ utxos \in Wallets
    /\ amount \in Nat /\ feeLevel \in FeeLevels
    /\ picked \in Nat
    /\ Len(coins) \in Nat /\ total \in [0..Len(coins) -> Nat]

(* The loop invariant.                                                     *)
LoopInv ==
    /\ Looping
    /\ pc \in {"spend", "sweep", "bump"} => picked = 0
    /\ pc = "fetchInputs" =>
           /\ targetFee = RequiredFee(Base)
           /\ \A n \in 1..Len(coins) : n < Base => ~Affordable(n)
           /\ picked > 0 => picked \in 1..Len(coins) /\ ~Affordable(picked)
    /\ pc = "checkFee" =>
           /\ picked \in 1..Len(coins)
           /\ \A n \in 1..(picked - 1) : ~Affordable(n)
    /\ SpendExact
    /\ FeeBounds

----------------------------------------------------------------------------
(* The fee is a natural number.                                            *)
LEMMA FeeType == ASSUME NEW n \in Nat, feeLevel \in FeeLevels PROVE RequiredFee(n) \in Nat
<1>1. GetFeePerByte(feeLevel) \in {1, 2, 4}
  BY DEF GetFeePerByte, FeeLevels, priorityFee, normalFee, economicFee
<1>2. EstimateSerializeSize(n, 1, TRUE, "P2PKH") \in Nat
  BY DEF EstimateSerializeSize, VarIntSerializeSize, InputSize, SigScriptSize, P2PKHOutputSize, P2PKHPkScriptSize
<1>3. \A x \in Nat, r \in {1, 2, 4} : x * r \in Nat
  OBVIOUS
<1> QED BY <1>1, <1>2, <1>3 DEF RequiredFee

(* The size of a payment grows with its inputs.                            *)
LEMMA SizeGrows ==
    ASSUME NEW m \in Nat, NEW n \in Nat, m <= n
    PROVE  EstimateSerializeSize(m, 1, TRUE, "P2PKH") <= EstimateSerializeSize(n, 1, TRUE, "P2PKH")
<1>1. VarIntSerializeSize(m) <= VarIntSerializeSize(n)
  BY DEF VarIntSerializeSize
<1>2. VarIntSerializeSize(m) \in Nat /\ VarIntSerializeSize(n) \in Nat
      /\ VarIntSerializeSize(1 + 1) \in Nat
  BY DEF VarIntSerializeSize
<1>3. InputSize("P2PKH") = 149
  BY DEF InputSize, SigScriptSize
<1>4. P2PKHOutputSize = 34
  BY DEF P2PKHOutputSize, P2PKHPkScriptSize
<1> QED BY <1>1, <1>2, <1>3, <1>4 DEF EstimateSerializeSize

(* And so does its fee.                                                    *)
LEMMA FeeGrows ==
    ASSUME NEW m \in Nat, NEW n \in Nat, m <= n, feeLevel \in FeeLevels
    PROVE  RequiredFee(m) <= RequiredFee(n)
<1>1. GetFeePerByte(feeLevel) \in {1, 2, 4}
  BY DEF GetFeePerByte, FeeLevels, priorityFee, normalFee, economicFee
<1>2. \A k \in Nat : EstimateSerializeSize(k, 1, TRUE, "P2PKH") \in Nat
  BY DEF EstimateSerializeSize, VarIntSerializeSize, InputSize, SigScriptSize, P2PKHOutputSize, P2PKHPkScriptSize
<1>3. \A x, y \in Nat, r \in {1, 2, 4} : x <= y => x * r <= y * r
  OBVIOUS
<1> QED BY <1>1, <1>2, <1>3, SizeGrows DEF RequiredFee

(* A beginning at least as long as `picked' that misses the target         *)
(* computed for `picked' is not affordable.                                *)
LEMMA MissesTarget ==
    ASSUME Looping, NEW b \in Nat, NEW n \in 1..Len(coins), b <= n,
           ~(total[n] >= amount + RequiredFee(b))
    PROVE  ~Affordable(n)
<1>1. n \in Nat /\ total[n] \in Nat /\ amount \in Nat
  BY DEF Looping
<1>2. RequiredFee(b) \in Nat /\ RequiredFee(n) \in Nat /\ RequiredFee(b) <= RequiredFee(n)
  BY <1>1, FeeType, FeeGrows DEF Looping
<1> QED BY <1>1, <1>2 DEF Affordable

(* gatherCoins of a finite wallet has a length.                            *)
LEMMA OrderLength ==
    ASSUME NEW S, IsFiniteSet(S), NEW s \in Orders(S)
    PROVE  Len(s) \in Nat
<1>1. Cardinality(S) \in Nat
  BY FS_CardinalityType
<1>2. s \in [1..Cardinality(S) -> S]
  BY DEF Orders
<1>3. s \in Seq(S)
  BY <1>1, <1>2
<1> QED BY <1>3

LEMMA CoinsFinite == ASSUME utxos \in Wallets PROVE IsFiniteSet(gatherCoins)
<1> DEFINE R == {v \in utxos : ~v.watchOnly}
           coin(u) == [row |-> u, value |-> u.value,
                       confs |-> IF u.atHeight > 0 THEN Height - u.atHeight ELSE 0]
<1>1. IsFiniteSet(R)
  BY SpendAssumption, FS_Subset
<1>2. IsFiniteSet({coin(u) : u \in R})
  <2> DEFINE f == [u \in R |-> coin(u)]
             T == {coin(u) : u \in R}
  <2>1. f \in Surjection(R, T)
    <3> HIDE DEF R, coin
    <3>1. f \in [R -> T]
      OBVIOUS
    <3>2. ASSUME NEW t \in T PROVE \E u \in R : f[u] = t
      OBVIOUS
    <3> QED BY <3>1, <3>2 DEF Surjection
  <2> HIDE DEF R, coin, f, T
  <2>2. IsFiniteSet(T)
    BY <1>1, <2>1, FS_Surjection
  <2> QED BY <2>2 DEF T
<1> QED BY <1>2 DEF gatherCoins

(* The result of a selection.                                              *)
LEMMA SelectLeast ==
    ASSUME Looping, NEW target, NEW n \in CoinSelect(target)
    PROVE  /\ n \in 1..Len(coins) /\ n <= MaxInputs /\ total[n] >= target
           /\ \A k \in 1..(n - 1) : ~(total[k] >= target)
<1>1. n \in Enough(target) /\ \A k \in Enough(target) : n <= k
  BY DEF CoinSelect
<1>2. n \in 1..Len(coins) /\ n <= MaxInputs /\ total[n] >= target
  BY <1>1 DEF Enough
<1>3. ASSUME NEW k \in 1..(n - 1), total[k] >= target PROVE FALSE
  <2>1. k \in 1..Len(coins) /\ k <= MaxInputs /\ k < n
    BY <1>2, SpendAssumption DEF Looping
  <2>2. k \in Enough(target)
    BY <2>1, <1>3 DEF Enough
  <2> QED BY <1>1, <2>1, <2>2, <1>2 DEF Looping
<1> QED BY <1>2, <1>3

LEMMA InitLoop == Init => LoopInv
<1> SUFFICES ASSUME Init PROVE LoopInv
  OBVIOUS
<1>1. amount \in Nat /\ feeLevel \in FeeLevels /\ utxos \in Wallets
  BY SpendAssumption DEF Init, FeeLevels
<1>2. coins = <<>> /\ total = [n \in {0} |-> 0] /\ Len(coins) = 0
  BY DEF Init
<1>3. total \in [0..Len(coins) -> Nat]
  BY <1>2
<1>4. Looping
  BY <1>1, <1>2, <1>3 DEF Looping, Init
<1> QED BY <1>4 DEF Init, LoopInv, SpendExact, FeeBounds

(* buildTx starts the loop with the fee of one input.                      *)
LEMMA BuildStep == LoopInv /\ buildTx => LoopInv'
<1> SUFFICES ASSUME LoopInv, buildTx PROVE LoopInv'
  OBVIOUS
<1> USE DEF LoopInv, Looping
<1>1. CASE pc' = "dust"
  BY <1>1 DEF buildTx, args, SpendExact, FeeBounds
<1>2. CASE pc' = "fetchInputs"
  <2>1. /\ coins' \in Orders(gatherCoins) /\ total' \in [0..Len(coins') -> Nat]
        /\ targetFee' = RequiredFee(1) /\ pc' = "fetchInputs"
        /\ UNCHANGED <<utxos, amount, feeLevel, picked>> /\ picked = 0
    BY <1>2 DEF buildTx, args
  <2>2. Len(coins') \in Nat
    BY <2>1, CoinsFinite, OrderLength
  <2>3. Base' = 1 /\ RequiredFee(Base)' = RequiredFee(1)
    BY <2>1 DEF Base, RequiredFee
  <2> QED BY <2>1, <2>2, <2>3 DEF SpendExact, FeeBounds
<1> QED BY <1>1, <1>2 DEF buildTx

(* fetchInputs moves on to the shortest beginning that meets the target:   *)
(* what it passes over is not affordable.                                  *)
LEMMA FetchStep == LoopInv /\ fetchInputs => LoopInv'
<1> SUFFICES ASSUME LoopInv, fetchInputs PROVE LoopInv'
  OBVIOUS
<1>0. /\ Looping /\ pc = "fetchInputs"
      /\ targetFee = RequiredFee(Base) /\ Base \in Nat
      /\ \A n \in 1..Len(coins) : n < Base => ~Affordable(n)
      /\ UNCHANGED <<utxos, amount, feeLevel, coins, total, targetFee, change>>
  BY DEF LoopInv, fetchInputs, args, Base, Looping
<1>a. \A n : Affordable(n)' <=> Affordable(n)
  BY <1>0 DEF Affordable, RequiredFee
<1>b. ASSUME NEW n \in 1..Len(coins), ~(total[n] >= amount + targetFee)
      PROVE  ~Affordable(n)
  <2>1. CASE n < Base
    BY <1>0, <2>1
  <2>2. CASE Base <= n
    BY <1>0, <1>b, <2>2, MissesTarget
  <2> QED BY <1>0, <2>1, <2>2 DEF Looping
<1>1. CASE Enough(amount + targetFee) = {} /\ pc' = "insufficient" /\ UNCHANGED picked
  <2>1. \A n \in 1..Len(coins) : n <= MaxInputs => ~(total[n] >= amount + targetFee)
    BY <1>1 DEF Enough
  <2>2. \A n \in 1..Len(coins) : n <= MaxInputs => ~Affordable(n)
    BY <2>1, <1>b
  <2>3. SpendExact' /\ FeeBounds'
    BY <1>0, <1>1, <1>a, <2>2 DEF SpendExact, FeeBounds
  <2> QED BY <1>0, <1>1, <2>3 DEF LoopInv, Looping
<1>2. CASE picked' \in CoinSelect(amount + targetFee) /\ pc' = "checkFee"
  <2>1. /\ picked' \in 1..Len(coins)
        /\ \A k \in 1..(picked' - 1) : ~(total[k] >= amount + targetFee)
    BY <1>0, <1>2, SelectLeast
  <2>2. \A k \in 1..(picked' - 1) : k \in 1..Len(coins)
    <3>1. Len(coins) \in Nat /\ picked' \in 1..Len(coins)
      BY <1>0, <2>1 DEF Looping
    <3>2. \A len \in Nat, m \in Nat, k \in Int : m <= len /\ k \in 1..(m - 1) => k \in 1..len
      OBVIOUS
    <3>3. picked' \in Nat /\ picked' <= Len(coins)
      BY <3>1
    <3>4. \A k \in 1..(picked' - 1) : k \in Int
      BY <3>3
    <3> QED BY <3>1, <3>2, <3>3, <3>4
  <2>3. \A k \in 1..(picked' - 1) : ~Affordable(k)
    BY <2>1, <2>2, <1>b
  <2>4. SpendExact' /\ FeeBounds'
    BY <1>2 DEF SpendExact, FeeBounds
  <2>5. \A k \in 1..(picked' - 1) : ~Affordable(k)'
    BY <2>3, <1>a
  <2> QED BY <1>0, <1>2, <2>1, <2>4, <2>5 DEF LoopInv, Looping
<1> QED BY <1>1, <1>2 DEF fetchInputs

(* raiseFee leaves a beginning that does not cover its own fee.            *)
LEMMA RaiseStep == LoopInv /\ raiseFee => LoopInv'
<1> SUFFICES ASSUME LoopInv, raiseFee PROVE LoopInv'
  OBVIOUS
<1>0. /\ Looping /\ pc = "checkFee" /\ pc' = "fetchInputs"
      /\ picked \in 1..Len(coins) /\ \A n \in 1..(picked - 1) : ~Affordable(n)
      /\ total[picked] - amount < RequiredFee(picked)
      /\ targetFee' = RequiredFee(picked)
      /\ UNCHANGED <<utxos, amount, feeLevel, coins, total, picked, change>>
  BY DEF LoopInv, raiseFee, args
<1>a. \A n : (Affordable(n)' <=> Affordable(n)) /\ RequiredFee(n)' = RequiredFee(n)
  BY <1>0 DEF Affordable, RequiredFee
<1>1. picked \in Nat /\ picked > 0 /\ Base' = picked
  BY <1>0 DEF Looping, Base
<1>2. RequiredFee(picked) \in Nat /\ total[picked] \in Nat /\ amount \in Nat
  <2>1. Len(coins) \in Nat /\ picked \in 1..Len(coins) /\ total \in [0..Len(coins) -> Nat]
        /\ amount \in Nat /\ feeLevel \in FeeLevels
    BY <1>0 DEF Looping
  <2>2. picked \in Nat /\ picked \in 0..Len(coins)
    BY <2>1
  <2>3. RequiredFee(picked) \in Nat
    BY <2>1, <2>2, FeeType
  <2> QED BY <2>1, <2>2, <2>3
<1>3. ~Affordable(picked)
  BY <1>0, <1>2 DEF Affordable
<1>4. \A n \in 1..Len(coins) : n < picked => ~Affordable(n)
  BY <1>0, <1>1 DEF Looping
<1>5. targetFee' = RequiredFee(Base)'
  BY <1>0, <1>1 DEF RequiredFee
<1>6. SpendExact' /\ FeeBounds'
  BY <1>0 DEF SpendExact, FeeBounds
<1> QED BY <1>0, <1>1, <1>3, <1>4, <1>5, <1>6, <1>a DEF LoopInv, Looping

(* authorTx: the fee covers the size, and only dust is added to it.        *)
LEMMA AuthorStep == LoopInv /\ authorTx => LoopInv'
<1> SUFFICES ASSUME LoopInv, authorTx PROVE LoopInv'
  OBVIOUS
<1> DEFINE rest == total[picked] - amount - RequiredFee(picked)
<1>0. /\ Looping /\ pc = "checkFee" /\ pc' = "built"
      /\ picked \in 1..Len(coins) /\ \A n \in 1..(picked - 1) : ~Affordable(n)
      /\ total[picked] - amount >= RequiredFee(picked)
      /\ change' = IF rest # 0 /\ ~IsDustAmount(rest, P2PKHOutputSize) THEN rest ELSE 0
      /\ UNCHANGED <<utxos, amount, feeLevel, coins, total, targetFee, picked>>
  BY DEF LoopInv, authorTx, args
<1>a. \A n : (Affordable(n)' <=> Affordable(n)) /\ RequiredFee(n)' = RequiredFee(n)
  BY <1>0 DEF Affordable, RequiredFee
<1>2. RequiredFee(picked) \in Nat /\ total[picked] \in Nat /\ amount \in Nat /\ rest \in Nat
  <2>1. Len(coins) \in Nat /\ picked \in 1..Len(coins) /\ total \in [0..Len(coins) -> Nat]
        /\ amount \in Nat /\ feeLevel \in FeeLevels
        /\ total[picked] - amount >= RequiredFee(picked)
    BY <1>0 DEF Looping
  <2>2. picked \in Nat /\ picked \in 0..Len(coins)
    BY <2>1
  <2>3. RequiredFee(picked) \in Nat
    BY <2>1, <2>2, FeeType
  <2> QED BY <2>1, <2>2, <2>3
<1>3. Affordable(picked)
  BY <1>0, <1>2 DEF Affordable
<1>4. SpendExact'
  BY <1>0, <1>3, <1>a DEF SpendExact
<1>5. ASSUME NEW v \in Nat, IsDustAmount(v, P2PKHOutputSize) PROVE v < 573
  BY <1>5 DEF IsDustAmount, P2PKHOutputSize, P2PKHPkScriptSize
<1>6. ASSUME NEW v \in Nat, ~IsDustAmount(v, P2PKHOutputSize)
      PROVE  ~IsDustAmount(v, P2PKHPkScriptSize)
  BY <1>6 DEF IsDustAmount, P2PKHOutputSize, P2PKHPkScriptSize
<1>7. SpendFee' = total[picked] - amount - change' /\ RequiredFee(picked)' = RequiredFee(picked)
  BY <1>0, <1>a DEF SpendFee
<1>8. CASE change' = rest /\ rest # 0 /\ ~IsDustAmount(rest, P2PKHOutputSize)
  <2>1. SpendFee' = RequiredFee(picked)
    BY <1>2, <1>7, <1>8
  <2>2. ~IsDustAmount(change', P2PKHPkScriptSize)
    BY <1>2, <1>6, <1>8
  <2>3. FeeBounds'
    BY <1>2, <1>7, <2>1, <2>2 DEF FeeBounds, IsDustAmount, P2PKHPkScriptSize
  <2> QED BY <1>0, <1>4, <2>3 DEF LoopInv, Looping
<1>9. CASE change' = 0 /\ (rest = 0 \/ IsDustAmount(rest, P2PKHOutputSize))
  <2>1. rest < 573
    BY <1>2, <1>5, <1>9
  <2>2. SpendFee' = RequiredFee(picked) + rest
    BY <1>2, <1>7, <1>9
  <2>3. /\ SpendFee' >= RequiredFee(picked)'
        /\ SpendFee' < RequiredFee(picked)' + 573
    BY <1>2, <1>7, <2>1, <2>2
  <2>4. ~(change' > 0)
    BY <1>9
  <2>5. FeeBounds'
    BY <2>3, <2>4 DEF FeeBounds
  <2> QED BY <1>0, <1>4, <2>5 DEF LoopInv, Looping
<1> QED BY <1>0, <1>8, <1>9

(* Sweeping has no loop.                                                   *)
LEMMA SweepStep == LoopInv /\ (SweepAddress \/ BumpFee) => LoopInv'
<1> SUFFICES ASSUME LoopInv, SweepAddress \/ BumpFee PROVE LoopInv'
  OBVIOUS
<1>1. ASSUME NEW s, NEW t, Sweep(s, t), Len(s) \in Nat PROVE LoopInv'
  BY <1>1 DEF Sweep, LoopInv, Looping, args, SpendExact, FeeBounds
<1>2. CASE SweepAddress
  <2>1. PICK s \in Orders(gatherCoins), t \in InputTypes : Sweep(s, t)
    BY <1>2 DEF SweepAddress
  <2>2. Len(s) \in Nat
    BY CoinsFinite, OrderLength DEF LoopInv, Looping
  <2> QED BY <1>1, <2>1, <2>2
<1>3. CASE BumpFee /\ pc' = "notFound"
  <2>1. UNCHANGED <<args, coins, total, targetFee, picked, change>> \/ pc' = "swept"
    BY <1>3 DEF BumpFee, Sweep
  <2> QED BY <1>3, <2>1 DEF LoopInv, Looping, args, SpendExact, FeeBounds
<1>4. CASE BumpFee /\ pc' # "notFound"
  <2>1. PICK c \in gatherCoins : Sweep(<<c>>, "P2PKH")
    BY <1>4 DEF BumpFee
  <2>2. Len(<<c>>) \in Nat
    OBVIOUS
  <2> QED BY <1>1, <2>1, <2>2
<1> QED BY <1>2, <1>3, <1>4

LEMMA StutterLoop == LoopInv /\ UNCHANGED vars => LoopInv'
<1> SUFFICES ASSUME LoopInv, UNCHANGED vars PROVE LoopInv'
  OBVIOUS
<1>1. \A n : (Affordable(n)' <=> Affordable(n)) /\ RequiredFee(n)' = RequiredFee(n)
  BY DEF Affordable, RequiredFee, vars
<1> QED BY <1>1 DEF vars, LoopInv, Looping, SpendExact, FeeBounds, SpendFee, Base

LEMMA LoopAlways == Spec => []LoopInv
<1>1. LoopInv /\ [Next]_vars => LoopInv'
  BY BuildStep, FetchStep, RaiseStep, AuthorStep, SweepStep, StutterLoop DEF Next
<1> QED BY InitLoop, <1>1, PTL DEF Spec

(***************************************************************************)
(* For every wallet, amount, fee level and order of the coins, the fee     *)
(* loop ends, if it ends, with the shortest beginning that pays the amount *)
(* and its own fee, and reports insufficient funds only if there is none.  *)
(***************************************************************************)
THEOREM SpendIsExact == Spec => []SpendExact
<1>1. LoopInv => SpendExact
  BY DEF LoopInv
<1> QED BY LoopAlways, <1>1, PTL

(***************************************************************************)
(* The fee of every payment NewUnsignedTransaction returns covers its      *)
(* estimated size and exceeds it by less than the smallest change output.  *)
(***************************************************************************)
THEOREM FeeIsBounded == Spec => []FeeBounds
<1>1. LoopInv => FeeBounds
  BY DEF LoopInv
<1> QED BY LoopAlways, <1>1, PTL

----------------------------------------------------------------------------
(* Multiplication and division keep the order.                             *)
LEMMA TimesMonotone ==
    ASSUME NEW a \in Int, NEW b \in Int, NEW c \in Nat, a <= b
    PROVE  a * c <= b * c /\ c * a <= c * b
  OBVIOUS

LEMMA TimesCancels ==
    ASSUME NEW a \in Int, NEW b \in Int, NEW c \in Nat \ {0}, a * c <= b * c
    PROVE  a <= b
<1>1. ASSUME b + 1 <= a PROVE FALSE
  <2>1. (b + 1) * c <= a * c
    BY <1>1, TimesMonotone
  <2>2. (b + 1) * c = b * c + c /\ b * c \in Int /\ a * c \in Int
    OBVIOUS
  <2> QED BY <2>1, <2>2
<1> QED BY <1>1

LEMMA DivBounds ==
    ASSUME NEW a \in Int, NEW b \in Nat \ {0}
    PROVE  a \div b \in Int /\ (a \div b) * b <= a /\ a < (a \div b + 1) * b
  OBVIOUS

(* The quotient is the largest number whose product fits.                  *)
LEMMA DivLargest ==
    ASSUME NEW a \in Int, NEW b \in Nat \ {0}, NEW q \in Int
    PROVE  a \div b \in Int /\ (q <= a \div b <=> q * b <= a)
<1> DEFINE d == a \div b
<1>1. d \in Int /\ d * b <= a /\ a < (d + 1) * b
  BY DivBounds
<1> HIDE DEF d
<1>2. ASSUME q <= d PROVE q * b <= a
  BY <1>1, <1>2, TimesMonotone
<1>3. ASSUME q * b <= a, d + 1 <= q PROVE FALSE
  <2>1. (d + 1) * b <= q * b
    BY <1>1, <1>3, TimesMonotone
  <2>2. (d + 1) * b \in Int /\ q * b \in Int
    BY <1>1
  <2> QED BY <1>1, <1>3, <2>1, <2>2
<1> QED BY <1>1, <1>2, <1>3 DEF d

LEMMA DivMonotone ==
    ASSUME NEW a \in Int, NEW b \in Int, NEW c \in Nat \ {0}, a <= b
    PROVE  a \div c <= b \div c
<1> DEFINE q == a \div c
<1>1. q \in Int /\ q * c <= a
  BY DivBounds
<1> HIDE DEF q
<1>2. q * c <= b
  BY <1>1
<1>3. q <= b \div c
  BY <1>1, <1>2, DivLargest
<1> QED BY <1>3 DEF q

(* The work of m blocks, with their spacing, measured over the time B.     *)
LEMMA WorkBetween ==
    ASSUME NEW w \in Nat, NEW S \in Nat \ {0}, NEW a \in Nat, NEW m \in Nat, NEW b \in Nat,
           a <= m, m <= b,
           NEW lo \in Nat \ {0}, NEW hi \in Nat \ {0}, NEW B \in Int, lo * S <= B, B <= hi * S
    PROVE  LET q == ((m * w) * S) \div B
           IN  q \in Int /\ (w * a) \div hi <= q /\ q <= (w * b) \div lo
<1> DEFINE q == ((m * w) * S) \div B
           p == (w * a) \div hi
<1>1. lo * S >= 1 /\ B \in Nat \ {0} /\ m * w \in Nat /\ w * a \in Nat /\ w * b \in Nat
      /\ (m * w) * S \in Nat
  <2>1. lo * S \in Nat /\ 1 * S <= lo * S
    BY TimesMonotone
  <2> QED BY <2>1
<1>2. w * a <= m * w /\ m * w <= w * b
  <2>1. a * w <= m * w /\ m * w <= b * w
    BY TimesMonotone
  <2> QED BY <2>1
<1>3. q \in Int /\ q * B <= (m * w) * S
  BY <1>1, DivBounds
<1>4. 0 <= q
  <2>1. 0 * B <= (m * w) * S
    BY <1>1
  <2> QED BY <1>1, <2>1, DivLargest
<1>5. p \in Int /\ p * hi <= w * a
  BY <1>1, DivBounds
<1>6. 0 <= p
  <2>1. 0 * hi <= w * a
    BY <1>1
  <2> QED BY <1>1, <2>1, DivLargest
<1> HIDE DEF q, p
<1>7. q <= (w * b) \div lo
  <2>1. q * (lo * S) <= q * B
    BY <1>1, <1>3, <1>4, TimesMonotone
  <2>2. (q * lo) * S <= (m * w) * S
    BY <1>1, <1>3, <2>1
  <2>3. q * lo <= m * w
    BY <1>1, <1>3, <2>2, TimesCancels
  <2>4. q * lo <= w * b
    BY <1>1, <1>2, <1>3, <2>3
  <2> QED BY <1>1, <1>3, <2>4, DivLargest
<1>8. p <= q
  <2>1. p * hi <= m * w
    BY <1>1, <1>2, <1>5
  <2>2. (p * hi) * S <= (m * w) * S
    BY <1>1, <1>5, <2>1, TimesMonotone
  <2>3. p * B <= p * (hi * S)
    BY <1>1, <1>5, <1>6, TimesMonotone
  <2>4. p * B <= (m * w) * S
    BY <1>1, <1>5, <2>2, <2>3
  <2> QED BY <1>1, <1>5, <2>4, DivLargest DEF q
<1> QED BY <1>3, <1>7, <1>8 DEF q, p

LEMMA MantissaLemma == Mantissa \in Nat /\ \E h \in Nat : Mantissa = h * 256
<1>1. Mantissa = 32768 * 256
  BY SMT DEF Mantissa
<1>2. 32768 \in Nat
  BY SMT
<1>3. 32768 * 256 \in Nat
  BY SMT
<1> QED BY <1>1, <1>2, <1>3, SMT

(* The unit of a number that is at most PowLimit.                          *)
LEMMA CompactUnit ==
    ASSUME NEW n \in 0..PowLimit
    PROVE  \E u \in Units : /\ Fits(n, u) /\ \A v \in Units : Fits(n, v) => u <= v
                            /\ BigToCompact(n) = (n \div u) * u
<1> DEFINE T == {u \in Units : Fits(n, u)}
<1>1. PICK top \in Units : PowLimit \div top < Mantissa
  BY UnitsAssumption
<1>2. top \in Nat \ {0} /\ PowLimit \in Nat
  BY UnitsAssumption, DifficultyAssumption
<1>3. n \div top <= PowLimit \div top /\ n \div top \in Int /\ PowLimit \div top \in Int
  BY <1>2, DivMonotone, DivBounds
<1>4. top \in T
  BY <1>1, <1>3, MantissaLemma DEF Fits
<1>5. T \in SUBSET Nat
  BY UnitsAssumption
<1>6. \E u \in T : \A v \in T : u <= v
  BY ONLY <1>4, <1>5, LeastNat
<1>7. \E u \in Units : Fits(n, u) /\ \A v \in Units : Fits(n, v) => u <= v
  BY <1>6
<1> QED BY <1>7 DEF BigToCompact

(* Rounding to 23 bits keeps the order: a number with a smaller unit is    *)
(* below every number of the larger one.                                   *)
LEMMA CompactMonotone ==
    ASSUME NEW n \in 0..PowLimit, NEW m \in 0..PowLimit, n <= m
    PROVE  BigToCompact(n) \in Int /\ BigToCompact(m) \in Int /\ BigToCompact(n) <= BigToCompact(m)
<1>1. PICK u \in Units : /\ Fits(n, u) /\ \A v \in Units : Fits(n, v) => u <= v
                         /\ BigToCompact(n) = (n \div u) * u
  BY CompactUnit
<1>2. PICK t \in Units : /\ Fits(m, t) /\ \A v \in Units : Fits(m, v) => t <= v
                         /\ BigToCompact(m) = (m \div t) * t
  BY CompactUnit
<1>3. u \in Nat \ {0} /\ t \in Nat \ {0} /\ n \in Int /\ m \in Int
  BY UnitsAssumption, DifficultyAssumption
<1>4. /\ n \div u \in Int /\ (n \div u) * u <= n /\ n < (n \div u + 1) * u
      /\ m \div t \in Int /\ (m \div t) * t <= m /\ m < (m \div t + 1) * t
  BY <1>3, DivBounds
<1>5. CASE t = u
  <2>1. n \div u <= m \div u
    BY <1>3, DivMonotone
  <2>2. (n \div u) * u <= (m \div u) * u
    BY <1>3, <1>4, <1>5, <2>1, TimesMonotone
  <2> QED BY <1>1, <1>2, <1>3, <1>4, <1>5, <2>2
<1>6. CASE t # u
  <2>1. n \div t <= m \div t /\ n \div t \in Int
    BY <1>3, DivMonotone, DivBounds
  <2>2. Fits(n, t)
    BY <1>2, <1>4, <2>1, MantissaLemma DEF Fits
  <2>3. u < t
    BY <1>1, <1>3, <1>6, <2>2
  <2>4. PICK v \in Units : t = 256 * v
    BY <1>3, <2>3, UnitsAssumption
  <2>5. v \in Nat \ {0} /\ v < t /\ 256 * u <= t
    BY <2>3, <2>4, UnitsAssumption
  <2>6. u <= v
    BY <1>3, <2>4, <2>5
  <2>7. ~Fits(m, v)
    BY <1>2, <1>3, <2>5
  <2>8. Mantissa * v <= m
    <3>1. m \div v \in Int /\ Mantissa <= m \div v
      BY <1>3, <2>5, <2>7, MantissaLemma, DivBounds DEF Fits
    <3> QED BY <1>3, <2>5, <3>1, MantissaLemma, DivLargest
  <2>9. n < Mantissa * v
    <3>1. n \div u + 1 <= Mantissa
      BY <1>1, <1>4, MantissaLemma DEF Fits
    <3>2. (n \div u + 1) * u <= Mantissa * u
      BY <1>3, <1>4, <3>1, MantissaLemma, TimesMonotone
    <3>3. n < Mantissa * u
      BY <1>3, <1>4, <3>2, MantissaLemma
    <3>4. u * Mantissa <= v * Mantissa
      BY <1>3, <2>5, <2>6, MantissaLemma, TimesMonotone
    <3> QED BY <1>3, <2>5, <3>3, <3>4, MantissaLemma
  <2>10. Mantissa * v <= (m \div t) * t
    <3>1. PICK h \in Nat : Mantissa = h * 256
      BY MantissaLemma
    <3>2. h * t = Mantissa * v
      BY <2>4, <2>5, <3>1
    <3>3. h <= m \div t
      BY <1>3, <2>8, <3>1, <3>2, DivLargest
    <3>4. h * t <= (m \div t) * t
      BY <1>3, <1>4, <3>1, <3>3, TimesMonotone
    <3> QED BY <3>2, <3>4
  <2>11. (n \div u) * u \in Int /\ (m \div t) * t \in Int
    BY <1>3, <1>4
  <2> QED BY <1>1, <1>2, <1>3, <1>4, <2>5, <2>9, <2>10, <2>11, MantissaLemma
<1> QED BY <1>5, <1>6

(* More work, a lower target.                                              *)
LEMMA TargetAntitone ==
    ASSUME NEW x \in Nat \ {0}, NEW y \in Nat \ {0}, x <= y, y <= Full
    PROVE  TargetFor(y) <= TargetFor(x)
<1> DEFINE p == (Full - x) \div x
           q == (Full - y) \div y
           cut(n) == IF n > PowLimit THEN PowLimit ELSE n
<1>1. Full \in Nat /\ PowLimit \in Nat /\ Full - x \in Nat /\ Full - y \in Nat
  BY DifficultyAssumption
<1>2. p \in Int /\ q \in Int /\ q * y <= Full - y
  BY <1>1, DivBounds
<1>3. 0 <= q
  <2>1. 0 * y <= Full - y
    BY <1>1
  <2> QED BY <1>1, <2>1, DivLargest
<1> HIDE DEF q
<1>4. q <= p
  <2>1. (q + 1) * y <= Full
    BY <1>1, <1>2
  <2>2. (q + 1) * x <= (q + 1) * y
    BY <1>2, <1>3, TimesMonotone
  <2>3. q * x <= Full - x
    BY <1>1, <1>2, <2>1, <2>2
  <2> QED BY <1>1, <1>2, <2>3, DivLargest
<1> HIDE DEF p
<1>5. cut(q) \in 0..PowLimit /\ cut(p) \in 0..PowLimit /\ cut(q) <= cut(p)
  BY <1>1, <1>2, <1>3, <1>4
<1> HIDE DEF cut
<1>6. BigToCompact(cut(q)) <= BigToCompact(cut(p))
  BY <1>5, CompactMonotone
<1>7. TargetFor(y) = BigToCompact(cut(q)) /\ TargetFor(x) = BigToCompact(cut(p))
  BY DEF TargetFor, cut, p, q
<1> QED BY <1>6, <1>7

(* GetSuitableBlock takes one of the three headers, with another before    *)
(* and another after it.                                                   *)
LEMMA MiddleLemma ==
    ASSUME NEW chain, NEW n \in Int, \A i \in (n - 2)..n : chain[i].time \in Int
    PROVE  \E i \in (n - 2)..n :
              /\ GetSuitableBlock(chain, n) = chain[i]
              /\ \E j, k \in (n - 2)..n : Less(chain, j, i) /\ Less(chain, i, k)
<1>1. n - 2 \in (n - 2)..n /\ n - 1 \in (n - 2)..n /\ n \in (n - 2)..n
  OBVIOUS
<1>2. PICK x \in Int, y \in Int, z \in Int :
         x = chain[n - 2].time /\ y = chain[n - 1].time /\ z = chain[n].time
  BY <1>1
<1>3. /\ Less(chain, n - 2, n - 1) <=> x <= y
      /\ Less(chain, n - 1, n - 2) <=> y < x
      /\ Less(chain, n - 2, n) <=> x <= z
      /\ Less(chain, n, n - 2) <=> z < x
      /\ Less(chain, n - 1, n) <=> y <= z
      /\ Less(chain, n, n - 1) <=> z < y
  BY <1>2 DEF Less
<1>4. \E i \in (n - 2)..n : \E j, k \in (n - 2)..n : Less(chain, j, i) /\ Less(chain, i, k)
  <2>1. CASE (x <= y /\ y <= z) \/ (z < y /\ y < x)
    BY <1>1, <1>3, <2>1
  <2>2. CASE (y < x /\ x <= z) \/ (z < x /\ x <= y)
    BY <1>1, <1>3, <2>2
  <2>3. CASE (x <= z /\ z < y) \/ (y <= z /\ z < x)
    BY <1>1, <1>3, <2>3
  <2> QED BY <1>2, <2>1, <2>2, <2>3
<1> QED BY <1>4 DEF GetSuitableBlock

(* The work of a header: enough for the divisions, and a third of the      *)
(* whole at most.                                                          *)
LEMMA WorkRange ==
    ASSUME NEW t \in Targets
    PROVE  CalcWork(t) \in Nat /\ CalcWork(t) >= 2 * Depth /\ CalcWork(t) * 3 <= Full
<1> DEFINE w == CalcWork(t)
<1>1. t \in Nat /\ t + 1 \in Nat \ {0} /\ t + 1 >= 3 /\ (2 * Depth) * (t + 1) <= Full
      /\ Full \in Nat /\ Depth \in Nat /\ 2 * Depth \in Nat
  BY TargetsAssumption, DifficultyAssumption
<1>2. w \in Int /\ w * (t + 1) <= Full /\ 2 * Depth <= w
  <2>1. w = Full \div (t + 1)
    BY DEF CalcWork
  <2>2. w \in Int /\ w * (t + 1) <= Full
    BY <1>1, <2>1, DivBounds
  <2>3. 2 * Depth <= Full \div (t + 1)
    BY <1>1, DivLargest
  <2> QED BY <2>1, <2>2, <2>3
<1> HIDE DEF w
<1>3. w \in Nat
  BY <1>1, <1>2
<1>4. w * 3 <= w * (t + 1)
  BY <1>1, <1>3, TimesMonotone
<1>5. w * 3 <= Full
  BY <1>1, <1>2, <1>3, <1>4
<1> QED BY <1>2, <1>3, <1>5 DEF w

(* Headers i and j are between a and b blocks apart, and the time between  *)
(* them, once bounded, is between lo and hi spacings.                      *)
Apart(times, i, j, a, b, lo, hi) ==
    /\ i \in 1..(Depth + 3) /\ j \in 1..(Depth + 3)
    /\ a \in Nat \ {0} /\ b \in Nat /\ a <= j - i /\ j - i <= b
    /\ lo \in Nat \ {0} /\ hi \in Nat \ {0} /\ hi <= 2 * Depth /\ b <= 3 * lo
    /\ Bounded(times[j] - times[i]) \in Int
    /\ lo * Spacing <= Bounded(times[j] - times[i])
    /\ Bounded(times[j] - times[i]) <= hi * Spacing

(* The rule applied to two such headers of a chain of one target.          *)
LEMMA AdjustBetween ==
    ASSUME NEW t \in Targets, NEW times, NEW i, NEW j, NEW a, NEW b, NEW lo, NEW hi,
           Apart(times, i, j, a, b, lo, hi)
    PROVE  /\ calcDiffAdjust(Chain(t, times)[i], Chain(t, times)[j]) >= Measured(t, b, lo)
           /\ calcDiffAdjust(Chain(t, times)[i], Chain(t, times)[j]) <= Measured(t, a, hi)
<1>1. PICK B \in Int : B = Bounded(times[j] - times[i]) /\ lo * Spacing <= B /\ B <= hi * Spacing
  BY DEF Apart
<1>2. i \in 1..(Depth + 3) /\ j \in 1..(Depth + 3) /\ a \in Nat \ {0} /\ b \in Nat
      /\ a <= j - i /\ j - i <= b /\ lo \in Nat \ {0} /\ hi \in Nat \ {0}
      /\ hi <= 2 * Depth /\ b <= 3 * lo
  BY DEF Apart
<1> DEFINE w == CalcWork(t)
           m == j - i
           q == ((m * w) * Spacing) \div B
           x == (w * a) \div hi
           y == (w * b) \div lo
<1>3. Depth \in Nat /\ Spacing \in Nat \ {0} /\ Full \in Nat
  BY DifficultyAssumption
<1>4. w \in Nat /\ w >= 2 * Depth /\ w * 3 <= Full
  BY WorkRange
<1> HIDE DEF w
<1>5. i \in Int /\ j \in Int /\ m \in Nat /\ a <= m /\ m <= b
  BY <1>3, <1>2
<1>6. calcDiffAdjust(Chain(t, times)[i], Chain(t, times)[j]) = TargetFor(q)
  <2>1. /\ Chain(t, times)[i].time = times[i] /\ Chain(t, times)[i].totalWork = i * w
        /\ Chain(t, times)[j].time = times[j] /\ Chain(t, times)[j].totalWork = j * w
    BY <1>2 DEF Chain, w
  <2>2. j * w - i * w = m * w
    BY <1>4, <1>5
  <2> QED BY <1>1, <2>1, <2>2 DEF calcDiffAdjust
<1> HIDE DEF m
<1>7. q \in Int /\ x <= q /\ q <= y
  BY <1>3, <1>4, <1>5, <1>2, <1>1, WorkBetween
<1>8. w * a \in Nat /\ w * b \in Nat /\ x \in Int /\ y \in Int
  BY <1>4, <1>2, DivBounds
<1>9. 1 <= x
  <2>1. w * 1 <= w * a
    BY <1>4, <1>2, TimesMonotone
  <2>2. 1 * hi <= w * a
    BY <1>3, <1>4, <1>2, <1>8, <2>1
  <2> QED BY <1>2, <1>8, <2>2, DivLargest
<1>10. y <= Full
  <2>1. w * b \in Int
    BY <1>8
  <2>2. y * lo <= w * b
    BY ONLY <2>1, <1>2, DivBounds
  <2> HIDE DEF y
  <2>3. w * b <= w * (3 * lo)
    BY <1>4, <1>2, TimesMonotone
  <2>4. (w * 3) * lo <= Full * lo
    BY <1>3, <1>4, <1>2, TimesMonotone
  <2>5. w * (3 * lo) = (w * 3) * lo /\ w * (3 * lo) \in Int /\ Full * lo \in Int /\ y * lo \in Int
    BY <1>3, <1>4, <1>2, <1>8
  <2>6. y * lo <= Full * lo
    BY <1>8, <2>2, <2>3, <2>4, <2>5
  <2> QED BY <1>3, <1>2, <1>8, <2>6, TimesCancels
<1> HIDE DEF q, x, y
<1>11. x \in Nat \ {0} /\ q \in Nat \ {0} /\ y \in Nat \ {0} /\ q <= Full
  BY <1>3, <1>7, <1>8, <1>9, <1>10
<1>12. TargetFor(y) <= TargetFor(q) /\ TargetFor(q) <= TargetFor(x)
  BY <1>7, <1>10, <1>11, TargetAntitone
<1>13. Measured(t, b, lo) = TargetFor(y) /\ Measured(t, a, hi) = TargetFor(x)
  BY DEF Measured, w, x, y
<1> QED BY <1>6, <1>12, <1>13

(* The time the rule uses is within its bounds, and the measured one if    *)
(* that is.                                                                *)
LEMMA BoundedLemma ==
    ASSUME NEW d \in Int
    PROVE  /\ Bounded(d) \in Int
           /\ (Depth \div 2) * Spacing <= Bounded(d) /\ Bounded(d) <= (2 * Depth) * Spacing
           /\ (Depth \div 2) * Spacing <= d /\ d <= (2 * Depth) * Spacing => Bounded(d) = d
           /\ Depth \div 2 \in Nat \ {0} /\ 2 * (Depth \div 2) = Depth
<1>1. Depth \in Nat /\ Depth >= 4 /\ Depth % 2 = 0 /\ Spacing \in Nat \ {0}
  BY DifficultyAssumption
<1>2. PICK h \in Nat : h = Depth \div 2 /\ 2 * h = Depth
  BY <1>1
<1>3. h >= 2
  BY <1>1, <1>2
<1>4. /\ Depth * Spacing = 2 * (h * Spacing) /\ h * Spacing \in Nat
      /\ (2 * Depth) * Spacing = 4 * (h * Spacing)
      /\ 2 * Depth * Spacing = 4 * (h * Spacing)
  BY <1>1, <1>2
<1>5. (Depth * Spacing) \div 2 = h * Spacing
  BY <1>4
<1> QED BY <1>2, <1>3, <1>4, <1>5 DEF Bounded

(* Header i is the middle one of the headers lo to hi.                     *)
Median(c, lo, hi, i) ==
    i \in lo..hi /\ \E p, s \in lo..hi : Less(c, p, i) /\ Less(c, i, s)

(* The rule compares one of the last three headers with one of the first   *)
(* three.                                                                  *)
LEMMA RequiredWork ==
    ASSUME NEW t \in Targets, NEW times \in [1..(Depth + 3) -> Int]
    PROVE  \E i \in 1..3, j \in (Depth + 1)..(Depth + 3) :
              LET c == Chain(t, times)
              IN  /\ calcRequiredWork(0, c, FALSE) = calcDiffAdjust(c[i], c[j])
                  /\ Median(c, 1, 3, i) /\ Median(c, Depth + 1, Depth + 3, j)
<1> DEFINE c == Chain(t, times)
           n == Depth + 3
<1>1. Depth \in Nat /\ Depth >= 4 /\ n \in Int
  BY DifficultyAssumption
<1>2. Len(c) = n /\ \A k \in 1..n : c[k].time = times[k]
  BY <1>1 DEF Chain
<1> HIDE DEF c
<1>3. calcRequiredWork(0, c, FALSE)
         = calcDiffAdjust(GetSuitableBlock(c, n - Depth), GetSuitableBlock(c, n))
  BY <1>2 DEF calcRequiredWork, GetEpoch
<1>4. n - Depth = 3 /\ n - 2 = Depth + 1 /\ 3 - 2 = 1
  BY <1>1
<1>5. \A k \in 1..n : c[k].time \in Int
  BY <1>2
<1>6. PICK i \in 1..3 : GetSuitableBlock(c, 3) = c[i]
                           /\ \E p, s \in 1..3 : Less(c, p, i) /\ Less(c, i, s)
  <2>1. \A k \in (3 - 2)..3 : c[k].time \in Int
    BY <1>1, <1>5
  <2> QED BY <1>4, <2>1, MiddleLemma
<1>7. PICK j \in (Depth + 1)..n : GetSuitableBlock(c, n) = c[j]
                           /\ \E p, s \in (Depth + 1)..n : Less(c, p, j) /\ Less(c, j, s)
  <2>1. \A k \in (n - 2)..n : c[k].time \in Int
    BY <1>1, <1>5
  <2> QED BY <1>1, <1>4, <2>1, MiddleLemma
<1> QED BY <1>3, <1>4, <1>6, <1>7 DEF c, Median

(* Whatever the timestamps, calcRequiredWork never gives a target beyond   *)
(* the bounds its amplitude and its medians allow, for every depth,        *)
(* spacing and target.                                                     *)
THEOREM RuleIsDamped == ASSUME input \in ChainInputs PROVE DifficultyDamped
<1> DEFINE t == input.target
           times == input.times
           c == Chain(t, times)
<1>1. t \in Targets /\ times \in [1..(Depth + 3) -> Times]
  BY DEF ChainInputs
<1>2. Depth \in Nat /\ Depth >= 4 /\ Times \subseteq Int
  BY DifficultyAssumption
<1>3. times \in [1..(Depth + 3) -> Int]
  BY <1>1, <1>2
<1> HIDE DEF t, times
<1>4. PICK i \in 1..3, j \in (Depth + 1)..(Depth + 3) :
         calcRequiredWork(0, c, FALSE) = calcDiffAdjust(c[i], c[j])
  BY <1>1, <1>3, RequiredWork
<1>5. i \in 1..(Depth + 3) /\ j \in 1..(Depth + 3) /\ Depth - 2 <= j - i /\ j - i <= Depth + 2
      /\ Depth - 2 \in Nat \ {0} /\ Depth + 2 \in Nat /\ 2 * Depth \in Nat \ {0}
  BY <1>2
<1>6. times[j] - times[i] \in Int
  BY <1>3, <1>5
<1> DEFINE B == Bounded(times[j] - times[i])
           h == Depth \div 2
<1>7. B \in Int /\ h * Spacing <= B /\ B <= (2 * Depth) * Spacing
      /\ h \in Nat \ {0} /\ 2 * h = Depth
  BY <1>6, BoundedLemma
<1>8. Depth + 2 <= 3 * h
  BY <1>2, <1>7
<1>9. Apart(times, i, j, Depth - 2, Depth + 2, h, 2 * Depth)
  BY <1>2, <1>5, <1>7, <1>8 DEF Apart
<1>10. /\ calcDiffAdjust(c[i], c[j]) >= Measured(t, Depth + 2, h)
       /\ calcDiffAdjust(c[i], c[j]) <= Measured(t, Depth - 2, 2 * Depth)
  BY <1>1, <1>9, AdjustBetween
<1> QED BY <1>4, <1>10 DEF DifficultyDamped, t, times

(* The rule on a chain of which one timestamp is wrong: the two medians    *)
(* are one block apart from the middle ones at most, and so are their      *)
(* timestamps.                                                             *)
OneWrong(times, k) ==
    /\ times \in [1..(Depth + 3) -> Int] /\ k \in Int
    /\ \A x \in 1..(Depth + 3) : x # k => times[x] = x * Spacing

Window(lo, m, hi) == m \in 2..(Depth + 2) /\ lo = m - 1 /\ hi = m + 1

Near(time, lo, hi) == lo * Spacing <= time /\ time <= hi * Spacing

LEMMA MedianNear ==
    ASSUME NEW t, NEW times, NEW k, OneWrong(times, k),
           NEW m, NEW lo, NEW hi, Window(lo, m, hi), NEW i, Median(Chain(t, times), lo, hi, i)
    PROVE  Near(times[i], lo, hi) /\ (k \notin lo..hi => i = m /\ times[i] = m * Spacing)
<1>1. PICK p \in (m - 1)..(m + 1), s \in (m - 1)..(m + 1) :
         /\ i \in (m - 1)..(m + 1)
         /\ Less(Chain(t, times), p, i) /\ Less(Chain(t, times), i, s)
  BY DEF Median, Window
<1>2. m \in Int /\ \A x \in (m - 1)..(m + 1) : x \in Int
  BY DifficultyAssumption DEF Window
<1>3. /\ times \in [1..(Depth + 3) -> Int] /\ k \in Int /\ m \in Int /\ i \in Int
      /\ \A x \in 1..(Depth + 3) : x # k => times[x] = x * Spacing
  BY <1>1, <1>2 DEF OneWrong
<1>4. Depth \in Nat /\ Depth >= 4 /\ Spacing \in Nat \ {0}
  BY DifficultyAssumption
<1>5. \A x \in (m - 1)..(m + 1) : x \in Int /\ x \in 1..(Depth + 3)
  BY <1>4 DEF Window
<1>6. \A x \in 1..(Depth + 3) : Chain(t, times)[x].time = times[x] /\ times[x] \in Int
  BY <1>4, <1>3 DEF Chain
<1>7. /\ times[p] < times[i] \/ (times[p] = times[i] /\ p < i)
      /\ times[i] < times[s] \/ (times[i] = times[s] /\ i < s)
  BY <1>1, <1>5, <1>6 DEF Less
<1>8. PICK S \in Nat \ {0}, o \in Int : S = Spacing /\ o = m * Spacing
  BY <1>4, <1>3
<1>9. (m - 1) * Spacing = o - S /\ (m + 1) * Spacing = o + S
  BY <1>4, <1>3, <1>8
<1>10. \A x \in (m - 1)..(m + 1) : /\ x = m - 1 \/ x = m \/ x = m + 1
                                  /\ x * Spacing = IF x = m - 1 THEN o - S
                                                   ELSE IF x = m THEN o ELSE o + S
  <2>1. \A x \in (m - 1)..(m + 1) : x = m - 1 \/ x = m \/ x = m + 1
    BY <1>3
  <2>2. m # m - 1 /\ m + 1 # m /\ m + 1 # m - 1
    BY <1>3
  <2> QED BY <1>8, <1>9, <2>1, <2>2
<1>11. \A x \in (m - 1)..(m + 1) :
         x = k \/ times[x] = IF x = m - 1 THEN o - S ELSE IF x = m THEN o ELSE o + S
  BY <1>5, <1>10, <1>3
<1>12. /\ o - S <= times[i] /\ times[i] <= o + S
       /\ k \notin (m - 1)..(m + 1) => i = m /\ times[i] = o
  <2>1. PICK ti \in Int, tp \in Int, ts \in Int : ti = times[i] /\ tp = times[p] /\ ts = times[s]
    BY <1>1, <1>5, <1>6
  <2>2. /\ i = k \/ ti = IF i = m - 1 THEN o - S ELSE IF i = m THEN o ELSE o + S
        /\ p = k \/ tp = IF p = m - 1 THEN o - S ELSE IF p = m THEN o ELSE o + S
        /\ s = k \/ ts = IF s = m - 1 THEN o - S ELSE IF s = m THEN o ELSE o + S
    BY <1>1, <1>11, <2>1
  <2>3. tp < ti \/ (tp = ti /\ p < i)
    BY <1>7, <2>1
  <2>4. ti < ts \/ (ti = ts /\ i < s)
    BY <1>7, <2>1
  <2>5. i \in Int /\ p \in Int /\ s \in Int
    BY <1>1, <1>5
  <2>6. (i = m - 1 \/ i = m \/ i = m + 1) /\ (p = m - 1 \/ p = m \/ p = m + 1)
        /\ (s = m - 1 \/ s = m \/ s = m + 1)
    BY <1>1, <1>10
  <2>7. S \in Nat \ {0} /\ o \in Int /\ m \in Int
    BY <1>3
  <2>8. o - S <= ti /\ ti <= o + S
    <3>1. CASE i # k
      BY ONLY <2>1, <2>2, <2>7, <2>6, <3>1
    <3>2. CASE i = k
      <4>1. p # k /\ s # k
        BY ONLY <2>1, <2>3, <2>4, <2>5, <3>2
      <4>2. o - S <= tp /\ ts <= o + S
        BY ONLY <2>1, <2>2, <2>7, <2>6, <4>1
      <4> QED BY ONLY <2>1, <2>3, <2>4, <2>7, <4>2
    <3> QED BY <3>1, <3>2
  <2>9. ASSUME k \notin (m - 1)..(m + 1) PROVE i = m /\ ti = o
    <3>1. i # k /\ p # k /\ s # k
      BY <1>1, <2>9
    <3>2. o - S <= tp /\ ts <= o + S
      BY ONLY <2>1, <2>2, <2>7, <2>6, <3>1
    <3>3. i # m - 1
      <4>1. ASSUME i = m - 1 PROVE FALSE
        <5>1. ti = o - S /\ p >= m - 1
          BY ONLY <2>2, <2>7, <2>5, <2>6, <3>1, <4>1
        <5> QED BY ONLY <2>1, <2>3, <2>7, <2>5, <3>2, <4>1, <5>1
      <4> QED BY <4>1
    <3>4. i # m + 1
      <4>1. ASSUME i = m + 1 PROVE FALSE
        <5>1. ti = o + S /\ s <= m + 1
          BY ONLY <2>2, <2>7, <2>5, <2>6, <3>1, <4>1
        <5> QED BY ONLY <2>1, <2>4, <2>7, <2>5, <3>2, <4>1, <5>1
      <4> QED BY <4>1
    <3> QED BY ONLY <2>2, <2>7, <2>6, <3>1, <3>3, <3>4
  <2> QED BY <2>1, <2>8, <2>9
<1> QED BY <1>8, <1>9, <1>12 DEF Window, Near

(* One wrong clock does no harm, for every depth, spacing and target: the  *)
(* median of three drops it.                                               *)
THEOREM OutlierIsHarmless == ASSUME input \in OutlierInputs PROVE OutlierHarmless
<1> DEFINE t == input.target
           k == input.k
           times == [[x \in 1..(Depth + 3) |-> x * Spacing] EXCEPT ![k] = input.time]
           c == Chain(t, times)
<1>1. t \in Targets /\ k \in 1..(Depth + 3) /\ input.time \in Int
  BY DifficultyAssumption DEF OutlierInputs
<1>2. Depth \in Nat /\ Depth >= 4 /\ Spacing \in Nat \ {0}
  BY DifficultyAssumption
<1> HIDE DEF t, k
<1>3. \A x \in 1..(Depth + 3) : x \in Int /\ x * Spacing \in Int
  BY <1>2
<1>4. times \in [1..(Depth + 3) -> Int] /\ OneWrong(times, k)
  BY <1>1, <1>2, <1>3 DEF OneWrong
<1> HIDE DEF times
<1>5. PICK i \in 1..3, j \in (Depth + 1)..(Depth + 3) :
         /\ calcRequiredWork(0, c, FALSE) = calcDiffAdjust(c[i], c[j])
         /\ Median(c, 1, 3, i) /\ Median(c, Depth + 1, Depth + 3, j)
  BY <1>1, <1>4, RequiredWork
<1>6. PICK x \in Int, y \in Int, S \in Nat \ {0}, z \in Int :
         x = times[i] /\ y = times[j] /\ S = Spacing /\ z = Depth * Spacing
  BY <1>2, <1>4
<1>7. S <= x /\ x <= 3 * S /\ (k \notin 1..3 => i = 2 /\ x = 2 * S)
  <2>1. Window(1, 2, 3)
    BY <1>2 DEF Window
  <2>2. Near(times[i], 1, 3) /\ (k \notin 1..3 => i = 2 /\ times[i] = 2 * Spacing)
    <3>1. OneWrong(times, k) /\ Median(Chain(t, times), 1, 3, i)
      BY <1>4, <1>5
    <3> QED BY ONLY <2>1, <3>1, MedianNear
  <2> QED BY <1>6, <2>2 DEF Near
<1>8. z + S <= y /\ y <= z + 3 * S
      /\ (k \notin (Depth + 1)..(Depth + 3) => j = Depth + 2 /\ y = z + 2 * S)
  <2>1. Window(Depth + 1, Depth + 2, Depth + 3)
    BY <1>2 DEF Window
  <2>2. /\ (Depth + 1) * Spacing = z + S /\ (Depth + 2) * Spacing = z + 2 * S
        /\ (Depth + 3) * Spacing = z + 3 * S
    BY <1>2, <1>6
  <2>3. /\ Near(times[j], Depth + 1, Depth + 3)
        /\ k \notin (Depth + 1)..(Depth + 3) => j = Depth + 2 /\ times[j] = (Depth + 2) * Spacing
    <3>1. OneWrong(times, k) /\ Median(Chain(t, times), Depth + 1, Depth + 3, j)
      BY <1>4, <1>5
    <3> QED BY ONLY <2>1, <3>1, MedianNear
  <2> QED BY <1>6, <2>2, <2>3 DEF Near
<1>9. z - S <= y - x /\ y - x <= z + S /\ Depth - 1 <= j - i /\ j - i <= Depth + 1
  <2>1. k \notin 1..3 \/ k \notin (Depth + 1)..(Depth + 3)
    BY <1>1, <1>2
  <2> QED BY <1>2, <1>6, <1>7, <1>8, <2>1
<1>10. (Depth - 1) * Spacing = z - S /\ (Depth + 1) * Spacing = z + S
  BY <1>2, <1>6
<1>11. Bounded(y - x) = y - x
  <2>1. /\ Depth \div 2 \in Nat \ {0} /\ 2 * (Depth \div 2) = Depth
        /\ (Depth \div 2) * Spacing <= y - x /\ y - x <= (2 * Depth) * Spacing
             => Bounded(y - x) = y - x
    BY <1>6, BoundedLemma
  <2>2. Depth \div 2 <= Depth - 1 /\ Depth + 1 <= 2 * Depth
    BY <1>2, <2>1
  <2>3. (Depth \div 2) * Spacing <= (Depth - 1) * Spacing
    BY <1>2, <2>1, <2>2, TimesMonotone
  <2>4. (Depth + 1) * Spacing <= (2 * Depth) * Spacing
    BY <1>2, <2>2, TimesMonotone
  <2> QED BY <1>2, <1>6, <1>9, <1>10, <2>1, <2>3, <2>4
<1>12. Apart(times, i, j, Depth - 1, Depth + 1, Depth - 1, Depth + 1)
  BY <1>2, <1>6, <1>9, <1>10, <1>11 DEF Apart
<1>13. /\ calcDiffAdjust(c[i], c[j]) >= Measured(t, Depth + 1, Depth - 1)
       /\ calcDiffAdjust(c[i], c[j]) <= Measured(t, Depth - 1, Depth + 1)
  BY <1>1, <1>12, AdjustBetween
<1> QED BY <1>5, <1>13 DEF OutlierHarmless, times, t, k

----------------------------------------------------------------------------
(***************************************************************************)
(* Sorting.  A rearrangement of a list that is in a linear order exists,   *)
(* and there is only one: of the elements up to a given one it has as many *)
(* as every other rearrangement.                                           *)
(***************************************************************************)

(* R, a set of pairs, is a linear order of X.                              *)
Linear(R, X) ==
    /\ \A x \in X : <<x, x>> \in R
    /\ \A x, y \in X : <<x, y>> \in R \/ <<y, x>> \in R
    /\ \A x, y \in X : <<x, y>> \in R /\ <<y, x>> \in R => x = y
    /\ \A x, y, z \in X : <<x, y>> \in R /\ <<y, z>> \in R => <<x, z>> \in R

InOrder(t, n, R) == \A i, j \in 1..n : i < j => <<t[i], t[j]>> \in R

LEMMA PermutedBy ==
    ASSUME NEW D, NEW s, DOMAIN s = D, NEW t \in Permuted(s)
    PROVE  \E f \in Bijection(D, D) : \A i \in D : t[i] = s[f[i]]
  BY DEF Permuted

LEMMA BijectionType ==
    ASSUME NEW D, NEW f \in Bijection(D, D)
    PROVE  /\ f \in [D -> D] /\ \A a, b \in D : f[a] = f[b] => a = b
           /\ \A b \in D : \E a \in D : f[a] = b
  BY DEF Bijection, Injection, Surjection, IsInjective

LEMMA PermutedShape ==
    ASSUME NEW D, NEW X, NEW s \in [D -> X], NEW t \in Permuted(s)
    PROVE  t \in [D -> X]
<1>1. PICK f \in Bijection(D, D) : t = [i \in D |-> s[f[i]]]
  BY DEF Permuted
<1>2. f \in [D -> D]
  BY BijectionType
<1> QED BY <1>1, <1>2

LEMMA PermutedIs ==
    ASSUME NEW D, NEW X, NEW s \in [D -> X], NEW t \in [D -> X],
           NEW f \in Bijection(D, D), \A i \in D : t[i] = s[f[i]]
    PROVE  t \in Permuted(s)
<1>1. t = [i \in D |-> s[f[i]]]
  OBVIOUS
<1> QED BY <1>1 DEF Permuted

LEMMA PermutedTwice ==
    ASSUME NEW D, NEW X, NEW s \in [D -> X], NEW u \in Permuted(s), NEW t \in Permuted(u)
    PROVE  t \in Permuted(s)
<1>1. PICK f \in Bijection(D, D) : \A i \in D : u[i] = s[f[i]]
  <2>1. DOMAIN s = D
    OBVIOUS
  <2> QED BY <2>1, PermutedBy
<1>2. u \in [D -> X]
  BY PermutedShape
<1>3. t \in [D -> X]
  BY <1>2, PermutedShape
<1>4. PICK g \in Bijection(D, D) : \A i \in D : t[i] = u[g[i]]
  <2>1. DOMAIN u = D
    BY <1>2
  <2> QED BY <2>1, PermutedBy
<1> DEFINE h == [i \in D |-> f[g[i]]]
<1>5. h \in Bijection(D, D)
  BY Fun_BijTransitive
<1>6. \A i \in D : t[i] = s[h[i]]
  <2>1. g \in [D -> D]
    BY BijectionType
  <2> QED BY <1>1, <1>4, <2>1
<1> HIDE DEF h
<1> QED BY <1>3, <1>5, <1>6, PermutedIs

(* A permutation keeps the number of the indices of a set.                 *)
LEMMA CountPermuted ==
    ASSUME NEW n \in Nat, NEW f \in Bijection(1..n, 1..n), NEW S \in SUBSET (1..n)
    PROVE  LET A == {i \in 1..n : f[i] \in S}
           IN  IsFiniteSet(A) /\ IsFiniteSet(S) /\ Cardinality(A) = Cardinality(S)
<1> DEFINE A == {i \in 1..n : f[i] \in S}
           g == [i \in A |-> f[i]]
<1>1. /\ f \in [1..n -> 1..n] /\ \A a, b \in 1..n : f[a] = f[b] => a = b
      /\ \A t \in 1..n : \E s \in 1..n : f[s] = t
  BY BijectionType
<1>2. g \in [A -> S] /\ (\A a, b \in A : g[a] = g[b] => a = b) /\ \A t \in S : \E s \in A : g[s] = t
  BY <1>1
<1>3. g \in Bijection(A, S)
  <2>1. g \in Injection(A, S)
    BY <1>2 DEF Injection, IsInjective
  <2>2. g \in Surjection(A, S)
    BY <1>2 DEF Surjection
  <2> QED BY <2>1, <2>2 DEF Bijection
<1>4. IsFiniteSet(A) /\ IsFiniteSet(S)
  <2>1. IsFiniteSet(1..n) /\ A \in SUBSET (1..n)
    BY FS_Interval
  <2> QED BY <2>1, FS_Subset
<1>5. Cardinality(S) = Cardinality(A)
  <2>1. ExistsBijection(A, S)
    BY <1>3 DEF ExistsBijection
  <2> QED BY <1>4, <2>1, FS_Bijection
<1> QED BY <1>4, <1>5

(* In two rearrangements that are in order, the k-th of one is not after   *)
(* the k-th of the other.                                                  *)
LEMMA SortedBelow ==
    ASSUME NEW n \in Nat, NEW X, NEW R, Linear(R, X), NEW s \in [1..n -> X],
           NEW t \in Permuted(s), NEW u \in Permuted(s), InOrder(t, n, R), InOrder(u, n, R),
           NEW k \in 1..n
    PROVE  <<u[k], t[k]>> \in R
<1> DEFINE v == t[k]
           A == {i \in 1..n : <<t[i], v>> \in R}
           B == {i \in 1..n : <<u[i], v>> \in R}
           S == {i \in 1..n : <<s[i], v>> \in R}
<1> SUFFICES ASSUME <<u[k], v>> \notin R PROVE FALSE
  OBVIOUS
<1>1. t \in [1..n -> X] /\ u \in [1..n -> X] /\ v \in X
  <2>1. t \in [1..n -> X] /\ u \in [1..n -> X]
    BY PermutedShape
  <2> QED BY <2>1
<1>2. IsFiniteSet(A) /\ Cardinality(A) = Cardinality(S)
  <2>1. PICK f \in Bijection(1..n, 1..n) : \A i \in 1..n : t[i] = s[f[i]]
    <3>1. DOMAIN s = 1..n
      OBVIOUS
    <3> QED BY <3>1, PermutedBy
  <2>2. A = {i \in 1..n : f[i] \in S}
    <3>1. f \in [1..n -> 1..n]
      BY BijectionType
    <3> QED BY <2>1, <3>1
  <2> HIDE DEF A
  <2> QED BY <2>2, CountPermuted
<1>3. IsFiniteSet(B) /\ Cardinality(B) = Cardinality(S)
  <2>1. PICK f \in Bijection(1..n, 1..n) : \A i \in 1..n : u[i] = s[f[i]]
    <3>1. DOMAIN s = 1..n
      OBVIOUS
    <3> QED BY <3>1, PermutedBy
  <2>2. B = {i \in 1..n : f[i] \in S}
    <3>1. f \in [1..n -> 1..n]
      BY BijectionType
    <3> QED BY <2>1, <3>1
  <2> HIDE DEF B
  <2> QED BY <2>2, CountPermuted
<1>4. 1..k \in SUBSET A
  <2>1. ASSUME NEW i \in 1..k PROVE i \in A
    <3>1. i \in 1..n /\ (i < k \/ i = k)
      OBVIOUS
    <3>2. <<v, v>> \in R
      BY <1>1 DEF Linear
    <3>3. i < k => <<t[i], v>> \in R
      BY <3>1 DEF InOrder
    <3> QED BY <3>1, <3>2, <3>3
  <2> QED BY <2>1
<1>5. B \in SUBSET (1..(k - 1))
  <2>1. ASSUME NEW i \in B, k <= i PROVE FALSE
    <3>1. i \in 1..n /\ <<u[i], v>> \in R /\ u[i] \in X /\ u[k] \in X
      BY <1>1
    <3>2. <<u[k], u[i]>> \in R
      <4>1. CASE k = i
        BY <3>1, <4>1 DEF Linear
      <4>2. CASE k < i
        BY <3>1, <4>2 DEF InOrder
      <4> QED BY <2>1, <3>1, <4>1, <4>2
    <3>3. <<u[k], v>> \in R
      BY <1>1, <3>1, <3>2 DEF Linear
    <3> QED BY <3>3
  <2>2. \A i \in B : i \in 1..n /\ i < k
    BY <2>1
  <2> QED BY <2>2
<1> HIDE DEF A, B, S, v
<1>6. Cardinality(1..k) = k /\ Cardinality(1..(k - 1)) = k - 1 /\ IsFiniteSet(1..(k - 1))
  <2>1. 1 \in Int /\ k \in Int /\ k - 1 \in Int /\ k >= 1
    OBVIOUS
  <2>2. Cardinality(1..k) = k
    <3>1. Cardinality(1..k) = IF 1 > k THEN 0 ELSE k - 1 + 1
      BY <2>1, FS_Interval
    <3> QED BY <2>1, <3>1
  <2>3. IsFiniteSet(1..(k - 1)) /\ Cardinality(1..(k - 1)) = k - 1
    <3> DEFINE m == k - 1
    <3>1. m \in Int /\ m >= 0
      BY <2>1
    <3> HIDE DEF m
    <3>2. IsFiniteSet(1..m) /\ Cardinality(1..m) = IF 1 > m THEN 0 ELSE m - 1 + 1
      BY <2>1, <3>1, FS_Interval
    <3>3. Cardinality(1..m) = m
      BY <3>1, <3>2
    <3> QED BY <3>2, <3>3 DEF m
  <2> QED BY <2>2, <2>3
<1>7. Cardinality(1..k) <= Cardinality(A) /\ Cardinality(B) <= Cardinality(1..(k - 1))
  BY <1>2, <1>4, <1>5, <1>6, FS_Subset
<1>8. k <= Cardinality(A) /\ Cardinality(B) <= k - 1 /\ Cardinality(A) = Cardinality(B)
  BY <1>2, <1>3, <1>6, <1>7
<1>9. Cardinality(A) \in Nat
  BY <1>2, FS_CardinalityType
<1> QED BY <1>8, <1>9

LEMMA SortedUnique ==
    ASSUME NEW n \in Nat, NEW X, NEW R, Linear(R, X), NEW s \in [1..n -> X],
           NEW t \in Permuted(s), NEW u \in Permuted(s), InOrder(t, n, R), InOrder(u, n, R)
    PROVE  t = u
<1>1. t \in [1..n -> X] /\ u \in [1..n -> X]
  BY PermutedShape
<1>2. ASSUME NEW k \in 1..n PROVE t[k] = u[k]
  <2>1. <<u[k], t[k]>> \in R
    BY SortedBelow
  <2>2. <<t[k], u[k]>> \in R
    BY SortedBelow
  <2>3. t[k] \in X /\ u[k] \in X
    BY <1>1
  <2> QED BY <2>1, <2>2, <2>3 DEF Linear
<1> QED BY <1>1, <1>2

(* The place of an element is the number of those before it: ties are      *)
(* broken by the index.                                                    *)
LEMMA SortedExists ==
    ASSUME NEW n \in Nat, NEW X, NEW R, Linear(R, X), NEW s \in [1..n -> X]
    PROVE  \E t \in Permuted(s) : InOrder(t, n, R)
<1> DEFINE D == 1..n
           Prec(i, j) == (s[i] # s[j] /\ <<s[i], s[j]>> \in R) \/ (s[i] = s[j] /\ i <= j)
           Before(j) == {i \in D : Prec(i, j)}
           rank == [j \in D |-> Cardinality(Before(j))]
<1>1. \A i \in D : s[i] \in X /\ i \in Int
  OBVIOUS
<1>2. \A i, j \in D : Prec(i, j) \/ Prec(j, i)
  BY <1>1 DEF Linear
<1>3. \A i, j \in D : Prec(i, j) /\ Prec(j, i) => i = j
  BY <1>1 DEF Linear
<1>4. \A i, j, k \in D : Prec(i, j) /\ Prec(j, k) => Prec(i, k)
  <2> SUFFICES ASSUME NEW i \in D, NEW j \in D, NEW k \in D, Prec(i, j), Prec(j, k)
               PROVE  Prec(i, k)
    OBVIOUS
  <2>1. <<s[i], s[j]>> \in R /\ <<s[j], s[k]>> \in R
    BY <1>1 DEF Linear
  <2>2. <<s[i], s[k]>> \in R
    BY <1>1, <2>1 DEF Linear
  <2>3. s[i] = s[k] => s[j] = s[i]
    BY <1>1, <2>1 DEF Linear
  <2> QED BY <1>1, <2>2, <2>3
<1>5. \A i \in D : Prec(i, i)
  BY <1>2
<1>6. \A i, j \in D : Prec(i, j) => <<s[i], s[j]>> \in R
  BY <1>1 DEF Linear
<1> HIDE DEF Prec
<1>7. IsFiniteSet(D) /\ Cardinality(D) = n
  <2>1. 1 \in Int /\ n \in Int
    OBVIOUS
  <2> QED BY <2>1, FS_Interval
<1>8. \A j \in D : IsFiniteSet(Before(j)) /\ Cardinality(Before(j)) \in 1..n
  <2> SUFFICES ASSUME NEW j \in D PROVE IsFiniteSet(Before(j)) /\ Cardinality(Before(j)) \in 1..n
    OBVIOUS
  <2>1. Before(j) \in SUBSET D /\ j \in Before(j)
    BY <1>5
  <2> HIDE DEF Before, D
  <2>2. IsFiniteSet(Before(j)) /\ Cardinality(Before(j)) <= n
    BY <1>7, <2>1, FS_Subset
  <2>3. Cardinality(Before(j)) \in Nat /\ Cardinality(Before(j)) # 0
    BY <2>1, <2>2, FS_CardinalityType, FS_EmptySet
  <2> QED BY <2>2, <2>3
<1>9. \A i, j \in D : Prec(i, j) /\ i # j => rank[i] < rank[j]
  <2> SUFFICES ASSUME NEW i \in D, NEW j \in D, Prec(i, j), i # j PROVE rank[i] < rank[j]
    OBVIOUS
  <2>1. Before(i) \in SUBSET Before(j)
    BY <1>4
  <2>2. j \in Before(j) /\ j \notin Before(i)
    BY <1>3, <1>5
  <2>3. rank[i] = Cardinality(Before(i)) /\ rank[j] = Cardinality(Before(j))
    OBVIOUS
  <2> HIDE DEF Before, rank
  <2>4. Cardinality(Before(i)) <= Cardinality(Before(j)) /\ Cardinality(Before(i)) # Cardinality(Before(j))
    BY <1>8, <2>1, <2>2, FS_Subset
  <2> QED BY <1>8, <2>3, <2>4
<1>10. rank \in [D -> D]
  BY <1>8
<1> HIDE DEF rank, Before
<1>11. rank \in Bijection(D, D)
  <2>1. \A a, b \in D : rank[a] = rank[b] => a = b
    <3>1. \A a \in D : rank[a] \in Int
      BY <1>10
    <3> QED BY <1>2, <1>9, <3>1
  <2>2. rank \in Injection(D, D)
    BY <1>10, <2>1 DEF Injection, IsInjective
  <2> HIDE DEF D
  <2>3. rank \in Surjection(D, D)
    BY <1>7, <2>2, FS_Injection
  <2> QED BY <2>2, <2>3 DEF Bijection
<1> DEFINE p == Inverse(rank, D, D)
           t == [a \in D |-> s[p[a]]]
<1>12. p \in Bijection(D, D) /\ \A i \in D : p[rank[i]] = i
  <2> HIDE DEF D
  <2> QED BY <1>11, Fun_BijInverse
<1> HIDE DEF p
<1>13. p \in [D -> D] /\ \A a \in D : rank[p[a]] = a
  <2>1. \A a \in D : \E i \in D : rank[i] = a
    BY <1>11, BijectionType
  <2>2. p \in [D -> D]
    BY <1>12, BijectionType
  <2> QED BY <1>12, <2>1, <2>2
<1>14. t \in [D -> X] /\ \A i \in D : t[i] = s[p[i]]
  BY <1>13
<1> HIDE DEF t
<1>15. t \in Permuted(s)
  BY <1>12, <1>14, PermutedIs
<1>16. InOrder(t, n, R)
  <2> SUFFICES ASSUME NEW a \in D, NEW b \in D, a < b PROVE <<t[a], t[b]>> \in R
    BY DEF InOrder
  <2>1. p[a] \in D /\ p[b] \in D /\ rank[p[a]] = a /\ rank[p[b]] = b
    BY <1>13
  <2>2. p[a] # p[b]
    BY <2>1
  <2>3. ~Prec(p[b], p[a])
    BY <1>9, <2>1, <2>2
  <2>4. Prec(p[a], p[b])
    BY <1>2, <2>1, <2>3
  <2> QED BY <1>6, <1>14, <2>1, <2>4
<1> QED BY <1>15, <1>16
----------------------------------------------------------------------------
(* The order of the inputs and of the outputs of an escrow.                *)
Coin == [op : Nat, value : Int]
Payment == [value : Int, script : Int]
InputOrder == {q \in Int \X Int : InputLess(q[1], q[2]) \/ q[1] = q[2]}
OutputOrder == {q \in Payment \X Payment : OutputLess(q[1], q[2]) \/ q[1] = q[2]}

LEMMA InputPairs ==
    ASSUME NEW x \in Int, NEW y \in Int
    PROVE  <<x, y>> \in InputOrder <=> InputLess(x, y) \/ x = y
  BY DEF InputOrder

LEMMA OutputPairs ==
    ASSUME NEW x \in Payment, NEW y \in Payment
    PROVE  <<x, y>> \in OutputOrder <=> OutputLess(x, y) \/ x = y
  BY DEF OutputOrder

LEMMA InputsLinear == Linear(InputOrder, Int)
<1>1. \A x, y \in Int : <<x, y>> \in InputOrder <=> x <= y
  <2> TAKE x, y \in Int
  <2>1. <<x, y>> \in InputOrder <=> InputLess(x, y) \/ x = y
    BY InputPairs
  <2> QED BY <2>1 DEF InputLess
<1> QED BY <1>1 DEF Linear

LEMMA OutputsLinear == Linear(OutputOrder, Payment)
<1> DEFINE Leq(x, y) == x.value < y.value \/ (x.value = y.value /\ x.script <= y.script)
<1>1. \A x \in Payment : x.value \in Int /\ x.script \in Int
  BY DEF Payment
<1>2. \A x, y \in Payment : x.value = y.value /\ x.script = y.script => x = y
  BY DEF Payment
<1>3. \A x, y \in Payment : <<x, y>> \in OutputOrder <=> Leq(x, y)
  <2> TAKE x, y \in Payment
  <2>1. <<x, y>> \in OutputOrder <=> OutputLess(x, y) \/ x = y
    BY OutputPairs
  <2> QED BY <1>1, <2>1 DEF OutputLess
<1>4. \A x \in Payment : Leq(x, x)
  BY <1>1
<1>5. \A x, y \in Payment : Leq(x, y) \/ Leq(y, x)
  BY <1>1
<1>6. \A x, y \in Payment : Leq(x, y) /\ Leq(y, x) => x = y
  BY <1>1, <1>2
<1>7. \A x, y, z \in Payment : Leq(x, y) /\ Leq(y, z) => Leq(x, z)
  BY <1>1
<1> HIDE DEF Leq
<1> QED BY <1>3, <1>4, <1>5, <1>6, <1>7 DEF Linear

(* InPlaceSort gives the rearrangement that is in order.                   *)
LEMMA InputsSorted ==
    ASSUME NEW n \in Nat, NEW s \in [1..n -> Int]
    PROVE  /\ InPlaceSort(s, InputLess) \in Permuted(s)
           /\ InOrder(InPlaceSort(s, InputLess), n, InputOrder)
<1> DEFINE P(t) == \A i, j \in 1..n : i < j => InputLess(t[i], t[j]) \/ t[i] = t[j]
<1>1. \A t \in Permuted(s) : P(t) <=> InOrder(t, n, InputOrder)
  <2> SUFFICES ASSUME NEW t \in Permuted(s) PROVE P(t) <=> InOrder(t, n, InputOrder)
    OBVIOUS
  <2>1. t \in [1..n -> Int]
    BY PermutedShape
  <2>2. \A i, j \in 1..n : <<t[i], t[j]>> \in InputOrder <=> InputLess(t[i], t[j]) \/ t[i] = t[j]
    BY <2>1, InputPairs
  <2> QED BY <2>2 DEF InOrder
<1>2. \E t \in Permuted(s) : P(t)
  BY <1>1, SortedExists, InputsLinear
<1>3. InPlaceSort(s, InputLess) = CHOOSE t \in Permuted(s) : P(t)
  BY DEF InPlaceSort
<1> HIDE DEF P
<1> QED BY <1>1, <1>2, <1>3

LEMMA OutputsSorted ==
    ASSUME NEW n \in Nat, NEW s \in [1..n -> Payment]
    PROVE  /\ InPlaceSort(s, OutputLess) \in Permuted(s)
           /\ InOrder(InPlaceSort(s, OutputLess), n, OutputOrder)
<1> DEFINE P(t) == \A i, j \in 1..n : i < j => OutputLess(t[i], t[j]) \/ t[i] = t[j]
<1>1. \A t \in Permuted(s) : P(t) <=> InOrder(t, n, OutputOrder)
  <2> SUFFICES ASSUME NEW t \in Permuted(s) PROVE P(t) <=> InOrder(t, n, OutputOrder)
    OBVIOUS
  <2>1. t \in [1..n -> Payment]
    BY PermutedShape
  <2>2. \A i, j \in 1..n : <<t[i], t[j]>> \in OutputOrder <=> OutputLess(t[i], t[j]) \/ t[i] = t[j]
    BY <2>1, OutputPairs
  <2> QED BY <2>2 DEF InOrder
<1>2. \E t \in Permuted(s) : P(t)
  BY <1>1, SortedExists, OutputsLinear
<1>3. InPlaceSort(s, OutputLess) = CHOOSE t \in Permuted(s) : P(t)
  BY DEF InPlaceSort
<1> HIDE DEF P
<1> QED BY <1>1, <1>2, <1>3

----------------------------------------------------------------------------
LEMMA EscrowFee ==
    ASSUME NEW n \in Nat, NEW m \in Nat, NEW script, NEW rate \in Nat
    PROVE  EstimateSerializeSize(n, m, FALSE, MultisigType(script)) * rate \in Nat
<1>1. InputSize(MultisigType(script)) \in Nat
  <2>1. SigScriptSize("P2SH_Multisig_Timelock_2Sigs") = 297 /\ SigScriptSize("P2SH_2of3_Multisig") = 253
    BY DEF SigScriptSize
  <2>2. InputSize("P2SH_Multisig_Timelock_2Sigs") \in Nat /\ InputSize("P2SH_2of3_Multisig") \in Nat
    BY <2>1 DEF InputSize
  <2> QED BY <2>2 DEF MultisigType
<1>2. EstimateSerializeSize(n, m, FALSE, MultisigType(script)) \in Nat
  <2>1. m + 0 = m /\ VarIntSerializeSize(n) \in Nat /\ VarIntSerializeSize(m) \in Nat
    BY DEF VarIntSerializeSize
  <2>2. P2PKHOutputSize \in Nat
    BY DEF P2PKHOutputSize, P2PKHPkScriptSize
  <2>3. \A x \in Nat, y \in Nat : n * x + m * y \in Nat /\ n * x \in Nat /\ m * y \in Nat
    OBVIOUS
  <2> QED BY <1>1, <2>1, <2>2, <2>3 DEF EstimateSerializeSize
<1>3. \A x \in Nat : x * rate \in Nat
  OBVIOUS
<1> QED BY <1>2, <1>3

(* The lists the transaction is sorted from.                               *)
Ops(ins) == [i \in DOMAIN ins |-> ins[i].op]
Share(ins, outs, script, rate) ==
    (EstimateSerializeSize(Len(ins), Len(outs), FALSE, MultisigType(script)) * rate) \div Len(outs)
Paid(outs, share) == [i \in DOMAIN outs |-> [outs[i] EXCEPT !.value = @ - share]]

(* A party that lists inputs and outputs in another order builds the same  *)
(* transaction.                                                            *)
LEMMA OpsSame ==
    ASSUME NEW n \in Nat, NEW ins \in [1..n -> Coin], NEW i1 \in Permuted(ins)
    PROVE  InPlaceSort(Ops(i1), InputLess) = InPlaceSort(Ops(ins), InputLess)
<1> DEFINE s == Ops(ins)
           u == Ops(i1)
<1>1. i1 \in [1..n -> Coin]
  BY PermutedShape
<1>2. s \in [1..n -> Int] /\ u \in [1..n -> Int]
  BY <1>1 DEF Ops, Coin
<1>3. u \in Permuted(s)
  <2>1. DOMAIN ins = 1..n
    OBVIOUS
  <2>2. PICK f \in Bijection(1..n, 1..n) : \A i \in 1..n : i1[i] = ins[f[i]]
    BY <2>1, PermutedBy
  <2>3. f \in [1..n -> 1..n]
    BY BijectionType
  <2>4. \A i \in 1..n : u[i] = s[f[i]]
    BY <1>1, <2>2, <2>3 DEF Ops
  <2> HIDE DEF s, u
  <2> QED BY <1>2, <2>4, PermutedIs
<1> HIDE DEF s, u
<1>4. /\ InPlaceSort(s, InputLess) \in Permuted(s) /\ InOrder(InPlaceSort(s, InputLess), n, InputOrder)
      /\ InPlaceSort(u, InputLess) \in Permuted(u) /\ InOrder(InPlaceSort(u, InputLess), n, InputOrder)
  BY <1>2, InputsSorted
<1>5. InPlaceSort(u, InputLess) \in Permuted(s)
  BY <1>2, <1>3, <1>4, PermutedTwice
<1>6. InPlaceSort(u, InputLess) = InPlaceSort(s, InputLess)
  BY <1>2, <1>4, <1>5, InputsLinear, SortedUnique
<1> QED BY <1>6 DEF s, u

LEMMA PaidSame ==
    ASSUME NEW n \in Nat, NEW outs \in [1..n -> Payment], NEW o1 \in Permuted(outs),
           NEW share, n # 0 => share \in Int
    PROVE  InPlaceSort(Paid(o1, share), OutputLess) = InPlaceSort(Paid(outs, share), OutputLess)
<1> DEFINE s == Paid(outs, share)
           u == Paid(o1, share)
<1>1. o1 \in [1..n -> Payment]
  BY PermutedShape
<1>2. s \in [1..n -> Payment] /\ u \in [1..n -> Payment]
  <2>1. \A i \in 1..n : n # 0
    OBVIOUS
  <2>2. \A p \in Payment : share \in Int => [p EXCEPT !.value = @ - share] \in Payment
    BY DEF Payment
  <2> QED BY <1>1, <2>1, <2>2 DEF Paid
<1>3. u \in Permuted(s)
  <2>1. DOMAIN outs = 1..n
    OBVIOUS
  <2>2. PICK f \in Bijection(1..n, 1..n) : \A i \in 1..n : o1[i] = outs[f[i]]
    BY <2>1, PermutedBy
  <2>3. f \in [1..n -> 1..n]
    BY BijectionType
  <2>4. \A i \in 1..n : u[i] = s[f[i]]
    BY <1>1, <2>2, <2>3 DEF Paid
  <2> HIDE DEF s, u
  <2> QED BY <1>2, <2>4, PermutedIs
<1> HIDE DEF s, u
<1>4. /\ InPlaceSort(s, OutputLess) \in Permuted(s) /\ InOrder(InPlaceSort(s, OutputLess), n, OutputOrder)
      /\ InPlaceSort(u, OutputLess) \in Permuted(u) /\ InOrder(InPlaceSort(u, OutputLess), n, OutputOrder)
  BY <1>2, OutputsSorted
<1>5. InPlaceSort(u, OutputLess) \in Permuted(s)
  BY <1>2, <1>3, <1>4, PermutedTwice
<1>6. InPlaceSort(u, OutputLess) = InPlaceSort(s, OutputLess)
  BY <1>2, <1>4, <1>5, OutputsLinear, SortedUnique
<1> QED BY <1>6 DEF s, u

LEMMA EscrowForm ==
    ASSUME NEW ins, NEW outs, NEW script, NEW rate
    PROVE  EscrowTx(ins, outs, script, rate)
             = [ins |-> InPlaceSort(Ops(ins), InputLess),
                outs |-> InPlaceSort(Paid(outs, Share(ins, outs, script, rate)), OutputLess)]
  BY DEF EscrowTx, Ops, Paid, Share

LEMMA EscrowSame ==
    ASSUME NEW n \in Nat, NEW ins \in [1..n -> Coin], NEW i1 \in Permuted(ins),
           NEW m \in Nat, NEW outs \in [1..m -> Payment], NEW o1 \in Permuted(outs),
           NEW script, NEW rate \in Nat
    PROVE  EscrowTx(i1, o1, script, rate) = EscrowTx(ins, outs, script, rate)
<1> DEFINE share == Share(ins, outs, script, rate)
<1>1. Len(ins) = n /\ Len(outs) = m /\ Len(i1) = n /\ Len(o1) = m
  <2>1. i1 \in [1..n -> Coin] /\ o1 \in [1..m -> Payment]
    BY PermutedShape
  <2> QED BY <2>1
<1>2. Share(i1, o1, script, rate) = share
  BY <1>1 DEF Share
<1>3. m # 0 => share \in Int
  <2>1. PICK fee \in Nat : fee = EstimateSerializeSize(n, m, FALSE, MultisigType(script)) * rate
    BY EscrowFee
  <2>2. share = fee \div m
    BY <1>1, <2>1 DEF Share
  <2>3. ASSUME m # 0 PROVE fee \div m \in Int
    BY <2>3
  <2> QED BY <2>2, <2>3
<1> HIDE DEF share
<1>4. InPlaceSort(Ops(i1), InputLess) = InPlaceSort(Ops(ins), InputLess)
  BY OpsSame
<1>5. InPlaceSort(Paid(o1, share), OutputLess) = InPlaceSort(Paid(outs, share), OutputLess)
  BY <1>3, PaidSame
<1> QED BY <1>2, <1>4, <1>5, EscrowForm DEF share

(* The inputs of the transaction are those of the list in BIP 69 order.    *)
LEMMA EscrowIns ==
    ASSUME NEW n \in Nat, NEW ins \in [1..n -> Coin],
           \A i \in 1..n : ins[i].op = i, NEW outs, NEW script, NEW rate
    PROVE  EscrowTx(ins, outs, script, rate).ins = [i \in 1..n |-> i]
<1> DEFINE s == Ops(ins)
<1>1. s = [i \in 1..n |-> i] /\ s \in [1..n -> Int]
  BY DEF Ops, Coin
<1>2. InOrder(s, n, InputOrder)
  BY <1>1, InputPairs DEF InOrder, InputLess
<1>3. s \in Permuted(s)
  <2> DEFINE f == [i \in 1..n |-> i]
  <2>1. f \in Bijection(1..n, 1..n)
    BY DEF Bijection, Injection, Surjection, IsInjective
  <2>2. \A i \in 1..n : s[i] = s[f[i]]
    OBVIOUS
  <2> HIDE DEF f, s
  <2> QED BY <1>1, <2>1, <2>2, PermutedIs
<1> HIDE DEF s
<1>4. InPlaceSort(s, InputLess) \in Permuted(s) /\ InOrder(InPlaceSort(s, InputLess), n, InputOrder)
  BY <1>1, InputsSorted
<1>5. InPlaceSort(s, InputLess) = s
  BY <1>1, <1>2, <1>3, <1>4, InputsLinear, SortedUnique
<1> QED BY <1>1, <1>5, EscrowForm DEF s

(* Whatever the order in which the parties of an escrow list its inputs    *)
(* and outputs, CreateMultisigSignature and Multisign work on one and the  *)
(* same transaction, for any number of them and any fee; with the inputs   *)
(* in BIP 69 order each is signed for its own value.                       *)
THEOREM SignersAlwaysAgree == ASSUME input \in EscrowInputs PROVE SignersAgree
<1> DEFINE ins == input.ins
           outs == input.outs
           sc == input.script
           ra == input.rate
           tx == EscrowTx(ins, outs, sc, ra)
           sigs(i, o) == CreateMultisigSignature(i, o, sc, ra)
           valueOf == [op \in DOMAIN ins |-> ins[op].value]
<1>1. ins \in InputLists /\ outs \in OutputLists /\ ra \in Nat
  BY EscrowAssumption DEF EscrowInputs
<1>2. ins \in Seq(Coin) /\ outs \in Seq(Payment)
      /\ \A i \in DOMAIN ins : ins[i].op = i
  BY <1>1, EscrowAssumption DEF Payment, Coin
<1> HIDE DEF ins, outs, sc, ra
<1>3. PICK n \in Nat : ins \in [1..n -> Coin]
  <2>1. Len(ins) \in Nat /\ ins \in [1..Len(ins) -> Coin]
    BY <1>2
  <2> QED BY <2>1
<1>4. PICK m \in Nat : outs \in [1..m -> Payment]
  <2>1. Len(outs) \in Nat /\ outs \in [1..Len(outs) -> Payment]
    BY <1>2
  <2> QED BY <2>1
<1>5. \A i \in Permuted(ins), o \in Permuted(outs) : EscrowTx(i, o, sc, ra) = tx
  BY <1>1, <1>3, <1>4, EscrowSame
<1>6. DOMAIN ins = 1..n /\ tx.ins = [i \in 1..n |-> i]
  <2>1. DOMAIN ins = 1..n /\ \A i \in 1..n : ins[i].op = i
    BY <1>2, <1>3
  <2> QED BY <1>3, <2>1, EscrowIns
<1> HIDE DEF tx
<1>7. ins \in Permuted(ins)
  <2> DEFINE f == [i \in 1..n |-> i]
  <2>1. f \in Bijection(1..n, 1..n)
    BY DEF Bijection, Injection, Surjection, IsInjective
  <2>2. \A i \in 1..n : ins[i] = ins[f[i]]
    OBVIOUS
  <2> HIDE DEF f
  <2> QED BY <1>3, <2>1, <2>2, PermutedIs
<1> SUFFICES ASSUME NEW i1 \in Permuted(ins), NEW i2 \in Permuted(ins),
                    NEW o1 \in Permuted(outs), NEW o2 \in Permuted(outs)
             PROVE  LET signed == Multisign(i2, o2, sigs(i1, o1), sigs(ins, o2), sc, ra)
                    IN  /\ \A s \in sigs(i1, o1) : s.tx = signed.tx
                        /\ i1 = ins => ValidInputs(signed, valueOf) = DOMAIN ins
  BY DEF SignersAgree, ins, outs, sc, ra
<1> DEFINE signed == Multisign(i2, o2, sigs(i1, o1), sigs(ins, o2), sc, ra)
<1>8. signed.tx = tx /\ DOMAIN signed.sigs = 1..n
  BY <1>5, <1>6 DEF Multisign
<1>9. \A s \in sigs(i1, o1) : s.tx = tx
  BY <1>5 DEF CreateMultisigSignature
<1>10. ASSUME i1 = ins PROVE ValidInputs(signed, valueOf) = DOMAIN ins
  <2> DEFINE one(i) == [index |-> i, tx |-> tx, value |-> ins[i].value]
  <2>1. sigs(ins, o1) = {one(i) : i \in 1..n} /\ sigs(ins, o2) = {one(i) : i \in 1..n}
    BY <1>5, <1>6, <1>7 DEF CreateMultisigSignature
  <2>2. ASSUME NEW i \in 1..n PROVE {s \in {one(j) : j \in 1..n} : s.index = i} = {one(i)}
    OBVIOUS
  <2>3. ASSUME NEW i \in 1..n, NEW k \in 1..2 PROVE signed.sigs[i][k] = {one(i)}
    <3>1. signed.sigs = [j \in 1..n |-> <<{s \in sigs(ins, o1) : s.index = j},
                                          {s \in sigs(ins, o2) : s.index = j}>>]
      BY <1>5, <1>6, <1>10 DEF Multisign
    <3>2. signed.sigs[i] = <<{one(i)}, {one(i)}>>
      BY <2>1, <2>2, <3>1
    <3> HIDE DEF signed, one
    <3>3. k = 1 \/ k = 2
      OBVIOUS
    <3> QED BY <3>2, <3>3
  <2>4. ASSUME NEW i \in 1..n PROVE valueOf[signed.tx.ins[i]] = ins[i].value
    BY <1>6, <1>8
  <2> HIDE DEF signed, valueOf
  <2>5. \A i \in 1..n : \A k \in 1..2 :
           signed.sigs[i][k] = {[index |-> i, tx |-> signed.tx, value |-> valueOf[signed.tx.ins[i]]]}
    BY <1>8, <2>3, <2>4
  <2> QED BY <1>6, <1>8, <2>5 DEF ValidInputs
<1> QED BY <1>8, <1>9, <1>10

----------------------------------------------------------------------------
(***************************************************************************)
(* The lock time of a script.                                              *)
(***************************************************************************)

(* The bytes of a number below 2^32: `left' is what remains of the number  *)
(* after each of them.                                                     *)
BytesOf(b, n, left) ==
    /\ b \in Seq(Nat) /\ Len(b) \in 1..5
    /\ left \in [0..8 -> Nat] /\ left[0] = n /\ left[Len(b)] = 0
    /\ \A i \in 1..Len(b) : left[i - 1] = b[i] + 256 * left[i]

(* What remains of a number after each of its bytes.                       *)
LEMMA LeftExists ==
    ASSUME NEW n \in Nat, NEW last \in Nat
    PROVE  \E f : f = [k \in 0..last |-> IF k = 0 THEN n ELSE f[k - 1] \div 256]
<1> DEFINE F == [k \in 1..last |-> [m \in Nat |-> m \div 256]]
<1>1. F \in [1..last -> [Nat -> Nat]]
  <2>1. \A m \in Nat : m \div 256 \in Nat
    OBVIOUS
  <2> QED BY <2>1
<1>2. \A k \in 1..last, m \in Nat : F[k][m] = m \div 256
  OBVIOUS
<1> HIDE DEF F
<1>3. PICK f \in [0..last -> Nat] : IsLoop(f, n, last, F)
  BY <1>1, LoopExists
<1>4. \A k \in 0..last : f[k] = IF k = 0 THEN n ELSE f[k - 1] \div 256
  <2> SUFFICES ASSUME NEW k \in 0..last, k # 0 PROVE f[k] = f[k - 1] \div 256
    BY <1>3 DEF IsLoop
  <2>1. k \in 1..last /\ k - 1 \in 0..last
    OBVIOUS
  <2>2. f[k] = F[k][f[k - 1]]
    BY <1>3 DEF IsLoop
  <2>3. f[k - 1] \in Nat
    BY <1>3, <2>1
  <2>4. F[k][f[k - 1]] = f[k - 1] \div 256
    BY ONLY <1>2, <2>1, <2>3, Zenon
  <2> QED BY <2>2, <2>4
<1>5. f = [k \in 0..last |-> IF k = 0 THEN n ELSE f[k - 1] \div 256]
  <2>1. f = [k \in 0..last |-> f[k]]
    BY <1>3
  <2> QED BY ONLY <1>4, <2>1, Zenon
<1> QED BY <1>5

(* A number below 2^32; three keys; a script that has bytes b after a      *)
(* place.                                                                  *)
IsUint32(n) == n \in Nat /\ n \div 65536 < 65536
AreThreeKeys(keys) == keys \in [1..3 -> Nat]
HasBytes(script, at, b) == \A i \in 1..Len(b) : script[at + i] = b[i]

(* NumBytes gives the bytes of every number from 1 to 2^32 - 1, with the   *)
(* zero byte that keeps the highest bit of the last one clear.             *)
LEMMA NumBytesAre ==
    ASSUME NEW n \in Nat \ {0}, n \div 65536 < 65536
    PROVE  \E left : BytesOf(NumBytes(n), n, left)
<1> DEFINE Is(f) == f = [k \in 0..8 |-> IF k = 0 THEN n ELSE f[k - 1] \div 256]
<1>1. \E f : Is(f)
  <2>1. n \in Nat /\ 8 \in Nat
    OBVIOUS
  <2> QED BY ONLY <2>1, LeftExists
<1> DEFINE left == CHOOSE f : Is(f)
           Ends(k) == left[k] = 0 /\ left[k - 1] # 0
           size == CHOOSE k \in 1..8 : Ends(k)
           b == [i \in 1..size |-> left[i - 1] % 256]
<1>2. NumBytes(n) = IF b[size] >= 128 THEN Append(b, 0) ELSE b
  BY DEF NumBytes
<1> HIDE DEF Is
<1>3. Is(left)
  BY <1>1
<1> HIDE DEF left
<1> USE DEF Is
<1>4. DOMAIN left = 0..8 /\ left[0] = n /\ \A k \in 1..8 : left[k] = left[k - 1] \div 256
  BY <1>3
<1>5. \A m \in Nat : m \div 256 \in Nat /\ m % 256 \in Nat /\ m = (m % 256) + 256 * (m \div 256)
  OBVIOUS
<1>6. left[1] \in Nat /\ left[2] \in Nat /\ left[3] \in Nat /\ left[4] \in Nat
  BY <1>4, <1>5
<1>7. left[5] \in Nat /\ left[6] \in Nat /\ left[7] \in Nat /\ left[8] \in Nat
  BY <1>4, <1>5, <1>6
<1>8. left \in [0..8 -> Nat]
  <2>1. \A k \in 0..8 : left[k] \in Nat
    BY <1>4, <1>6, <1>7
  <2> QED BY <1>3, <2>1
<1>9. left[4] = 0
  <2>1. left[2] = n \div 65536
    BY <1>4
  <2>2. left[3] < 256
    BY <1>4, <2>1
  <2> QED BY <1>4, <1>6, <2>2
<1>10. \E k \in 1..4 : Ends(k)
  BY <1>4, <1>6, <1>9
<1>11. size \in 1..8 /\ Ends(size)
  BY <1>10
<1> HIDE DEF size
<1>12. size \in 1..4
  <2>1. left[5] = 0 /\ left[6] = 0 /\ left[7] = 0
    BY <1>4, <1>9
  <2> QED BY <1>9, <1>11, <2>1
<1>13. /\ b \in Seq(Nat) /\ Len(b) = size
       /\ \A i \in 1..size : b[i] = left[i - 1] % 256 /\ left[i - 1] = b[i] + 256 * left[i]
  <2>1. \A i \in 1..size : i \in 1..8 /\ i - 1 \in 0..8 /\ left[i - 1] \in Nat
    BY <1>8, <1>12
  <2>2. \A i \in 1..size : b[i] \in Nat
    BY <1>5, <2>1
  <2>3. \A i \in 1..size : left[i - 1] = b[i] + 256 * left[i]
    BY <1>4, <1>5, <2>1
  <2> QED BY <1>12, <2>2, <2>3
<1> HIDE DEF b
<1>14. CASE b[size] >= 128
  <2> DEFINE c == Append(b, 0)
  <2>1. c \in Seq(Nat) /\ Len(c) = size + 1 /\ c[size + 1] = 0 /\ \A i \in 1..size : c[i] = b[i]
    BY <1>12, <1>13
  <2>2. left[size + 1] = 0 /\ left[size] = 0
    BY <1>4, <1>11, <1>12
  <2>3. NumBytes(n) = c
    BY <1>2, <1>14
  <2> HIDE DEF c
  <2>4. \A i \in 1..(size + 1) : left[i - 1] = c[i] + 256 * left[i]
    <3> SUFFICES ASSUME NEW i \in 1..(size + 1) PROVE left[i - 1] = c[i] + 256 * left[i]
      OBVIOUS
    <3>1. CASE i = size + 1
      <4>1. i - 1 = size
        BY <1>12, <3>1
      <4> QED BY <2>1, <2>2, <3>1, <4>1
    <3>2. CASE i # size + 1
      <4>1. i \in 1..size
        BY <1>12, <3>2
      <4> QED BY <1>13, <2>1, <4>1
    <3> QED BY <3>1, <3>2
  <2>5. Len(c) \in 1..5
    BY <1>12, <2>1
  <2>6. BytesOf(c, n, left)
    BY <1>4, <1>8, <2>1, <2>2, <2>4, <2>5 DEF BytesOf
  <2> QED BY <2>3, <2>6
<1>15. CASE ~(b[size] >= 128)
  <2>1. NumBytes(n) = b /\ Len(b) \in 1..5 /\ left[Len(b)] = 0
    BY <1>2, <1>11, <1>12, <1>13, <1>15
  <2>2. BytesOf(b, n, left)
    <3>1. \A i \in 1..Len(b) : left[i - 1] = b[i] + 256 * left[i]
      BY <1>13
    <3> QED BY <1>4, <1>8, <1>13, <2>1, <3>1 DEF BytesOf
  <2> QED BY <2>1, <2>2
<1> QED BY <1>14, <1>15

(* PushedNumber reads back the number whose bytes a script has.            *)
LEMMA PushedNumberIs ==
    ASSUME NEW script, NEW at \in Nat, NEW b, NEW n \in Nat, NEW left, BytesOf(b, n, left),
           HasBytes(script, at, b)
    PROVE  PushedNumber(script, at, Len(b)) = n
<1> DEFINE size == Len(b)
           Is(f) == f = [k \in 0..size |-> IF k = 0 THEN 0 ELSE script[at + size - k + 1] + 256 * f[k - 1]]
           w == [k \in 0..size |-> left[size - k]]
           value == CHOOSE f : Is(f)
<1>1. /\ size \in 1..5 /\ left \in [0..8 -> Nat] /\ left[0] = n /\ left[size] = 0
      /\ \A i \in 1..size : left[i - 1] = b[i] + 256 * left[i]
  BY DEF BytesOf
<1>2. PushedNumber(script, at, Len(b)) = value[size]
  BY DEF PushedNumber
<1> HIDE DEF size
<1>3. \A k \in 1..size : /\ size - k + 1 \in 1..size /\ at + size - k + 1 = at + (size - k + 1)
                         /\ (size - k + 1) - 1 = size - k /\ size - (k - 1) = size - k + 1
  BY <1>1
<1>4. \A k \in 1..size : left[size - k] = script[at + size - k + 1] + 256 * left[size - (k - 1)]
  <2> SUFFICES ASSUME NEW k \in 1..size
               PROVE  left[size - k] = script[at + size - k + 1] + 256 * left[size - (k - 1)]
    OBVIOUS
  <2> DEFINE i == size - k + 1
  <2>1. i \in 1..size /\ i - 1 = size - k /\ at + size - k + 1 = at + i /\ size - (k - 1) = i
    BY <1>3
  <2> HIDE DEF i
  <2>2. left[i - 1] = b[i] + 256 * left[i] /\ script[at + i] = b[i]
    BY <1>1, <2>1 DEF size, HasBytes
  <2> QED BY <2>1, <2>2
<1>5. Is(w)
  <2>1. w[0] = 0 /\ \A k \in 0..size : w[k] = left[size - k]
    BY <1>1
  <2> HIDE DEF w
  <2>2. \A k \in 0..size : k # 0 => k \in 1..size /\ k - 1 \in 0..size
    BY <1>1
  <2>3. \A k \in 0..size : w[k] = IF k = 0 THEN 0 ELSE script[at + size - k + 1] + 256 * w[k - 1]
    BY <1>4, <2>1, <2>2
  <2> QED BY <2>3 DEF w
<1> HIDE DEF w
<1>6. Is(value)
  BY <1>5
<1> HIDE DEF value
<1>7. /\ value[0] = 0
      /\ \A k \in 1..size : value[k] = script[at + size - k + 1] + 256 * value[k - 1]
  <2>1. \A k \in 0..size : value[k] = IF k = 0 THEN 0 ELSE script[at + size - k + 1] + 256 * value[k - 1]
    BY <1>6
  <2>2. 0 \in 0..size /\ \A k \in 1..size : k \in 0..size /\ k # 0
    BY <1>1
  <2> QED BY ONLY <2>1, <2>2, Zenon
<1> DEFINE S == {k \in Nat : k <= size => value[k] = left[size - k]}
<1>8. 0 \in S
  BY <1>1, <1>7
<1>9. ASSUME NEW k \in Nat, k \in S PROVE k + 1 \in S
  <2> SUFFICES ASSUME k + 1 <= size PROVE value[k + 1] = left[size - (k + 1)]
    OBVIOUS
  <2>1. k + 1 \in 1..size /\ (k + 1) - 1 = k /\ k <= size
    BY <1>1
  <2>2. value[k] = left[size - k]
    BY <1>9, <2>1
  <2> QED BY <1>4, <1>7, <2>1, <2>2
<1> HIDE DEF S
<1>10. Nat \subseteq S
  BY <1>8, <1>9, NatSetInduction
<1>11. size \in S
  BY <1>1, <1>10
<1>12. value[size] = left[size - size]
  BY <1>1, <1>11 DEF S
<1>13. size - size = 0
  BY <1>1
<1> QED BY <1>1, <1>2, <1>12, <1>13

(* The bytes of two scripts that are put together.                         *)
Bytes(s, n) == s \in Seq(Nat) /\ n \in Nat /\ Len(s) = n
Join(p, q) == p \o q

LEMMA Joined ==
    ASSUME NEW p, NEW q, NEW m \in Nat, NEW n \in Nat, Bytes(p, m), Bytes(q, n)
    PROVE  /\ Bytes(Join(p, q), m + n)
           /\ \A i \in 1..m : Join(p, q)[i] = p[i]
           /\ \A i \in 1..n : Join(p, q)[m + i] = q[i]
  BY DEF Bytes, Join

LEMMA OneByte ==
    ASSUME NEW x \in Nat
    PROVE  Bytes(<<x>>, 1) /\ <<x>>[1] = x
  BY DEF Bytes

(* A key takes 34 bytes, three of them 102.                                *)
LEMMA KeyBytes ==
    ASSUME NEW byte \in Nat
    PROVE  Bytes(AddKey(byte), 34)
<1> DEFINE k == [i \in 1..33 |-> byte]
           o == <<33>>
<1>1. Bytes(k, 33)
  BY DEF Bytes
<1>2. Bytes(o, 1)
  BY DEF Bytes
<1>3. AddKey(byte) = Join(o, k)
  BY DEF AddKey, Join
<1> HIDE DEF k, o
<1>4. Bytes(AddKey(byte), 1 + 33)
  BY ONLY <1>1, <1>2, <1>3, Joined
<1> QED BY <1>4

LEMMA KeyListBytes ==
    ASSUME NEW keys, AreThreeKeys(keys)
    PROVE  Len(keys) = 3 /\ Bytes(KeyList(keys), 102)
<1>1. Len(keys) = 3
  BY DEF AreThreeKeys
<1> DEFINE Is(f) == f = [k \in 0..3 |-> IF k = 0 THEN <<>> ELSE f[k - 1] \o AddKey(keys[k])]
           w1 == <<>> \o AddKey(keys[1])
           w2 == w1 \o AddKey(keys[2])
           w3 == w2 \o AddKey(keys[3])
           w == [k \in 0..3 |-> IF k = 0 THEN <<>> ELSE IF k = 1 THEN w1 ELSE IF k = 2 THEN w2 ELSE w3]
           add == CHOOSE f : Is(f)
<1>2. KeyList(keys) = add[3]
  BY <1>1 DEF KeyList
<1>3. \A k \in 0..3 : w[k] = IF k = 0 THEN <<>> ELSE w[k - 1] \o AddKey(keys[k])
  <2>1. w[0] = <<>> /\ w[1] = w1 /\ w[2] = w2 /\ w[3] = w3
    BY DEF w
  <2>2. \A k \in 0..3 : k = 0 \/ (k = 1 /\ k - 1 = 0) \/ (k = 2 /\ k - 1 = 1) \/ (k = 3 /\ k - 1 = 2)
    OBVIOUS
  <2>3. 1 # 0 /\ 2 # 0 /\ 3 # 0
    OBVIOUS
  <2> HIDE DEF w
  <2> QED BY ONLY <2>1, <2>2, <2>3, Zenon DEF w1, w2, w3
<1>4. Is(w)
  <2>1. w = [k \in 0..3 |-> w[k]]
    BY DEF w
  <2> HIDE DEF w
  <2> QED BY ONLY <1>3, <2>1, Zenon
<1> HIDE DEF Is, w
<1>5. Is(add)
  BY <1>4
<1> HIDE DEF add
<1>6. \A k \in 0..3 : add[k] = IF k = 0 THEN <<>> ELSE add[k - 1] \o AddKey(keys[k])
  BY <1>5, Zenon DEF Is
<1>7. /\ add[0] = <<>> /\ add[1] = Join(add[0], AddKey(keys[1]))
      /\ add[2] = Join(add[1], AddKey(keys[2])) /\ add[3] = Join(add[2], AddKey(keys[3]))
  <2>1. /\ 0 \in 0..3 /\ 1 \in 0..3 /\ 2 \in 0..3 /\ 3 \in 0..3
        /\ 1 # 0 /\ 2 # 0 /\ 3 # 0 /\ 1 - 1 = 0 /\ 2 - 1 = 1 /\ 3 - 1 = 2
    OBVIOUS
  <2>2. add[1] = add[1 - 1] \o AddKey(keys[1])
    BY ONLY <1>6, <2>1, Zenon
  <2>3. add[2] = add[2 - 1] \o AddKey(keys[2])
    BY ONLY <1>6, <2>1, Zenon
  <2>4. add[3] = add[3 - 1] \o AddKey(keys[3])
    BY ONLY <1>6, <2>1, Zenon
  <2>5. add[0] = <<>>
    BY ONLY <1>6, <2>1, Zenon
  <2> QED BY ONLY <2>1, <2>2, <2>3, <2>4, <2>5, Zenon DEF Join
<1>8. \A k \in 1..3 : Bytes(AddKey(keys[k]), 34)
  BY KeyBytes DEF AreThreeKeys
<1>9. Bytes(AddKey(keys[1]), 34) /\ Bytes(AddKey(keys[2]), 34) /\ Bytes(AddKey(keys[3]), 34)
  BY <1>8
<1>10. Bytes(add[0], 0)
  BY <1>7 DEF Bytes
<1>11. Bytes(add[1], 0 + 34)
  BY ONLY <1>7, <1>9, <1>10, Joined
<1>12. Bytes(add[2], (0 + 34) + 34)
  BY ONLY <1>7, <1>9, <1>11, Joined
<1>13. Bytes(add[3], ((0 + 34) + 34) + 34)
  BY ONLY <1>7, <1>9, <1>12, Joined
<1>14. ((0 + 34) + 34) + 34 = 102
  OBVIOUS
<1> QED BY ONLY <1>1, <1>2, <1>13, <1>14, Zenon

(* What AddInt64 adds: an opcode, or the number of bytes and the bytes.    *)
LEMMA SmallNumber ==
    ASSUME NEW n \in 1..16
    PROVE  Bytes(AddInt64(n), 1) /\ AddInt64(n)[1] = n + 80
<1>1. n # 0 /\ OP_1 + n - 1 = n + 80 /\ n + 80 \in Nat
  BY DEF OP_1
<1>2. AddInt64(n) = <<OP_1 + n - 1>>
  BY ONLY <1>1, n \in 1..16, Zenon DEF AddInt64
<1>3. AddInt64(n) = <<n + 80>>
  BY ONLY <1>1, <1>2
<1> QED BY ONLY <1>1, <1>3, OneByte, Zenon

LEMMA LargeNumber ==
    ASSUME NEW n \in Nat, n > 16, IsUint32(n)
    PROVE  \E b, left : /\ BytesOf(b, n, left) /\ Bytes(AddInt64(n), 1 + Len(b))
                        /\ AddInt64(n)[1] = Len(b)
                        /\ HasBytes(AddInt64(n), 1, b)
<1>1. n \in Nat \ {0} /\ n # 0 /\ n \notin 1..16
  OBVIOUS
<1>2. PICK left : BytesOf(NumBytes(n), n, left)
  BY <1>1, NumBytesAre DEF IsUint32
<1> DEFINE b == NumBytes(n)
           o == <<Len(b)>>
<1>3. AddInt64(n) = Join(o, b)
  BY ONLY <1>1, Zenon DEF AddInt64, Join
<1> HIDE DEF b
<1>4. BytesOf(b, n, left)
  BY <1>2 DEF b
<1>5. Bytes(b, Len(b)) /\ Len(b) \in Nat
  BY ONLY <1>4 DEF BytesOf, Bytes
<1>6. Bytes(o, 1) /\ o[1] = Len(b)
  BY ONLY <1>5, OneByte, Zenon
<1> HIDE DEF o
<1>7. /\ Bytes(Join(o, b), 1 + Len(b)) /\ \A i \in 1..1 : Join(o, b)[i] = o[i]
      /\ \A i \in 1..Len(b) : Join(o, b)[1 + i] = b[i]
  BY ONLY <1>5, <1>6, Joined
<1>8. 1 \in 1..1
  OBVIOUS
<1>9. AddInt64(n)[1] = Len(b)
  BY ONLY <1>3, <1>6, <1>7, <1>8, Zenon
<1> QED BY ONLY <1>3, <1>4, <1>7, <1>9, Zenon DEF HasBytes

(* Where the parts of a script of three keys are.                          *)
LEMMA MultisigBytes ==
    ASSUME NEW keys, AreThreeKeys(keys)
    PROVE  Bytes(AddInt64(2) \o KeyList(keys) \o AddInt64(Len(keys)) \o <<OP_CHECKMULTISIG>>, 105)
<1> DEFINE l == KeyList(keys)
           o == <<OP_CHECKMULTISIG>>
           m == Join(AddInt64(2), l)
<1>1. Len(keys) = 3 /\ Bytes(l, 102)
  BY KeyListBytes
<1>2. Bytes(AddInt64(2), 1) /\ Bytes(AddInt64(3), 1)
  <2>1. 2 \in 1..16 /\ 3 \in 1..16
    OBVIOUS
  <2> QED BY ONLY <2>1, SmallNumber, Zenon
<1>3. Bytes(o, 1)
  BY OneByte DEF OP_CHECKMULTISIG
<1>4. AddInt64(2) \o KeyList(keys) \o AddInt64(Len(keys)) \o <<OP_CHECKMULTISIG>>
        = Join(Join(m, AddInt64(3)), o)
  BY ONLY <1>1, Zenon DEF Join
<1> HIDE DEF l, o, m
<1>5. Bytes(m, 1 + 102)
  BY ONLY <1>1, <1>2, Joined DEF m
<1>6. Bytes(Join(m, AddInt64(3)), (1 + 102) + 1)
  BY ONLY <1>2, <1>5, Joined
<1>7. Bytes(Join(Join(m, AddInt64(3)), o), ((1 + 102) + 1) + 1)
  BY ONLY <1>3, <1>6, Joined
<1>8. ((1 + 102) + 1) + 1 = 105
  OBVIOUS
<1> QED BY ONLY <1>4, <1>7, <1>8, Zenon

TimeoutScript(m, a, key) ==
    <<OP_IF>> \o m \o <<OP_ELSE>> \o a \o <<OP_CHECKSEQUENCEVERIFY, OP_DROP>>
        \o AddKey(key) \o <<OP_CHECKSIG, OP_ENDIF>>

HasLock(script, a, n) ==
    /\ Len(script) \in Nat /\ Len(script) >= 113 /\ script[107] = OP_ELSE
    /\ \A i \in 1..n : script[107 + i] = a[i]

LEMMA ScriptPlaces ==
    ASSUME NEW m, Bytes(m, 105), NEW a, NEW n \in Nat, Bytes(a, n), NEW key \in Nat
    PROVE  HasLock(TimeoutScript(m, a, key), a, n)
<1> DEFINE script == TimeoutScript(m, a, key)
           o1 == <<OP_IF>>
           o2 == <<OP_ELSE>>
           o3 == <<OP_CHECKSEQUENCEVERIFY, OP_DROP>>
           o4 == <<OP_CHECKSIG, OP_ENDIF>>
           r == AddKey(key)
           s1 == Join(o1, m)
           s2 == Join(s1, o2)
           s3 == Join(s2, a)
           s4 == Join(s3, o3)
           s5 == Join(s4, r)
<1>1. Bytes(o1, 1) /\ Bytes(o2, 1) /\ o2[1] = OP_ELSE
  BY OneByte DEF OP_IF, OP_ELSE
<1>2. Bytes(o3, 2) /\ Bytes(o4, 2)
  BY DEF Bytes, OP_CHECKSEQUENCEVERIFY, OP_DROP, OP_CHECKSIG, OP_ENDIF
<1>3. Bytes(r, 34)
  BY KeyBytes
<1>4. script = Join(s5, o4)
  BY ONLY Zenon DEF Join, TimeoutScript
<1> HIDE DEF script, o1, o2, o3, o4, r, s1, s2, s3, s4, s5
<1>5. Bytes(s1, 1 + 105)
  BY ONLY <1>1, Bytes(m, 105), Joined DEF s1
<1>6. Bytes(s1, 106)
  <2>1. 1 + 105 = 106
    OBVIOUS
  <2> QED BY ONLY <1>5, <2>1, Zenon
<1>7. Bytes(s2, 106 + 1) /\ \A i \in 1..1 : s2[106 + i] = o2[i]
  BY ONLY <1>1, <1>6, Joined DEF s2
<1>8. Bytes(s2, 107) /\ s2[107] = OP_ELSE
  <2>1. 106 + 1 = 107 /\ 1 \in 1..1
    OBVIOUS
  <2>2. s2[106 + 1] = o2[1]
    BY ONLY <1>7, <2>1, Zenon
  <2> QED BY ONLY <1>1, <1>7, <2>1, <2>2, Zenon
<1>9. /\ Bytes(s3, 107 + n) /\ \A i \in 1..107 : s3[i] = s2[i]
      /\ \A i \in 1..n : s3[107 + i] = a[i]
  BY ONLY <1>8, Bytes(a, n), Joined DEF s3
<1>10. Bytes(s4, (107 + n) + 2) /\ \A i \in 1..(107 + n) : s4[i] = s3[i]
  BY ONLY <1>2, <1>9, Joined DEF s4
<1>11. Bytes(s5, ((107 + n) + 2) + 34) /\ \A i \in 1..((107 + n) + 2) : s5[i] = s4[i]
  BY ONLY <1>3, <1>10, Joined DEF s5
<1>12. /\ Bytes(script, (((107 + n) + 2) + 34) + 2)
       /\ \A i \in 1..(((107 + n) + 2) + 34) : script[i] = s5[i]
  BY ONLY <1>2, <1>4, <1>11, Joined
<1>13. \A i \in 1..(107 + n) : i \in 1..((107 + n) + 2) /\ i \in 1..(((107 + n) + 2) + 34)
  OBVIOUS
<1>14. \A i \in 1..(107 + n) : script[i] = s3[i]
  BY ONLY <1>10, <1>11, <1>12, <1>13, Zenon
<1>15. 107 \in 1..107 /\ 107 \in 1..(107 + n) /\ \A i \in 1..n : 107 + i \in 1..(107 + n)
  OBVIOUS
<1>16. script[107] = OP_ELSE
  <2>1. s3[107] = s2[107]
    BY ONLY <1>9, <1>15, Zenon
  <2>2. script[107] = s3[107]
    BY ONLY <1>14, <1>15, Zenon
  <2> QED BY ONLY <1>8, <2>1, <2>2, Zenon
<1>17. \A i \in 1..n : script[107 + i] = a[i]
  BY ONLY <1>9, <1>14, <1>15, Zenon
<1>18. Len(script) \in Nat /\ Len(script) >= 113
  <2>1. Len(script) = (((107 + n) + 2) + 34) + 2
    BY ONLY <1>12, Zenon DEF Bytes
  <2> QED BY <2>1
<1> QED BY ONLY <1>16, <1>17, <1>18, Zenon DEF HasLock, script

(* LockTimeFromRedeemScript reads back every timeout a script of three     *)
(* keys can have.                                                          *)
THEOREM LockTimeAlwaysRead ==
    ASSUME input \in ScriptInputs
    PROVE  LockTimeRead
<1> DEFINE keys == input.keys
           timeout == input.timeout
           key == input.timeoutKey
           multisig == AddInt64(2) \o KeyList(keys) \o AddInt64(Len(keys)) \o <<OP_CHECKMULTISIG>>
           script == GenerateMultisigScript(keys, 2, timeout, key)
<1>1. keys \in KeyTriples /\ timeout \in Timeouts /\ key \in {0} \cup TimeoutKeys
  BY DEF ScriptInputs
<1>2. LockTimeRead <=> (input.kind = "script" => (script # Nothing =>
          LockTimeFromRedeemScript(script) = IF HasTimeout(timeout) THEN timeout ELSE -1))
  BY ONLY Zenon DEF LockTimeRead
<1> SUFFICES ASSUME script # Nothing
             PROVE  LockTimeFromRedeemScript(script) = IF HasTimeout(timeout) THEN timeout ELSE -1
  BY <1>2, Zenon
<1> HIDE DEF keys, timeout, key
<1>3. AreThreeKeys(keys) /\ timeout \in Nat /\ IsUint32(timeout) /\ key \in Nat
  <2>1. keys \in [1..3 -> 0..255] /\ timeout \in Nat /\ timeout \div 65536 < 65536 /\ key \in 0..255
    BY <1>1, ScriptAssumption
  <2> QED BY <2>1 DEF AreThreeKeys, IsUint32
<1>4. Len(keys) = 3 /\ ~(Len(keys) < 2)
  <2>1. Len(keys) = 3
    BY <1>3, KeyListBytes
  <2>2. ~(3 < 2)
    OBVIOUS
  <2> QED BY ONLY <2>1, <2>2, Zenon
<1>5. Bytes(multisig, 105)
  BY ONLY <1>3, MultisigBytes
<1>6. CASE ~HasTimeout(timeout)
  <2>1. script = multisig
    BY ONLY <1>4, <1>6, Zenon DEF GenerateMultisigScript
  <2> HIDE DEF script, multisig
  <2>2. Len(script) = 105 /\ Len(script) < 113
    <3>1. 105 < 113
      OBVIOUS
    <3>2. Len(script) = 105
      BY ONLY <1>5, <2>1, Zenon DEF Bytes
    <3> QED BY ONLY <3>1, <3>2, Zenon
  <2>3. LockTimeFromRedeemScript(script) = -1
    BY ONLY <2>2, Zenon DEF LockTimeFromRedeemScript
  <2> QED BY ONLY <1>6, <2>3, Zenon
<1>7. CASE HasTimeout(timeout)
  <2> DEFINE a == AddInt64(timeout)
  <2>1. key # 0
    BY ONLY <1>4, <1>7, script # Nothing, Zenon DEF GenerateMultisigScript
  <2>2. script = TimeoutScript(multisig, a, key)
    BY ONLY <1>4, <1>7, <2>1, Zenon DEF GenerateMultisigScript, TimeoutScript
  <2> HIDE DEF a, script, multisig
  <2>3. timeout >= 6
    BY <1>3, <1>7 DEF HasTimeout
  <2>4. CASE timeout \in 1..16
    <3>1. Bytes(a, 1) /\ a[1] = timeout + 80
      BY <2>4, SmallNumber DEF a
    <3>2. HasLock(script, a, 1)
      BY <1>3, <1>5, <2>2, <3>1, ScriptPlaces
    <3>3. script[108] = timeout + 80 /\ Len(script) \in Nat /\ Len(script) >= 113 /\ script[107] = OP_ELSE
      BY ONLY <3>1, <3>2 DEF HasLock
    <3>4. LockTimeFromRedeemScript(script) = timeout
      BY ONLY <2>4, <3>3 DEF LockTimeFromRedeemScript
    <3> QED BY ONLY <1>7, <3>4, Zenon
  <2>5. CASE timeout > 16
    <3>1. PICK b, left : /\ BytesOf(b, timeout, left) /\ Bytes(a, 1 + Len(b))
                         /\ a[1] = Len(b) /\ HasBytes(a, 1, b)
      BY <1>3, <2>5, LargeNumber DEF a
    <3>2. Len(b) \in 1..5
      BY ONLY <3>1, Zenon DEF BytesOf
    <3> DEFINE n == Len(b)
    <3> HIDE DEF n
    <3>3. n \in 1..5 /\ 1 + n \in Nat /\ Bytes(a, 1 + n)
      BY <3>1, <3>2 DEF n
    <3>4. HasLock(script, a, 1 + n)
      BY <1>3, <1>5, <2>2, <3>3, ScriptPlaces
    <3>5. /\ Len(script) \in Nat /\ Len(script) >= 113 /\ script[107] = OP_ELSE
          /\ \A i \in 1..(1 + n) : script[107 + i] = a[i]
      BY ONLY <3>4, Zenon DEF HasLock
    <3>6. script[108] = n
      BY <3>1, <3>3, <3>5 DEF n
    <3>7. HasBytes(script, 108, b)
      <4> SUFFICES ASSUME NEW i \in 1..Len(b) PROVE script[108 + i] = b[i]
        BY DEF HasBytes
      <4>1. 1 + i \in 1..(1 + n) /\ 107 + (1 + i) = 108 + i
        BY <3>3 DEF n
      <4>2. a[1 + i] = b[i]
        BY <3>1 DEF HasBytes
      <4> QED BY <3>5, <4>1, <4>2
    <3>8. PushedNumber(script, 108, n) = timeout
      BY <1>3, <3>1, <3>7, PushedNumberIs DEF n
    <3>9. LockTimeFromRedeemScript(script) = timeout
      BY ONLY <3>3, <3>5, <3>6, <3>8 DEF LockTimeFromRedeemScript
    <3> QED BY ONLY <1>7, <3>9, Zenon
  <2>6. timeout \in 1..16 \/ timeout > 16
    BY <1>3, <2>3
  <2> QED BY ONLY <2>4, <2>5, <2>6
<1> QED BY ONLY <1>6, <1>7
=============================================================================
