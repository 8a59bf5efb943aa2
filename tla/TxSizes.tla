------------------------------ MODULE TxSizes ------------------------------
(***************************************************************************)
(* txsizes.go and fees.go: the estimated size of a transaction, and the    *)
(* fee per byte of each level.  All outputs are pay-to-pubkey-hash.        *)
(***************************************************************************)
EXTENDS Integers

FeeLevels == {"PRIOIRTY", "NORMAL", "ECONOMIC", "FEE_BUMP"}

(* NewSPVWallet configures (3, 2, 1, 1); the ceiling 3 is not used.        *)
priorityFee == 2
normalFee == 1
economicFee == 1

GetFeePerByte(feeLevel) ==
    CASE feeLevel = "PRIOIRTY" -> priorityFee
      [] feeLevel = "ECONOMIC" -> economicFee
      [] feeLevel = "FEE_BUMP" -> priorityFee * 2
      [] OTHER -> normalFee

InputTypes == {"P2PKH", "P2SH_1of2_Multisig", "P2SH_Multisig_Timelock_1Sig"}

(* The script that redeems an output.                                      *)
SigScriptSize(inputType) ==
    CASE inputType = "P2PKH" -> 108
      [] inputType = "P2SH_1of2_Multisig" -> 146
      [] inputType = "P2SH_2of3_Multisig" -> 253
      [] inputType = "P2SH_Multisig_Timelock_1Sig" -> 223
      [] inputType = "P2SH_Multisig_Timelock_2Sigs" -> 297

(* Outpoint, script length, sequence and the script; a multisig script     *)
(* counts a quarter, as if it were a witness.                              *)
InputSize(inputType) ==
    41 + (IF inputType = "P2PKH" THEN SigScriptSize(inputType) ELSE SigScriptSize(inputType) \div 4)

P2PKHPkScriptSize == 25
P2PKHOutputSize == 8 + 1 + P2PKHPkScriptSize

VarIntSerializeSize(n) == IF n < 253 THEN 1 ELSE IF n < 65536 THEN 3 ELSE 5

EstimateSerializeSize(inputCount, outputCount, addChangeOutput, inputType) ==
    LET outputs == outputCount + (IF addChangeOutput THEN 1 ELSE 0)
    IN  VarIntSerializeSize(inputCount) + VarIntSerializeSize(outputs)
            + inputCount * InputSize(inputType) + outputs * P2PKHOutputSize

EstimateFee(inputCount, outputCount, feePerByte) ==
    EstimateSerializeSize(inputCount, outputCount, FALSE, "P2PKH") * feePerByte

(* txrules.IsDustAmount at the default relay fee.                          *)
IsDustAmount(value, scriptSize) ==
    (value * 1000) \div (3 * (8 + 1 + scriptSize + 148)) < 1000
=============================================================================
