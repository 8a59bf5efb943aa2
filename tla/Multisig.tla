------------------------------ MODULE Multisig ------------------------------
(***************************************************************************)
(* The escrow functions of sortsignsend.go: GenerateMultisigScript and the *)
(* lock time read back from its bytes, and the transaction that the        *)
(* parties build apart from each other, each from the inputs and outputs   *)
(* in the order it has them, to sign it (CreateMultisigSignature) and to   *)
(* put it together (Multisign).                                            *)
(***************************************************************************)
EXTENDS TxSizes, Sequences, Functions, Argument

CONSTANTS
    InputLists,    \* the inputs of an escrow, in the order of BIP 69
    OutputLists,   \* its outputs
    EscrowScripts, \* redeem scripts
    Timeouts,      \* timeouts of scripts, in blocks
    KeyTriples,    \* the keys of a script, each for the byte it is made of
    TimeoutKeys,   \* keys for the time after the timeout; 0 is none
    FeeRates       \* fees per byte

(* The outpoints of an escrow are numbered in their order.                 *)
ASSUME EscrowAssumption ==
    /\ InputLists \subseteq Seq([op : Nat, value : Int])
    /\ \A ins \in InputLists : \A i \in DOMAIN ins : ins[i].op = i
    /\ OutputLists \subseteq Seq([value : Int, script : Int])
    /\ FeeRates \subseteq Nat

(* A timeout is a uint32.                                                  *)
ASSUME ScriptAssumption ==
    /\ Timeouts \subseteq Nat /\ \A t \in Timeouts : t \div 65536 < 65536
    /\ KeyTriples \subseteq [1..3 -> 0..255] /\ TimeoutKeys \subseteq 1..255

(***************************************************************************)
(* Scripts, as bytes.                                                      *)
(***************************************************************************)
OP_0 == 0
OP_1 == 81
OP_IF == 99
OP_ELSE == 103
OP_ENDIF == 104
OP_DROP == 117
OP_CHECKSIG == 172
OP_CHECKMULTISIG == 174
OP_CHECKSEQUENCEVERIFY == 178

AddKey(byte) == <<33>> \o [i \in 1..33 |-> byte]

(* ScriptBuilder.AddInt64 (external): an opcode up to 16, else the bytes   *)
(* of the number, lowest first, with a zero byte if the highest bit of the *)
(* last one is set.  `left' is what remains of the number after k bytes.   *)
NumBytes(n) ==
    LET left[k \in 0..8] == IF k = 0 THEN n ELSE left[k - 1] \div 256
        size == CHOOSE k \in 1..8 : left[k] = 0 /\ left[k - 1] # 0
        b == [i \in 1..size |-> left[i - 1] % 256]
    IN  IF b[size] >= 128 THEN Append(b, 0) ELSE b

AddInt64(n) ==
    CASE n = 0 -> <<OP_0>>
      [] n \in 1..16 -> <<OP_1 + n - 1>>
      [] OTHER -> <<Len(NumBytes(n))>> \o NumBytes(n)

(* The timeout is counted in blocks of ten minutes; under an hour there is *)
(* none.                                                                   *)
HasTimeout(timeout) == timeout \div 6 > 0

Nothing == <<>>

KeyList(keys) ==
    LET add[k \in 0..Len(keys)] == IF k = 0 THEN <<>> ELSE add[k - 1] \o AddKey(keys[k])
    IN  add[Len(keys)]

GenerateMultisigScript(keys, threshold, timeout, timeoutKey) ==
    LET multisig == AddInt64(threshold) \o KeyList(keys) \o AddInt64(Len(keys)) \o <<OP_CHECKMULTISIG>>
    IN  CASE HasTimeout(timeout) /\ timeoutKey = 0 -> Nothing
          [] Len(keys) < threshold -> Nothing
          [] ~HasTimeout(timeout) -> multisig
          [] OTHER -> <<OP_IF>> \o multisig \o <<OP_ELSE>> \o AddInt64(timeout)
                          \o <<OP_CHECKSEQUENCEVERIFY, OP_DROP>> \o AddKey(timeoutKey)
                          \o <<OP_CHECKSIG, OP_ENDIF>>

(* The number of the `size' bytes after a place of a script, lowest first. *)
PushedNumber(script, at, size) ==
    LET value[k \in 0..size] == IF k = 0 THEN 0
                                ELSE script[at + size - k + 1] + 256 * value[k - 1]
    IN  value[size]

(* Mutant: small numbers are not decoded.                                  *)
LockTimePushedOnly(redeemScript) ==
    LET op == redeemScript[108]
    IN  IF Len(redeemScript) < 113 \/ redeemScript[107] # OP_ELSE THEN -1
        ELSE IF op \in 1..75 THEN PushedNumber(redeemScript, 108, op) ELSE -1

(* LockTimeFromRedeemScript looks at the fixed place the lock time has     *)
(* after three keys; -1 stands for its errors.                             *)
LockTimeFromRedeemScript(redeemScript) ==
    LET op == redeemScript[108]
    IN  IF Len(redeemScript) < 113 \/ redeemScript[107] # OP_ELSE THEN -1
        ELSE IF op = 0 THEN 0
        ELSE IF op \in 81..96 THEN op - 80
        ELSE IF op \in 1..75 THEN PushedNumber(redeemScript, 108, op) ELSE -1

ScriptInputs ==
    [kind : {"script"}, keys : KeyTriples, timeout : Timeouts, timeoutKey : {0} \cup TimeoutKeys]

(* LockTimeFromRedeemScript reads back the timeout of every two of three   *)
(* script GenerateMultisigScript makes, whatever its encoding, and finds   *)
(* none where there is none.                                               *)
LockTimeRead ==
    input.kind = "script" =>
        LET script == GenerateMultisigScript(input.keys, 2, input.timeout, input.timeoutKey)
        IN  script # Nothing => LockTimeFromRedeemScript(script)
                                    = IF HasTimeout(input.timeout) THEN input.timeout ELSE -1

----------------------------------------------------------------------------
(***************************************************************************)
(* The escrow transaction.  An input is [op, value], an output is          *)
(* [value, script]; outpoints and scripts are numbers, ordered as BIP 69   *)
(* orders them.                                                            *)
(***************************************************************************)
InputLess(x, y) == x < y
OutputLess(x, y) == x.value < y.value \/ (x.value = y.value /\ x.script <= y.script)

(* The sequences with the elements of s, in any order.                     *)
Permuted(s) == {[i \in DOMAIN s |-> s[f[i]]] : f \in Bijection(DOMAIN s, DOMAIN s)}

(* txsort.InPlaceSort (external).                                          *)
InPlaceSort(s, Less(_, _)) ==
    CHOOSE t \in Permuted(s) : \A i, j \in DOMAIN s : i < j => Less(t[i], t[j]) \/ t[i] = t[j]

MultisigType(redeemScript) ==
    IF LockTimeFromRedeemScript(redeemScript) >= 0
    THEN "P2SH_Multisig_Timelock_2Sigs" ELSE "P2SH_2of3_Multisig"

(* Mutant: the transaction keeps the order of the caller.                  *)
EscrowUnsorted(ins, outs, redeemScript, rate) ==
    LET fee == EstimateSerializeSize(Len(ins), Len(outs), FALSE, MultisigType(redeemScript)) * rate
    IN  [ins |-> [i \in DOMAIN ins |-> ins[i].op],
         outs |-> [i \in DOMAIN outs |-> [outs[i] EXCEPT !.value = @ - fee \div Len(outs)]]]

(* The fee is shared by the outputs, then everything is sorted.            *)
EscrowTx(ins, outs, redeemScript, rate) ==
    LET fee == EstimateSerializeSize(Len(ins), Len(outs), FALSE, MultisigType(redeemScript)) * rate
        paid == [i \in DOMAIN outs |-> [outs[i] EXCEPT !.value = @ - fee \div Len(outs)]]
    IN  [ins |-> InPlaceSort([i \in DOMAIN ins |-> ins[i].op], InputLess),
         outs |-> InPlaceSort(paid, OutputLess)]

(* A signature commits to the transaction, the input and the value the     *)
(* caller gave in that place.                                              *)
CreateMultisigSignature(ins, outs, redeemScript, rate) ==
    LET tx == EscrowTx(ins, outs, redeemScript, rate)
    IN  {[index |-> i, tx |-> tx, value |-> ins[i].value] : i \in DOMAIN tx.ins}

(* Multisign takes the signatures of each index, the last one of several.  *)
Multisign(ins, outs, sigs1, sigs2, redeemScript, rate) ==
    LET tx == EscrowTx(ins, outs, redeemScript, rate)
    IN  [tx |-> tx,
         sigs |-> [i \in DOMAIN tx.ins |-> <<{s \in sigs1 : s.index = i}, {s \in sigs2 : s.index = i}>>]]

(* A node accepts an input if both signatures commit to the transaction    *)
(* and to the value of the output it spends.                               *)
ValidInputs(signed, valueOf) ==
    {i \in DOMAIN signed.sigs : \A k \in 1..2 :
        signed.sigs[i][k] = {[index |-> i, tx |-> signed.tx, value |-> valueOf[signed.tx.ins[i]]]}}

EscrowInputs ==
    [kind : {"escrow"}, script : EscrowScripts, rate : FeeRates, ins : InputLists, outs : OutputLists]

(* Two parties that sign and a third that combines the signatures work on  *)
(* the same transaction, in whatever order each lists inputs and outputs;  *)
(* and every input is signed for its own value if the two list the inputs  *)
(* in the order of BIP 69.                                                 *)
SignersAgree ==
    input.kind = "escrow" =>
        LET sigs(i, o) == CreateMultisigSignature(i, o, input.script, input.rate)
            valueOf == [op \in DOMAIN input.ins |-> input.ins[op].value]
        IN  \A i1, i2 \in Permuted(input.ins), o1, o2 \in Permuted(input.outs) :
                LET signed == Multisign(i2, o2, sigs(i1, o1), sigs(input.ins, o2), input.script, input.rate)
                IN  /\ \A s \in sigs(i1, o1) : s.tx = signed.tx
                    /\ i1 = input.ins => ValidInputs(signed, valueOf) = DOMAIN input.ins
=============================================================================
