---------------------------- MODULE MCAlgorithms ----------------------------
(***************************************************************************)
(* The wallet's algorithms on bounded inputs: calls of module Spending, or *)
(* one argument of a function of MerkleBlock, Multisig or Difficulty.      *)
(***************************************************************************)
EXTENDS Spending, Multisig, MerkleBlock, Difficulty

CONSTANTS
    MaxTxs,       \* bound: transactions of an honest block
    AnyTxs,       \* bound: transactions of a block with any hashes and flags
    AnyHashes,    \* bound: its hashes
    AnyFlags,     \* bound: its flags that are not padding
    EscrowValues  \* values of the inputs and outputs of an escrow

MCRows == [op : 1..4, value : {400, 700, 1500}, atHeight : {0, 5}, watchOnly : BOOLEAN]

(* Up to four rows; the third may be watched only, the fourth is worth     *)
(* 1500.                                                                   *)
MCWallets ==
    LET row(i, watch) == {r \in MCRows : r.op = i /\ r.watchOnly \in watch}
    IN  {{x} : x \in row(1, {FALSE})}
            \cup {{x, y} : x \in row(1, {FALSE}), y \in row(2, {FALSE})}
            \cup {{x, y, z} : x \in row(1, {FALSE}), y \in row(2, {FALSE}), z \in row(3, BOOLEAN)}
            \cup {{x, y, z, t} : x \in row(1, {FALSE}), y \in row(2, {FALSE}), z \in row(3, BOOLEAN),
                                 t \in {r \in row(4, {FALSE}) : r.value = 1500}}

HonestInputs ==
    UNION {[kind : {"honest"}, n : {n}, matched : SUBSET (0..(n - 1))] : n \in 1..MaxTxs}

(* The hashes are nodes of the tree of `true' transactions, the message    *)
(* claims n.                                                               *)
AnyInputs ==
    UNION {[kind : {"any"}, true : {t}, n : {t - 1, t, t + 1},
            hashes : UNION {[1..k -> Nodes(t)] : k \in 0..AnyHashes},
            flags : [1..AnyFlags -> BOOLEAN]] : t \in 1..AnyTxs}

MCKeyTriples == {<<2, 3, 4>>}

MCEscrowScripts == {GenerateMultisigScript(<<2, 3, 4>>, 2, timeout, 7) : timeout \in {0, 30}}

MCInputLists ==
    {<<[op |-> 1, value |-> v], [op |-> 2, value |-> w]>> : v, w \in EscrowValues}

MCOutputLists ==
    {<<[value |-> v, script |-> 1], [value |-> w, script |-> 2], [value |-> v, script |-> 3]>>
        : v, w \in EscrowValues}

MCOutlierTimes == {(i * Spacing) \div 2 : i \in 0..(2 * Depth + 12)}

MCInit ==
    \/ Init /\ input = [kind |-> "none"]
    \/ /\ input \in HonestInputs \cup AnyInputs \cup ScriptInputs \cup EscrowInputs
                        \cup ChainInputs \cup OutlierInputs
       /\ pc = "notFound" /\ utxos = {} /\ amount = 0 /\ feeLevel = "NORMAL"
       /\ coins = <<>> /\ total = [n \in {0} |-> 0]
       /\ targetFee = 0 /\ picked = 0 /\ change = 0

MCNext == Next /\ UNCHANGED input

MCSpec == MCInit /\ [][MCNext]_<<vars, input>> /\ WF_<<vars, input>>(MCNext)

----------------------------------------------------------------------------
(* checkMBlock accepts what an honest peer sends for any set of matched    *)
(* transactions, and returns exactly these, in order.                      *)
MBlockComplete ==
    input.kind = "honest" =>
        checkMBlock(HonestBlock(input.n, input.matched))
            = [end |-> "ok", r |-> MatchedTxids(input.n, input.matched)]

(* Whatever hashes and flags a message has, checkMBlock never reads past   *)
(* its stack, and what it accepts for the true number of transactions is a *)
(* list of transactions of the block, each once.                           *)
MBlockSound ==
    input.kind = "any" =>
        LET m == [n |-> input.n, root |-> MerkleRoot(input.true), hashes |-> input.hashes,
                  flags |-> Bytes(input.flags)]
            res == checkMBlock(m)
        IN  /\ res.end # "panic"
            /\ res.end = "ok" /\ input.n = input.true
                  => res.r \in {MatchedTxids(input.n, M) : M \in SUBSET (0..(input.n - 1))}
=============================================================================
