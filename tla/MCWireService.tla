---------------------------- MODULE MCWireService ----------------------------
(***************************************************************************)
(* A chain b0-b1-b2-b3, of which b1 is older than the wallet, and a branch *)
(* c2-c3 from b1.  The transaction t1 is in b2 and, on the branch, in c3;  *)
(* peers may also announce it before that.                                 *)
(***************************************************************************)
EXTENDS WireService

CONSTANTS b0, b1, b2, b3, c2, c3, t1, p1, p2

Straight == {b0, b1, b2, b3}
Forked == {b0, b1, b2, c2, c3}

MCPrevBlock == [x \in Block \ {b0} |-> CASE x = b1 -> b0 [] x \in {b2, c2} -> b1
                                         [] x = b3 -> b2 [] x = c3 -> c2]
MCHeight == [x \in Block |-> CASE x = b0 -> 0 [] x = b1 -> 1
                               [] x \in {b2, c2} -> 2 [] x \in {b3, c3} -> 3]
MCTxns == [x \in Block |-> IF x \in {b2, c3} THEN {t1} ELSE {}]
MCRecent == {b2, b3, c2, c3} \cap Block
MCBeforeCreation == {b0, b1}
MCTx == {t1}
MCPeer == {p1, p2}
NoTx == {}
ForkTips == [p \in Peer |-> IF p = p1 THEN b2 ELSE b1]
BranchTips == [p \in Peer |-> IF p = p1 THEN c2 ELSE b2]
TipsApart == [p \in Peer |-> IF p = p1 THEN b1 ELSE b2]
=============================================================================
