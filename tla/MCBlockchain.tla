---------------------------- MODULE MCBlockchain ----------------------------
(***************************************************************************)
(* A small tree of blocks for module Blockchain: the checkpoint c, a chain *)
(* a1-a2-a3-a4, a branch b2 from a1 with so much work that it overtakes    *)
(* the longer chain up to a3, and is overtaken by a4, a block z that fails *)
(* its checks and the block x the checkpoint itself builds on.             *)
(***************************************************************************)
EXTENDS Blockchain

CONSTANTS c, a1, a2, a3, a4, b2, x, z

MCHeader == {c, a1, a2, a3, a4, b2, x, z}
MCPrev == [h \in Header |->
             CASE h = c -> x [] h = a1 -> c [] h = a2 -> a1 [] h = a3 -> a2 [] h = a4 -> a3
               [] h = b2 -> a1 [] h = z -> a2 [] OTHER -> NoHeader]
MCCalcWork == [h \in Header |-> CASE h = b2 -> 5 [] OTHER -> 2]
MCChainHeight == [h \in Header |->
             CASE h = x -> 0 [] h = c -> 1 [] h = a1 -> 2 [] h \in {a2, b2} -> 3
               [] h \in {a3, z} -> 4 [] h = a4 -> 5]
MCChainWork == [h \in Header |->
             CASE h = a1 -> 2 [] h = a2 -> 4 [] h \in {a3, z} -> 6 [] h = b2 -> 7
               [] h = a4 -> 8 [] OTHER -> 0]
MCTimestamp == MCChainHeight
MCValidHeader == Header \ {z}
MCRollbackTimes == {0, 3}
MCRollbackHeights == {0, 3}
=============================================================================
