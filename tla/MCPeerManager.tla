--------------------------- MODULE MCPeerManager ---------------------------
(***************************************************************************)
(* Peers p and q; q lacks a service the wallet needs unless Good says      *)
(* otherwise.                                                              *)
(***************************************************************************)
EXTENDS PeerManager

CONSTANTS p, q, a1, a2, u

MCAddrOf == [c \in Conn |-> IF c = p THEN a1 ELSE a2]
=============================================================================
