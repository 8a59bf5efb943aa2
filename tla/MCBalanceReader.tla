--------------------------- MODULE MCBalanceReader ---------------------------
(***************************************************************************)
(* p pays us; c spends p0 with change c0; e spends c0 with change e0; d    *)
(* spends p0 too, to a stranger, in conflict with c.                       *)
(***************************************************************************)
EXTENDS BalanceReader

CONSTANTS p, c, d, e, p0, c0, e0

MCTx == {p, c, d, e}
MCOut == {p0, c0, e0}
MCCreator == [o \in MCOut |-> CASE o = p0 -> p [] o = c0 -> c [] o = e0 -> e]
MCSpends == [t \in MCTx |-> CASE t = p -> {} [] t \in {c, d} -> {p0} [] t = e -> {c0}]
=============================================================================
