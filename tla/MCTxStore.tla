------------------------------ MODULE MCTxStore ------------------------------
(***************************************************************************)
(* p pays us twice; c spends p0 with change c0; d spends both outputs of p *)
(* with change d0, in conflict with c; f spends c0 and p1 to a stranger,   *)
(* so that f descends from p on two paths and conflicts with d as well.    *)
(***************************************************************************)
EXTENDS MarkAsDead, ConfirmedStxo

CONSTANTS p, c, d, f, p0, p1, c0, d0

MCTx == {p, c, d, f}
MCOut == {p0, p1, c0, d0}
MCCreator == [o \in MCOut |-> CASE o \in {p0, p1} -> p [] o = c0 -> c [] o = d0 -> d]
MCSpends == [t \in MCTx |-> CASE t = p -> {} [] t = c -> {p0} [] t = d -> {p0, p1}
                              [] t = f -> {c0, p1}]
=============================================================================
