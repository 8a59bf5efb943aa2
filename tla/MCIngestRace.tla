---------------------------- MODULE MCIngestRace -----------------------------
(***************************************************************************)
(* p pays us; c and d both spend its output, each with change.             *)
(***************************************************************************)
EXTENDS IngestRace

CONSTANTS p, c1, d1, p0, c0, d0

MCTx == {p, c1, d1}
MCOut == {p0, c0, d0}
MCCreator == [o \in MCOut |-> CASE o = p0 -> p [] o = c0 -> c1 [] o = d0 -> d1]
MCSpends == [t \in MCTx |-> IF t = p THEN {} ELSE {p0}]
=============================================================================
