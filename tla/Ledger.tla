------------------------------- MODULE Ledger --------------------------------
(***************************************************************************)
(* What the transaction store promises, without its tables: each           *)
(* transaction is absent, pending or confirmed.  A pending one is accepted *)
(* only if it conflicts with nothing; a confirmed one displaces what it    *)
(* conflicts with; and whatever is displaced, by a conflict or by a        *)
(* reorganisation, takes with it at most the transactions that descend     *)
(* from it.                                                                *)
(***************************************************************************)
CONSTANTS Tx, Out, Creator, Spends

VARIABLE status   \* of each transaction

Absent(t) == status[t] = "absent"

Conflicts(tx) == {t \in Tx \ {tx} : ~Absent(t) /\ Spends[t] \cap Spends[tx] # {}}

ClosedUnderSpending(C) ==
    \A o \in Out, u \in Tx : Creator[o] \in C /\ o \in Spends[u] => u \in C

(* S and everything that spends from it, directly or not.                  *)
Descendants(S) ==
    {t \in Tx : \A C \in SUBSET Tx : S \subseteq C /\ ClosedUnderSpending(C) => t \in C}

(* All of S goes, and some of what descends from it: as much as the store  *)
(* has recorded as spending an output of its own.                          *)
Dropped(S) == {D \in SUBSET Descendants(S) : S \subseteq D}

Without(D) == [t \in Tx |-> IF t \in D THEN "absent" ELSE status[t]]

----------------------------------------------------------------------------
Init == status = [t \in Tx |-> "absent"]

See(tx) ==
    /\ Absent(tx)
    /\ Conflicts(tx) = {}
    /\ status' = [status EXCEPT ![tx] = "pending"]

(* A block confirms tx.  If tx is of no interest only its conflicts go.    *)
Confirm(tx) ==
    \E D \in Dropped(Conflicts(tx)) :
        \/ status' = [Without(D) EXCEPT ![tx] = "confirmed"]
        \/ status' = Without(D)

Reorganise ==
    \E S \in SUBSET {t \in Tx : status[t] = "confirmed"} :
        \E D \in Dropped(S) : status' = Without(D)

Next == (\E tx \in Tx : See(tx) \/ Confirm(tx)) \/ Reorganise

Spec == Init /\ [][Next]_status
=============================================================================
