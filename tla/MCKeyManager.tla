---------------------------- MODULE MCKeyManager ----------------------------
(***************************************************************************)
(* One or two goroutines ingest payments, two ask for addresses.  Index 1  *)
(* of the chain is invalid; the user may import key 3 before it is         *)
(* derived.                                                                *)
(***************************************************************************)
EXTENDS KeyManager, TLC

CONSTANTS EXTERNAL, INTERNAL

MCPurpose == {EXTERNAL, INTERNAL}
MCImportable == {<<EXTERNAL, 3>>}

(* Payers are alike, and so are users.                                     *)
MCSymmetry == Permutations(Payer) \cup Permutations(User)
=============================================================================
