------------------------------ MODULE Argument ------------------------------
(***************************************************************************)
(* The argument of one call of a function that keeps no state of its own.  *)
(* It never changes: a property of all arguments is an invariant.          *)
(***************************************************************************)
VARIABLE input    \* a record; its field `kind' says of which function
=============================================================================
