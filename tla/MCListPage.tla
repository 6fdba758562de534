----------------------------- MODULE MCListPage -----------------------------
(***************************************************************************)
(* A small instance of ListPage: two items of one list, and an empty list. *)
(***************************************************************************)
EXTENDS ListPage, TLC

CONSTANTS l1, l2, a, b

MCListOf == (a :> l1) @@ (b :> l1)
Symmetry == Permutations({a, b})
=============================================================================
