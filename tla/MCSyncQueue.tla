---------------------------- MODULE MCSyncQueue ----------------------------
(***************************************************************************)
(* Small instances of SyncQueue for TLC: one list and up to two items that *)
(* can be created offline, next to list 1 and item 2 the server holds.     *)
(***************************************************************************)
EXTENDS SyncQueue, TLC

Symmetry == Permutations(TempLists) \cup Permutations(TempItems)
=============================================================================
