-------------------------- MODULE MCLocalReminders --------------------------
(***************************************************************************)
(* A small instance of LocalReminders: a recurring task with a reminder to *)
(* come and an overdue task, which the summary of the day lists.           *)
(***************************************************************************)
EXTENDS LocalReminders, TLC

CONSTANTS t1, t2

MCDue == (t1 :> 2) @@ (t2 :> 0)
=============================================================================
