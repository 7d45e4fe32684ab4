---------------------------- MODULE MCScheduler -----------------------------
(***************************************************************************)
(* Scheduler for TLC: an array of three cells, capacities below, above and *)
(* at zero, pumps with and without a budget, nested once.                  *)
(***************************************************************************)
EXTENDS Scheduler

const_MAXQ == 3
const_Capacities == {0, 2, 4}
const_Budgets == {0, 1, 2}
const_MaxDepth == 2
=============================================================================
