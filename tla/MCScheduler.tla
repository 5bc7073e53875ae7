----------------------------- MODULE MCScheduler -----------------------------
(***************************************************************************)
(* Scheduler for TLC: two workers; r1 is due at once and r2 later.         *)
(***************************************************************************)
EXTENDS Scheduler

MCRows == {"r1", "r2"}
MCCaseOf == [r1 |-> "A", r2 |-> "B"]
MCFireAt == [r1 |-> 0, r2 |-> 1]
=============================================================================
