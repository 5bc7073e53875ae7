----------------------------- MODULE MCExecution -----------------------------
(***************************************************************************)
(* Execution for TLC: one obligation and two cases.  r1 and r2 are the     *)
(* same attempt of case A, asked for twice with two tokens; r3 is the next *)
(* attempt of case A and replays the token of r1; r4 is case B's.          *)
(***************************************************************************)
EXTENDS Execution

MCRequests == {"r1", "r2", "r3", "r4"}
MCKeys == {"A0", "A1", "B0"}
MCTokens == {"t1", "t2", "t4"}
MCCaseOf == [r1 |-> "A", r2 |-> "A", r3 |-> "A", r4 |-> "B"]
MCObligationOf == [r \in MCRequests |-> "ob"]
MCKeyOf == [r1 |-> "A0", r2 |-> "A0", r3 |-> "A1", r4 |-> "B0"]
MCTokenOf == [r1 |-> "t1", r2 |-> "t2", r3 |-> "t1", r4 |-> "t4"]
MCNotAfter == [t1 |-> 1, t2 |-> 0, t4 |-> 1]
=============================================================================
