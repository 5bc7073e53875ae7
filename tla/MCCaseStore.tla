----------------------------- MODULE MCCaseStore -----------------------------
(***************************************************************************)
(* CaseStore for TLC: two triggers for one obligation, two writers, one    *)
(* scheduled action, and enough events to open, park, release, re-plan and *)
(* close a case.                                                           *)
(***************************************************************************)
EXTENDS CaseStore, TLC

CONSTANTS c1, c2, w1, w2, ob

MCCases == {c1, c2}
MCObligations == {ob}
MCObligationOf == [c \in MCCases |-> ob]
MCWriters == {w1, w2}
MCEvents ==
  {Plain("incident_attached"), Plain("incident_released"), Plain("action_scheduled"),
   Plain("approval_expired"),
   [type |-> "diagnosis_started", tier |-> 1],
   Terminal("RECOVERED")}

Symmetric == Permutations(MCWriters)
=============================================================================
