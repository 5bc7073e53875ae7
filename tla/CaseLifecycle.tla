---------------------------- MODULE CaseLifecycle ----------------------------
(***************************************************************************)
(* The case state machine and the event reducer (packages/core/src/        *)
(* state-machine.ts and events.ts) as constant-level operators.  Every     *)
(* component that moves a case does it by appending an event, so these     *)
(* operators are shared by all the specifications of this project.         *)
(*                                                                         *)
(* A revision keeps the reducer fields that some component reads back.     *)
(* Counters and payloads that only reach the audit trail (attemptCount,    *)
(* planVersion, evidenceKinds) are left out; incidentId and terminalReason *)
(* are reduced to whether they are set.                                    *)
(***************************************************************************)
EXTENDS Naturals, Sequences, SequencesExt

TerminalStates ==
  {"RECOVERED", "UNRECOVERABLE", "CANCELLED", "DISPUTED", "OPTED_OUT", "STOPPED_HUMAN"}

LiveStates ==
  {"DETECTED", "DIAGNOSING", "PLANNING", "AWAITING_APPROVAL", "EXECUTING",
   "OBSERVING", "SCHEDULED", "SUPPRESSED_BY_INCIDENT"}

CaseStates == LiveStates \cup TerminalStates

IsTerminal(s) == s \in TerminalStates

(* The LEGAL table, as the set of its (from, to) pairs.                    *)
Legal ==
  {<<"DETECTED", "DIAGNOSING">>,
   <<"DIAGNOSING", "PLANNING">>,
   <<"PLANNING", "AWAITING_APPROVAL">>, <<"PLANNING", "EXECUTING">>,
   <<"PLANNING", "SCHEDULED">>,
   <<"AWAITING_APPROVAL", "EXECUTING">>,
   <<"EXECUTING", "OBSERVING">>,
   <<"OBSERVING", "DIAGNOSING">>, <<"OBSERVING", "SCHEDULED">>,
   <<"OBSERVING", "PLANNING">>,
   <<"SCHEDULED", "DIAGNOSING">>, <<"SCHEDULED", "EXECUTING">>,
   <<"SUPPRESSED_BY_INCIDENT", "SCHEDULED">>,
   <<"SUPPRESSED_BY_INCIDENT", "DIAGNOSING">>}
  \cup ((LiveStates \ {"SUPPRESSED_BY_INCIDENT"}) \X {"SUPPRESSED_BY_INCIDENT"})

CanTransition(from, to) ==
  \/ from = to
  \/ /\ ~IsTerminal(from)
     /\ IsTerminal(to) \/ <<from, to>> \in Legal

-----------------------------------------------------------------------------
Tiers == 0..2

(* The state an event of a fixed-target type drives the case to.           *)
Drives ==
  [case_opened       |-> "DETECTED",
   plan_proposed     |-> "PLANNING",
   diagnosis_started |-> "DIAGNOSING",
   approval_required |-> "AWAITING_APPROVAL",
   approval_granted  |-> "EXECUTING",
   approval_expired  |-> "STOPPED_HUMAN",
   action_executed   |-> "OBSERVING",
   action_scheduled  |-> "SCHEDULED",
   incident_attached |-> "SUPPRESSED_BY_INCIDENT",
   incident_released |-> "SCHEDULED"]

(* CaseEvent, without the payload fields that only the audit trail keeps.  *)
PlainEvents ==
  [type : (DOMAIN Drives \ {"diagnosis_started"}) \cup {"outcome_observed", "evidence_added"}]
DiagnosisEvents == [type : {"diagnosis_started"}, tier : Tiers]
TerminalEvents == [type : {"terminal_reached"}, state : TerminalStates]
CaseEvents == PlainEvents \cup DiagnosisEvents \cup TerminalEvents

Plain(type) == [type |-> type]
Terminal(state) == [type |-> "terminal_reached", state |-> state]

(* targetState: an outcome ends an execution, evidence moves nothing.      *)
TargetState(e, current) ==
  CASE e.type = "terminal_reached" -> e.state
    [] e.type = "outcome_observed" -> IF current = "EXECUTING" THEN "OBSERVING" ELSE current
    [] e.type = "evidence_added"   -> current
    [] OTHER                       -> Drives[e.type]

-----------------------------------------------------------------------------
Revisions ==
  [revision : Nat, state : CaseStates, tier : Tiers, incident : BOOLEAN, reason : BOOLEAN]

InitialRevision ==
  [revision |-> 0, state |-> "DETECTED", tier |-> 0, incident |-> FALSE, reason |-> FALSE]

(* assertTransition inside reduce: the append that would break it throws.  *)
Accepts(rev, e) == CanTransition(rev.state, TargetState(e, rev.state))

Reduce(rev, e) ==
  [revision |-> rev.revision + 1,
   state    |-> TargetState(e, rev.state),
   tier     |-> IF e.type = "diagnosis_started" THEN e.tier ELSE rev.tier,
   incident |-> (rev.incident \/ e.type = "incident_attached") /\ e.type # "incident_released",
   reason   |-> rev.reason \/ e.type = "terminal_reached"]

ReduceAll(events) ==
  LET fold[n \in 0..Len(events)] ==
        IF n = 0 THEN InitialRevision ELSE Reduce(fold[n - 1], events[n])
  IN  fold[Len(events)]
=============================================================================
