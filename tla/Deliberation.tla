---------------------------- MODULE Deliberation ----------------------------
(***************************************************************************)
(* Phase A of the batch (packages/sim/src/runner.ts): a pool of workers    *)
(* plans the cases, Tier 0 from the tables, Tier 1 from specialists that   *)
(* run at once (packages/agents/src/runtime.ts, specialists.ts, reducer.ts)*)
(* and write claims to the blackboard (packages/engine/src/blackboard.ts,  *)
(* work-router.ts).  The model provider is behind a cache that outlives    *)
(* the batch (cached-provider.ts), and batches of one cohort follow each   *)
(* other.                                                                  *)
(*                                                                         *)
(* A role that times out leaves its call running.  The other roles of a    *)
(* batch are deterministic: no reply, incident or segment is in their      *)
(* input.  A provider's answer keeps to the schema it was asked for.       *)
(***************************************************************************)
EXTENDS Planning

CONSTANTS
  NumCases,
  Pool,       \* PLAN_CONCURRENCY
  Inputs,     \* what each case may be: domain, rail, code, amount, mandate
  Diagnoses,  \* what the provider may answer: a cause, and how near the next one is
  Causes,     \* what the reducer's provider may answer
  Arms,       \* of "full", "offline" (no provider is configured), "tier0_only"
  Batches,    \* bound: batches of this cohort
  None

Cases == 1..NumCases
Rulings == [cause : Causes, rival : {"none"}]

ASSUME DeliberationAssumption ==
  /\ {NumCases, Pool, Batches} \subseteq Nat \ {0}
  /\ Diagnoses \subseteq [cause : STRING, rival : {"clear", "close"}]
  /\ Causes \subseteq STRING /\ \A e \in Range(Taxonomy) : e.cause \in STRING
  /\ None \notin Diagnoses /\ None \notin Rulings /\ None \notin Cases

(* What the tables and the cohort say about mandates: the waits of the     *)
(* sequencer are waits, the policy allows one of them and the update on a  *)
(* rail with mandates, delays are whole hours, and a mandate is in one of  *)
(* three states.                                                           *)
SequencersWaits == {"await_mandate_prerequisite", "await_provider_retry"}
ASSUME MandateAssumption ==
  /\ \A id \in SequencersWaits : id \in ActionIds /\ Action(id).schedule
  /\ \A rail \in MandateRails : /\ SequencersWaits \cap Allowed[rail] # {}
                                /\ "request_payment_method_update" \in Allowed[rail]
  /\ \A p \in Range(Playbooks) : p.steps \in Seq([action : ActionIds, hours : Nat])
  /\ \A c \in Cases : \A i \in Inputs[c] :
       i.rail \in MandateRails => i.mandate \in {"active", "paused", "revoked"}

Keys == Cases \X (Diagnoses \cup {None})
DiagnosisKey(c) == <<c, None>>
AdjudicationKey(c, d) == <<c, d>>

VARIABLES
  input,    \* the cohort: the same in every batch
  batch, arm,
  up,       \* whether the batch is running
  pc,       \* of each case's plan: waiting, roles, asking (the reducer), done
  diag,     \* the diagnosis role: idle, running, failed, or its claim
  plan,     \* the steps each case started with; <<>> if it started nothing
  live,     \* the roles whose claim is live
  replied,  \* the cases whose customer has replied
  routing,  \* the case whose reply is between its event and the router, or None
  cache,    \* claim_cache
  calls,    \* calls to the provider that have not ended
  acted,    \* history: the answers each input was acted on with, in any batch
  late      \* history: inputs whose call outlived its role

vars == <<input, batch, arm, up, pc, diag, plan, live, replied, routing, cache, calls, acted, late>>
planning == <<pc, diag, plan>>
board == <<live, replied, routing>>
batches == <<input, batch, arm, up>>

-----------------------------------------------------------------------------
Roles == {"payment_diagnosis", "customer_context", "incident_intelligence",
          "recovery_economics", "communication"}
DependsOn ==
  [payment_diagnosis     |-> {"payment_attempt", "decline_code", "mandate_state"},
   customer_context      |-> {"customer_profile", "customer_reply", "contact_history", "obligation_state"},
   incident_intelligence |-> {"incident_membership", "segment_metrics"},
   recovery_economics    |-> {"payment_attempt", "decline_code", "obligation_state", "policy_snapshot"},
   communication         |-> {"customer_profile", "customer_reply", "contact_history", "policy_snapshot"}]

RolesReadingOnly(kinds) == {r \in Roles : DependsOn[r] \subseteq kinds}
RolesDependingOn(kinds) == {r \in Roles : DependsOn[r] \cap kinds # {}}

(* WorkRouter: the roles a revision runs again; the others are reused.     *)
Rerun(kinds, withClaim) == RolesDependingOn(kinds) \cup (Roles \ withClaim)

(* DeliberationReducer: the customer's word outranks the incident, the     *)
(* incident the plan, and only hypotheses too close to separate are put to *)
(* the provider.                                                           *)
Strategy(diagnosis, context, suppress) ==
  CASE context.optedOut \/ context.intent \in {"opt_out", "dispute"} -> "stop"
    [] ~(context.optedOut \/ context.intent \in {"opt_out", "dispute"}) /\ suppress -> "suppress"
    [] OTHER -> IF diagnosis.rival = "close" THEN "conflict" ELSE "plan"

NoContext == [intent |-> "unknown", optedOut |-> FALSE]

-----------------------------------------------------------------------------
Plan0(i) == Resolved(i.domain, i.rail, i.code, 0)
Facts(i) == [rail |-> i.rail, state |-> i.mandate, overCap |-> FALSE,
             notified |-> -1, presented |-> -1, attemptNo |-> 0]
TheStepsOf(plans) == IF plans = {} THEN <<>> ELSE CHOOSE p \in plans : TRUE

(* The plan of a Tier 1 case once its cause is settled.  A provider that   *)
(* was asked, or its cache, is charged to the case.                        *)
Tier1Steps(i, cause) ==
  LET spend == IF Entries(i.rail, i.code) = {} THEN 2 ELSE 0
  IN  TheStepsOf(PlanOf(Selected(i.rail, cause, i.amount, spend, 0)))

NoDiagnosis(status) == [cause |-> None, rival |-> status]

Call(key) == [key |-> key, batch |-> batch, stage |-> "looking", answer |-> None]
CallOf(key) == {k \in calls : k.key = key /\ k.batch = batch}
CaseOf(call) == call.key[1]
ForDiagnosis(call) == call.key[2] = None

Init ==
  /\ input \in {f \in [Cases -> UNION Range(Inputs)] : \A c \in Cases : f[c] \in Inputs[c]}
  /\ batch = 1 /\ arm \in Arms /\ up = TRUE
  /\ pc = [c \in Cases |-> "waiting"] /\ diag = [c \in Cases |-> NoDiagnosis("idle")]
  /\ plan = [c \in Cases |-> <<>>]
  /\ live = [c \in Cases |-> {}] /\ replied = {} /\ routing = None
  /\ cache = [k \in Keys |-> None] /\ calls = {}
  /\ acted = [k \in Keys |-> {}] /\ late = {}

(* A worker takes the next case, and ends its plan.                        *)
Takes(c) ==
  /\ up /\ pc[c] = "waiting"
  /\ \A d \in 1..(c - 1) : pc[d] # "waiting"
  /\ Cardinality({d \in Cases : pc[d] \in {"roles", "asking"}}) < Pool
Ends(c, steps) == pc' = [pc EXCEPT ![c] = "done"] /\ plan' = [plan EXCEPT ![c] = steps]

(* Blackboard: a claim replaces the live one of its role, and a claim that *)
(* is invalidated stays in the table but is not live.                      *)
Written(c, roles) == [live EXCEPT ![c] = @ \cup roles]
Invalidated(c, roles) == [live EXCEPT ![c] = @ \ roles]

ResolveTier0(c) ==
  /\ Takes(c) /\ Plan0(input[c]) # {}
  /\ \E p \in Plan0(input[c]) : Ends(c, Tier0Steps(Facts(input[c]), p, input[c].amount))
  /\ live' = Written(c, {"payment_diagnosis", "customer_context"})
  /\ UNCHANGED <<batches, diag, replied, routing, cache, calls, acted, late>>

(* The control arm of the ablation.                                        *)
FallBack(c) ==
  /\ Takes(c) /\ Plan0(input[c]) = {} /\ arm = "tier0_only"
  /\ Ends(c, TheStepsOf(GenericFallback(input[c].rail)))
  /\ UNCHANGED <<batches, diag, board, cache, calls, acted, late>>

(* AgentRuntime.run: every role at once.  A cause the taxonomy knows needs *)
(* no provider, and without a provider any other is a failure.             *)
FanOut(c) ==
  /\ Takes(c) /\ Plan0(input[c]) = {} /\ arm # "tier0_only"
  /\ pc' = [pc EXCEPT ![c] = "roles"]
  /\ LET known == Entries(input[c].rail, input[c].code)
     IN  \/ /\ known # {}
            /\ \E e \in known : diag' = [diag EXCEPT ![c] = [cause |-> e.cause, rival |-> "none"]]
            /\ UNCHANGED calls
         \/ /\ known = {} /\ arm = "offline"
            /\ diag' = [diag EXCEPT ![c] = NoDiagnosis("failed")]
            /\ UNCHANGED calls
         \/ /\ known = {} /\ arm = "full"
            /\ diag' = [diag EXCEPT ![c] = NoDiagnosis("running")]
            /\ calls' = calls \cup {Call(DiagnosisKey(c))}
  /\ UNCHANGED <<batches, plan, board, cache, acted, late>>

-----------------------------------------------------------------------------
(* Whether somebody still waits for a call.  A role that has timed out and *)
(* a batch that is over do not.                                            *)
Awaited(call) ==
  /\ up /\ call.batch = batch
  /\ IF ForDiagnosis(call) THEN diag[CaseOf(call)].rival = "running" ELSE pc[CaseOf(call)] = "asking"

(* What an answer does to the plan of its case, and what a failure does: a *)
(* role leaves no claim, and the reducer's escalation starts no plan.      *)
Deliver(call, answer) ==
  IF ~Awaited(call)
  THEN UNCHANGED <<planning, acted>>
  ELSE /\ acted' = [acted EXCEPT ![call.key] = @ \cup {answer}]
       /\ IF ForDiagnosis(call)
          THEN diag' = [diag EXCEPT ![CaseOf(call)] = answer] /\ UNCHANGED <<pc, plan>>
          ELSE Ends(CaseOf(call), Tier1Steps(input[CaseOf(call)], answer.cause)) /\ UNCHANGED diag

DisappointPlanning(call) ==
  /\ UNCHANGED acted
  /\ IF ~Awaited(call) THEN UNCHANGED planning
     ELSE IF ForDiagnosis(call)
          THEN diag' = [diag EXCEPT ![CaseOf(call)] = NoDiagnosis("failed")] /\ UNCHANGED <<pc, plan>>
          ELSE /\ Ends(CaseOf(call), Tier1Steps(input[CaseOf(call)], diag[CaseOf(call)].cause))
               /\ UNCHANGED diag
Disappoint(call) ==
  /\ UNCHANGED acted
  /\ IF ~Awaited(call) THEN UNCHANGED planning
     ELSE IF ForDiagnosis(call)
          THEN diag' = [diag EXCEPT ![CaseOf(call)] = NoDiagnosis("failed")] /\ UNCHANGED <<pc, plan>>
          ELSE Ends(CaseOf(call), <<>>) /\ UNCHANGED diag

Turn(call, stage, answer) ==
  calls' = (calls \ {call}) \cup {[call EXCEPT !.stage = stage, !.answer = answer]}
Answers(call) == IF ForDiagnosis(call) THEN Diagnoses ELSE Rulings

(* CachedProvider.complete: look, ask, store unless stored, answer.        *)
Look(call) ==
  /\ call.stage = "looking"
  /\ IF cache[call.key] # None
     THEN calls' = calls \ {call} /\ Deliver(call, cache[call.key])
     ELSE Turn(call, "asked", None) /\ UNCHANGED <<planning, acted>>
  /\ UNCHANGED <<batches, board, cache, late>>

AnsweredAtOnce(call) ==
  /\ call.stage = "asked"
  /\ \E a \in Answers(call) : Turn(call, "answered", a) /\ Deliver(call, a)
  /\ UNCHANGED <<batches, board, cache, late>>
Answered(call) ==
  /\ call.stage = "asked"
  /\ \E a \in Answers(call) : Turn(call, "answered", a)
  /\ UNCHANGED <<batches, planning, board, cache, acted, late>>

Store(call) ==
  /\ call.stage = "answered"
  /\ cache' = [cache EXCEPT ![call.key] = IF @ = None THEN call.answer ELSE @]
  /\ calls' = calls \ {call} /\ Deliver(call, call.answer)
  /\ UNCHANGED <<batches, board, late>>

(* The provider refuses, gives up at its own timeout, or answers prose.    *)
Fail(call) ==
  /\ call.stage = "asked"
  /\ calls' = calls \ {call} /\ Disappoint(call)
  /\ UNCHANGED <<batches, board, cache, late>>

(* withTimeout: the role is over, its call is not.                         *)
TimeOut(c) ==
  /\ up /\ diag[c].rival = "running"
  /\ diag' = [diag EXCEPT ![c] = NoDiagnosis("failed")]
  /\ late' = late \cup {DiagnosisKey(c)}
  /\ UNCHANGED <<batches, pc, plan, board, cache, calls, acted>>

(* allSettled: every role that succeeded writes its claim, then a case     *)
(* without a diagnosis is escalated and any other is reduced.              *)
Reduce(c) ==
  LET i == input[c]
      failed == diag[c].rival = "failed"
  IN  /\ live' = Written(c, IF failed THEN Roles \ {"payment_diagnosis"} ELSE Roles)
      /\ \/ /\ failed
            /\ Ends(c, TheStepsOf(Escalation(i.rail))) /\ UNCHANGED calls
         \/ /\ ~failed /\ Strategy(diag[c], NoContext, FALSE) = "plan"
            /\ Ends(c, Tier1Steps(i, diag[c].cause)) /\ UNCHANGED calls
         \/ /\ ~failed /\ Strategy(diag[c], NoContext, FALSE) = "conflict"
            /\ pc' = [pc EXCEPT ![c] = "asking"]
            /\ calls' = calls \cup {Call(AdjudicationKey(c, diag[c]))}
            /\ UNCHANGED plan
      /\ UNCHANGED <<batches, diag, replied, routing, cache, acted, late>>

SettleAll(c) == up /\ pc[c] = "roles" /\ diag[c].rival \notin {"running", "failed"} /\ Reduce(c)
Settle(c) == up /\ pc[c] = "roles" /\ diag[c].rival # "running" /\ Reduce(c)

-----------------------------------------------------------------------------
AllPlanned == \A c \in Cases : pc[c] = "done"

(* Phase B: a customer answers what the plan sent.  The evidence makes a   *)
(* revision, and then the router drops the claims it has made stale.       *)
Reply(c) ==
  /\ up /\ AllPlanned /\ routing = None /\ plan[c] # <<>>
  /\ replied' = replied \cup {c} /\ routing' = c
  /\ UNCHANGED <<batches, planning, live, cache, calls, acted, late>>

Route(c) ==
  /\ up /\ routing = c
  /\ live' = Invalidated(c, Rerun({"customer_reply"}, live[c]))
  /\ routing' = None
  /\ UNCHANGED <<batches, planning, replied, cache, calls, acted, late>>

(* The batch ends, with calls that nobody waits for still on their way, or *)
(* its process dies with its calls.                                        *)
Finish ==
  /\ up /\ AllPlanned /\ routing = None
  /\ up' = FALSE
  /\ UNCHANGED <<input, batch, arm, planning, board, cache, calls, acted, late>>
Crash ==
  /\ up
  /\ up' = FALSE
  /\ calls' = {k \in calls : k.batch # batch}
  /\ UNCHANGED <<input, batch, arm, planning, board, cache, acted, late>>

(* The next batch of the cohort: reset truncates all but the cache.        *)
Start ==
  /\ ~up /\ batch < Batches
  /\ up' = TRUE /\ batch' = batch + 1 /\ arm' \in Arms
  /\ pc' = [c \in Cases |-> "waiting"] /\ diag' = [c \in Cases |-> NoDiagnosis("idle")]
  /\ plan' = [c \in Cases |-> <<>>]
  /\ live' = [c \in Cases |-> {}] /\ replied' = {} /\ routing' = None
  /\ UNCHANGED <<input, cache, calls, acted, late>>

Plans(c) == ResolveTier0(c) \/ FallBack(c) \/ FanOut(c) \/ Settle(c)
ForCase(c) == Plans(c) \/ TimeOut(c) \/ Reply(c) \/ Route(c)
Ask(call) == Look(call) \/ Answered(call) \/ Store(call) \/ Fail(call)

Next ==
  \/ \E c \in Cases : ForCase(c)
  \/ \E call \in calls : Ask(call)
  \/ Finish \/ Crash \/ Start

(* The workers go on, the timers of the roles fire, and a call to the      *)
(* provider has a timeout of its own.                                      *)
Fairness ==
  /\ \A c \in Cases : WF_vars(Plans(c)) /\ WF_vars(TimeOut(c))
  /\ WF_vars(\E call \in calls : call.batch = batch /\ Ask(call))
Spec == Init /\ [][Next]_vars /\ Fairness

-----------------------------------------------------------------------------
Stages == {"looking", "asked", "answered"}
Values == Diagnoses \cup Rulings

TypeOK ==
  /\ DOMAIN input = Cases /\ \A c \in Cases : input[c] \in Inputs[c]
  /\ batch \in 1..Batches /\ arm \in Arms /\ up \in BOOLEAN
  /\ pc \in [Cases -> {"waiting", "roles", "asking", "done"}]
  /\ diag \in [Cases -> [cause : STRING \cup {None},
                         rival : {"none", "clear", "close", "idle", "running", "failed"}]]
  /\ DOMAIN plan = Cases
  /\ live \in [Cases -> SUBSET Roles] /\ replied \subseteq Cases
  /\ routing \in Cases \cup {None}
  /\ cache \in [Keys -> Values \cup {None}] /\ acted \in [Keys -> SUBSET Values]
  /\ calls \subseteq [key : Keys, batch : 1..Batches, stage : Stages, answer : Values \cup {None}]
  /\ late \subseteq Keys

(* Batches of one cohort repeat each other: an input is acted on with two  *)
(* different answers, in whichever batches and over crashes, only if one   *)
(* of its calls outlived its role and stored its answer behind it.         *)
SecondAnswerNeedsLateCall ==
  \A k \in Keys : k \notin late => Cardinality(acted[k]) <= 1

(* An outage makes no recovery: what the tables do not resolve and no      *)
(* provider has judged, in any batch, is escalated or left alone.          *)
Judged(c) == diag[c] \in Diagnoses /\ (diag[c].rival = "close" => acted[AdjudicationKey(c, diag[c])] # {})
OutageMakesNoPlan ==
  \A c \in Cases :
    LET i == input[c]
    IN  (pc[c] = "done" /\ arm # "tier0_only" /\ Entries(i.rail, i.code) = {} /\ ~Judged(c))
          => plan[c] = <<>> \/ {plan[c]} = Escalation(i.rail)

(* On a mandate rail a case that Tier 0 resolved gives the notice its day  *)
(* before it acts, and where no debit can succeed does nothing but ask for *)
(* another way to pay.                                                     *)
NoticeBeforeAction ==
  \A c \in Cases :
    LET i == input[c]
    IN  (pc[c] = "done" /\ Plan0(i) # {} /\ i.rail \in MandateRails /\ Acts(plan[c]))
          => IF i.mandate = "active"
             THEN LeadIn(plan[c]) >= Notice
             ELSE plan[c] = Update

(* Once a reply has been routed no claim that was drawn without it is      *)
(* live: nothing runs the roles again, so the board has none of them.      *)
ContextIsCurrent ==
  routing = None =>
    \A c \in replied : live[c] \cap {"customer_context", "communication"} = {}

(* A provider that never answers holds up nothing: a batch that is not     *)
(* killed decides every case.                                              *)
EveryCaseIsDecided == <>[](up => AllPlanned)
=============================================================================
