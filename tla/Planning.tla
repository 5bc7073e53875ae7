------------------------------ MODULE Planning ------------------------------
(***************************************************************************)
(* What the engine plans from: the decline taxonomy, the action library    *)
(* and the playbooks (packages/core/src), the Tier 0 resolver and the      *)
(* mandate sequencer (packages/engine/src), the valuation and the ranking  *)
(* of actions (packages/agents/src), and how the batch runner puts a plan  *)
(* together from them (packages/sim/src/runner.ts).                        *)
(*                                                                         *)
(* The three tables are the rows of their yaml files.  Confidences and     *)
(* probabilities are percentages, delays are hours.                        *)
(***************************************************************************)
EXTENDS Integers, Sequences, FiniteSets, SequencesExt

CONSTANTS
  Taxonomy,     \* rows: rail, code, cause, hard, retryEligible, retryCeiling, confidence
  Library,      \* actions by id: id, schedule, binds, rails, selectable, contact,
                \* cost, pDefault, pByCause
  Forbidden,    \* ids the library refuses
  Playbooks,    \* rows: domain (or "*"), cause, steps
  Allowed,      \* the policy: rail to action ids
  MandateRails,
  MinConfidence,
  Fatigue       \* contactFatiguePaise

ActionIds == {Library[i].id : i \in DOMAIN Library}
Gettable(id) == id \in ActionIds \ Forbidden
Action(id) == CHOOSE a \in Range(Library) : a.id = id

-----------------------------------------------------------------------------
(* Loading a table throws on what these rule out, and nothing runs then.   *)
LibraryParses ==
  /\ \A i, j \in DOMAIN Library : i # j => Library[i].id # Library[j].id
  /\ \A a \in Range(Library) : a.binds <=> ~a.schedule

TaxonomyParses ==
  /\ \A i, j \in DOMAIN Taxonomy :
       i # j => <<Taxonomy[i].rail, Taxonomy[i].code>> # <<Taxonomy[j].rail, Taxonomy[j].code>>
  /\ \A e \in Range(Taxonomy) : ~(e.hard /\ e.retryEligible)

PlaybooksParse ==
  /\ \A i, j \in DOMAIN Playbooks :
       i # j => <<Playbooks[i].domain, Playbooks[i].cause>> # <<Playbooks[j].domain, Playbooks[j].cause>>
  /\ \A p \in Range(Playbooks) :
       p.steps # <<>> /\ \A s \in Range(p.steps) : Gettable(s.action)

ASSUME TablesAssumption == LibraryParses /\ TaxonomyParses /\ PlaybooksParse

-----------------------------------------------------------------------------
(* The taxonomy's entries for a decline: none, or the one that classifies. *)
Entries(rail, code) == {e \in Range(Taxonomy) : e.rail = rail /\ e.code = code}
RetryPermitted(e, attemptNo) == e.retryEligible /\ attemptNo < e.retryCeiling

(* The domain's own playbook, or else the one of every domain.             *)
PlaybookFor(domain, cause) ==
  LET of(d) == {p \in Range(Playbooks) : p.domain = d /\ p.cause = cause}
  IN  IF of(domain) # {} THEN of(domain) ELSE of("*")

(* The plans Tier 0 resolves a decline to: one, or none and the case goes  *)
(* to Tier 1.                                                              *)
Resolved(domain, rail, code, attemptNo) ==
  {[cause |-> ep[1].cause, steps |-> ep[2].steps] :
     ep \in UNION {{e} \X PlaybookFor(domain, e.cause) :
                     e \in {e \in Entries(rail, code) :
                              /\ e.confidence >= MinConfidence
                              /\ e.retryEligible => RetryPermitted(e, attemptNo)}}}

-----------------------------------------------------------------------------
(* A step and the hours it delays what follows; 24 when it names none.     *)
Step(action, hours) == [action |-> action, hours |-> hours]
DefaultHours == 24
Notice == 24

Update == <<Step("request_payment_method_update", DefaultHours)>>
Backoff(attemptNo) == <<6, 48, 120>>[IF attemptNo < 2 THEN attemptNo + 1 ELSE 3]
AtLeastNow(t) == IF t > 0 THEN t ELSE 0

(* MandateRetrySequencer: notice before debit, and no debit where none can *)
(* succeed.  facts: rail, state, overCap; the hours since the notice, or   *)
(* -1 if none was sent; the hours to the next presentation, or -1.         *)
Sequenced(facts) ==
  LET retry(hours) == Step("await_provider_retry", hours)
      refused == facts.state \in {"revoked", "paused"} \/ facts.overCap
  IN  CASE facts.rail \notin MandateRails -> [permitted |-> FALSE, steps |-> <<>>]
        [] facts.rail \in MandateRails /\ refused -> [permitted |-> FALSE, steps |-> Update]
        [] OTHER ->
             [permitted |-> TRUE,
              steps |->
                CASE facts.notified = -1 ->
                       <<Step("await_mandate_prerequisite", DefaultHours), retry(Notice)>>
                  [] facts.notified \in 0..(Notice - 1) -> <<retry(Notice - facts.notified)>>
                  [] OTHER -> IF facts.presented = -1
                              THEN <<retry(Backoff(facts.attemptNo))>>
                              ELSE <<retry(AtLeastNow(facts.presented))>>]

-----------------------------------------------------------------------------
(* valueActions: the selectable actions of the rail that are allowed, each *)
(* with its expected value, rounded to a paisa.                            *)
Candidates(rail, allowed) ==
  {a \in Range(Library) : a.selectable /\ rail \in a.rails /\ a.id \in allowed}
PRecover(a, cause) == IF cause \in DOMAIN a.pByCause THEN a.pByCause[cause] ELSE a.pDefault
ExpectedValue(a, cause, amount) == (2 * PRecover(a, cause) * amount + 100) \div 200 - a.cost

Score(a, cause, amount, spend, contacts) ==
  ExpectedValue(a, cause, amount) - spend - (IF a.contact THEN contacts * Fatigue ELSE 0)

(* The optimizer's choice: the best positive score, ties going to the id   *)
(* that sorts first; none when no score is positive.                       *)
Selected(rail, cause, amount, spend, contacts) ==
  LET permitted == {a \in Candidates(rail, Allowed[rail]) : Gettable(a.id)}
      score(a)  == Score(a, cause, amount, spend, contacts)
      place(a)  == CHOOSE i \in DOMAIN Library : Library[i] = a
  IN  {a.id : a \in {a \in permitted :
                       /\ score(a) > 0
                       /\ \A b \in permitted :
                            \/ score(b) < score(a)
                            \/ score(b) = score(a) /\ place(a) <= place(b)}}
PlanOf(ids) == {<<Step(id, DefaultHours)>> : id \in ids}

-----------------------------------------------------------------------------
(* The steps the policy allows on the rail, in order.                      *)
PermittedSteps(rail, steps) ==
  LET kept[n \in 0..Len(steps)] ==
        IF n = 0 THEN <<>>
        ELSE IF steps[n].action \in Allowed[rail] THEN Append(kept[n - 1], steps[n]) ELSE kept[n - 1]
  IN  kept[Len(steps)]

Tier0StepsPlaybookFirst(facts, plan, amount) ==
  LET usable == PermittedSteps(facts.rail, Sequenced(facts).steps)
  IN  IF Head(plan.steps).action \in Allowed[facts.rail] THEN plan.steps ELSE usable

(* The steps a Tier 0 case starts with: on a mandate rail what the         *)
(* sequencer leaves usable, before the playbook or instead of it; else the *)
(* playbook if its first step is permitted, or the optimizer's choice.     *)
Tier0Steps(facts, plan, amount) ==
  LET rail   == facts.rail
      mandate == Sequenced(facts)
      usable == PermittedSteps(rail, mandate.steps)
      choice == Selected(rail, plan.cause, amount, 0, 0)
  IN  IF rail \in MandateRails /\ usable # <<>>
      THEN IF mandate.permitted THEN usable \o PermittedSteps(rail, plan.steps) ELSE usable
      ELSE CASE Head(plan.steps).action \in Allowed[rail] -> plan.steps
             [] Head(plan.steps).action \notin Allowed[rail] /\ choice # {} ->
                  CHOOSE p \in PlanOf(choice) : TRUE
             [] OTHER -> <<>>

GenericFallback(rail) ==
  LET order == <<"create_payment_link", "send_approved_template", "create_ops_escalation">>
  IN  PlanOf({order[i] : i \in {i \in 1..3 : /\ order[i] \in Allowed[rail]
                                             /\ \A j \in 1..(i - 1) : order[j] \notin Allowed[rail]}})

Escalation(rail) == PlanOf({"create_ops_escalation"} \cap Allowed[rail])

(* advancePlan: the hours before the first action of a plan is due.        *)
LeadIn(steps) ==
  LET first == SelectInSeq(steps, LAMBDA s : ~Action(s.action).schedule)
      waits == IF first = 0 THEN steps ELSE SubSeq(steps, 1, first - 1)
      due[n \in 0..Len(waits)] == IF n = 0 THEN 0 ELSE due[n - 1] + waits[n].hours
  IN  due[Len(waits)]
Acts(steps) == SelectInSeq(steps, LAMBDA s : ~Action(s.action).schedule) # 0
=============================================================================
