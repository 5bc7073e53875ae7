------------------------- MODULE DeliberationProofs -------------------------
(***************************************************************************)
(* Theorems about Deliberation, for any cohort, pool, tables, provider and *)
(* number of batches.                                                      *)
(***************************************************************************)
EXTENDS Deliberation, FiniteSetTheorems, SequenceTheorems, TLAPS

CallRecords == [key : Keys, batch : 1..Batches, stage : Stages, answer : Values \cup {None}]
DiagRecords == [cause : STRING \cup {None},
                rival : {"none", "clear", "close", "idle", "running", "failed"}]
Turned(call, stage, answer) == [call EXCEPT !.stage = stage, !.answer = answer]

(* A provider answers to its schema, and so does its cache.                *)
Sound ==
  /\ \A c \in Cases : diag[c].rival = "close" => diag[c] \in Diagnoses
  /\ \A c \in Cases : cache[DiagnosisKey(c)] \in Diagnoses \cup {None}
  /\ \A call \in calls : call.stage = "answered" => call.answer \in Answers(call)

(* A diagnosis runs while its case is among its roles, and the reducer is  *)
(* asked about one whose hypotheses were close.                            *)
Phases ==
  \A c \in Cases :
    /\ pc[c] = "waiting" => diag[c].rival = "idle"
    /\ diag[c].rival = "running" => pc[c] = "roles"
    /\ pc[c] = "asking" => diag[c].rival = "close"

Base == TypeOK /\ Sound /\ Phases

-----------------------------------------------------------------------------
LEMMA KeyTypes ==
  /\ \A c \in Cases : DiagnosisKey(c) \in Keys
  /\ \A c \in Cases, d \in Diagnoses : AdjudicationKey(c, d) \in Keys
  /\ \A k \in Keys : k[1] \in Cases /\ k[2] \in Diagnoses \cup {None}
  /\ \A k \in Keys : k[2] = None => k = DiagnosisKey(k[1])
BY DEF Keys, DiagnosisKey, AdjudicationKey

LEMMA EntryCauses ==
  \A rail, code : \A e \in Entries(rail, code) : e.cause \in STRING
BY DeliberationAssumption DEF Entries

LEMMA DiagnosisTypes ==
  /\ \A d \in Diagnoses : d \in DiagRecords /\ d.rival \in {"clear", "close"}
  /\ \A s \in {"idle", "running", "failed"} :
       NoDiagnosis(s) \in DiagRecords /\ NoDiagnosis(s).rival = s
  /\ \A t \in STRING : [cause |-> t, rival |-> "none"] \in DiagRecords
BY DeliberationAssumption DEF DiagRecords, NoDiagnosis

(* No reply and no incident are in the input: hypotheses too close to      *)
(* separate are the only reason not to plan.                               *)
LEMMA StrategyOf ==
  ASSUME NEW d
  PROVE  Strategy(d, NoContext, FALSE) = IF d.rival = "close" THEN "conflict" ELSE "plan"
BY DEF Strategy, NoContext

LEMMA NewCall ==
  ASSUME TypeOK, NEW key \in Keys
  PROVE  /\ Call(key) \in CallRecords
         /\ Call(key).key = key /\ Call(key).batch = batch
         /\ Call(key).stage = "looking"
BY DEF TypeOK, Call, CallRecords, Stages

LEMMA TurnedFields ==
  ASSUME NEW call \in CallRecords, NEW stage \in Stages, NEW answer \in Values \cup {None}
  PROVE  /\ Turned(call, stage, answer) \in CallRecords
         /\ Turned(call, stage, answer).key = call.key
         /\ Turned(call, stage, answer).batch = call.batch
         /\ Turned(call, stage, answer).stage = stage
         /\ Turned(call, stage, answer).answer = answer
<1>1. Turned(call, stage, answer) \in CallRecords
  BY DEF Turned, CallRecords
<1>2. Turned(call, stage, answer).key = call.key
  BY DEF Turned, CallRecords
<1>3. Turned(call, stage, answer).batch = call.batch
  BY DEF Turned, CallRecords
<1>4. Turned(call, stage, answer).stage = stage
  BY DEF Turned, CallRecords
<1>5. Turned(call, stage, answer).answer = answer
  BY DEF Turned, CallRecords
<1>6. QED BY <1>1, <1>2, <1>3, <1>4, <1>5

LEMMA CallFields ==
  ASSUME TypeOK, NEW call \in calls
  PROVE  /\ call \in CallRecords /\ call.key \in Keys /\ CaseOf(call) \in Cases
         /\ call.batch \in 1..Batches /\ call.stage \in Stages
         /\ call.answer \in Values \cup {None}
<1>1. call \in CallRecords
  BY DEF TypeOK, CallRecords
<1>2. QED BY <1>1, KeyTypes DEF CallRecords, CaseOf

-----------------------------------------------------------------------------
(* Tables, as every action writes them.                                    *)
LEMMA PlanningTyped ==
  ASSUME TypeOK, NEW c \in Cases
  PROVE  /\ \A s \in {"waiting", "roles", "asking", "done"} :
              [pc EXCEPT ![c] = s] \in [Cases -> {"waiting", "roles", "asking", "done"}]
         /\ \A d \in DiagRecords : [diag EXCEPT ![c] = d] \in [Cases -> DiagRecords]
         /\ \A p : DOMAIN [plan EXCEPT ![c] = p] = Cases
BY DEF TypeOK, DiagRecords

LEMMA EndsTyped ==
  ASSUME TypeOK, NEW c \in Cases, NEW steps, Ends(c, steps)
  PROVE  /\ pc' \in [Cases -> {"waiting", "roles", "asking", "done"}]
         /\ DOMAIN plan' = Cases
BY PlanningTyped DEF Ends

LEMMA BoardTyped ==
  ASSUME TypeOK, NEW c \in Cases, NEW R \in SUBSET Roles
  PROVE  /\ Written(c, R) \in [Cases -> SUBSET Roles]
         /\ Invalidated(c, R) \in [Cases -> SUBSET Roles]
BY DEF TypeOK, Written, Invalidated

LEMMA CallAdded ==
  ASSUME TypeOK, NEW key \in Keys, calls' = calls \cup {Call(key)}
  PROVE  calls' \subseteq CallRecords
BY NewCall, CallFields

LEMMA CallTurned ==
  ASSUME TypeOK, NEW call \in calls, NEW stage \in Stages, NEW answer \in Values \cup {None},
         Turn(call, stage, answer)
  PROVE  calls' \subseteq CallRecords
<1>1. calls' = (calls \ {call}) \cup {Turned(call, stage, answer)}
  BY DEF Turn, Turned
<1>2. QED BY <1>1, TurnedFields, CallFields

LEMMA AnswerTypes ==
  ASSUME NEW call
  PROVE  Answers(call) \subseteq Values
BY DEF Answers, Values

(* The provider's answer, or the cache's, as the planning takes it.        *)
LEMMA DeliverTyped ==
  ASSUME TypeOK, NEW call \in calls, NEW answer \in Values, Deliver(call, answer),
         ForDiagnosis(call) => answer \in Diagnoses
  PROVE  /\ pc' \in [Cases -> {"waiting", "roles", "asking", "done"}]
         /\ diag' \in [Cases -> DiagRecords] /\ DOMAIN plan' = Cases
         /\ acted' \in [Keys -> SUBSET Values]
<1>1. CaseOf(call) \in Cases /\ call.key \in Keys
  BY CallFields
<1>2. CASE ~Awaited(call)
  BY <1>2 DEF Deliver, planning, TypeOK, DiagRecords
<1>3. CASE Awaited(call)
  <2>1. acted' = [acted EXCEPT ![call.key] = @ \cup {answer}]
    BY <1>3 DEF Deliver
  <2>2. acted' \in [Keys -> SUBSET Values]
    BY <1>1, <2>1 DEF TypeOK
  <2>3. CASE ForDiagnosis(call)
    <3>1. diag' = [diag EXCEPT ![CaseOf(call)] = answer] /\ UNCHANGED <<pc, plan>>
      BY <1>3, <2>3 DEF Deliver
    <3>2. answer \in DiagRecords
      BY <2>3, DiagnosisTypes
    <3>3. diag' \in [Cases -> DiagRecords]
      BY <1>1, <3>1, <3>2, PlanningTyped
    <3>4. QED BY <2>2, <3>1, <3>3 DEF TypeOK
  <2>4. CASE ~ForDiagnosis(call)
    <3>1. Ends(CaseOf(call), Tier1Steps(input[CaseOf(call)], answer.cause)) /\ UNCHANGED diag
      BY <1>3, <2>4 DEF Deliver
    <3>2. QED BY <1>1, <2>2, <3>1, EndsTyped DEF TypeOK, DiagRecords
  <2>5. QED BY <2>3, <2>4
<1>4. QED BY <1>2, <1>3

LEMMA DisappointTyped ==
  ASSUME TypeOK, NEW call \in calls, Disappoint(call)
  PROVE  /\ pc' \in [Cases -> {"waiting", "roles", "asking", "done"}]
         /\ diag' \in [Cases -> DiagRecords] /\ DOMAIN plan' = Cases
         /\ acted' = acted
<1>1. CaseOf(call) \in Cases /\ acted' = acted
  BY CallFields DEF Disappoint
<1>2. CASE ~Awaited(call)
  BY <1>1, <1>2 DEF Disappoint, planning, TypeOK, DiagRecords
<1>3. CASE Awaited(call) /\ ForDiagnosis(call)
  <2>1. diag' = [diag EXCEPT ![CaseOf(call)] = NoDiagnosis("failed")] /\ UNCHANGED <<pc, plan>>
    BY <1>3 DEF Disappoint
  <2>2. NoDiagnosis("failed") \in DiagRecords
    BY DiagnosisTypes
  <2>3. diag' \in [Cases -> DiagRecords]
    BY <1>1, <2>1, <2>2, PlanningTyped
  <2>4. QED BY <1>1, <2>1, <2>3 DEF TypeOK
<1>4. CASE Awaited(call) /\ ~ForDiagnosis(call)
  <2>1. Ends(CaseOf(call), <<>>) /\ UNCHANGED diag
    BY <1>4 DEF Disappoint
  <2>2. QED BY <1>1, <2>1, EndsTyped DEF TypeOK, DiagRecords
<1>5. QED BY <1>2, <1>3, <1>4

-----------------------------------------------------------------------------
(* Every step keeps the types.                                             *)
LEMMA InitTyped == Init => TypeOK
<1> SUFFICES ASSUME Init PROVE TypeOK
  OBVIOUS
<1>1. 1 \in 1..Batches
  BY DeliberationAssumption
<1>2. NoDiagnosis("idle") \in DiagRecords
  BY DiagnosisTypes
<1>3. diag \in [Cases -> DiagRecords]
  BY <1>2 DEF Init
<1>4. DOMAIN input = Cases /\ \A c \in Cases : input[c] \in Inputs[c]
  BY DEF Init
<1>5. QED BY <1>1, <1>3, <1>4 DEF Init, TypeOK, DiagRecords

LEMMA PlansTyped ==
  ASSUME TypeOK, Sound, NEW c \in Cases, Plans(c)
  PROVE  TypeOK'
<1>1. CASE ResolveTier0(c)
  <2>1. PICK p \in Plan0(input[c]) : Ends(c, Tier0Steps(Facts(input[c]), p, input[c].amount))
    BY <1>1 DEF ResolveTier0
  <2>2. live' \in [Cases -> SUBSET Roles]
    BY <1>1, BoardTyped DEF ResolveTier0, Roles
  <2>3. UNCHANGED <<input, batch, arm, up, diag, replied, routing, cache, calls, acted, late>>
    BY <1>1 DEF ResolveTier0, batches
  <2>4. QED BY <2>1, <2>2, <2>3, EndsTyped DEF TypeOK
<1>2. CASE FallBack(c)
  <2>1. Ends(c, TheStepsOf(GenericFallback(input[c].rail)))
    BY <1>2 DEF FallBack
  <2>2. UNCHANGED <<input, batch, arm, up, diag, live, replied, routing, cache, calls, acted, late>>
    BY <1>2 DEF FallBack, batches, board
  <2>3. QED BY <2>1, <2>2, EndsTyped DEF TypeOK
<1>3. CASE FanOut(c)
  <2>1. pc' = [pc EXCEPT ![c] = "roles"]
    BY <1>3 DEF FanOut
  <2>2. UNCHANGED <<input, batch, arm, up, plan, live, replied, routing, cache, acted, late>>
    BY <1>3 DEF FanOut, batches, board
  <2>3. pc' \in [Cases -> {"waiting", "roles", "asking", "done"}]
    BY <2>1, PlanningTyped
  <2>4. calls' \subseteq CallRecords
    BY <1>3, KeyTypes, CallFields, CallAdded DEF FanOut
  <2>5. \E d \in DiagRecords : diag' = [diag EXCEPT ![c] = d]
    BY <1>3, EntryCauses, DiagnosisTypes DEF FanOut
  <2>6. diag' \in [Cases -> DiagRecords]
    BY <2>5, PlanningTyped
  <2>7. QED BY <2>2, <2>3, <2>4, <2>6 DEF TypeOK, CallRecords, DiagRecords
<1>4. CASE Settle(c)
  <2>1. Reduce(c)
    BY <1>4 DEF Settle
  <2>2. live' \in [Cases -> SUBSET Roles]
    BY <2>1, BoardTyped DEF Reduce, Roles
  <2>3. UNCHANGED <<input, batch, arm, up, diag, replied, routing, cache, acted, late>>
    BY <2>1 DEF Reduce, batches
  <2>4. CASE \E steps : Ends(c, steps) /\ UNCHANGED calls
    BY <2>2, <2>3, <2>4, EndsTyped DEF TypeOK
  <2>5. CASE /\ Strategy(diag[c], NoContext, FALSE) = "conflict"
             /\ pc' = [pc EXCEPT ![c] = "asking"]
             /\ calls' = calls \cup {Call(AdjudicationKey(c, diag[c]))}
             /\ UNCHANGED plan
    <3>1. diag[c] \in Diagnoses
      BY <2>5, StrategyOf DEF Sound
    <3>2. calls' \subseteq CallRecords
      BY <2>5, <3>1, KeyTypes, CallAdded
    <3>3. pc' \in [Cases -> {"waiting", "roles", "asking", "done"}]
      BY <2>5, PlanningTyped
    <3>4. QED BY <2>2, <2>3, <2>5, <3>2, <3>3 DEF TypeOK, CallRecords
  <2>6. QED BY <2>1, <2>4, <2>5 DEF Reduce
<1>5. QED BY <1>1, <1>2, <1>3, <1>4 DEF Plans

LEMMA AskTyped ==
  ASSUME TypeOK, Sound, NEW call \in calls, Ask(call)
  PROVE  TypeOK'
<1>1. call.key \in Keys /\ call.answer \in Values \cup {None}
  BY CallFields
<1>2. calls \ {call} \subseteq CallRecords
  BY CallFields
<1>3. ForDiagnosis(call) => call.key = DiagnosisKey(CaseOf(call)) /\ CaseOf(call) \in Cases
  BY CallFields, KeyTypes DEF ForDiagnosis, CaseOf
<1>4. CASE Look(call)
  <2>1. UNCHANGED <<input, batch, arm, up, live, replied, routing, cache, late>>
    BY <1>4 DEF Look, batches, board
  <2>2. CASE cache[call.key] # None
    <3>1. calls' = calls \ {call} /\ Deliver(call, cache[call.key])
      BY <1>4, <2>2 DEF Look
    <3>2. cache[call.key] \in Values /\ (ForDiagnosis(call) => cache[call.key] \in Diagnoses)
      BY <1>1, <1>3, <2>2 DEF TypeOK, Sound
    <3>3. /\ pc' \in [Cases -> {"waiting", "roles", "asking", "done"}]
          /\ diag' \in [Cases -> DiagRecords] /\ DOMAIN plan' = Cases
          /\ acted' \in [Keys -> SUBSET Values]
      BY <3>1, <3>2, DeliverTyped
    <3>4. QED BY <1>2, <2>1, <3>1, <3>3 DEF TypeOK, CallRecords, DiagRecords
  <2>3. CASE cache[call.key] = None
    <3>1. Turn(call, "asked", None) /\ UNCHANGED <<pc, diag, plan, acted>>
      BY <1>4, <2>3 DEF Look, planning
    <3>2. calls' \subseteq CallRecords
      BY <3>1, CallTurned DEF Stages
    <3>3. QED BY <2>1, <3>1, <3>2 DEF TypeOK, CallRecords
  <2>4. QED BY <2>2, <2>3
<1>5. CASE Answered(call)
  <2>1. PICK a \in Answers(call) : Turn(call, "answered", a)
    BY <1>5 DEF Answered
  <2>2. calls' \subseteq CallRecords
    BY <2>1, CallTurned, AnswerTypes DEF Stages
  <2>3. UNCHANGED <<input, batch, arm, up, pc, diag, plan, live, replied, routing, cache, acted,
                    late>>
    BY <1>5 DEF Answered, batches, board, planning
  <2>4. QED BY <2>2, <2>3 DEF TypeOK, CallRecords
<1>6. CASE Store(call)
  <2>1. call.answer \in Answers(call)
    BY <1>6 DEF Store, Sound
  <2>2. /\ call.answer \in Values
        /\ ForDiagnosis(call) => call.answer \in Diagnoses
    BY <2>1, AnswerTypes DEF Answers
  <2>3. /\ calls' = calls \ {call} /\ Deliver(call, call.answer)
        /\ cache' = [cache EXCEPT ![call.key] = IF @ = None THEN call.answer ELSE @]
        /\ UNCHANGED <<input, batch, arm, up, live, replied, routing, late>>
    BY <1>6 DEF Store, batches, board
  <2>4. /\ pc' \in [Cases -> {"waiting", "roles", "asking", "done"}]
        /\ diag' \in [Cases -> DiagRecords] /\ DOMAIN plan' = Cases
        /\ acted' \in [Keys -> SUBSET Values]
    BY <2>2, <2>3, DeliverTyped
  <2>5. cache' \in [Keys -> Values \cup {None}]
    BY <1>1, <2>2, <2>3 DEF TypeOK
  <2>6. QED BY <1>2, <2>3, <2>4, <2>5 DEF TypeOK, CallRecords, DiagRecords
<1>7. CASE Fail(call)
  <2>1. /\ calls' = calls \ {call} /\ Disappoint(call)
        /\ UNCHANGED <<input, batch, arm, up, live, replied, routing, cache, late>>
    BY <1>7 DEF Fail, batches, board
  <2>2. /\ pc' \in [Cases -> {"waiting", "roles", "asking", "done"}]
        /\ diag' \in [Cases -> DiagRecords] /\ DOMAIN plan' = Cases
        /\ acted' = acted
    BY <2>1, DisappointTyped
  <2>3. QED BY <1>2, <2>1, <2>2 DEF TypeOK, CallRecords, DiagRecords
<1>8. QED BY <1>4, <1>5, <1>6, <1>7 DEF Ask

LEMMA CaseTyped ==
  ASSUME TypeOK, NEW c \in Cases, TimeOut(c) \/ Reply(c) \/ Route(c)
  PROVE  TypeOK'
<1>1. CASE TimeOut(c)
  <2>1. NoDiagnosis("failed") \in DiagRecords
    BY DiagnosisTypes
  <2>2. diag' \in [Cases -> DiagRecords]
    BY <1>1, <2>1, PlanningTyped DEF TimeOut
  <2>3. late' \subseteq Keys
    BY <1>1, KeyTypes DEF TimeOut, TypeOK
  <2>4. UNCHANGED <<input, batch, arm, up, pc, plan, live, replied, routing, cache, calls, acted>>
    BY <1>1 DEF TimeOut, batches, board
  <2>5. QED BY <2>2, <2>3, <2>4 DEF TypeOK, DiagRecords
<1>2. CASE Reply(c)
  <2>1. UNCHANGED <<input, batch, arm, up, pc, diag, plan, live, cache, calls, acted, late>>
    BY <1>2 DEF Reply, batches, planning
  <2>2. replied' \subseteq Cases /\ routing' \in Cases \cup {None}
    BY <1>2 DEF Reply, TypeOK
  <2>3. QED BY <2>1, <2>2 DEF TypeOK
<1>3. CASE Route(c)
  <2>1. UNCHANGED <<input, batch, arm, up, pc, diag, plan, replied, cache, calls, acted, late>>
    BY <1>3 DEF Route, batches, planning
  <2>2. Rerun({"customer_reply"}, live[c]) \subseteq Roles
    BY DEF Rerun, RolesDependingOn
  <2>3. live' \in [Cases -> SUBSET Roles] /\ routing' = None
    BY <1>3, <2>2, BoardTyped DEF Route
  <2>4. QED BY <2>1, <2>3 DEF TypeOK
<1>4. QED BY <1>1, <1>2, <1>3

LEMMA BatchTyped ==
  ASSUME TypeOK, Finish \/ Crash \/ Start
  PROVE  TypeOK'
<1>1. CASE Finish
  BY <1>1 DEF Finish, TypeOK, planning, board
<1>2. CASE Crash
  BY <1>2 DEF Crash, TypeOK, planning, board
<1>3. CASE Start
  <2>1. batch' \in 1..Batches
    BY <1>3, DeliberationAssumption DEF Start, TypeOK
  <2>2. NoDiagnosis("idle") \in DiagRecords
    BY DiagnosisTypes
  <2>3. diag' \in [Cases -> DiagRecords]
    BY <1>3, <2>2 DEF Start
  <2>4. /\ UNCHANGED <<input, cache, calls, acted, late>>
        /\ arm' \in Arms /\ up' = TRUE /\ pc' = [c \in Cases |-> "waiting"]
        /\ plan' = [c \in Cases |-> <<>>] /\ live' = [c \in Cases |-> {}]
        /\ replied' = {} /\ routing' = None
    BY <1>3 DEF Start
  <2>5. QED BY <2>1, <2>3, <2>4 DEF TypeOK, DiagRecords
<1>4. QED BY <1>1, <1>2, <1>3

LEMMA StepTyped == TypeOK /\ Sound /\ [Next]_vars => TypeOK'
<1> SUFFICES ASSUME TypeOK, Sound, [Next]_vars PROVE TypeOK'
  OBVIOUS
<1>1. CASE UNCHANGED vars
  BY <1>1 DEF vars, TypeOK
<1>2. CASE \E c \in Cases : ForCase(c)
  BY <1>2, PlansTyped, CaseTyped DEF ForCase
<1>3. CASE \E call \in calls : Ask(call)
  BY <1>3, AskTyped
<1>4. CASE Finish \/ Crash \/ Start
  BY <1>4, BatchTyped
<1>5. QED BY <1>1, <1>2, <1>3, <1>4 DEF Next

-----------------------------------------------------------------------------
(* What one step does to the plan of one case.                             *)
Stays(c) == pc'[c] = pc[c] /\ diag'[c] = diag[c] /\ plan'[c] = plan[c]
IsTabled(i, steps) == \E p \in Plan0(i) : steps = Tier0Steps(Facts(i), p, i.amount)
Resolves(c) ==
  /\ pc[c] = "waiting" /\ pc'[c] = "done" /\ diag'[c] = diag[c]
  /\ \/ IsTabled(input[c], plan'[c])
     \/ Plan0(input[c]) = {} /\ arm = "tier0_only"
FansOut(c) ==
  /\ pc[c] = "waiting" /\ pc'[c] = "roles" /\ Plan0(input[c]) = {}
  /\ \/ diag'[c].rival \in {"running", "failed"}
     \/ Entries(input[c].rail, input[c].code) # {} /\ diag'[c].rival = "none"
Hears(c) ==
  /\ diag[c].rival = "running" /\ pc'[c] = pc[c]
  /\ diag'[c] \in Diagnoses \/ diag'[c].rival = "failed"
Settles(c) ==
  /\ pc[c] = "roles" /\ diag[c].rival # "running" /\ diag'[c] = diag[c]
  /\ \/ /\ diag[c].rival = "failed" /\ pc'[c] = "done"
        /\ plan'[c] = TheStepsOf(Escalation(input[c].rail))
     \/ diag[c].rival \notin {"failed", "close"} /\ pc'[c] = "done"
     \/ diag[c].rival = "close" /\ pc'[c] = "asking"
IsRuled(c) ==
  /\ pc[c] = "asking" /\ pc'[c] = "done" /\ diag'[c] = diag[c]
  /\ \E call \in calls :
       /\ CaseOf(call) = c /\ ~ForDiagnosis(call)
       /\ plan'[c] = <<>> \/ acted'[call.key] # {}
Moves(c) == Stays(c) \/ Resolves(c) \/ FansOut(c) \/ Hears(c) \/ Settles(c) \/ IsRuled(c)

LEMMA OthersStay ==
  ASSUME TypeOK, NEW c \in Cases, NEW d \in Cases, c # d
  PROVE  /\ \A s : pc' = [pc EXCEPT ![c] = s] => pc'[d] = pc[d]
         /\ \A s : diag' = [diag EXCEPT ![c] = s] => diag'[d] = diag[d]
         /\ \A s : Ends(c, s) => pc'[d] = pc[d] /\ plan'[d] = plan[d]
BY DEF TypeOK, Ends

LEMMA TheOneMoves ==
  ASSUME TypeOK, NEW c \in Cases
  PROVE  /\ \A s : pc' = [pc EXCEPT ![c] = s] => pc'[c] = s
         /\ \A s : diag' = [diag EXCEPT ![c] = s] => diag'[c] = s
         /\ \A s : Ends(c, s) => pc'[c] = "done" /\ plan'[c] = s
BY DEF TypeOK, Ends

LEMMA PlansMove ==
  ASSUME TypeOK, Sound, NEW c \in Cases, Plans(c)
  PROVE  \A d \in Cases : (d # c => Stays(d)) /\ (d = c => ~Stays(c) /\ Moves(c))
<1> SUFFICES ASSUME NEW d \in Cases
             PROVE  (d # c => Stays(d)) /\ (d = c => ~Stays(c) /\ Moves(c))
  OBVIOUS
<1>1. CASE ResolveTier0(c)
  <2>1. pc[c] = "waiting" /\ diag' = diag
    BY <1>1 DEF ResolveTier0, Takes
  <2>2. PICK steps : Ends(c, steps) /\ IsTabled(input[c], steps)
    BY <1>1, Zenon DEF ResolveTier0, IsTabled
  <2>3. QED BY <2>1, <2>2, OthersStay, TheOneMoves DEF Stays, Moves, Resolves
<1>2. CASE FallBack(c)
  <2>1. pc[c] = "waiting" /\ Plan0(input[c]) = {} /\ arm = "tier0_only" /\ diag' = diag
    BY <1>2 DEF FallBack, Takes
  <2>2. Ends(c, TheStepsOf(GenericFallback(input[c].rail)))
    BY <1>2 DEF FallBack
  <2>3. QED BY <2>1, <2>2, OthersStay, TheOneMoves DEF Stays, Moves, Resolves
<1>3. CASE FanOut(c)
  <2>1. /\ pc[c] = "waiting" /\ pc' = [pc EXCEPT ![c] = "roles"] /\ plan' = plan
        /\ Plan0(input[c]) = {}
    BY <1>3 DEF FanOut, Takes
  <2>2. PICK e : /\ diag' = [diag EXCEPT ![c] = e]
                 /\ \/ e.rival \in {"running", "failed"}
                    \/ Entries(input[c].rail, input[c].code) # {} /\ e.rival = "none"
    BY <1>3, DiagnosisTypes DEF FanOut
  <2>3. pc'[c] = "roles" /\ diag'[c] = e
    BY <2>1, <2>2, TheOneMoves
  <2>4. FansOut(c) /\ ~Stays(c)
    BY <2>1, <2>2, <2>3 DEF FansOut, Stays
  <2>5. d # c => Stays(d)
    BY <2>1, <2>2, OthersStay DEF Stays
  <2>6. QED BY <2>4, <2>5 DEF Moves
<1>4. CASE Settle(c)
  <2>1. pc[c] = "roles" /\ diag[c].rival # "running" /\ Reduce(c) /\ diag' = diag
    BY <1>4 DEF Settle, Reduce
  <2>2. CASE diag[c].rival = "failed"
    <3>1. Ends(c, TheStepsOf(Escalation(input[c].rail)))
      BY <2>1, <2>2 DEF Reduce
    <3>2. d # c => Stays(d)
      BY <2>1, <3>1, OthersStay DEF Stays
    <3>3. /\ pc'[c] = "done" /\ diag'[c] = diag[c]
          /\ plan'[c] = TheStepsOf(Escalation(input[c].rail))
      BY <2>1, <3>1, TheOneMoves
    <3>4. QED BY <2>1, <2>2, <3>2, <3>3 DEF Stays, Moves, Settles
  <2>3. CASE diag[c].rival \notin {"failed", "close"}
    <3>1. Ends(c, Tier1Steps(input[c], diag[c].cause))
      BY <2>1, <2>3, StrategyOf DEF Reduce
    <3>2. QED BY <2>1, <2>3, <3>1, OthersStay, TheOneMoves DEF Stays, Moves, Settles
  <2>4. CASE diag[c].rival = "close"
    <3>1. pc' = [pc EXCEPT ![c] = "asking"] /\ plan' = plan
      BY <2>1, <2>4, StrategyOf DEF Reduce
    <3>2. QED BY <2>1, <2>4, <3>1, OthersStay, TheOneMoves DEF Stays, Moves, Settles
  <2>5. QED BY <2>2, <2>3, <2>4
<1>5. QED BY <1>1, <1>2, <1>3, <1>4 DEF Plans

LEMMA DeliverMoves ==
  ASSUME TypeOK, NEW call \in calls, NEW answer, Deliver(call, answer),
         ForDiagnosis(call) => answer \in Diagnoses
  PROVE  \A d \in Cases : Moves(d) /\ (d # CaseOf(call) \/ ~Awaited(call) => Stays(d))
<1> SUFFICES ASSUME NEW d \in Cases
             PROVE  Moves(d) /\ (d # CaseOf(call) \/ ~Awaited(call) => Stays(d))
  OBVIOUS
<1>1. CaseOf(call) \in Cases /\ call.key \in Keys
  BY CallFields
<1>2. CASE ~Awaited(call)
  BY <1>2 DEF Deliver, planning, Moves, Stays
<1>3. CASE Awaited(call) /\ ForDiagnosis(call)
  <2>1. diag' = [diag EXCEPT ![CaseOf(call)] = answer] /\ UNCHANGED <<pc, plan>>
    BY <1>3 DEF Deliver
  <2>2. diag[CaseOf(call)].rival = "running"
    BY <1>3 DEF Awaited
  <2>3. CASE d = CaseOf(call)
    <3>1. diag'[d] = answer
      BY <2>1, <2>3, TheOneMoves
    <3>2. QED BY <1>3, <2>1, <2>2, <2>3, <3>1 DEF Moves, Hears
  <2>4. CASE d # CaseOf(call)
    BY <1>1, <2>1, <2>4, OthersStay DEF Moves, Stays
  <2>5. QED BY <2>3, <2>4
<1>4. CASE Awaited(call) /\ ~ForDiagnosis(call)
  <2>1. /\ Ends(CaseOf(call), Tier1Steps(input[CaseOf(call)], answer.cause)) /\ UNCHANGED diag
        /\ acted' = [acted EXCEPT ![call.key] = @ \cup {answer}]
    BY <1>4 DEF Deliver
  <2>2. pc[CaseOf(call)] = "asking"
    BY <1>4 DEF Awaited
  <2>3. CASE d = CaseOf(call)
    <3>1. acted'[call.key] # {}
      BY <1>1, <2>1 DEF TypeOK
    <3>2. pc'[d] = "done"
      BY <2>1, <2>3, TheOneMoves
    <3>3. QED BY <1>4, <2>1, <2>2, <2>3, <3>1, <3>2 DEF Moves, IsRuled
  <2>4. CASE d # CaseOf(call)
    BY <1>1, <2>1, <2>4, OthersStay DEF Moves, Stays
  <2>5. QED BY <2>3, <2>4
<1>5. QED BY <1>2, <1>3, <1>4

LEMMA DisappointMoves ==
  ASSUME TypeOK, NEW call \in calls, Disappoint(call)
  PROVE  \A d \in Cases : Moves(d) /\ (d # CaseOf(call) \/ ~Awaited(call) => Stays(d))
<1> SUFFICES ASSUME NEW d \in Cases
             PROVE  Moves(d) /\ (d # CaseOf(call) \/ ~Awaited(call) => Stays(d))
  OBVIOUS
<1>1. CaseOf(call) \in Cases
  BY CallFields
<1>2. CASE ~Awaited(call)
  BY <1>2 DEF Disappoint, planning, Moves, Stays
<1>3. CASE Awaited(call) /\ ForDiagnosis(call)
  <2>1. diag' = [diag EXCEPT ![CaseOf(call)] = NoDiagnosis("failed")] /\ UNCHANGED <<pc, plan>>
    BY <1>3 DEF Disappoint
  <2>2. diag[CaseOf(call)].rival = "running"
    BY <1>3 DEF Awaited
  <2>3. CASE d = CaseOf(call)
    <3>1. diag'[d].rival = "failed"
      BY <2>1, <2>3, TheOneMoves, DiagnosisTypes
    <3>2. QED BY <2>1, <2>2, <2>3, <1>3, <3>1 DEF Moves, Hears
  <2>4. CASE d # CaseOf(call)
    BY <1>1, <2>1, <2>4, OthersStay DEF Moves, Stays
  <2>5. QED BY <2>3, <2>4
<1>4. CASE Awaited(call) /\ ~ForDiagnosis(call)
  <2>1. Ends(CaseOf(call), <<>>) /\ UNCHANGED diag
    BY <1>4 DEF Disappoint
  <2>2. pc[CaseOf(call)] = "asking"
    BY <1>4 DEF Awaited
  <2>3. CASE d = CaseOf(call)
    <3>1. pc'[d] = "done" /\ plan'[d] = <<>>
      BY <2>1, <2>3, TheOneMoves
    <3>2. QED BY <1>4, <2>1, <2>2, <2>3, <3>1 DEF Moves, IsRuled
  <2>4. CASE d # CaseOf(call)
    BY <1>1, <2>1, <2>4, OthersStay DEF Moves, Stays
  <2>5. QED BY <2>3, <2>4
<1>5. QED BY <1>2, <1>3, <1>4

(* A call to the provider that ends is taken out; one that goes on is      *)
(* turned to its next stage.                                               *)
EndsCall(call) == calls' = calls \ {call}
GoesOn(call) ==
  \E stage \in {"asked", "answered"}, answer \in Values \cup {None} :
    /\ calls' = (calls \ {call}) \cup {Turned(call, stage, answer)}
    /\ stage = "answered" => answer \in Answers(call)
    /\ cache[call.key] = None \/ call.stage # "looking"
    /\ UNCHANGED <<pc, diag, plan, acted, cache>>

LEMMA AskMoves ==
  ASSUME TypeOK, Sound, NEW call \in calls, Ask(call)
  PROVE  /\ \A d \in Cases : Moves(d) /\ (d # CaseOf(call) \/ ~Awaited(call) => Stays(d))
         /\ EndsCall(call) \/ GoesOn(call)
         /\ UNCHANGED <<input, batch, arm, up, live, replied, routing, late>>
<1>1. call.key \in Keys /\ CaseOf(call) \in Cases
  BY CallFields
<1>2. ForDiagnosis(call) => call.key = DiagnosisKey(CaseOf(call))
  BY <1>1, KeyTypes DEF ForDiagnosis, CaseOf
<1>3. CASE Look(call)
  <2>1. UNCHANGED <<input, batch, arm, up, live, replied, routing, late>>
    BY <1>3 DEF Look, batches, board
  <2>2. CASE cache[call.key] # None
    <3>1. EndsCall(call) /\ Deliver(call, cache[call.key])
      BY <1>3, <2>2 DEF Look, EndsCall
    <3>2. ForDiagnosis(call) => cache[call.key] \in Diagnoses
      BY <1>1, <1>2, <2>2 DEF Sound
    <3>3. QED BY <2>1, <3>1, <3>2, DeliverMoves
  <2>3. CASE cache[call.key] = None
    <3>1. Turn(call, "asked", None) /\ UNCHANGED <<pc, diag, plan, acted, cache>>
      BY <1>3, <2>3 DEF Look, planning
    <3>2. GoesOn(call)
      BY <2>3, <3>1 DEF GoesOn, Turn, Turned
    <3>3. QED BY <2>1, <3>1, <3>2 DEF Moves, Stays
  <2>4. QED BY <2>2, <2>3
<1>4. CASE Answered(call)
  <2>1. PICK a \in Answers(call) : Turn(call, "answered", a)
    BY <1>4 DEF Answered
  <2>2. /\ UNCHANGED <<pc, diag, plan, acted, cache>> /\ call.stage = "asked"
        /\ UNCHANGED <<input, batch, arm, up, live, replied, routing, late>>
    BY <1>4 DEF Answered, planning, batches, board
  <2>3. GoesOn(call)
    <3>1. a \in Values \cup {None}
      BY <2>1, AnswerTypes
    <3>2. QED BY <2>1, <2>2, <3>1 DEF GoesOn, Turn, Turned
  <2>4. QED BY <2>2, <2>3 DEF Moves, Stays
<1>5. CASE Store(call)
  <2>1. /\ EndsCall(call) /\ Deliver(call, call.answer) /\ call.stage = "answered"
        /\ UNCHANGED <<input, batch, arm, up, live, replied, routing, late>>
    BY <1>5 DEF Store, EndsCall, batches, board
  <2>2. ForDiagnosis(call) => call.answer \in Diagnoses
    BY <2>1 DEF Sound, Answers
  <2>3. QED BY <2>1, <2>2, DeliverMoves
<1>6. CASE Fail(call)
  <2>1. /\ EndsCall(call) /\ Disappoint(call)
        /\ UNCHANGED <<input, batch, arm, up, live, replied, routing, late>>
    BY <1>6 DEF Fail, EndsCall, batches, board
  <2>2. QED BY <2>1, DisappointMoves
<1>7. QED BY <1>3, <1>4, <1>5, <1>6 DEF Ask

LEMMA TimeOutMoves ==
  ASSUME TypeOK, NEW c \in Cases, TimeOut(c)
  PROVE  \A d \in Cases : Moves(d) /\ (d # c => Stays(d))
<1> SUFFICES ASSUME NEW d \in Cases PROVE Moves(d) /\ (d # c => Stays(d))
  OBVIOUS
<1>1. /\ diag' = [diag EXCEPT ![c] = NoDiagnosis("failed")] /\ UNCHANGED <<pc, plan>>
      /\ diag[c].rival = "running"
  BY DEF TimeOut
<1>2. diag'[c].rival = "failed"
  BY <1>1, TheOneMoves, DiagnosisTypes
<1>3. QED BY <1>1, <1>2, OthersStay DEF Moves, Stays, Hears

(* Within a batch every step moves each case along, or leaves it.          *)
LEMMA StepMoves ==
  ASSUME TypeOK, Sound, [Next]_vars, ~Start
  PROVE  \A d \in Cases : Moves(d)
<1>1. CASE UNCHANGED vars
  BY <1>1 DEF vars, Moves, Stays
<1>2. ASSUME NEW c \in Cases, ForCase(c) PROVE \A d \in Cases : Moves(d)
  <2>1. CASE Plans(c)
    BY <2>1, PlansMove DEF Moves
  <2>2. CASE TimeOut(c)
    BY <2>2, TimeOutMoves
  <2>3. CASE Reply(c) \/ Route(c)
    BY <2>3 DEF Reply, Route, planning, Moves, Stays
  <2>4. QED BY <1>2, <2>1, <2>2, <2>3 DEF ForCase
<1>3. CASE \E call \in calls : Ask(call)
  BY <1>3, AskMoves
<1>4. CASE Finish \/ Crash
  BY <1>4 DEF Finish, Crash, planning, Moves, Stays
<1>5. QED BY <1>1, <1>2, <1>3, <1>4 DEF Next

LEMMA StartsOver ==
  ASSUME Start
  PROVE  /\ \A c \in Cases : pc'[c] = "waiting" /\ diag'[c].rival = "idle"
         /\ UNCHANGED <<input, cache, calls, acted, late>>
BY DiagnosisTypes DEF Start

LEMMA StepPhases == TypeOK /\ Sound /\ Phases /\ [Next]_vars => Phases'
<1> SUFFICES ASSUME TypeOK, Sound, Phases, [Next]_vars, NEW c \in Cases
             PROVE  /\ pc'[c] = "waiting" => diag'[c].rival = "idle"
                    /\ diag'[c].rival = "running" => pc'[c] = "roles"
                    /\ pc'[c] = "asking" => diag'[c].rival = "close"
  BY DEF Phases
<1>1. CASE Start
  BY <1>1, StartsOver
<1>2. CASE ~Start
  <2>1. Moves(c)
    BY <1>2, StepMoves
  <2>2. \A d \in Diagnoses : d.rival \in {"clear", "close"}
    BY DiagnosisTypes
  <2>3. CASE Stays(c)
    BY <2>3 DEF Stays, Phases
  <2>4. CASE Resolves(c)
    BY <2>4 DEF Resolves, Phases
  <2>5. CASE FansOut(c)
    BY <2>5 DEF FansOut
  <2>6. CASE Hears(c)
    BY <2>2, <2>6 DEF Hears, Phases
  <2>7. CASE Settles(c)
    BY <2>7 DEF Settles, Phases
  <2>8. CASE IsRuled(c)
    BY <2>8 DEF IsRuled, Phases
  <2>9. QED BY <2>1, <2>3, <2>4, <2>5, <2>6, <2>7, <2>8 DEF Moves
<1>3. QED BY <1>1, <1>2

-----------------------------------------------------------------------------
(* A plan asks the provider for its own case, and then waits.              *)
Asks(c) ==
  \/ calls' = calls \cup {Call(DiagnosisKey(c))} /\ diag'[c].rival = "running"
  \/ /\ calls' = calls \cup {Call(AdjudicationKey(c, diag[c]))} /\ diag[c] \in Diagnoses
     /\ pc'[c] = "asking" /\ diag'[c] = diag[c]
Ready(c) == pc[c] = "waiting" \/ (pc[c] = "roles" /\ diag[c].rival # "running")

LEMMA PlansAsk ==
  ASSUME TypeOK, Sound, NEW c \in Cases, Plans(c)
  PROVE  /\ up /\ Ready(c) /\ (UNCHANGED calls \/ Asks(c))
         /\ UNCHANGED <<input, batch, arm, up, replied, routing, cache, acted, late>>
<1>1. CASE ResolveTier0(c) \/ FallBack(c)
  BY <1>1 DEF ResolveTier0, FallBack, Takes, Ready, batches, board
<1>2. CASE FanOut(c)
  <2>1. /\ up /\ Ready(c)
        /\ UNCHANGED <<input, batch, arm, up, replied, routing, cache, acted, late>>
    BY <1>2 DEF FanOut, Takes, Ready, batches, board
  <2>2. \/ UNCHANGED calls
        \/ /\ diag' = [diag EXCEPT ![c] = NoDiagnosis("running")]
           /\ calls' = calls \cup {Call(DiagnosisKey(c))}
    BY <1>2 DEF FanOut
  <2>3. QED BY <2>1, <2>2, TheOneMoves, DiagnosisTypes DEF Asks
<1>3. CASE Settle(c)
  <2>1. /\ up /\ Ready(c) /\ diag' = diag
        /\ UNCHANGED <<input, batch, arm, up, replied, routing, cache, acted, late>>
    BY <1>3 DEF Settle, Reduce, Ready, batches
  <2>2. \/ UNCHANGED calls
        \/ /\ diag[c].rival = "close" /\ pc' = [pc EXCEPT ![c] = "asking"]
           /\ calls' = calls \cup {Call(AdjudicationKey(c, diag[c]))}
    BY <1>3, StrategyOf DEF Settle, Reduce
  <2>3. QED BY <2>1, <2>2, TheOneMoves DEF Asks, Sound
<1>4. QED BY <1>1, <1>2, <1>3 DEF Plans

LEMMA StepSound == TypeOK /\ Sound /\ [Next]_vars => Sound'
<1> SUFFICES ASSUME TypeOK, Sound, [Next]_vars PROVE Sound'
  OBVIOUS
<1>1. \A c \in Cases : diag'[c].rival = "close" => diag'[c] \in Diagnoses
  <2>1. CASE Start
    BY <2>1, StartsOver
  <2>2. CASE ~Start
    BY <2>2, StepMoves
       DEF Moves, Stays, Resolves, FansOut, Hears, Settles, IsRuled, Sound
  <2>3. QED BY <2>1, <2>2
<1>2. /\ \A c \in Cases : cache'[DiagnosisKey(c)] \in Diagnoses \cup {None}
      /\ \A k \in calls' : k.stage = "answered" => k.answer \in Answers(k)
  <2>1. CASE cache' = cache /\ calls' \subseteq calls
    BY <2>1 DEF Sound
  <2>2. ASSUME NEW c \in Cases, Plans(c)
        PROVE  /\ cache' = cache
               /\ \A k \in calls' : k.stage = "answered" => k.answer \in Answers(k)
    <3>1. cache' = cache /\ (UNCHANGED calls \/ Asks(c))
      BY <2>2, PlansAsk
    <3>2. ASSUME Asks(c) PROVE \A k \in calls' : k \in calls \/ k.stage = "looking"
      BY <3>2, NewCall, KeyTypes DEF Asks
    <3>3. QED BY <3>1, <3>2 DEF Sound
  <2>3. ASSUME NEW call \in calls, Ask(call)
        PROVE  /\ \A c \in Cases : cache'[DiagnosisKey(c)] \in Diagnoses \cup {None}
               /\ \A k \in calls' : k.stage = "answered" => k.answer \in Answers(k)
    <3>1. \A k \in calls' : k.stage = "answered" => k.answer \in Answers(k)
      <4>1. CASE EndsCall(call)
        BY <4>1 DEF EndsCall, Sound
      <4>2. CASE GoesOn(call)
        <5>1. PICK stage \in {"asked", "answered"}, answer \in Values \cup {None} :
                /\ calls' = (calls \ {call}) \cup {Turned(call, stage, answer)}
                /\ stage = "answered" => answer \in Answers(call)
          BY <4>2 DEF GoesOn
        <5>2. stage \in Stages /\ call \in CallRecords
          BY CallFields DEF Stages
        <5>3. /\ Turned(call, stage, answer).stage = stage
              /\ Turned(call, stage, answer).answer = answer
              /\ Turned(call, stage, answer).key = call.key
          BY <5>2, TurnedFields
        <5>4. Answers(Turned(call, stage, answer)) = Answers(call)
          BY <5>3 DEF Answers, ForDiagnosis
        <5>5. QED BY <5>1, <5>3, <5>4 DEF Sound
      <4>3. QED BY <2>3, <4>1, <4>2, AskMoves
    <3>2. CASE cache' = cache
      BY <3>1, <3>2 DEF Sound
    <3>3. CASE Store(call)
      <4>1. /\ cache' = [cache EXCEPT ![call.key] = IF @ = None THEN call.answer ELSE @]
            /\ call.answer \in Answers(call) /\ call.key \in Keys
        BY <3>3, CallFields DEF Store, Sound
      <4>2. \A k \in Keys : k = call.key /\ k[2] = None => call.answer \in Diagnoses
        BY <4>1 DEF Answers, ForDiagnosis
      <4>3. ASSUME NEW c \in Cases PROVE cache'[DiagnosisKey(c)] \in Diagnoses \cup {None}
        <5>1. DiagnosisKey(c) \in Keys /\ DiagnosisKey(c)[2] = None
          BY KeyTypes DEF DiagnosisKey
        <5>2. CASE DiagnosisKey(c) = call.key
          BY <4>1, <4>2, <5>1, <5>2 DEF TypeOK, Sound
        <5>3. CASE DiagnosisKey(c) # call.key
          BY <4>1, <5>1, <5>3 DEF TypeOK, Sound
        <5>4. QED BY <5>2, <5>3
      <4>4. QED BY <3>1, <4>3
    <3>4. QED BY <2>3, <3>2, <3>3 DEF Ask, Look, Answered, Fail
  <2>4. CASE \E c \in Cases : TimeOut(c) \/ Reply(c) \/ Route(c)
    BY <2>1, <2>4 DEF TimeOut, Reply, Route
  <2>5. CASE UNCHANGED vars \/ Finish \/ Crash \/ Start
    <3>1. cache' = cache /\ calls' \subseteq calls
      BY <2>5 DEF vars, Finish, Crash, Start
    <3>2. QED BY <2>1, <3>1
  <2>6. CASE \E c \in Cases : Plans(c)
    BY <2>2, <2>6 DEF Sound
  <2>7. CASE \E call \in calls : Ask(call)
    BY <2>3, <2>7
  <2>8. QED BY <2>4, <2>5, <2>6, <2>7 DEF Next, ForCase
<1>3. QED BY <1>1, <1>2 DEF Sound, Answers, ForDiagnosis

-----------------------------------------------------------------------------
(* A call whose role has not given it up is waited for, is the only one of *)
(* its key, and had no answer to find in the cache.  The reducer gives     *)
(* none up, and asks about the diagnosis its case has.                     *)
Prompt(call) ==
  /\ Awaited(call)
  /\ call.stage # "looking" => cache[call.key] = None
  /\ \A other \in calls : other.key = call.key => other = call
AboutItsCase(call) == call.key = AdjudicationKey(CaseOf(call), diag[CaseOf(call)])
LateAreDiagnoses == late \subseteq {DiagnosisKey(c) : c \in Cases}
CallsTended ==
  \A call \in calls :
    /\ call.key \notin late => Prompt(call)
    /\ ~ForDiagnosis(call) => AboutItsCase(call)

Tended == LateAreDiagnoses /\ CallsTended

(* What a call needs of the step to stay tended.                           *)
Undisturbed(call) ==
  /\ UNCHANGED <<up, batch>> /\ cache'[call.key] = cache[call.key]
  /\ ForDiagnosis(call) => diag'[CaseOf(call)].rival = diag[CaseOf(call)].rival
  /\ ~ForDiagnosis(call) => pc'[CaseOf(call)] = pc[CaseOf(call)]
  /\ ~ForDiagnosis(call) => diag'[CaseOf(call)] = diag[CaseOf(call)]
Alone(call) == \A other \in calls' : other.key = call.key => other = call

LEMMA Adjudicating ==
  ASSUME TypeOK, Tended, NEW call \in calls, ~ForDiagnosis(call)
  PROVE  call.key \notin late /\ AboutItsCase(call) /\ Awaited(call)
<1>1. call.key \notin late
  BY DEF Tended, LateAreDiagnoses, ForDiagnosis, DiagnosisKey
<1>2. QED BY <1>1 DEF Tended, CallsTended, Prompt

LEMMA StaysTended ==
  ASSUME Tended, NEW call \in calls, Undisturbed(call), late \subseteq late',
         call.key \notin late' => Alone(call)
  PROVE  /\ call.key \notin late' => Prompt(call)'
         /\ ~ForDiagnosis(call) => AboutItsCase(call)'
<1>1. ASSUME call.key \notin late' PROVE Prompt(call)'
  <2>1. Prompt(call)
    BY <1>1 DEF Tended, CallsTended
  <2>2. Awaited(call)'
    BY <2>1 DEF Prompt, Awaited, Undisturbed, ForDiagnosis, CaseOf
  <2>3. call.stage # "looking" => cache'[call.key] = None
    BY <2>1 DEF Prompt, Undisturbed
  <2>4. Alone(call)
    BY <1>1
  <2>5. QED BY <2>2, <2>3, <2>4 DEF Prompt, Alone
<1>2. ASSUME ~ForDiagnosis(call) PROVE AboutItsCase(call)'
  BY <1>2 DEF Tended, CallsTended, AboutItsCase, Undisturbed, ForDiagnosis, CaseOf
<1>3. QED BY <1>1, <1>2

LEMMA InitTended == Init => Tended
BY DEF Init, Tended, LateAreDiagnoses, CallsTended

(* A case that plans has no call that is waited for.                       *)
LEMMA ReadyHasNone ==
  ASSUME TypeOK, Phases, Tended, NEW c \in Cases, Ready(c), NEW call \in calls,
         call.key \notin late \/ ~ForDiagnosis(call)
  PROVE  CaseOf(call) # c
<1>1. Awaited(call)
  BY Adjudicating DEF Tended, CallsTended, Prompt
<1>2. QED BY <1>1 DEF Awaited, Ready, Phases

LEMMA PlansKeepTended ==
  ASSUME Base, Tended, NEW c \in Cases, Plans(c)
  PROVE  Tended'
<1>0. TypeOK /\ Sound /\ Phases
  BY DEF Base
<1>1. /\ up /\ Ready(c) /\ (UNCHANGED calls \/ Asks(c))
      /\ UNCHANGED <<batch, up, cache, late>>
  BY <1>0, PlansAsk
<1>2. \A d \in Cases : d # c => Stays(d)
  BY <1>0, PlansMove
<1>3. ASSUME NEW call \in calls, call.key \notin late \/ ~ForDiagnosis(call)
      PROVE  CaseOf(call) # c /\ Undisturbed(call)
  <2>1. CaseOf(call) # c /\ CaseOf(call) \in Cases
    BY <1>0, <1>1, <1>3, ReadyHasNone, CallFields
  <2>2. Stays(CaseOf(call))
    BY <1>2, <2>1
  <2>3. QED BY <1>1, <2>1, <2>2 DEF Undisturbed, Stays
<1>4. ASSUME NEW call \in calls, call.key \notin late \/ ~ForDiagnosis(call), Alone(call)
      PROVE  (call.key \notin late => Prompt(call)') /\ (~ForDiagnosis(call) => AboutItsCase(call)')
  BY <1>1, <1>3, <1>4, StaysTended
<1>5. ASSUME NEW call \in calls, call.key \notin late
      PROVE  \A other \in calls : other.key = call.key => other = call
  BY <1>5 DEF Tended, CallsTended, Prompt
<1>6. CASE UNCHANGED calls
  <2>1. \A call \in calls : call.key \notin late \/ ~ForDiagnosis(call) => Alone(call)
    BY <1>0, <1>5, <1>6, Adjudicating DEF Alone
  <2>2. \A call \in calls : /\ call.key \notin late => Prompt(call)'
                            /\ ~ForDiagnosis(call) => AboutItsCase(call)'
    BY <1>4, <2>1
  <2>3. QED BY <1>1, <1>6, <2>2 DEF Tended, LateAreDiagnoses, CallsTended, ForDiagnosis
<1>7. ASSUME NEW key \in Keys, calls' = calls \cup {Call(key)}, key[1] = c,
             key[2] = None => diag'[c].rival = "running",
             key[2] # None => pc'[c] = "asking" /\ key = AdjudicationKey(c, diag'[c])
      PROVE  Tended'
  <2>1. /\ Call(key).key = key /\ Call(key).batch = batch /\ Call(key).stage = "looking"
        /\ CaseOf(Call(key)) = c /\ (ForDiagnosis(Call(key)) <=> key[2] = None)
    BY <1>0, <1>7, NewCall DEF CaseOf, ForDiagnosis
  <2>2. \A call \in calls : call.key \notin late \/ ~ForDiagnosis(call) => Alone(call)
    BY <1>0, <1>3, <1>5, <1>7, <2>1, Adjudicating DEF Alone, CaseOf
  <2>3. \A call \in calls : /\ call.key \notin late => Prompt(call)'
                            /\ ~ForDiagnosis(call) => AboutItsCase(call)'
    BY <1>4, <2>2
  <2>4. ASSUME NEW k, k = Call(key)
        PROVE  /\ k.key \notin late' => Prompt(k)'
               /\ ~ForDiagnosis(k) => AboutItsCase(k)'
    <3>1. /\ up' /\ k.batch = batch' /\ k.key = key /\ k.stage = "looking" /\ CaseOf(k) = c
          /\ ForDiagnosis(k) <=> key[2] = None
      BY <1>1, <2>1, <2>4
    <3>2. Awaited(k)'
      BY <1>7, <3>1 DEF Awaited, ForDiagnosis, CaseOf
    <3>3. ASSUME key \notin late PROVE Alone(k)
      <4>1. \A call \in calls : call.key # key
        BY <1>3, <1>7, <3>3 DEF CaseOf
      <4>2. QED BY <1>7, <2>1, <2>4, <4>1 DEF Alone
    <3>4. k.key \notin late' => Prompt(k)'
      BY <1>1, <3>1, <3>2, <3>3 DEF Prompt, Alone
    <3>5. ~ForDiagnosis(k) => AboutItsCase(k)'
      BY <1>7, <3>1 DEF AboutItsCase, CaseOf, ForDiagnosis
    <3>6. QED BY <3>4, <3>5
  <2>5. \A k \in calls' : /\ k.key \notin late' => Prompt(k)'
                          /\ ~ForDiagnosis(k) => AboutItsCase(k)'
    BY <1>1, <1>7, <2>3, <2>4
  <2>6. QED BY <1>1, <2>5 DEF Tended, LateAreDiagnoses, CallsTended, ForDiagnosis
<1>8. CASE Asks(c)
  <2>1. /\ DiagnosisKey(c) \in Keys /\ DiagnosisKey(c)[1] = c /\ DiagnosisKey(c)[2] = None
    BY KeyTypes DEF DiagnosisKey
  <2>2. \A d \in Diagnoses : /\ AdjudicationKey(c, d) \in Keys
                             /\ AdjudicationKey(c, d)[1] = c /\ AdjudicationKey(c, d)[2] # None
    BY KeyTypes, DeliberationAssumption DEF AdjudicationKey
  <2>3. CASE calls' = calls \cup {Call(DiagnosisKey(c))} /\ diag'[c].rival = "running"
    BY <1>7, <2>1, <2>3
  <2>4. CASE /\ calls' = calls \cup {Call(AdjudicationKey(c, diag[c]))} /\ diag[c] \in Diagnoses
             /\ pc'[c] = "asking" /\ diag'[c] = diag[c]
    BY <1>7, <2>2, <2>4
  <2>5. QED BY <1>8, <2>3, <2>4 DEF Asks
<1>9. QED BY <1>1, <1>6, <1>8

LEMMA AskKeepsTended ==
  ASSUME Base, Tended, NEW call \in calls, Ask(call)
  PROVE  Tended'
<1>0. TypeOK /\ Sound /\ Phases
  BY DEF Base
<1>1. /\ \A d \in Cases : Moves(d) /\ (d # CaseOf(call) \/ ~Awaited(call) => Stays(d))
      /\ EndsCall(call) \/ GoesOn(call)
      /\ UNCHANGED <<up, batch, late>>
  BY <1>0, AskMoves
<1>2. call.key \in Keys /\ CaseOf(call) \in Cases
  BY <1>0, CallFields
<1>3. ASSUME NEW other \in calls, other # call, other.key \notin late \/ ~ForDiagnosis(other)
      PROVE  /\ other.key # call.key /\ other.key \notin late
             /\ \A k \in calls : k.key = other.key => k = other
  <2>1. other.key \notin late
    BY <1>0, <1>3, Adjudicating
  <2>2. QED BY <1>3, <2>1 DEF Tended, CallsTended, Prompt
<1>4. ASSUME NEW k \in Keys, k # call.key PROVE cache'[k] = cache[k]
  <2>1. CASE Store(call)
    BY <1>4, <2>1, <1>0, <1>2 DEF Store, TypeOK
  <2>2. CASE Look(call) \/ Answered(call) \/ Fail(call)
    BY <2>2 DEF Look, Answered, Fail
  <2>3. QED BY <2>1, <2>2 DEF Ask
<1>5. ASSUME NEW other \in calls, other # call, other.key \notin late \/ ~ForDiagnosis(other)
      PROVE  Undisturbed(other)
  <2>1. other.key # call.key /\ other.key \in Keys /\ CaseOf(other) \in Cases /\ Awaited(other)
    BY <1>0, <1>3, <1>5, CallFields DEF Tended, CallsTended, Prompt
  <2>2. CASE CaseOf(other) # CaseOf(call) \/ ~Awaited(call)
    BY <1>1, <1>4, <2>1, <2>2 DEF Undisturbed, Stays
  <2>3. CASE CaseOf(other) = CaseOf(call) /\ Awaited(call)
    <3>1. ~(ForDiagnosis(call) /\ ForDiagnosis(other))
      BY <1>0, <1>2, <2>1, <2>3, KeyTypes DEF ForDiagnosis, CaseOf
    <3>2. ~(~ForDiagnosis(call) /\ ~ForDiagnosis(other))
      BY <1>0, <2>1, <2>3, Adjudicating DEF AboutItsCase
    <3>3. FALSE
      BY <1>0, <1>2, <2>1, <2>3, <3>1, <3>2 DEF Awaited, Phases
    <3>4. QED BY <3>3
  <2>4. QED BY <2>2, <2>3
<1>6. ASSUME NEW other \in calls, other # call,
             \A k \in calls' : k \in calls \/ k.key = call.key
      PROVE  /\ other.key \notin late' => Prompt(other)'
             /\ ~ForDiagnosis(other) => AboutItsCase(other)'
  <2>1. ASSUME other.key \notin late \/ ~ForDiagnosis(other) PROVE Alone(other)
    BY <1>3, <1>6, <2>1 DEF Alone
  <2>2. QED BY <1>1, <1>5, <1>6, <2>1, StaysTended
<1>7. CASE EndsCall(call)
  <2>1. \A k \in calls' : k \in calls /\ k # call
    BY <1>7 DEF EndsCall
  <2>2. \A k \in calls' : /\ k.key \notin late' => Prompt(k)'
                          /\ ~ForDiagnosis(k) => AboutItsCase(k)'
    BY <1>6, <2>1
  <2>3. QED BY <1>1, <2>2 DEF Tended, LateAreDiagnoses, CallsTended, ForDiagnosis
<1>8. CASE GoesOn(call)
  <2>1. PICK stage \in {"asked", "answered"}, answer \in Values \cup {None} :
          calls' = (calls \ {call}) \cup {Turned(call, stage, answer)}
    BY <1>8 DEF GoesOn
  <2>2. /\ UNCHANGED <<pc, diag, cache>>
        /\ cache[call.key] = None \/ call.stage # "looking"
    BY <1>8 DEF GoesOn
  <2>3. stage \in Stages /\ call \in CallRecords
    BY <1>0, CallFields DEF Stages
  <2>4. ASSUME NEW k, k = Turned(call, stage, answer)
        PROVE  /\ k.key \notin late' => Prompt(k)'
               /\ ~ForDiagnosis(k) => AboutItsCase(k)'
    <3>1. k.key = call.key /\ k.batch = call.batch /\ k.stage = stage
      BY <2>3, <2>4, TurnedFields
    <3>2. ASSUME call.key \notin late PROVE Prompt(k)'
      <4>1. Prompt(call)
        BY <3>2 DEF Tended, CallsTended
      <4>2. Awaited(k)'
        BY <1>1, <2>2, <3>1, <4>1 DEF Prompt, Awaited, ForDiagnosis, CaseOf
      <4>3. cache'[k.key] = None
        BY <2>2, <3>1, <4>1 DEF Prompt
      <4>4. Alone(k)
        BY <2>1, <2>4, <3>1, <4>1 DEF Prompt, Alone
      <4>5. QED BY <4>2, <4>3, <4>4 DEF Prompt, Alone
    <3>3. ~ForDiagnosis(k) => AboutItsCase(k)'
      BY <2>2, <3>1 DEF Tended, CallsTended, AboutItsCase, ForDiagnosis, CaseOf
    <3>4. QED BY <1>1, <3>1, <3>2, <3>3
  <2>5. \A k \in calls' : k \in calls \/ k.key = call.key
    BY <2>1, <2>3, TurnedFields
  <2>6. \A k \in calls' : /\ k.key \notin late' => Prompt(k)'
                          /\ ~ForDiagnosis(k) => AboutItsCase(k)'
    BY <1>6, <2>1, <2>4, <2>5
  <2>7. QED BY <1>1, <2>6 DEF Tended, LateAreDiagnoses, CallsTended, ForDiagnosis
<1>9. QED BY <1>1, <1>7, <1>8

(* A role that gives a call up was the only one to wait for it.            *)
LEMMA TimeOutKeepsTended ==
  ASSUME Base, Tended, NEW c \in Cases, TimeOut(c)
  PROVE  Tended'
<1>0. TypeOK /\ Sound /\ Phases
  BY DEF Base
<1>1. /\ diag[c].rival = "running" /\ late' = late \cup {DiagnosisKey(c)}
      /\ UNCHANGED <<up, batch, pc, cache, calls>>
  BY DEF TimeOut, batches
<1>2. \A d \in Cases : d # c => Stays(d)
  BY <1>0, TimeOutMoves
<1>3. ASSUME NEW call \in calls, call.key \notin late' \/ ~ForDiagnosis(call)
      PROVE  Undisturbed(call) /\ Alone(call)
  <2>1. /\ call.key \notin late /\ Awaited(call) /\ CaseOf(call) \in Cases /\ call.key \in Keys
        /\ \A other \in calls : other.key = call.key => other = call
    BY <1>0, <1>1, <1>3, Adjudicating, CallFields DEF Tended, CallsTended, Prompt
  <2>2. CaseOf(call) # c
    <3>1. CASE ForDiagnosis(call)
      BY <1>1, <1>3, <2>1, <3>1, KeyTypes DEF ForDiagnosis, CaseOf
    <3>2. CASE ~ForDiagnosis(call)
      BY <1>0, <1>1, <2>1, <3>2 DEF Awaited, Phases
    <3>3. QED BY <3>1, <3>2
  <2>3. Stays(CaseOf(call))
    BY <1>2, <2>1, <2>2
  <2>4. QED BY <1>1, <2>1, <2>3 DEF Undisturbed, Stays, Alone
<1>4. \A call \in calls' : /\ call.key \notin late' => Prompt(call)'
                           /\ ~ForDiagnosis(call) => AboutItsCase(call)'
  BY <1>1, <1>3, StaysTended
<1>5. LateAreDiagnoses'
  BY <1>1 DEF Tended, LateAreDiagnoses
<1>6. QED BY <1>4, <1>5 DEF Tended, CallsTended, ForDiagnosis

(* When nobody waits any more every call that goes on has been given up.   *)
LEMMA NobodyWaits ==
  ASSUME TypeOK, Tended, UNCHANGED late, calls' \subseteq calls,
         \A call \in calls' : ~Awaited(call)
  PROVE  Tended'
<1>1. \A call \in calls' : call.key \in late /\ ForDiagnosis(call)
  BY Adjudicating DEF Tended, CallsTended, Prompt
<1>2. LateAreDiagnoses'
  BY DEF Tended, LateAreDiagnoses
<1>3. CallsTended'
  BY <1>1 DEF CallsTended, ForDiagnosis
<1>4. QED BY <1>2, <1>3 DEF Tended

LEMMA BatchKeepsTended ==
  ASSUME Base, Tended, Finish \/ Crash \/ Start
  PROVE  Tended'
<1>0. TypeOK /\ Phases
  BY DEF Base
<1>1. UNCHANGED late /\ calls' \subseteq calls
  BY DEF Finish, Crash, Start
<1>2. CASE Finish
  <2>1. \A call \in calls : ~Awaited(call)
    BY <1>0, <1>2, CallFields DEF Finish, AllPlanned, Awaited, Phases
  <2>2. QED BY <1>0, <1>1, <2>1, NobodyWaits
<1>3. CASE Crash
  <2>1. \A call \in calls' : ~Awaited(call)
    BY <1>3 DEF Crash, Awaited
  <2>2. QED BY <1>0, <1>1, <2>1, NobodyWaits
<1>4. CASE Start
  <2>1. \A call \in calls' : ~Awaited(call)
    BY <1>4 DEF Start, Awaited
  <2>2. QED BY <1>0, <1>1, <2>1, NobodyWaits
<1>5. QED BY <1>2, <1>3, <1>4

LEMMA StepTended == Base /\ Tended /\ [Next]_vars => Tended'
<1> SUFFICES ASSUME Base, Tended, [Next]_vars PROVE Tended'
  OBVIOUS
<1>1. ASSUME UNCHANGED <<up, batch, pc, diag, cache, calls, late>> PROVE Tended'
  BY <1>1 DEF Tended, LateAreDiagnoses, CallsTended, Prompt, AboutItsCase, Awaited, ForDiagnosis,
              CaseOf
<1>2. CASE UNCHANGED vars
  BY <1>1, <1>2 DEF vars
<1>3. ASSUME NEW c \in Cases, ForCase(c) PROVE Tended'
  <2>1. CASE Reply(c) \/ Route(c)
    BY <1>1, <2>1 DEF Reply, Route, batches, planning
  <2>2. QED BY <1>3, <2>1, PlansKeepTended, TimeOutKeepsTended DEF ForCase
<1>4. CASE \E call \in calls : Ask(call)
  BY <1>4, AskKeepsTended
<1>5. CASE Finish \/ Crash \/ Start
  BY <1>5, BatchKeepsTended
<1>6. QED BY <1>2, <1>3, <1>4, <1>5 DEF Next

-----------------------------------------------------------------------------
(* An input none of whose calls was given up has been acted on with the    *)
(* answer in the cache, and not before it was there.                       *)
ActedFromCache(k) == acted[k] \subseteq {cache[k]} /\ (cache[k] = None => acted[k] = {})
OneAnswer == \A k \in Keys : k \notin late => ActedFromCache(k)

LEMMA DeliverActs ==
  ASSUME TypeOK, NEW call \in calls, NEW answer, Deliver(call, answer), NEW k \in Keys
  PROVE  /\ k # call.key => acted'[k] = acted[k]
         /\ k = call.key => acted'[k] \in {acted[k], acted[k] \cup {answer}}
BY CallFields DEF Deliver, TypeOK

LEMMA StepOneAnswer == TypeOK /\ Sound /\ Tended /\ OneAnswer /\ [Next]_vars => OneAnswer'
<1> SUFFICES ASSUME TypeOK, Sound, Tended, OneAnswer, [Next]_vars,
                    NEW k \in Keys, k \notin late'
             PROVE  ActedFromCache(k)'
  BY DEF OneAnswer, Keys
<1>1. late \subseteq late'
  BY DEF Next, ForCase, Plans, ResolveTier0, FallBack, FanOut, Settle, Reduce, TimeOut, Reply,
         Route, Ask, Look, Answered, Store, Fail, Finish, Crash, Start, vars
<1>2. ActedFromCache(k) /\ k \notin late
  BY <1>1 DEF OneAnswer
<1>3. CASE UNCHANGED <<cache, acted>>
  BY <1>2, <1>3 DEF ActedFromCache
<1>4. ASSUME NEW call \in calls, Ask(call) PROVE ActedFromCache(k)'
  <2>1. call.key \in Keys
    BY CallFields
  <2>2. CASE Look(call)
    <3>1. cache' = cache
      BY <2>2 DEF Look
    <3>2. CASE cache[call.key] # None
      <4>1. Deliver(call, cache[call.key])
        BY <2>2, <3>2 DEF Look
      <4>2. QED BY <1>2, <3>1, <3>2, <4>1, DeliverActs DEF ActedFromCache
    <3>3. CASE cache[call.key] = None
      BY <1>3, <2>2, <3>3 DEF Look
    <3>4. QED BY <3>2, <3>3
  <2>3. CASE Store(call)
    <3>1. /\ cache' = [cache EXCEPT ![call.key] = IF @ = None THEN call.answer ELSE @]
          /\ Deliver(call, call.answer) /\ call.stage = "answered"
      BY <2>3 DEF Store
    <3>2. CASE k # call.key
      BY <1>2, <2>1, <3>1, <3>2, DeliverActs DEF ActedFromCache, TypeOK
    <3>3. CASE k = call.key
      <4>1. cache[k] = None /\ acted[k] = {}
        BY <1>2, <3>1, <3>3 DEF Tended, CallsTended, Prompt, ActedFromCache
      <4>2. cache'[k] = call.answer
        BY <2>1, <3>1, <3>3, <4>1 DEF TypeOK
      <4>3. call.answer # None
        BY <3>1, DeliberationAssumption DEF Sound, Answers
      <4>4. acted'[k] \subseteq {call.answer}
        BY <3>1, <3>3, <4>1, DeliverActs
      <4>5. QED BY <4>2, <4>3, <4>4 DEF ActedFromCache
    <3>4. QED BY <3>2, <3>3
  <2>4. CASE Answered(call) \/ Fail(call)
    BY <1>3, <2>4 DEF Answered, Fail, Disappoint
  <2>5. QED BY <1>4, <2>2, <2>3, <2>4 DEF Ask
<1>5. CASE UNCHANGED vars \/ Finish \/ Crash \/ Start
  BY <1>3, <1>5 DEF vars, Finish, Crash, Start
<1>6. CASE \E c \in Cases : Plans(c)
  BY <1>3, <1>6, PlansAsk
<1>7. CASE \E c \in Cases : TimeOut(c) \/ Reply(c) \/ Route(c)
  BY <1>3, <1>7 DEF TimeOut, Reply, Route
<1>8. QED BY <1>4, <1>5, <1>6, <1>7 DEF Next, ForCase

-----------------------------------------------------------------------------
(* A cause that the tables do not know came from the provider.             *)
Unlisted(c) == arm # "tier0_only" /\ Entries(input[c].rail, input[c].code) = {}
Sourced ==
  \A c \in Cases :
    Unlisted(c) /\ pc[c] # "waiting" =>
      diag[c].rival \in {"running", "failed"} \/ diag[c] \in Diagnoses

LEMMA NothingToResolve ==
  ASSUME NEW i, Entries(i.rail, i.code) = {}
  PROVE  Plan0(i) = {}
BY DEF Plan0, Resolved

LEMMA ActedGrows ==
  ASSUME TypeOK, [Next]_vars, NEW k \in Keys
  PROVE  acted[k] \subseteq acted'[k]
<1>1. CASE UNCHANGED acted
  BY <1>1
<1>2. ASSUME NEW call \in calls, NEW answer, Deliver(call, answer)
      PROVE  acted[k] \subseteq acted'[k]
  BY <1>2, DeliverActs
<1>3. CASE \E call \in calls : Ask(call)
  BY <1>1, <1>2, <1>3 DEF Ask, Look, Answered, Store, Fail, Disappoint
<1>4. CASE ~\E call \in calls : Ask(call)
  BY <1>1, <1>4 DEF Next, ForCase, Plans, ResolveTier0, FallBack, FanOut, Settle, Reduce, TimeOut,
                    Reply, Route, Finish, Crash, Start, vars
<1>5. QED BY <1>3, <1>4

LEMMA SameCohort ==
  ASSUME [Next]_vars
  PROVE  input' = input /\ (~Start => arm' = arm)
BY DEF Next, ForCase, Plans, ResolveTier0, FallBack, FanOut, Settle, Reduce, TimeOut, Reply,
       Route, Ask, Look, Answered, Store, Fail, Finish, Crash, Start, vars, batches

LEMMA StepSourced == Base /\ Sourced /\ [Next]_vars => Sourced'
<1> SUFFICES ASSUME Base, Sourced, [Next]_vars, NEW c \in Cases, Unlisted(c)',
                    pc'[c] # "waiting"
             PROVE  diag'[c].rival \in {"running", "failed"} \/ diag'[c] \in Diagnoses
  BY DEF Sourced
<1>0. TypeOK /\ Sound /\ Phases
  BY DEF Base
<1>1. ~Start
  BY StartsOver
<1>2. Moves(c) /\ Unlisted(c)
  BY <1>0, <1>1, StepMoves, SameCohort DEF Unlisted
<1>3. CASE Stays(c)
  BY <1>2, <1>3 DEF Stays, Sourced
<1>4. ~Resolves(c)
  BY <1>2, NothingToResolve DEF Resolves, IsTabled, Unlisted
<1>5. CASE FansOut(c)
  BY <1>2, <1>5 DEF FansOut, Unlisted
<1>6. CASE Hears(c)
  BY <1>6 DEF Hears
<1>7. CASE Settles(c)
  BY <1>2, <1>7 DEF Settles, Sourced
<1>8. CASE IsRuled(c)
  BY <1>2, <1>8 DEF IsRuled, Sourced
<1>9. QED BY <1>2, <1>3, <1>4, <1>5, <1>6, <1>7, <1>8 DEF Moves

LEMMA EscalationIsOne ==
  ASSUME NEW rail
  PROVE  TheStepsOf(Escalation(rail)) = <<>> \/ {TheStepsOf(Escalation(rail))} = Escalation(rail)
<1>1. CASE Escalation(rail) = {}
  BY <1>1 DEF TheStepsOf
<1>2. CASE Escalation(rail) # {}
  <2>1. PICK p \in Escalation(rail) : TheStepsOf(Escalation(rail)) = p
    BY <1>2 DEF TheStepsOf
  <2>2. \A q \in Escalation(rail) : q = <<Step("create_ops_escalation", DefaultHours)>>
    BY DEF Escalation, PlanOf
  <2>3. QED BY <2>1, <2>2
<1>3. QED BY <1>1, <1>2

LEMMA StepMakesNoPlan ==
  Base /\ Tended /\ Sourced /\ OutageMakesNoPlan /\ [Next]_vars => OutageMakesNoPlan'
<1> SUFFICES ASSUME Base, Tended, Sourced, OutageMakesNoPlan, [Next]_vars, NEW c \in Cases,
                    pc'[c] = "done", Unlisted(c)', ~Judged(c)'
             PROVE  plan'[c] = <<>> \/ {plan'[c]} = Escalation(input'[c].rail)
  BY DEF OutageMakesNoPlan, Unlisted
<1>0. TypeOK /\ Sound /\ Phases
  BY DEF Base
<1>1. ~Start
  BY StartsOver
<1>2. Moves(c) /\ Unlisted(c) /\ input' = input
  BY <1>0, <1>1, StepMoves, SameCohort DEF Unlisted
<1>3. ASSUME diag'[c] = diag[c] PROVE ~Judged(c)
  <2>1. SUFFICES ASSUME Judged(c) PROVE Judged(c)'
    OBVIOUS
  <2>2. diag[c] \in Diagnoses /\ AdjudicationKey(c, diag[c]) \in Keys
    BY <2>1, KeyTypes DEF Judged
  <2>3. acted[AdjudicationKey(c, diag[c])] \subseteq acted'[AdjudicationKey(c, diag[c])]
    BY <1>0, <2>2, ActedGrows
  <2>4. QED BY <1>3, <2>1, <2>3 DEF Judged, AdjudicationKey
<1>4. CASE Stays(c)
  BY <1>2, <1>3, <1>4 DEF Stays, OutageMakesNoPlan, Unlisted
<1>5. ~Resolves(c)
  BY <1>2, NothingToResolve DEF Resolves, IsTabled, Unlisted
<1>6. ~FansOut(c) /\ ~Hears(c)
  BY <1>0 DEF FansOut, Hears, Phases
<1>7. CASE Settles(c)
  <2>1. CASE diag[c].rival = "failed"
    BY <1>2, <1>7, <2>1, EscalationIsOne DEF Settles
  <2>2. CASE diag[c].rival # "failed"
    <3>1. diag[c] \in Diagnoses /\ diag[c].rival # "close"
      BY <1>2, <1>7, <2>2 DEF Settles, Sourced
    <3>2. QED BY <1>3, <1>7, <3>1 DEF Settles, Judged
  <2>3. QED BY <2>1, <2>2
<1>8. CASE IsRuled(c)
  <2>1. PICK call \in calls : /\ CaseOf(call) = c /\ ~ForDiagnosis(call)
                              /\ plan'[c] = <<>> \/ acted'[call.key] # {}
    BY <1>8 DEF IsRuled
  <2>2. call.key = AdjudicationKey(c, diag[c])
    BY <1>0, <2>1, Adjudicating DEF AboutItsCase
  <2>3. diag[c] \in Diagnoses /\ diag'[c] = diag[c]
    BY <1>0, <1>8 DEF IsRuled, Phases, Sound
  <2>4. acted'[call.key] = {}
    BY <2>2, <2>3 DEF Judged, AdjudicationKey
  <2>5. QED BY <2>1, <2>4
<1>9. QED BY <1>2, <1>4, <1>5, <1>6, <1>7, <1>8 DEF Moves

-----------------------------------------------------------------------------
(* Customers reply once the batch has planned, and a claim drawn without a *)
(* reply goes when the reply is routed.                                    *)
Answering == {"customer_context", "communication"}
RepliesFollowPlans == replied # {} => AllPlanned
RoutedAreCleared == \A c \in replied : c # routing => live[c] \cap Answering = {}
Drawn == RepliesFollowPlans /\ RoutedAreCleared

LEMMA AnsweringRerun ==
  ASSUME NEW roles
  PROVE  Answering \subseteq Rerun({"customer_reply"}, roles)
BY DEF Answering, Rerun, RolesDependingOn, Roles, DependsOn

LEMMA StepDrawn == Base /\ Drawn /\ [Next]_vars => Drawn'
<1> SUFFICES ASSUME Base, Drawn, [Next]_vars PROVE Drawn'
  OBVIOUS
<1>0. TypeOK /\ Sound /\ Phases
  BY DEF Base
<1>1. CASE Start
  BY <1>1 DEF Start, Drawn, RepliesFollowPlans, RoutedAreCleared
<1>2. ~Start /\ AllPlanned => AllPlanned'
  <2>1. SUFFICES ASSUME ~Start, AllPlanned, NEW c \in Cases PROVE pc'[c] = "done"
    BY DEF AllPlanned
  <2>2. Moves(c) /\ pc[c] = "done"
    BY <1>0, <2>1, StepMoves DEF AllPlanned
  <2>3. QED BY <1>0, <2>2
            DEF Moves, Stays, Resolves, FansOut, Hears, Settles, IsRuled, Phases
<1>3. ASSUME UNCHANGED <<live, replied, routing>>, ~Start PROVE Drawn'
  BY <1>2, <1>3 DEF Drawn, RepliesFollowPlans, RoutedAreCleared
<1>4. ASSUME NEW c \in Cases, Plans(c) PROVE Drawn'
  <2>1. UNCHANGED replied
    BY <1>0, <1>4, PlansAsk
  <2>2. pc[c] # "done"
    BY <1>0, <1>4, PlansAsk DEF Ready
  <2>3. replied = {}
    BY <2>2 DEF Drawn, RepliesFollowPlans, AllPlanned
  <2>4. QED BY <2>1, <2>3 DEF Drawn, RepliesFollowPlans, RoutedAreCleared
<1>5. ASSUME NEW c \in Cases, Reply(c) PROVE Drawn'
  <2>1. /\ AllPlanned /\ UNCHANGED <<pc, live>> /\ replied' = replied \cup {c} /\ routing' = c
        /\ routing = None
    BY <1>5 DEF Reply, planning
  <2>2. \A d \in replied : d # routing
    BY <1>0, <2>1, DeliberationAssumption DEF TypeOK
  <2>3. QED BY <2>1, <2>2 DEF Drawn, RepliesFollowPlans, RoutedAreCleared, AllPlanned
<1>6. ASSUME NEW c \in Cases, Route(c) PROVE Drawn'
  <2>1. /\ routing = c /\ UNCHANGED <<pc, replied>>
        /\ live' = [live EXCEPT ![c] = @ \ Rerun({"customer_reply"}, live[c])]
    BY <1>6 DEF Route, Invalidated, planning
  <2>2. Answering \subseteq Rerun({"customer_reply"}, live[c])
    BY AnsweringRerun
  <2>3. live'[c] \cap Answering = {} /\ \A d \in Cases : d # c => live'[d] = live[d]
    BY <1>0, <2>1, <2>2 DEF TypeOK
  <2>4. \A d \in replied : d \in Cases
    BY <1>0 DEF TypeOK
  <2>5. QED BY <2>1, <2>3, <2>4 DEF Drawn, RepliesFollowPlans, RoutedAreCleared, AllPlanned
<1>7. CASE \E call \in calls : Ask(call)
  <2>1. UNCHANGED <<live, replied, routing>>
    BY <1>0, <1>7, AskMoves
  <2>2. CASE ~Start
    BY <1>3, <2>1, <2>2
  <2>3. QED BY <1>1, <2>2
<1>8. CASE \E c \in Cases : TimeOut(c)
  <2>1. UNCHANGED <<live, replied, routing>>
    BY <1>8 DEF TimeOut, board
  <2>2. QED BY <1>1, <1>3, <2>1
<1>9. CASE UNCHANGED vars \/ Finish \/ Crash
  <2>1. UNCHANGED <<live, replied, routing>>
    BY <1>9 DEF vars, Finish, Crash, board
  <2>2. QED BY <1>1, <1>3, <2>1
<1>10. QED BY <1>1, <1>4, <1>5, <1>6, <1>7, <1>8, <1>9 DEF Next, ForCase

-----------------------------------------------------------------------------
(* A case that the tables resolve waits, or has started with what Tier 0   *)
(* makes of one of their plans.                                            *)
Tabled ==
  \A c \in Cases :
    Plan0(input[c]) # {} =>
      pc[c] = "waiting" \/ (pc[c] = "done" /\ IsTabled(input[c], plan[c]))

LEMMA StepTabled == Base /\ Tabled /\ [Next]_vars => Tabled'
<1> SUFFICES ASSUME Base, Tabled, [Next]_vars, NEW c \in Cases, Plan0(input'[c]) # {}
             PROVE  pc'[c] = "waiting" \/ (pc'[c] = "done" /\ IsTabled(input'[c], plan'[c]))
  BY DEF Tabled
<1>1. TypeOK /\ Sound /\ Phases
  BY DEF Base
<1>2. CASE Start
  BY <1>2, StartsOver
<1>3. CASE ~Start
  <2>1. Moves(c) /\ input' = input
    BY <1>1, <1>3, StepMoves, SameCohort
  <2>2. pc[c] = "waiting" \/ (pc[c] = "done" /\ IsTabled(input[c], plan[c]))
    BY <2>1 DEF Tabled
  <2>3. CASE Stays(c)
    BY <2>1, <2>2, <2>3 DEF Stays
  <2>4. CASE Resolves(c)
    BY <2>1, <2>4 DEF Resolves
  <2>5. ~FansOut(c) /\ ~Hears(c) /\ ~Settles(c) /\ ~IsRuled(c)
    BY <1>1, <2>1, <2>2 DEF FansOut, Hears, Settles, IsRuled, Phases
  <2>6. QED BY <2>1, <2>3, <2>4, <2>5 DEF Moves
<1>4. QED BY <1>2, <1>3

-----------------------------------------------------------------------------
(* Induction up to a bound: the least number missing from P has none below *)
(* it.                                                                     *)
LEMMA Climbs ==
  ASSUME NEW len \in Nat, NEW P, 0 \in P, \A n \in 1..len : n - 1 \in P => n \in P
  PROVE  0..len \subseteq P
<1> DEFINE Missing == {n \in 0..len : n \notin P}
           Below == {1..n : n \in Missing}
<1>1. IsWellFoundedOn(StrictSubsetOrdering(Nat), FiniteSubsetsOf(Nat))
  BY FS_StrictSubsetOrderingWellFounded
<1>2. Below \subseteq FiniteSubsetsOf(Nat)
  <2>1. ASSUME NEW n \in Missing PROVE 1..n \in SUBSET Nat /\ IsFiniteSet(1..n)
    <3>1. 1 \in Int /\ n \in Int
      OBVIOUS
    <3>2. QED BY <3>1, FS_Interval
  <2>2. QED BY <2>1 DEF FiniteSubsetsOf
<1>3. ASSUME Missing # {} PROVE FALSE
  <2>1. Below # {}
    BY <1>3
  <2>2. PICK X \in Below : \A Y \in Below : <<Y, X>> \notin StrictSubsetOrdering(Nat)
    BY <1>1, <1>2, <2>1, WFMin
  <2>3. PICK m \in Missing : X = 1..m
    BY <2>2
  <2>4. m \in 1..len
    OBVIOUS
  <2>5. m - 1 \in Missing
    BY <2>4
  <2>6. 1..(m - 1) \in Below
    BY <2>5
  <2>7. <<1..(m - 1), X>> \in StrictSubsetOrdering(Nat)
    <3>1. 1..(m - 1) \in SUBSET Nat /\ X \in SUBSET Nat
      BY <2>3
    <3>2. 1..(m - 1) \subseteq X /\ m \in X /\ m \notin 1..(m - 1)
      BY <2>3, <2>4
    <3>3. QED BY <3>1, <3>2 DEF StrictSubsetOrdering
  <2>8. QED BY <2>2, <2>6, <2>7
<1>4. QED BY <1>3

(* A function defined along 0..len from a value and a step exists, if its  *)
(* values stay where the step is defined.                                  *)
Runs(f, len, base, step) ==
  /\ f = [n \in 0..len |-> f[n]]
  /\ f[0] = base /\ \A n \in 1..len : f[n] = step[n][f[n - 1]]
Within(f, len, T) == \A n \in 0..len : f[n] \in T[n]

LEMMA RunExists ==
  ASSUME NEW len \in Nat, NEW T, NEW base \in T[0], NEW step,
         \A n \in 1..len : \A v \in T[n - 1] : step[n][v] \in T[n]
  PROVE  \E f : Runs(f, len, base, step) /\ Within(f, len, T)
<1> DEFINE P == {k \in 0..len : \E f : Runs(f, k, base, step) /\ Within(f, k, T)}
<1>1. 0 \in P
  <2>1. Runs([n \in 0..0 |-> base], 0, base, step) /\ Within([n \in 0..0 |-> base], 0, T)
    BY DEF Runs, Within
  <2>2. QED BY <2>1
<1>2. ASSUME NEW k \in 1..len, k - 1 \in P PROVE k \in P
  <2>1. PICK g : Runs(g, k - 1, base, step) /\ Within(g, k - 1, T)
    BY <1>2
  <2> DEFINE f == [n \in 0..k |-> IF n = k THEN step[k][g[k - 1]] ELSE g[n]]
  <2>2. f = [n \in 0..k |-> f[n]]
    OBVIOUS
  <2>3. \A n \in 0..(k - 1) : f[n] = g[n]
    OBVIOUS
  <2>4. f[k] = step[k][g[k - 1]]
    OBVIOUS
  <2> HIDE DEF f
  <2>5. g[0] = base /\ \A n \in 1..(k - 1) : g[n] = step[n][g[n - 1]]
    BY <2>1 DEF Runs
  <2>6. Runs(f, k, base, step)
    <3>1. 0 \in 0..(k - 1) /\ f[0] = base
      BY <2>3, <2>5
    <3>2. ASSUME NEW n \in 1..k PROVE f[n] = step[n][f[n - 1]]
      <4>1. f[n - 1] = g[n - 1]
        BY <2>3
      <4>2. CASE n = k
        BY <2>4, <4>1, <4>2
      <4>3. CASE n # k
        <5>1. n \in 1..(k - 1) /\ n \in 0..(k - 1)
          BY <4>3
        <5>2. QED BY <2>3, <2>5, <4>1, <5>1
      <4>4. QED BY <4>2, <4>3
    <3>3. QED BY <2>2, <3>1, <3>2, Zenon DEF Runs
  <2>7. g[k - 1] \in T[k - 1]
    BY <2>1 DEF Within
  <2>8. Within(f, k, T)
    <3>1. \A n \in 0..(k - 1) : f[n] \in T[n]
      BY <2>1, <2>3 DEF Within
    <3>2. f[k] \in T[k]
      BY <2>4, <2>7
    <3>3. k - 1 \in Nat /\ \A n \in 0..k : n \in 0..(k - 1) \/ n = k
      OBVIOUS
    <3>4. QED BY <3>1, <3>2, <3>3 DEF Within
  <2>9. QED BY <2>6, <2>8
<1> HIDE DEF P
<1>3. 0..len \subseteq P
  BY <1>1, <1>2, Climbs
<1>4. QED BY <1>3 DEF P

-----------------------------------------------------------------------------
(* The hours of a run of waits, as LeadIn adds them up.                    *)
Timed == [action : ActionIds, hours : Nat]
HoursOf(waits) ==
  LET due[n \in 0..Len(waits)] == IF n = 0 THEN 0 ELSE due[n - 1] + waits[n].hours
  IN  due[Len(waits)]

LEMMA FirstWaitCounts ==
  ASSUME NEW waits \in Seq(Timed), waits # <<>>
  PROVE  HoursOf(waits) \in Nat /\ HoursOf(waits) >= waits[1].hours
<1> DEFINE len == Len(waits)
           T == [n \in 0..len |-> {v \in Nat : n > 0 => v >= waits[1].hours}]
           step == [n \in 1..len |-> [v \in Nat |-> v + waits[n].hours]]
           IsDue(f) == f = [n \in 0..len |-> IF n = 0 THEN 0 ELSE f[n - 1] + waits[n].hours]
           due == CHOOSE f : IsDue(f)
<1>1. len \in Nat /\ len > 0 /\ \A n \in 1..len : waits[n].hours \in Nat
  <2>1. len \in Nat /\ \A n \in 1..len : waits[n] \in Timed
    BY LenProperties, ElementOfSeq
  <2>2. len # 0
    BY EmptySeq
  <2> HIDE DEF len
  <2>3. QED BY <2>1, <2>2 DEF Timed
<1>2. 0 \in T[0]
  BY <1>1
<1>3. \A n \in 1..len : \A v \in Nat : step[n][v] = v + waits[n].hours
  OBVIOUS
<1>4. \A n \in 1..len : T[n - 1] \subseteq Nat /\ \A v \in T[n - 1] : v + waits[n].hours \in T[n]
  <2>1. SUFFICES ASSUME NEW n \in 1..len, NEW v \in T[n - 1]
                 PROVE  v \in Nat /\ v + waits[n].hours \in T[n]
    OBVIOUS
  <2>2. n - 1 \in 0..len /\ n \in 0..len
    BY <1>1
  <2>3. v \in Nat /\ (n - 1 > 0 => v >= waits[1].hours)
    BY <2>1, <2>2
  <2>4. v + waits[n].hours \in Nat /\ v + waits[n].hours >= waits[1].hours
    <3>1. n = 1 \/ n - 1 > 0
      BY <1>1
    <3>2. waits[n].hours \in Nat /\ waits[1].hours \in Nat
      BY <1>1
    <3>3. CASE n = 1
      BY <2>3, <3>2, <3>3
    <3>4. CASE n - 1 > 0
      BY <2>3, <3>2, <3>4
    <3>5. QED BY <3>1, <3>3, <3>4
  <2>5. QED BY <2>2, <2>3, <2>4
<1>5. T[len] \subseteq {v \in Nat : v >= waits[1].hours}
  BY <1>1
<1> HIDE DEF T, step
<1>6. \A n \in 1..len : \A v \in T[n - 1] : step[n][v] \in T[n]
  BY <1>3, <1>4
<1> HIDE DEF len
<1>7. PICK f : Runs(f, len, 0, step) /\ Within(f, len, T)
  BY <1>1, <1>2, <1>6, RunExists
<1>8. IsDue(f)
  <2>1. f = [n \in 0..len |-> f[n]]
    BY <1>7 DEF Runs
  <2>2. \A n \in 0..len : f[n] = IF n = 0 THEN 0 ELSE f[n - 1] + waits[n].hours
    <3>1. f[0] = 0 /\ \A n \in 1..len : f[n] = step[n][f[n - 1]]
      BY <1>7 DEF Runs
    <3>2. \A n \in 1..len : f[n - 1] \in T[n - 1]
      <4>1. \A n \in 1..len : n - 1 \in 0..len
        BY <1>1
      <4>2. QED BY <1>7, <4>1 DEF Within
    <3>3. \A n \in 1..len : f[n] = f[n - 1] + waits[n].hours
      BY <1>3, <1>4, <3>1, <3>2
    <3>4. QED BY <1>1, <3>1, <3>3
  <2>3. [n \in 0..len |-> f[n]]
          = [n \in 0..len |-> IF n = 0 THEN 0 ELSE f[n - 1] + waits[n].hours]
    BY <2>2, Zenon
  <2>4. QED BY <2>1, <2>3, Zenon
<1>9. IsDue(due)
  BY <1>8, Zenon
<1>10. HoursOf(waits) = due[len]
  BY Zenon DEF HoursOf, len
<1>11. due[0] = 0 /\ \A n \in 1..len : due[n] = due[n - 1] + waits[n].hours
  <2> HIDE DEF due
  <2>1. QED BY <1>1, <1>9
<1> HIDE DEF due
<1>12. due[len] \in T[len]
  <2> DEFINE P == {n \in 0..len : due[n] \in T[n]}
  <2>1. 0 \in P
    BY <1>1, <1>2, <1>11
  <2>2. ASSUME NEW n \in 1..len, n - 1 \in P PROVE n \in P
    <3>1. due[n - 1] \in T[n - 1]
      BY <2>2
    <3>2. due[n - 1] + waits[n].hours \in T[n]
      BY <1>4, <3>1
    <3>3. n \in 0..len /\ due[n] = due[n - 1] + waits[n].hours
      BY <1>1, <1>11
    <3>4. QED BY <3>2, <3>3
  <2> HIDE DEF P
  <2>3. 0..len \subseteq P
    BY <1>1, <2>1, <2>2, Climbs
  <2>4. QED BY <1>1, <2>3 DEF P
<1>13. QED BY <1>5, <1>10, <1>12

(* What the policy leaves of some steps: some of them, all if it allows    *)
(* all, and one at least if it allows one.                                 *)
LEMMA Permitting ==
  ASSUME NEW W, NEW steps \in Seq(W), NEW rail
  PROVE  LET kept == PermittedSteps(rail, steps)
             allowed(n) == steps[n].action \in Allowed[rail]
         IN  /\ kept \in Seq(W)
             /\ (\E n \in 1..Len(steps) : allowed(n)) => kept # <<>>
             /\ (\A n \in 1..Len(steps) : allowed(n)) => kept = steps
<1> DEFINE len == Len(steps)
           allowed(n) == steps[n].action \in Allowed[rail]
           T == [n \in 0..len |-> {s \in Seq(W) :
                   /\ (\E m \in 1..n : allowed(m)) => s # <<>>
                   /\ (\A m \in 1..n : allowed(m)) => s = SubSeq(steps, 1, n)}]
           next(n, s) == IF allowed(n) THEN Append(s, steps[n]) ELSE s
           step == [n \in 1..len |-> [s \in Seq(W) |-> next(n, s)]]
           IsKept(f) == f = [n \in 0..len |-> IF n = 0 THEN <<>> ELSE next(n, f[n - 1])]
           kept == CHOOSE f : IsKept(f)
<1>1. len \in Nat /\ \A n \in 1..len : steps[n] \in W
  BY LenProperties, ElementOfSeq
<1>2. <<>> \in T[0]
  <2>1. SubSeq(steps, 1, 0) = <<>>
    BY SubSeqEmpty
  <2>2. <<>> \in Seq(W)
    BY EmptySeq
  <2>3. QED BY <1>1, <2>1, <2>2
<1>3. \A n \in 1..len : \A s \in Seq(W) : step[n][s] = next(n, s)
  OBVIOUS
<1>4. ASSUME NEW n \in 1..len, NEW s \in T[n - 1]
      PROVE  s \in Seq(W) /\ next(n, s) \in T[n]
  <2>1. n - 1 \in 0..len /\ n \in 0..len /\ steps[n] \in W
    BY <1>1
  <2>2. /\ s \in Seq(W)
        /\ (\E m \in 1..(n - 1) : allowed(m)) => s # <<>>
        /\ (\A m \in 1..(n - 1) : allowed(m)) => s = SubSeq(steps, 1, n - 1)
    BY <1>4, <2>1
  <2>3. \A m \in 1..n : m \in 1..(n - 1) \/ m = n
    BY <1>1
  <2>4. CASE allowed(n)
    <3>1. next(n, s) = Append(s, steps[n])
      BY <2>4
    <3>2. Append(s, steps[n]) \in Seq(W) /\ Append(s, steps[n]) # <<>>
      BY <2>1, <2>2, AppendProperties, EmptySeq
    <3>3. ASSUME \A m \in 1..n : allowed(m) PROVE Append(s, steps[n]) = SubSeq(steps, 1, n)
      <4>1. s = SubSeq(steps, 1, n - 1)
        BY <1>1, <2>2, <3>3
      <4>2. 1 \in 1..len /\ n \in 1..Len(steps)
        BY <1>1
      <4>3. SubSeq(steps, 1, n) = SubSeq(steps, 1, n - 1) \o <<steps[n]>>
        BY <4>2, SubSeqRecursiveSecond
      <4>4. Append(s, steps[n]) = s \o <<steps[n]>>
        BY <2>1, <2>2, AppendIsConcat
      <4>5. QED BY <4>1, <4>3, <4>4
    <3> HIDE DEF next
    <3>4. QED BY <2>1, <2>2, <3>1, <3>2, <3>3
  <2>5. CASE ~allowed(n)
    <3>1. next(n, s) = s
      BY <2>5
    <3>2. (\E m \in 1..n : allowed(m)) => s # <<>>
      BY <2>2, <2>3, <2>5
    <3>3. ~\A m \in 1..n : allowed(m)
      BY <1>1, <2>5
    <3> HIDE DEF next, allowed
    <3>4. QED BY <2>1, <2>2, <3>1, <3>2, <3>3
  <2>6. QED BY <2>4, <2>5
<1>5. \A s \in T[len] : /\ s \in Seq(W)
                        /\ (\E n \in 1..len : allowed(n)) => s # <<>>
                        /\ (\A n \in 1..len : allowed(n)) => s = SubSeq(steps, 1, len)
  BY <1>1
<1> HIDE DEF T, step, next
<1>6. \A n \in 1..len : \A s \in T[n - 1] : step[n][s] \in T[n]
  BY <1>3, <1>4
<1> HIDE DEF len
<1>7. PICK f : Runs(f, len, <<>>, step) /\ Within(f, len, T)
  BY <1>1, <1>2, <1>6, RunExists
<1>8. IsKept(f)
  <2>1. f = [n \in 0..len |-> f[n]]
    BY <1>7 DEF Runs
  <2>2. \A n \in 0..len : f[n] = IF n = 0 THEN <<>> ELSE next(n, f[n - 1])
    <3>1. f[0] = <<>> /\ \A n \in 1..len : f[n] = step[n][f[n - 1]]
      BY <1>7 DEF Runs
    <3>2. \A n \in 1..len : f[n - 1] \in T[n - 1]
      <4>1. \A n \in 1..len : n - 1 \in 0..len
        BY <1>1
      <4>2. QED BY <1>7, <4>1 DEF Within
    <3>3. \A n \in 1..len : f[n] = next(n, f[n - 1])
      BY <1>3, <1>4, <3>1, <3>2
    <3>4. QED BY <1>1, <3>1, <3>3
  <2>3. [n \in 0..len |-> f[n]] = [n \in 0..len |-> IF n = 0 THEN <<>> ELSE next(n, f[n - 1])]
    BY <2>2, Zenon
  <2>4. QED BY <2>1, <2>3, Zenon
<1>9. IsKept(kept)
  BY <1>8, Zenon
<1>10. PermittedSteps(rail, steps) = kept[len]
  BY Zenon DEF PermittedSteps, len, next
<1>11. kept[0] = <<>> /\ \A n \in 1..len : kept[n] = next(n, kept[n - 1])
  <2> HIDE DEF kept
  <2>1. QED BY <1>1, <1>9
<1> HIDE DEF kept
<1>12. kept[len] \in T[len]
  <2> DEFINE P == {n \in 0..len : kept[n] \in T[n]}
  <2>1. 0 \in P
    BY <1>1, <1>2, <1>11
  <2>2. ASSUME NEW n \in 1..len, n - 1 \in P PROVE n \in P
    <3>1. kept[n - 1] \in T[n - 1]
      BY <2>2
    <3>2. next(n, kept[n - 1]) \in T[n]
      BY <1>4, <3>1
    <3>3. n \in 0..len /\ kept[n] = next(n, kept[n - 1])
      BY <1>1, <1>11
    <3>4. QED BY <3>2, <3>3
  <2> HIDE DEF P
  <2>3. 0..len \subseteq P
    BY <1>1, <2>1, <2>2, Climbs
  <2>4. QED BY <1>1, <2>3 DEF P
<1>13. SubSeq(steps, 1, len) = steps
  BY SubSeqFull DEF len
<1>14. QED BY <1>5, <1>10, <1>12, <1>13 DEF len

LEMMA LeastOf ==
  ASSUME NEW S \in SUBSET Nat, S # {}
  PROVE  Min(S) \in S
<1>1. PICK s \in S : TRUE
  OBVIOUS
<1>2. \E x \in S : \A y \in S : x <= y
  <2> SUFFICES ASSUME ~\E x \in S : \A y \in S : x <= y PROVE FALSE
    OBVIOUS
  <2> DEFINE P == {n \in Nat : \A y \in S : n < y}
  <2>1. 0 \in P
    OBVIOUS
  <2>2. ASSUME NEW n \in 1..s, n - 1 \in P PROVE n \in P
    <3>1. n \in Nat /\ n - 1 \in Nat /\ \A y \in S : y \in Nat /\ n - 1 < y
      BY <2>2
    <3>2. \A y \in S : n <= y
      BY <3>1
    <3>3. n \notin S
      BY <3>2
    <3>4. \A y \in S : y # n
      BY <3>3
    <3>5. \A y \in S : n < y
      BY <3>1, <3>2, <3>4
    <3>6. QED BY <3>1, <3>5
  <2> HIDE DEF P
  <2>3. s \in P
    <3>1. s \in Nat /\ s \in 0..s
      OBVIOUS
    <3>2. 0..s \subseteq P
      BY <2>1, <2>2, <3>1, Climbs
    <3>3. QED BY <3>1, <3>2
  <2>4. QED BY <2>3 DEF P
<1>3. QED BY <1>2, Zenon DEF Min

(* A plan that starts with a wait is due no sooner than after its hours.   *)
LEMMA LeadsIn ==
  ASSUME NEW steps \in Seq(Timed), steps # <<>>, Action(steps[1].action).schedule, Acts(steps)
  PROVE  LeadIn(steps) >= steps[1].hours
<1> DEFINE I == {n \in 1..Len(steps) : ~Action(steps[n].action).schedule}
           first == IF I # {} THEN Min(I) ELSE 0
           waits == IF first = 0 THEN steps ELSE SubSeq(steps, 1, first - 1)
<1>1. Len(steps) \in Nat /\ \A n \in 1..Len(steps) : steps[n] \in Timed
  BY LenProperties, ElementOfSeq
<1>2. LeadIn(steps) = HoursOf(waits)
  BY DEF LeadIn, HoursOf, SelectInSeq
<1>3. first # 0
  BY DEF Acts, SelectInSeq
<1>4. I # {} /\ I \in SUBSET Nat /\ 1 \notin I
  BY <1>1, <1>3
<1>5. first \in I
  <2> HIDE DEF I
  <2>1. QED BY <1>4, LeastOf
<1>6. first \in 2..Len(steps)
  BY <1>1, <1>4, <1>5
<1> HIDE DEF I, first
<1>7. waits = SubSeq(steps, 1, first - 1)
  BY <1>3
<1>8. /\ waits \in Seq(Timed) /\ Len(waits) = first - 1
      /\ waits[1] = steps[1]
  <2> HIDE DEF waits
  <2>1. 1 \in Int /\ first - 1 \in Int /\ \A n \in 1..(first - 1) : steps[n] \in Timed
    BY <1>1, <1>6
  <2>2. /\ SubSeq(steps, 1, first - 1) \in Seq(Timed)
        /\ Len(SubSeq(steps, 1, first - 1))
             = IF 1 <= first - 1 THEN (first - 1) - 1 + 1 ELSE 0
        /\ \A n \in 1..((first - 1) - 1 + 1) :
             SubSeq(steps, 1, first - 1)[n] = steps[1 + n - 1]
    BY <2>1, SubSeqProperties
  <2>3. QED BY <1>6, <1>7, <2>2
<1> HIDE DEF waits
<1>9. waits # <<>>
  BY <1>6, <1>8
<1>10. QED BY <1>2, <1>8, <1>9, FirstWaitCounts

(* A plan of the tables is of timed steps.                                 *)
LEMMA TabledSteps ==
  ASSUME NEW i, NEW p \in Plan0(i)
  PROVE  p.steps \in Seq(Timed)
<1>1. PICK e, b \in Range(Playbooks) : p = [cause |-> e.cause, steps |-> b.steps]
  BY DEF Plan0, Resolved, PlaybookFor
<1>2. QED BY <1>1, MandateAssumption DEF Timed

LEMMA NoticeGiven ==
  ASSUME NEW c \in Cases, NEW i \in Inputs[c], i.rail \in MandateRails,
         NEW p \in Plan0(i), NEW steps, steps = Tier0Steps(Facts(i), p, i.amount),
         Acts(steps)
  PROVE  IF i.mandate = "active" THEN LeadIn(steps) >= Notice ELSE steps = Update
<1> DEFINE facts == Facts(i)
           mandate == Sequenced(facts)
           usable == PermittedSteps(i.rail, mandate.steps)
           after == PermittedSteps(i.rail, p.steps)
<1>1. /\ facts.rail = i.rail /\ facts.state = i.mandate
      /\ facts.overCap = FALSE /\ facts.notified = -1
  BY DEF Facts
<1>2. i.mandate \in {"active", "paused", "revoked"}
  BY MandateAssumption
<1>3. steps = IF usable # <<>> THEN IF mandate.permitted THEN usable \o after ELSE usable
              ELSE steps
  BY <1>1 DEF Tier0Steps
<1>4. CASE i.mandate = "active"
  <2> DEFINE Waits == {Step("await_mandate_prerequisite", DefaultHours),
                       Step("await_provider_retry", Notice)}
             notice == <<Step("await_mandate_prerequisite", DefaultHours),
                         Step("await_provider_retry", Notice)>>
  <2>1. mandate = [permitted |-> TRUE, steps |-> notice]
    BY <1>1, <1>4 DEF Sequenced
  <2>2. notice \in Seq(Waits) /\ Len(notice) = 2
    OBVIOUS
  <2>3. /\ notice[1].action = "await_mandate_prerequisite"
        /\ notice[2].action = "await_provider_retry"
    BY DEF Step
  <2>4. \E n \in 1..Len(notice) : notice[n].action \in Allowed[i.rail]
    <3>1. SequencersWaits \cap Allowed[i.rail] # {}
      BY MandateAssumption
    <3>2. 1 \in 1..Len(notice) /\ 2 \in 1..Len(notice)
      BY <2>2
    <3> HIDE DEF notice
    <3>3. QED BY <2>3, <3>1, <3>2 DEF SequencersWaits
  <2>5. \A w \in Waits : w \in Timed /\ w.hours = Notice /\ Action(w.action).schedule
    <3>1. \A id \in SequencersWaits : Action(id).schedule
      BY MandateAssumption
    <3>2. \A w \in Waits : w \in Timed /\ w.hours = Notice /\ w.action \in SequencersWaits
      <4>1. ASSUME NEW id \in SequencersWaits
            PROVE  LET w == Step(id, Notice)
                   IN  w \in Timed /\ w.hours = Notice /\ w.action \in SequencersWaits
        <5>1. Step(id, Notice).hours = 24 /\ Step(id, Notice).action = id
          BY DEF Step, Notice
        <5>2. id \in ActionIds /\ 24 \in Nat
          BY MandateAssumption
        <5>3. Step(id, Notice) \in Timed
          BY <5>2 DEF Step, Notice, Timed
        <5>4. QED BY <5>1, <5>3 DEF Notice
      <4>2. \A w \in Waits : \E id \in SequencersWaits : w = Step(id, Notice)
        BY DEF Notice, DefaultHours, SequencersWaits
      <4>3. SUFFICES ASSUME NEW w \in Waits
                     PROVE  w \in Timed /\ w.hours = Notice /\ w.action \in SequencersWaits
        OBVIOUS
      <4> HIDE DEF Waits
      <4>4. PICK id \in SequencersWaits : w = Step(id, Notice)
        BY <4>2
      <4>5. QED BY <4>1, <4>4
    <3> HIDE DEF Waits
    <3>3. QED BY <3>1, <3>2
  <2> HIDE DEF Waits, notice
  <2>6. usable \in Seq(Waits) /\ usable # <<>>
    <3>1. usable = PermittedSteps(i.rail, notice)
      BY <2>1
    <3> HIDE DEF usable, mandate
    <3>2. QED BY <2>2, <2>4, <3>1, Permitting
  <2>7. after \in Seq(Timed)
    BY TabledSteps, Permitting
  <2>8. steps = usable \o after
    BY <1>3, <2>1, <2>6
  <2> HIDE DEF usable, after, mandate
  <2>9. usable \in Seq(Timed) /\ 1 \in 1..Len(usable) /\ usable[1] \in Waits
    <3>1. Len(usable) \in Nat /\ Len(usable) # 0
      BY <2>6, LenProperties, EmptySeq
    <3>2. 1 \in 1..Len(usable) /\ \A n \in 1..Len(usable) : usable[n] \in Waits
      BY <2>6, <3>1, ElementOfSeq
    <3>3. usable \in Seq(Timed)
      BY <2>5, <2>6, <3>2
    <3>4. QED BY <3>2, <3>3
  <2>10. /\ steps \in Seq(Timed) /\ steps # <<>>
         /\ steps[1] = usable[1]
    <3>1. Len(usable) \in Nat /\ Len(after) \in Nat
      BY <2>7, <2>9, LenProperties
    <3>2. /\ usable \o after \in Seq(Timed)
          /\ Len(usable \o after) = Len(usable) + Len(after)
          /\ (usable \o after)[1] = usable[1]
      BY <2>7, <2>9, <3>1, ConcatProperties
    <3>3. usable \o after # <<>>
      BY <2>9, <3>1, <3>2, EmptySeq
    <3>4. QED BY <2>8, <3>2, <3>3
  <2>11. LeadIn(steps) >= steps[1].hours /\ steps[1].hours = Notice
    BY <2>5, <2>9, <2>10, LeadsIn
  <2>12. QED BY <1>4, <2>11
<1>5. CASE i.mandate # "active"
  <2>1. mandate = [permitted |-> FALSE, steps |-> Update]
    BY <1>1, <1>2, <1>5 DEF Sequenced
  <2>2. Update \in Seq({Update[1]}) /\ Len(Update) = 1
    BY DEF Update
  <2>3. \A n \in 1..Len(Update) : Update[n].action \in Allowed[i.rail]
    <3>1. Update[1].action = "request_payment_method_update"
      BY DEF Update, Step
    <3>2. \A n \in 1..Len(Update) : n = 1
      BY <2>2
    <3>3. QED BY <3>1, <3>2, MandateAssumption
  <2>4. PermittedSteps(i.rail, Update) = Update
    BY <2>2, <2>3, Permitting
  <2>5. Update # <<>>
    BY DEF Update
  <2>6. usable = Update /\ mandate.permitted = FALSE
    BY <2>1, <2>4
  <2> HIDE DEF usable, after, mandate
  <2>7. QED BY <1>3, <1>5, <2>5, <2>6
<1>6. QED BY <1>4, <1>5

-----------------------------------------------------------------------------
IInv == Base /\ Tended /\ OneAnswer /\ Sourced /\ OutageMakesNoPlan /\ Drawn /\ Tabled

LEMMA InitInvariant == Init => IInv
<1> SUFFICES ASSUME Init PROVE IInv
  OBVIOUS
<1>1. TypeOK
  BY InitTyped
<1>2. \A c \in Cases : pc[c] = "waiting" /\ diag[c].rival = "idle"
  BY DiagnosisTypes DEF Init
<1>3. /\ calls = {} /\ replied = {} /\ late = {}
      /\ \A k \in Keys : cache[k] = None /\ acted[k] = {}
  BY DEF Init
<1>4. Sound /\ Phases
  BY <1>2, <1>3, KeyTypes DEF Sound, Phases
<1>5. Tended
  BY InitTended
<1>6. OneAnswer
  BY <1>3 DEF OneAnswer, ActedFromCache
<1>7. Sourced /\ OutageMakesNoPlan /\ Tabled
  BY <1>2 DEF Sourced, OutageMakesNoPlan, Tabled
<1>8. Drawn
  BY <1>3 DEF Drawn, RepliesFollowPlans, RoutedAreCleared
<1>9. QED BY <1>1, <1>4, <1>5, <1>6, <1>7, <1>8 DEF IInv, Base

(* The inductive invariant: each part is kept given the ones before it.    *)
THEOREM Invariance == Spec => []IInv
<1>1. IInv /\ [Next]_vars => IInv'
  <2> SUFFICES ASSUME IInv, [Next]_vars PROVE IInv'
    OBVIOUS
  <2>1. TypeOK' /\ Sound' /\ Phases'
    BY StepTyped, StepSound, StepPhases DEF IInv, Base
  <2>2. Tended'
    BY StepTended DEF IInv
  <2>3. OneAnswer'
    BY StepOneAnswer DEF IInv, Base
  <2>4. Sourced' /\ OutageMakesNoPlan'
    BY StepSourced, StepMakesNoPlan DEF IInv
  <2>5. Drawn'
    BY StepDrawn DEF IInv
  <2>6. Tabled'
    BY StepTabled DEF IInv
  <2>7. QED BY <2>1, <2>2, <2>3, <2>4, <2>5, <2>6 DEF IInv, Base
<1>2. QED BY InitInvariant, <1>1, PTL DEF Spec

(* Phase A and its provider keep the types of their tables and calls       *)
(* (runner.ts, runtime.ts, cached-provider.ts).                            *)
THEOREM TypeCorrect == Spec => []TypeOK
<1>1. IInv => TypeOK
  BY DEF IInv, Base
<1>2. QED BY Invariance, <1>1, PTL

(* Two answers are acted on for one input, in whatever batches and over    *)
(* crashes, only if one of its calls outlived its role: withTimeout in     *)
(* runtime.ts leaves the call running, and the cache keeps what it stores. *)
THEOREM SecondAnswers == Spec => []SecondAnswerNeedsLateCall
<1>1. ASSUME IInv PROVE SecondAnswerNeedsLateCall
  <2>1. SUFFICES ASSUME NEW k \in Keys, k \notin late PROVE Cardinality(acted[k]) <= 1
    BY DEF SecondAnswerNeedsLateCall
  <2>2. acted[k] = {} \/ acted[k] = {cache[k]}
    BY <1>1, <2>1 DEF IInv, OneAnswer, ActedFromCache
  <2>3. Cardinality({}) = 0 /\ Cardinality({cache[k]}) = 1
    BY FS_EmptySet, FS_Singleton
  <2>4. QED BY <2>2, <2>3
<1>2. IInv => SecondAnswerNeedsLateCall
  BY <1>1
<1>3. QED BY Invariance, <1>2, PTL

(* A case that the tables do not resolve and no provider has judged is     *)
(* escalated or left alone, however the provider fails (the reducer and    *)
(* the runner's Tier 1 branch).                                            *)
THEOREM OutagesMakeNoPlan == Spec => []OutageMakesNoPlan
<1>1. IInv => OutageMakesNoPlan
  BY DEF IInv
<1>2. QED BY Invariance, <1>1, PTL

(* No claim drawn without a customer's reply is live once the reply has    *)
(* been routed (WorkRouter.route invalidates what depends on it).          *)
THEOREM ContextsAreCurrent == Spec => []ContextIsCurrent
<1>1. ASSUME IInv PROVE ContextIsCurrent
  <2>1. \A c \in replied : c # None
    BY <1>1, DeliberationAssumption DEF IInv, Base, TypeOK
  <2>2. QED BY <1>1, <2>1 DEF IInv, Drawn, RoutedAreCleared, ContextIsCurrent, Answering
<1>2. IInv => ContextIsCurrent
  BY <1>1
<1>3. QED BY Invariance, <1>2, PTL

(* On a mandate rail a case that the tables resolve has its notice a day   *)
(* before its first action, and where no debit can succeed it does nothing *)
(* but ask for another way to pay, for any tables that keep to             *)
(* MandateAssumption (MandateRetrySequencer, and advancePlan in runner.ts).*)
THEOREM NoticeGivesADay == Spec => []NoticeBeforeAction
<1>1. ASSUME IInv PROVE NoticeBeforeAction
  <2>1. SUFFICES ASSUME NEW c \in Cases, pc[c] = "done", Plan0(input[c]) # {},
                        input[c].rail \in MandateRails, Acts(plan[c])
                 PROVE  IF input[c].mandate = "active"
                        THEN LeadIn(plan[c]) >= Notice
                        ELSE plan[c] = Update
    BY DEF NoticeBeforeAction
  <2>2. input[c] \in Inputs[c]
    BY <1>1 DEF IInv, Base, TypeOK
  <2>3. PICK p \in Plan0(input[c]) :
          plan[c] = Tier0Steps(Facts(input[c]), p, input[c].amount)
    BY <1>1, <2>1, Zenon DEF IInv, Tabled, IsTabled
  <2>4. QED BY <2>1, <2>2, <2>3, NoticeGiven
<1>2. IInv => NoticeBeforeAction
  BY <1>1
<1>3. QED BY Invariance, <1>2, PTL
=============================================================================
