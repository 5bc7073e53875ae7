------------------------- MODULE RecoveryLoopProofs -------------------------
(***************************************************************************)
(* Theorems about RecoveryLoop, for any plans, actions, quiet hours, caps, *)
(* graces, horizon and number of incidents.  The first five look neither   *)
(* into a row nor into a plan; what is in them is in the last two.         *)
(***************************************************************************)
EXTENDS RecoveryLoop, FiniteSetTheorems, SequenceTheorems, TLAPS

(* A case record, and what makes a value one; rows and steps may be        *)
(* anything.                                                               *)
Made(s, r, t, n, b, d) ==
  [state |-> s, rows |-> r, steps |-> t, no |-> n, closed |-> b, died |-> d]

IsRecord(c) == c = Made(c.state, c.rows, c.steps, c.no, c.closed, c.died)

IsCase(c) ==
  /\ IsRecord(c)
  /\ c.state \in CaseStates
  /\ c.closed \in BOOLEAN /\ c.died \in BOOLEAN

Suppressed == case.state = "SUPPRESSED_BY_INCIDENT"

(* A case no plan was started for is untouched.                            *)
DetectedIsBlank ==
  case.state = "DETECTED" =>
    /\ case.rows = <<>> /\ case.steps = NoPlan
    /\ \A i \in Incidents : member[i] = "out"

(* Where a handler leaves a case as long as no attempt was repeated.       *)
Resting == {"DETECTED", "PLANNING", "SCHEDULED", "OBSERVING", "SUPPRESSED_BY_INCIDENT"}

RestsUnlessRepeated ==
  ~repeated => ~case.died /\ case.state \in Resting \cup TerminalStates

IInv ==
  /\ IsCase(case) /\ repeated \in BOOLEAN
  /\ member \in [Incidents -> {"out", "parked", "released", "over"}]
  /\ ClosedIsQuiet
  /\ SuppressedIsHeld
  /\ DetectedIsBlank
  /\ RestsUnlessRepeated

-----------------------------------------------------------------------------
(* The fields of a case record, and the record with one of them replaced.  *)
LEMMA Fields ==
  ASSUME NEW s, NEW r, NEW t, NEW n, NEW b, NEW d
  PROVE  /\ IsRecord(Made(s, r, t, n, b, d))
         /\ Made(s, r, t, n, b, d).state = s /\ Made(s, r, t, n, b, d).rows = r
         /\ Made(s, r, t, n, b, d).steps = t /\ Made(s, r, t, n, b, d).no = n
         /\ Made(s, r, t, n, b, d).closed = b /\ Made(s, r, t, n, b, d).died = d
  BY DEF Made, IsRecord

LEMMA Replacing ==
  ASSUME NEW c, IsRecord(c)
  PROVE  /\ \A s : [c EXCEPT !.state = s] = Made(s, c.rows, c.steps, c.no, c.closed, c.died)
         /\ \A r : [c EXCEPT !.rows = r] = Made(c.state, r, c.steps, c.no, c.closed, c.died)
         /\ \A t : [c EXCEPT !.steps = t] = Made(c.state, c.rows, t, c.no, c.closed, c.died)
         /\ \A n : [c EXCEPT !.no = n] = Made(c.state, c.rows, c.steps, n, c.closed, c.died)
         /\ \A b : [c EXCEPT !.closed = b] = Made(c.state, c.rows, c.steps, c.no, b, c.died)
         /\ \A d : [c EXCEPT !.died = d] = Made(c.state, c.rows, c.steps, c.no, c.closed, d)
<1>1. ASSUME NEW s, NEW r, NEW t, NEW n, NEW b, NEW d
      PROVE  /\ [c EXCEPT !.state = s] = Made(s, c.rows, c.steps, c.no, c.closed, c.died)
             /\ [c EXCEPT !.rows = r] = Made(c.state, r, c.steps, c.no, c.closed, c.died)
             /\ [c EXCEPT !.steps = t] = Made(c.state, c.rows, t, c.no, c.closed, c.died)
             /\ [c EXCEPT !.no = n] = Made(c.state, c.rows, c.steps, n, c.closed, c.died)
             /\ [c EXCEPT !.closed = b] = Made(c.state, c.rows, c.steps, c.no, b, c.died)
             /\ [c EXCEPT !.died = d] = Made(c.state, c.rows, c.steps, c.no, c.closed, d)
  BY DEF IsRecord, Made
<1>2. QED BY <1>1

(* More than one field at once, as the runner does it.                     *)
LEMMA ReplacingTwo ==
  ASSUME NEW c, IsRecord(c), NEW r, NEW t, NEW n
  PROVE  /\ [c EXCEPT !.steps = t, !.no = n] = Made(c.state, c.rows, t, n, c.closed, c.died)
         /\ [c EXCEPT !.steps = t, !.rows = r] = Made(c.state, r, t, c.no, c.closed, c.died)
         /\ [c EXCEPT !.rows = r, !.steps = t] = Made(c.state, r, t, c.no, c.closed, c.died)
<1> DEFINE p == [c EXCEPT !.steps = t]
           q == [c EXCEPT !.rows = r]
<1>1. /\ [c EXCEPT !.steps = t, !.no = n] = [p EXCEPT !.no = n]
      /\ [c EXCEPT !.steps = t, !.rows = r] = [p EXCEPT !.rows = r]
      /\ [c EXCEPT !.rows = r, !.steps = t] = [q EXCEPT !.steps = t]
  OBVIOUS
<1>2. /\ p = Made(c.state, c.rows, t, c.no, c.closed, c.died)
      /\ q = Made(c.state, r, c.steps, c.no, c.closed, c.died)
  BY Replacing
<1> HIDE DEF p, q
<1>3. /\ IsRecord(p) /\ p.state = c.state /\ p.rows = c.rows /\ p.steps = t /\ p.no = c.no
      /\ p.closed = c.closed /\ p.died = c.died
  BY <1>2, Fields
<1>4. /\ IsRecord(q) /\ q.state = c.state /\ q.rows = r /\ q.steps = c.steps /\ q.no = c.no
      /\ q.closed = c.closed /\ q.died = c.died
  BY <1>2, Fields
<1>5. /\ [p EXCEPT !.no = n] = Made(c.state, c.rows, t, n, c.closed, c.died)
      /\ [p EXCEPT !.rows = r] = Made(c.state, r, t, c.no, c.closed, c.died)
  BY <1>3, Replacing
<1>6. [q EXCEPT !.steps = t] = Made(c.state, r, t, c.no, c.closed, c.died)
  BY <1>4, Replacing
<1>7. QED BY <1>1, <1>5, <1>6

LEMMA ReplacingThree ==
  ASSUME NEW c, IsRecord(c), NEW r, NEW t
  PROVE  [c EXCEPT !.rows = r, !.steps = t, !.closed = TRUE]
           = Made(c.state, r, t, c.no, TRUE, c.died)
<1> DEFINE p == [c EXCEPT !.rows = r, !.steps = t]
<1>1. [c EXCEPT !.rows = r, !.steps = t, !.closed = TRUE] = [p EXCEPT !.closed = TRUE]
  OBVIOUS
<1>2. p = Made(c.state, r, t, c.no, c.closed, c.died)
  BY ReplacingTwo
<1> HIDE DEF p
<1>3. /\ IsRecord(p) /\ p.state = c.state /\ p.rows = r /\ p.steps = t /\ p.no = c.no
      /\ p.died = c.died
  BY <1>2, Fields
<1>4. \A b : [p EXCEPT !.closed = b] = Made(c.state, r, t, c.no, b, c.died)
  BY <1>3, Replacing
<1>5. [p EXCEPT !.closed = TRUE] = Made(c.state, r, t, c.no, TRUE, c.died)
  BY <1>4, Zenon
<1>6. QED BY <1>1, <1>5

LEMMA Scheduling ==
  ASSUME NEW c, IsRecord(c), NEW r, NEW t
  PROVE  [c EXCEPT !.steps = t, !.rows = Append(@, r)]
           = Made(c.state, Append(c.rows, r), t, c.no, c.closed, c.died)
<1>1. [c EXCEPT !.steps = t, !.rows = Append(@, r)]
        = [c EXCEPT !.steps = t, !.rows = Append([c EXCEPT !.steps = t].rows, r)]
  OBVIOUS
<1>2. [c EXCEPT !.steps = t].rows = c.rows
  BY Replacing, Fields
<1>3. QED BY <1>1, <1>2, ReplacingTwo

LEMMA MadeIsCase ==
  ASSUME NEW s \in CaseStates, NEW r, NEW t, NEW n, NEW b \in BOOLEAN, NEW d \in BOOLEAN
  PROVE  IsCase(Made(s, r, t, n, b, d))
  BY Fields DEF IsCase

(* The moves the runner makes, and what no event of its own leads to.      *)
LEMMA Moves ==
  /\ CanTransition("DIAGNOSING", "PLANNING")
  /\ CanTransition("PLANNING", "SCHEDULED")
  /\ CanTransition("EXECUTING", "OBSERVING")
  /\ CanTransition("OBSERVING", "SCHEDULED")
  /\ CanTransition("SUPPRESSED_BY_INCIDENT", "SCHEDULED")
  /\ CanTransition("SCHEDULED", "EXECUTING")
  /\ \A s \in {"PLANNING", "SCHEDULED", "OBSERVING"} : CanTransition(s, "SCHEDULED")
  /\ \A s \in CaseStates \ TerminalStates : CanTransition(s, "SUPPRESSED_BY_INCIDENT")
  /\ \A s \in CaseStates \ TerminalStates, t \in TerminalStates : CanTransition(s, t)
  /\ \A s \in TerminalStates, t \in CaseStates \ TerminalStates : ~CanTransition(s, t)
  BY DEF CanTransition, IsTerminal, Legal, LiveStates, CaseStates, TerminalStates

LEMMA Targets ==
  /\ \A s : TargetState(Plain("action_scheduled"), s) = "SCHEDULED"
  /\ \A s : TargetState(Plain("approval_granted"), s) = "EXECUTING"
  /\ \A s : TargetState(Plain("action_executed"), s) = "OBSERVING"
  /\ \A s : TargetState(Plain("plan_proposed"), s) = "PLANNING"
  /\ \A s : TargetState(Plain("incident_attached"), s) = "SUPPRESSED_BY_INCIDENT"
  /\ \A s : TargetState(Plain("incident_released"), s) = "SCHEDULED"
  /\ \A s : TargetState(Plain("outcome_observed"), s) = IF s = "EXECUTING" THEN "OBSERVING" ELSE s
  /\ \A s : TargetState([type |-> "diagnosis_started", tier |-> 0], s) = "DIAGNOSING"
  /\ \A s, t : TargetState(Terminal(t), s) = t
  BY DEF TargetState, Plain, Terminal, Drives

(* append moves the state or ends the batch, and touches nothing else.     *)
Moved(c, s) ==
  IF CanTransition(c.state, s)
  THEN Made(s, c.rows, c.steps, c.no, c.closed, c.died)
  ELSE Made(c.state, c.rows, c.steps, c.no, c.closed, TRUE)

LEMMA PostMoves ==
  ASSUME NEW c, IsCase(c), NEW e
  PROVE  Post(c, e) = Moved(c, TargetState(e, c.state))
<1>1. IsRecord(c)
  BY DEF IsCase
<1>2. QED BY <1>1, Replacing DEF Post, Moved

LEMMA Events ==
  ASSUME NEW c, IsCase(c)
  PROVE  /\ Post(c, Plain("action_scheduled")) = Moved(c, "SCHEDULED")
         /\ Post(c, Plain("approval_granted")) = Moved(c, "EXECUTING")
         /\ Post(c, Plain("action_executed")) = Moved(c, "OBSERVING")
         /\ Post(c, Plain("plan_proposed")) = Moved(c, "PLANNING")
         /\ Post(c, Plain("incident_attached")) = Moved(c, "SUPPRESSED_BY_INCIDENT")
         /\ Post(c, Plain("incident_released")) = Moved(c, "SCHEDULED")
         /\ Post(c, Plain("outcome_observed"))
              = Moved(c, IF c.state = "EXECUTING" THEN "OBSERVING" ELSE c.state)
         /\ Post(c, [type |-> "diagnosis_started", tier |-> 0]) = Moved(c, "DIAGNOSING")
         /\ \A t : Post(c, Terminal(t)) = Moved(c, t)
  BY PostMoves, Targets

LEMMA MovedIsCase ==
  ASSUME NEW c, IsCase(c), NEW s \in CaseStates
  PROVE  IsCase(Moved(c, s))
  BY MadeIsCase DEF Moved, IsCase

-----------------------------------------------------------------------------
(* A closing event, on a case that is not closed yet.                      *)
LEMMA ClosingEnds ==
  ASSUME NEW c, IsCase(c), c.state \notin TerminalStates, NEW s \in TerminalStates
  PROVE  /\ Close(c, s) = Made(s, <<>>, NoPlan, c.no, TRUE, c.died)
         /\ [Post(c, Terminal(s)) EXCEPT !.rows = <<>>]
              = Made(s, <<>>, c.steps, c.no, c.closed, c.died)
<1> DEFINE p == Post(c, Terminal(s))
<1>1. CanTransition(c.state, s)
  BY Moves DEF CaseStates, IsCase
<1>2. p = Made(s, c.rows, c.steps, c.no, c.closed, c.died)
  BY <1>1, Events DEF Moved
<1>3. Close(c, s) = [p EXCEPT !.rows = <<>>, !.steps = NoPlan, !.closed = TRUE]
  BY DEF Close
<1> HIDE DEF p
<1>4. /\ IsRecord(p) /\ p.state = s /\ p.steps = c.steps /\ p.no = c.no
      /\ p.closed = c.closed /\ p.died = c.died
  BY <1>2, Fields
<1>5. [p EXCEPT !.rows = <<>>] = Made(s, <<>>, c.steps, c.no, c.closed, c.died)
  BY <1>4, Replacing
<1>6. [p EXCEPT !.rows = <<>>, !.steps = NoPlan, !.closed = TRUE]
        = Made(s, <<>>, NoPlan, c.no, TRUE, c.died)
  <2>1. [p EXCEPT !.rows = <<>>, !.steps = NoPlan, !.closed = TRUE]
          = Made(p.state, <<>>, NoPlan, p.no, TRUE, p.died)
    BY <1>4, ReplacingThree
  <2>2. QED BY <1>4, <2>1
<1>7. QED BY <1>3, <1>5, <1>6 DEF p

LEMMA ParkingHolds ==
  ASSUME NEW c, IsCase(c), c.state \notin TerminalStates
  PROVE  Park(c) = Made("SUPPRESSED_BY_INCIDENT", <<>>, c.steps, c.no, c.closed, c.died)
<1> DEFINE p == Post(c, Plain("incident_attached"))
<1>1. CanTransition(c.state, "SUPPRESSED_BY_INCIDENT")
  BY Moves DEF CaseStates, IsCase
<1>2. p = Made("SUPPRESSED_BY_INCIDENT", c.rows, c.steps, c.no, c.closed, c.died)
  BY <1>1, Events DEF Moved
<1>3. Park(c) = [p EXCEPT !.rows = <<>>]
  BY DEF Park
<1> HIDE DEF p
<1>4. /\ IsRecord(p) /\ p.state = "SUPPRESSED_BY_INCIDENT" /\ p.steps = c.steps
      /\ p.no = c.no /\ p.closed = c.closed /\ p.died = c.died
  BY <1>2, Fields
<1>5. QED BY <1>3, <1>4, Replacing

(* c2 is c with its next step scheduled, or c with nothing to schedule, or *)
(* c when the scheduling has ended the batch.                              *)
Rescheduled(c, c2) ==
  /\ IsCase(c2) /\ c2.closed = c.closed
  /\ \/ c2.state = c.state /\ c2.died = c.died
     \/ c2.state = "SCHEDULED" /\ c2.died = c.died
     \/ c2.state = c.state /\ c2.died = TRUE /\ ~CanTransition(c.state, "SCHEDULED")

LEMMA AdvanceReschedules ==
  ASSUME NEW c, IsCase(c), NEW delay
  PROVE  Rescheduled(c, Advance(c, delay))
<1> DEFINE waits == LeadingWaits(Known(c))
           rest  == SubSeq(Known(c), Len(waits) + 1, Len(Known(c)))
           row   == [at |-> now + delay + DelayOf(waits), action |-> Head(rest),
                     no |-> c.no, leased |-> FALSE]
           spent == [c EXCEPT !.steps = <<>>]
           next  == [c EXCEPT !.steps = Tail(rest), !.rows = Append(@, row)]
<1>1. Advance(c, delay) \in {c, spent, Post(next, Plain("action_scheduled"))}
  <2>1. CASE Known(c) = <<>>
    BY <2>1 DEF Advance
  <2>2. CASE Known(c) # <<>> /\ rest = <<>>
    BY <2>2 DEF Advance
  <2>3. CASE Known(c) # <<>> /\ rest # <<>>
    BY <2>3 DEF Advance
  <2>4. QED BY <2>1, <2>2, <2>3
<1>2. IsRecord(c) /\ c.closed \in BOOLEAN /\ c.died \in BOOLEAN /\ c.state \in CaseStates
  BY DEF IsCase
<1>3. "SCHEDULED" \in CaseStates
  BY DEF CaseStates, LiveStates
<1>4. Rescheduled(c, c)
  BY DEF Rescheduled
<1>5. Rescheduled(c, spent)
  <2>1. spent = Made(c.state, c.rows, <<>>, c.no, c.closed, c.died)
    BY <1>2, Replacing
  <2> HIDE DEF spent
  <2>2. IsCase(spent) /\ spent.state = c.state /\ spent.closed = c.closed /\ spent.died = c.died
    BY <1>2, <2>1, Fields, MadeIsCase
  <2>3. QED BY <2>2 DEF Rescheduled
<1>6. Rescheduled(c, Post(next, Plain("action_scheduled")))
  <2>1. next = Made(c.state, Append(c.rows, row), Tail(rest), c.no, c.closed, c.died)
    <3> HIDE DEF rest, row
    <3> QED BY <1>2, Scheduling
  <2> HIDE DEF next
  <2>2. /\ IsCase(next) /\ next.state = c.state /\ next.closed = c.closed
        /\ next.died = c.died
    <3> HIDE DEF rest, row
    <3> QED BY <1>2, <2>1, Fields, MadeIsCase
  <2>3. Post(next, Plain("action_scheduled")) = Moved(next, "SCHEDULED")
    BY <2>2, Events
  <2>4. IsCase(Moved(next, "SCHEDULED"))
    BY <1>3, <2>2, MovedIsCase
  <2>5. CASE CanTransition(c.state, "SCHEDULED")
    BY <2>2, <2>3, <2>4, <2>5, Fields DEF Rescheduled, Moved
  <2>6. CASE ~CanTransition(c.state, "SCHEDULED")
    <3> DEFINE dead == Post(next, Plain("action_scheduled"))
    <3>1. dead = Made(next.state, next.rows, next.steps, next.no, next.closed, TRUE)
      BY <2>2, <2>3, <2>6 DEF Moved
    <3>2. IsCase(dead)
      BY <2>3, <2>4
    <3> HIDE DEF dead
    <3>3. dead.state = c.state /\ dead.closed = c.closed /\ dead.died = TRUE
      BY <2>2, <3>1 DEF Made
    <3>4. QED BY <2>6, <3>2, <3>3 DEF Rescheduled, dead
  <2>7. QED BY <2>5, <2>6
<1> HIDE DEF spent, next
<1>7. QED BY <1>1, <1>4, <1>5, <1>6

(* A plan is started or it is not; when it is, nothing in it is illegal.   *)
Started(c, c2) ==
  /\ IsCase(c2) /\ c2.closed = c.closed /\ c2.died = c.died
  /\ ~c.closed /\ CanTransition(c.state, "DIAGNOSING")
  /\ c2.state \in {"PLANNING", "SCHEDULED"}

LEMMA StartingPlans ==
  ASSUME NEW c, IsCase(c), NEW plan, NEW delay
  PROVE  StartPlan(c, plan, delay) = c \/ Started(c, StartPlan(c, plan, delay))
<1>1. CASE plan = <<>> \/ c.closed \/ ~CanTransition(c.state, "DIAGNOSING")
  BY <1>1 DEF StartPlan
<1>2. CASE plan # <<>> /\ ~c.closed /\ CanTransition(c.state, "DIAGNOSING")
  <2> DEFINE fresh     == [c EXCEPT !.steps = plan, !.no = 0]
             diagnosed == Post(fresh, [type |-> "diagnosis_started", tier |-> 0])
             planned   == Post(diagnosed, Plain("plan_proposed"))
  <2>1. StartPlan(c, plan, delay) = Advance(planned, delay)
    BY <1>2 DEF StartPlan
  <2>2. IsRecord(c) /\ c.closed \in BOOLEAN /\ c.died \in BOOLEAN /\ c.state \in CaseStates
    BY DEF IsCase
  <2>3. "DIAGNOSING" \in CaseStates /\ "PLANNING" \in CaseStates
    BY DEF CaseStates, LiveStates
  <2>4. fresh = Made(c.state, c.rows, plan, 0, c.closed, c.died)
    BY <2>2, ReplacingTwo
  <2> HIDE DEF fresh
  <2>5. /\ IsCase(fresh) /\ fresh.state = c.state /\ fresh.closed = c.closed
        /\ fresh.died = c.died
    BY <2>2, <2>4, Fields, MadeIsCase
  <2>6. diagnosed = Made("DIAGNOSING", fresh.rows, fresh.steps, fresh.no, c.closed, c.died)
    BY <1>2, <2>5, Events DEF Moved
  <2> HIDE DEF diagnosed
  <2>7. /\ IsCase(diagnosed) /\ diagnosed.state = "DIAGNOSING"
        /\ diagnosed.closed = c.closed /\ diagnosed.died = c.died
    BY <2>2, <2>3, <2>6, Fields, MadeIsCase
  <2>8. planned = Made("PLANNING", diagnosed.rows, diagnosed.steps, diagnosed.no,
                       c.closed, c.died)
    BY <2>7, Events, Moves DEF Moved
  <2> HIDE DEF planned
  <2>9. /\ IsCase(planned) /\ planned.state = "PLANNING"
        /\ planned.closed = c.closed /\ planned.died = c.died
    BY <2>2, <2>3, <2>8, Fields, MadeIsCase
  <2>10. Rescheduled(planned, Advance(planned, delay))
    BY <2>9, AdvanceReschedules
  <2>11. QED BY <1>2, <2>1, <2>9, <2>10, Moves DEF Rescheduled, Started
<1>3. QED BY <1>1, <1>2

(* An approval brings a case that admits it to EXECUTING.                  *)
LEMMA ApprovalExecutes ==
  ASSUME NEW c, IsCase(c),
         CanTransition(c.state, "EXECUTING") \/ CanTransition(c.state, "SCHEDULED")
  PROVE  Approved(c) = Made("EXECUTING", c.rows, c.steps, c.no, c.closed, c.died)
<1>1. "SCHEDULED" \in CaseStates /\ c.closed \in BOOLEAN /\ c.died \in BOOLEAN
  BY DEF CaseStates, LiveStates, IsCase
<1>2. CASE CanTransition(c.state, "EXECUTING")
  BY <1>2, Events DEF Approved, Moved
<1>3. CASE ~CanTransition(c.state, "EXECUTING")
  <2> DEFINE d == Post(c, Plain("action_scheduled"))
  <2>1. Approved(c) = Post(d, Plain("approval_granted"))
    BY <1>3 DEF Approved
  <2>2. d = Made("SCHEDULED", c.rows, c.steps, c.no, c.closed, c.died)
    BY <1>3, Events DEF Moved
  <2> HIDE DEF d
  <2>3. /\ IsCase(d) /\ d.state = "SCHEDULED" /\ d.rows = c.rows /\ d.steps = c.steps
        /\ d.no = c.no /\ d.closed = c.closed /\ d.died = c.died
    BY <1>1, <2>2, Fields, MadeIsCase
  <2>4. Post(d, Plain("approval_granted")) = Moved(d, "EXECUTING")
    BY <2>3, Events
  <2>5. QED BY <2>1, <2>3, <2>4, Moves DEF Moved
<1>4. QED BY <1>2, <1>3
-----------------------------------------------------------------------------
LEMMA InitEstablishes == Init => IInv
<1> SUFFICES ASSUME Init PROVE IInv
  OBVIOUS
<1>1. PICK plan, delay : case = StartPlan(NewCase, plan, delay)
  BY DEF Init
<1>2. /\ IsCase(NewCase) /\ NewCase.state = "DETECTED" /\ NewCase.rows = <<>>
      /\ NewCase.steps = NoPlan /\ NewCase.closed = FALSE /\ NewCase.died = FALSE
  BY DEF NewCase, IsCase, IsRecord, Made, CaseStates, LiveStates
<1>3. case = NewCase \/ Started(NewCase, case)
  BY <1>1, <1>2, StartingPlans
<1>4. /\ IsCase(case) /\ ~case.closed /\ ~case.died
      /\ case.state \in {"DETECTED", "PLANNING", "SCHEDULED"}
      /\ case.state = "DETECTED" => case.rows = <<>> /\ case.steps = NoPlan
  BY <1>2, <1>3 DEF Started
<1>5. /\ repeated \in BOOLEAN
      /\ member \in [Incidents -> {"out", "parked", "released", "over"}]
      /\ \A i \in Incidents : member[i] = "out"
  BY DEF Init
<1>6. ClosedIsQuiet /\ SuppressedIsHeld
  BY <1>4 DEF ClosedIsQuiet, SuppressedIsHeld, IsTerminal, TerminalStates
<1>7. DetectedIsBlank /\ RestsUnlessRepeated
  BY <1>4, <1>5 DEF DetectedIsBlank, RestsUnlessRepeated, Resting
<1>8. QED BY <1>4, <1>5, <1>6, <1>7 DEF IInv

(* Three ways a step keeps IInv: it leaves the case alone, ...             *)
LEMMA UntouchedKeeps ==
  ASSUME IInv, UNCHANGED <<case, member, repeated>>, phase' = "over" \/ phase # "over"
  PROVE  IInv'
  BY DEF IInv, ClosedIsQuiet, SuppressedIsHeld, DetectedIsBlank, RestsUnlessRepeated

(* ... it closes the case, ...                                             *)
LEMMA ClosedKeeps ==
  ASSUME IInv, NEW s \in TerminalStates, NEW n,
         case' = Made(s, <<>>, NoPlan, n, TRUE, case.died),
         UNCHANGED <<member, repeated>>
  PROVE  IInv'
<1>1. /\ case'.state = s /\ case'.rows = <<>> /\ case'.steps = NoPlan
      /\ case'.closed = TRUE /\ case'.died = case.died
  BY DEF Made
<1>2. IsCase(case')
  <2>1. s \in CaseStates /\ case.died \in BOOLEAN
    BY DEF CaseStates, IInv, IsCase
  <2>2. QED BY <2>1, MadeIsCase
<1>3. ClosedIsQuiet'
  BY <1>1 DEF ClosedIsQuiet, IsTerminal
<1>4. SuppressedIsHeld' /\ DetectedIsBlank'
  BY <1>1 DEF SuppressedIsHeld, DetectedIsBlank, TerminalStates
<1>5. RestsUnlessRepeated'
  BY <1>1 DEF RestsUnlessRepeated, IInv
<1>6. QED BY <1>2, <1>3, <1>4, <1>5 DEF IInv

(* ... or it leaves the case at work.                                      *)
AtWork == LiveStates \ {"DETECTED", "SUPPRESSED_BY_INCIDENT"}

LEMMA AtWorkKeeps ==
  ASSUME IInv, IsCase(case'), ~case'.closed, case'.state \in AtWork,
         member' \in [Incidents -> {"out", "parked", "released", "over"}],
         repeated' \in BOOLEAN, RestsUnlessRepeated'
  PROVE  IInv'
  BY DEF IInv, ClosedIsQuiet, SuppressedIsHeld, DetectedIsBlank, AtWork, IsTerminal,
         LiveStates, TerminalStates

(* A case with a row is at work.                                           *)
LEMMA RowMeansAtWork ==
  ASSUME IInv, phase # "over", NEW k \in DOMAIN case.rows
  PROVE  case.state \in AtWork /\ ~case.closed
<1>1. case.rows # <<>>
  OBVIOUS
<1>2. QED BY <1>1 DEF IInv, IsCase, ClosedIsQuiet, SuppressedIsHeld, DetectedIsBlank, AtWork,
                     CaseStates, IsTerminal

LEMMA StartingKeeps ==
  ASSUME IInv, Started(case, case'), UNCHANGED repeated, ~case.died,
         member' \in [Incidents -> {"out", "parked", "released", "over"}]
  PROVE  IInv'
<1>1. case'.state \in AtWork /\ case'.state \in Resting
  BY DEF Started, AtWork, LiveStates, Resting
<1>2. RestsUnlessRepeated'
  BY <1>1 DEF Started, RestsUnlessRepeated
<1>3. QED BY <1>1, <1>2, AtWorkKeeps DEF Started, IInv

LEMMA ParkingKeeps ==
  ASSUME IInv, NEW i \in Incidents, NEW t, NEW n, ~case.died, ~case.closed,
         case' = Made("SUPPRESSED_BY_INCIDENT", <<>>, t, n, case.closed, case.died),
         member' = [member EXCEPT ![i] = "parked"], UNCHANGED repeated
  PROVE  IInv'
<1>1. /\ case'.state = "SUPPRESSED_BY_INCIDENT" /\ case'.rows = <<>>
      /\ ~case'.closed /\ ~case'.died
  BY DEF Made
<1>2. IsCase(case')
  <2>1. /\ "SUPPRESSED_BY_INCIDENT" \in CaseStates
        /\ case.closed \in BOOLEAN /\ case.died \in BOOLEAN
    BY DEF CaseStates, LiveStates, IInv, IsCase
  <2>2. QED BY <2>1, MadeIsCase
<1>3. /\ member' \in [Incidents -> {"out", "parked", "released", "over"}]
      /\ member'[i] = "parked"
  BY DEF IInv
<1>4. ClosedIsQuiet' /\ SuppressedIsHeld'
  BY <1>1, <1>3 DEF ClosedIsQuiet, SuppressedIsHeld, IsTerminal, TerminalStates
<1>5. DetectedIsBlank' /\ RestsUnlessRepeated'
  BY <1>1 DEF DetectedIsBlank, RestsUnlessRepeated, Resting
<1>6. QED BY <1>2, <1>3, <1>4, <1>5 DEF IInv

-----------------------------------------------------------------------------
(* The steps of the drain.                                                 *)
LEMMA AfterRow ==
  ASSUME IInv, NEW k
  PROVE  /\ IsCase(After(k)) /\ After(k).state = case.state
         /\ After(k).closed = case.closed /\ After(k).died = case.died
<1>1. IsRecord(case) /\ case.state \in CaseStates /\ case.closed \in BOOLEAN /\ case.died \in BOOLEAN
  BY DEF IInv, IsCase
<1>2. After(k) = Made(case.state, RemoveAt(case.rows, k), case.steps, case.no,
                      case.closed, case.died)
  BY <1>1, Replacing DEF After
<1>3. QED BY <1>1, <1>2, Fields, MadeIsCase

LEMMA Replanning ==
  ASSUME NEW c, IsCase(c), NEW t
  PROVE  /\ IsCase([c EXCEPT !.steps = t]) /\ [c EXCEPT !.steps = t].state = c.state
         /\ [c EXCEPT !.steps = t].closed = c.closed /\ [c EXCEPT !.steps = t].died = c.died
<1>1. IsRecord(c) /\ c.state \in CaseStates /\ c.closed \in BOOLEAN /\ c.died \in BOOLEAN
  BY DEF IsCase
<1>2. [c EXCEPT !.steps = t] = Made(c.state, c.rows, t, c.no, c.closed, c.died)
  BY <1>1, Replacing
<1>3. QED BY <1>1, <1>2, Fields, MadeIsCase

LEMMA ReschedulingKeeps ==
  ASSUME IInv, phase # "over", ~case.died, NEW k \in DOMAIN case.rows,
         NEW c, c.state = case.state, c.closed = case.closed, c.died = case.died,
         Rescheduled(c, case'), UNCHANGED <<member, repeated>>
  PROVE  IInv'
<1>1. case.state \in AtWork /\ ~case.closed
  BY RowMeansAtWork
<1>2. case'.state \in AtWork /\ IsCase(case') /\ ~case'.closed
  BY <1>1 DEF Rescheduled, AtWork, LiveStates
<1>3. ~repeated => CanTransition(case.state, "SCHEDULED") /\ case.state \in Resting
  BY <1>1, Moves DEF IInv, RestsUnlessRepeated, Resting, AtWork, LiveStates, TerminalStates
<1>4. RestsUnlessRepeated'
  BY <1>3 DEF Rescheduled, RestsUnlessRepeated, Resting
<1>5. QED BY <1>2, <1>4, AtWorkKeeps DEF IInv

LEMMA SubstituteDeferKeep ==
  ASSUME IInv, NEW k \in DOMAIN case.rows, Substitute(k) \/ Defer(k)
  PROVE  IInv'
<1>1. PICK action, delay : case' = Advance(Prepend(After(k), action), delay)
  BY DEF Substitute, Defer
<1>2. phase # "over" /\ ~case.died /\ UNCHANGED <<member, repeated>>
  BY DEF Substitute, Defer, Running, At, incidents
<1> DEFINE c == Prepend(After(k), action)
<1>3. /\ IsCase(c) /\ c.state = case.state /\ c.closed = case.closed /\ c.died = case.died
  BY AfterRow, Replanning DEF Prepend
<1> HIDE DEF c
<1>4. Rescheduled(c, case')
  BY <1>1, <1>3, AdvanceReschedules DEF c
<1>5. QED BY <1>2, <1>3, <1>4, ReschedulingKeeps

LEMMA RefuseKeeps ==
  ASSUME IInv, NEW k \in DOMAIN case.rows, Refuse(k)
  PROVE  IInv'
<1>1. /\ phase # "over" /\ ~case.died /\ UNCHANGED <<member, repeated>>
      /\ case' = [After(k) EXCEPT !.steps = NoPlan]
  BY DEF Refuse, Running, At, incidents
<1> DEFINE a == After(k)
<1>2. /\ IsCase(a) /\ a.state = case.state /\ a.closed = case.closed /\ a.died = case.died
      /\ case' = [a EXCEPT !.steps = NoPlan]
  BY <1>1, AfterRow
<1> HIDE DEF a
<1>3. /\ IsCase(case') /\ case'.state = case.state /\ case'.closed = case.closed
      /\ case'.died = case.died
  BY <1>2, Replanning
<1>4. Rescheduled(case, case')
  BY <1>3 DEF Rescheduled
<1>5. QED BY <1>1, <1>4, ReschedulingKeeps

(* Where an approved step takes the case.                                  *)
LEMMA AuthorizedExecutes ==
  ASSUME IInv, NEW k \in DOMAIN case.rows, Authorized(k)
  PROVE  /\ phase # "over" /\ ~case.died /\ ~case.closed
         /\ IsCase(Approved(After(k))) /\ Approved(After(k)).state = "EXECUTING"
         /\ Approved(After(k)).closed = case.closed /\ Approved(After(k)).died = case.died
         /\ Approved(After(k)).rows = After(k).rows /\ Approved(After(k)).steps = After(k).steps
<1>1. phase # "over" /\ ~case.died
  BY DEF Authorized, Running, At
<1>2. ~case.closed
  BY <1>1, RowMeansAtWork
<1>3. Approved(After(k)) = Made("EXECUTING", After(k).rows, After(k).steps, After(k).no,
                                After(k).closed, After(k).died)
  BY AfterRow, ApprovalExecutes DEF Authorized
<1>4. /\ "EXECUTING" \in CaseStates /\ After(k).closed = case.closed
      /\ After(k).died = case.died /\ case.closed \in BOOLEAN /\ case.died \in BOOLEAN
  BY AfterRow DEF CaseStates, LiveStates, IInv, IsCase
<1>5. QED BY <1>1, <1>2, <1>3, <1>4, Fields, MadeIsCase

LEMMA ExecutedRests ==
  ASSUME IInv, NEW k \in DOMAIN case.rows, Authorized(k)
  PROVE  /\ IsCase(Executed(k)) /\ Executed(k).state = "OBSERVING"
         /\ Executed(k).closed = case.closed /\ Executed(k).died = case.died
         /\ Executed(k).rows = After(k).rows /\ Executed(k).steps = After(k).steps
<1> DEFINE a == Approved(After(k))
           p == Post(a, Plain("action_executed"))
           c == Executed(k)
<1>1. /\ IsCase(a) /\ a.state = "EXECUTING" /\ a.closed = case.closed /\ a.died = case.died
      /\ a.rows = After(k).rows /\ a.steps = After(k).steps
  BY AuthorizedExecutes
<1> HIDE DEF a
<1>2. p = Made("OBSERVING", a.rows, a.steps, a.no, a.closed, a.died)
  BY <1>1, Events, Moves DEF Moved
<1>3. c = [p EXCEPT !.no = case.rows[k].no + 1]
  BY DEF Executed, a
<1> HIDE DEF p, c
<1>4. /\ IsRecord(p) /\ p.state = "OBSERVING" /\ p.closed = case.closed /\ p.died = case.died
      /\ p.rows = After(k).rows /\ p.steps = After(k).steps
  BY <1>1, <1>2, Fields
<1>5. c = Made("OBSERVING", p.rows, p.steps, case.rows[k].no + 1, case.closed, case.died)
  BY <1>3, <1>4, Replacing
<1>6. /\ "OBSERVING" \in CaseStates /\ case.closed \in BOOLEAN /\ case.died \in BOOLEAN
  BY DEF CaseStates, LiveStates, IInv, IsCase
<1>7. /\ IsCase(c) /\ c.state = "OBSERVING" /\ c.closed = case.closed /\ c.died = case.died
      /\ c.rows = After(k).rows /\ c.steps = After(k).steps
  BY <1>4, <1>5, <1>6, Fields, MadeIsCase
<1>8. QED BY <1>7 DEF c

LEMMA ExecuteKeeps ==
  ASSUME IInv, NEW k \in DOMAIN case.rows, Execute(k)
  PROVE  IInv'
<1> DEFINE c == Executed(k)
<1>1. phase # "over" /\ ~case.died /\ ~case.closed
  BY AuthorizedExecutes DEF Execute
<1>2. UNCHANGED <<member, repeated>> /\ case' = Advance(c, 0)
  BY DEF Execute, incidents
<1>3. /\ IsCase(c) /\ c.state = "OBSERVING" /\ c.closed = case.closed /\ c.died = case.died
  BY ExecutedRests DEF Execute
<1> HIDE DEF c
<1>4. Rescheduled(c, case')
  BY <1>2, <1>3, AdvanceReschedules
<1>5. /\ IsCase(case') /\ ~case'.closed /\ ~case'.died
      /\ case'.state \in {"OBSERVING", "SCHEDULED"}
  BY <1>1, <1>3, <1>4, Moves DEF Rescheduled
<1>6. case'.state \in AtWork /\ RestsUnlessRepeated'
  BY <1>5 DEF AtWork, LiveStates, RestsUnlessRepeated, Resting
<1>7. QED BY <1>2, <1>5, <1>6, AtWorkKeeps DEF IInv

LEMMA FailKeeps ==
  ASSUME IInv, NEW k \in DOMAIN case.rows, Fail(k)
  PROVE  IInv'
<1> DEFINE a == Approved(After(k))
           c == [a EXCEPT !.steps = NoPlan]
<1>1. /\ phase # "over" /\ ~case.died /\ ~case.closed
      /\ IsCase(a) /\ a.state = "EXECUTING" /\ a.closed = case.closed /\ a.died = case.died
  BY AuthorizedExecutes DEF Fail
<1>2. UNCHANGED <<member, repeated>> /\ case' = Post(c, Plain("outcome_observed"))
  BY DEF Fail, incidents
<1> HIDE DEF a
<1>3. /\ IsCase(c) /\ c.state = "EXECUTING" /\ c.closed = case.closed /\ c.died = case.died
  BY <1>1, Replanning
<1> HIDE DEF c
<1>4. case' = Moved(c, "OBSERVING")
  BY <1>2, <1>3, Events
<1>5. case' = Made("OBSERVING", c.rows, c.steps, c.no, c.closed, c.died)
  BY <1>3, <1>4, Moves DEF Moved
<1>6. case'.state = "OBSERVING" /\ ~case'.closed /\ ~case'.died
  BY <1>1, <1>3, <1>5, Fields
<1>7. "OBSERVING" \in CaseStates
  BY DEF CaseStates, LiveStates
<1>8. IsCase(case')
  BY <1>3, <1>4, <1>7, MovedIsCase
<1>9. case'.state \in AtWork /\ RestsUnlessRepeated'
  BY <1>6 DEF AtWork, LiveStates, RestsUnlessRepeated, Resting
<1>10. QED BY <1>2, <1>6, <1>8, <1>9, AtWorkKeeps DEF IInv

LEMMA DuplicateKeeps ==
  ASSUME IInv, NEW k \in DOMAIN case.rows, Duplicate(k)
  PROVE  IInv'
<1> DEFINE a == Approved(After(k))
<1>1. /\ phase # "over" /\ ~case.died /\ ~case.closed
      /\ IsCase(a) /\ a.state = "EXECUTING" /\ a.closed = case.closed /\ a.died = case.died
  BY AuthorizedExecutes DEF Duplicate
<1>2. UNCHANGED member /\ repeated' = TRUE /\ case' = Advance(a, 0)
  BY DEF Duplicate, incidents
<1> HIDE DEF a
<1>3. Rescheduled(a, case')
  BY <1>1, <1>2, AdvanceReschedules
<1>4. IsCase(case') /\ ~case'.closed /\ case'.state \in AtWork
  BY <1>1, <1>3 DEF Rescheduled, AtWork, LiveStates
<1>5. RestsUnlessRepeated' /\ repeated' \in BOOLEAN
  BY <1>2 DEF RestsUnlessRepeated
<1>6. QED BY <1>2, <1>4, <1>5, AtWorkKeeps DEF IInv

-----------------------------------------------------------------------------
(* The steps around the drain.                                             *)
LEMMA OpenIsLive ==
  ASSUME IInv, phase # "over", ~case.closed
  PROVE  /\ IsCase(case) /\ case.state \in CaseStates \ TerminalStates
         /\ IsRecord(case) /\ case.closed \in BOOLEAN /\ case.died \in BOOLEAN
  BY DEF IInv, IsCase, ClosedIsQuiet, IsTerminal

(* Nothing changes but the rows or the plan, and no row appears.           *)
LEMMA SameStateKeeps ==
  ASSUME IInv, phase # "over", phase' # "over",
         IsCase(case'), case'.state = case.state, case'.closed = case.closed,
         case'.died = case.died, case.rows = <<>> => case'.rows = <<>>,
         case.steps = NoPlan => case'.steps = NoPlan, UNCHANGED <<member, repeated>>
  PROVE  IInv'
<1>1. ClosedIsQuiet' /\ SuppressedIsHeld'
  BY DEF IInv, ClosedIsQuiet, SuppressedIsHeld
<1>2. DetectedIsBlank' /\ RestsUnlessRepeated'
  BY DEF IInv, DetectedIsBlank, RestsUnlessRepeated
<1>3. QED BY <1>1, <1>2 DEF IInv

LEMMA WorldKeeps == IInv /\ (World \/ ReplyEndsCase) => IInv'
<1> SUFFICES ASSUME IInv, World \/ ReplyEndsCase PROVE IInv'
  OBVIOUS
<1>1. PICK s \in {"RECOVERED", "OPTED_OUT", "DISPUTED"} : case' = Close(case, s)
  BY DEF World, ReplyEndsCase
<1>2. phase # "over" /\ ~case.closed /\ UNCHANGED <<member, repeated>>
  BY DEF World, ReplyEndsCase, Reply, At, incidents
<1>3. s \in TerminalStates
  BY DEF TerminalStates
<1>4. case' = Made(s, <<>>, NoPlan, case.no, TRUE, case.died)
  BY <1>1, <1>2, <1>3, OpenIsLive, ClosingEnds
<1>5. QED BY <1>2, <1>3, <1>4, ClosedKeeps

LEMMA PassingKeeps ==
  IInv /\ (AfterWorld \/ ReplyPassesBy \/ AfterReplies \/ AfterDrain \/ AfterDetect \/ EndTick)
    => IInv'
<1> SUFFICES ASSUME IInv, AfterWorld \/ ReplyPassesBy \/ AfterReplies \/ AfterDrain
                          \/ AfterDetect \/ EndTick
             PROVE  IInv'
  OBVIOUS
<1>1. phase # "over" /\ UNCHANGED <<case, member, repeated>>
  BY DEF AfterWorld, ReplyPassesBy, Reply, AfterReplies, AfterDrain, AfterDetect, EndTick,
         Proceed, At, incidents
<1>2. QED BY <1>1, UntouchedKeeps

LEMMA ReplyPromisesKeeps == IInv /\ ReplyPromises => IInv'
<1> SUFFICES ASSUME IInv, ReplyPromises PROVE IInv'
  OBVIOUS
<1>1. /\ phase # "over" /\ phase' # "over" /\ UNCHANGED <<member, repeated>>
      /\ IsRecord(case) /\ IsCase(case) /\ case' = [case EXCEPT !.steps = NoPlan]
  BY DEF ReplyPromises, Reply, At, incidents, IInv, IsCase
<1>2. case' = Made(case.state, case.rows, NoPlan, case.no, case.closed, case.died)
  BY <1>1, Replacing
<1>3. case'.rows = case.rows /\ case'.steps = NoPlan
  BY <1>2, Fields
<1>4. /\ IsCase(case') /\ case'.state = case.state /\ case'.closed = case.closed
      /\ case'.died = case.died
  BY <1>1, Replanning
<1>5. QED BY <1>1, <1>3, <1>4, SameStateKeeps

LEMMA TickKeeps == IInv /\ Tick => IInv'
<1> SUFFICES ASSUME IInv, Tick PROVE IInv'
  OBVIOUS
<1> DEFINE leased ==
      [k \in DOMAIN case.rows |-> [case.rows[k] EXCEPT !.leased = case.rows[k].at <= now]]
<1>1. /\ phase # "over" /\ phase' # "over" /\ UNCHANGED <<member, repeated>>
      /\ case' = [case EXCEPT !.rows = leased]
  BY DEF Tick, Proceed, At, incidents
<1>2. IsRecord(case) /\ case.state \in CaseStates /\ case.closed \in BOOLEAN /\ case.died \in BOOLEAN
  BY DEF IInv, IsCase
<1>3. case.rows = <<>> => leased = <<>>
  OBVIOUS
<1> HIDE DEF leased
<1>4. case' = Made(case.state, leased, case.steps, case.no, case.closed, case.died)
  BY <1>1, <1>2, Replacing
<1>5. /\ case'.state = case.state /\ case'.rows = leased /\ case'.steps = case.steps
      /\ case'.closed = case.closed /\ case'.died = case.died
  BY <1>4, Fields
<1>6. IsCase(case')
  BY <1>2, <1>4, MadeIsCase
<1>7. QED BY <1>1, <1>3, <1>5, <1>6, SameStateKeeps

LEMMA MoneyKeeps == IInv /\ Money => IInv'
<1> SUFFICES ASSUME IInv, Money PROVE IInv'
  OBVIOUS
<1>1. /\ phase # "over" /\ UNCHANGED <<member, repeated>>
      /\ case' = IF case.closed THEN case ELSE Close(case, "RECOVERED")
  BY DEF Money, At, incidents
<1>2. CASE case.closed
  BY <1>1, <1>2, UntouchedKeeps
<1>3. CASE ~case.closed
  <2>1. "RECOVERED" \in TerminalStates
    BY DEF TerminalStates
  <2>2. case' = Made("RECOVERED", <<>>, NoPlan, case.no, TRUE, case.died)
    BY <1>1, <1>3, <2>1, OpenIsLive, ClosingEnds
  <2>3. QED BY <1>1, <2>1, <2>2, ClosedKeeps
<1>4. QED BY <1>2, <1>3

(* A promise that is broken starts a plan, or nothing.                     *)
LEMMA PromisesWake ==
  ASSUME IInv, Promises
  PROVE  case' = case \/ (Started(case, case') /\ promises' # promises)
<1>1. CASE promises' = promises \/ case.closed \/ HasPlan(case)
  BY <1>1 DEF Promises
<1>2. CASE ~(promises' = promises \/ case.closed \/ HasPlan(case))
  <2>1. case' = StartPlan(case, <<Fallback>>, 0)
    BY <1>2 DEF Promises
  <2>2. QED BY <1>2, <2>1, StartingPlans DEF IInv
<1>3. QED BY <1>1, <1>2

LEMMA PromisesKeeps == IInv /\ Promises => IInv'
<1> SUFFICES ASSUME IInv, Promises PROVE IInv'
  OBVIOUS
<1>1. phase # "over" /\ ~case.died /\ UNCHANGED <<member, repeated>>
  BY DEF Promises, Proceed, At, incidents
<1>2. member' \in [Incidents -> {"out", "parked", "released", "over"}]
  BY <1>1 DEF IInv
<1>3. QED BY <1>1, <1>2, PromisesWake, UntouchedKeeps, StartingKeeps

LEMMA ExhaustKeeps == IInv /\ Exhaust => IInv'
<1> SUFFICES ASSUME IInv, Exhaust PROVE IInv'
  OBVIOUS
<1>1. phase # "over" /\ phase' = "over" /\ ~case.died /\ UNCHANGED <<member, repeated>>
  BY DEF Exhaust, Proceed, At, incidents
<1>2. CASE case.closed \/ case.state \in Ended
  BY <1>1, <1>2, UntouchedKeeps DEF Exhaust
<1>3. CASE ~(case.closed \/ case.state \in Ended)
  <2>1. "UNRECOVERABLE" \in TerminalStates /\ "UNRECOVERABLE" \in CaseStates
    BY DEF TerminalStates, CaseStates
  <2>2. case' = [Post(case, Terminal("UNRECOVERABLE")) EXCEPT !.rows = <<>>]
    BY <1>3 DEF Exhaust
  <2>3. case' = Made("UNRECOVERABLE", <<>>, case.steps, case.no, case.closed, case.died)
    BY <1>1, <1>3, <2>1, <2>2, OpenIsLive, ClosingEnds
  <2>4. /\ case'.state = "UNRECOVERABLE" /\ case'.rows = <<>>
        /\ ~case'.closed /\ ~case'.died
    BY <1>1, <1>3, <2>3, Fields
  <2>5. IsCase(case')
    BY <1>1, <1>3, <2>1, <2>3, OpenIsLive, MadeIsCase
  <2>6. ClosedIsQuiet' /\ SuppressedIsHeld'
    BY <1>1, <2>4 DEF ClosedIsQuiet, SuppressedIsHeld
  <2>7. DetectedIsBlank' /\ RestsUnlessRepeated'
    BY <2>1, <2>4 DEF DetectedIsBlank, RestsUnlessRepeated
  <2>8. QED BY <1>1, <2>5, <2>6, <2>7 DEF IInv
<1>4. QED BY <1>2, <1>3

-----------------------------------------------------------------------------
(* The steps of the incidents.                                             *)
LEMMA AttachKeeps ==
  ASSUME IInv, NEW i \in Incidents, Attach(i)
  PROVE  IInv'
<1> DEFINE p == Park(case)
<1>1. /\ phase # "over" /\ ~case.died /\ ~case.closed /\ UNCHANGED repeated
      /\ case' = [p EXCEPT !.steps = NoPlan] /\ member' = [member EXCEPT ![i] = "parked"]
  BY DEF Attach, At
<1>2. p = Made("SUPPRESSED_BY_INCIDENT", <<>>, case.steps, case.no, case.closed, case.died)
  BY <1>1, OpenIsLive, ParkingHolds
<1> HIDE DEF p
<1>3. /\ IsRecord(p) /\ p.state = "SUPPRESSED_BY_INCIDENT" /\ p.rows = <<>>
      /\ p.no = case.no /\ p.closed = case.closed /\ p.died = case.died
  BY <1>2, Fields
<1>4. case' = Made("SUPPRESSED_BY_INCIDENT", <<>>, NoPlan, case.no, case.closed, case.died)
  BY <1>1, <1>3, Replacing
<1>5. QED BY <1>1, <1>4, ParkingKeeps

(* A closed case stays as it is whatever its incidents do.                 *)
LEMMA ClosedCaseKeeps ==
  ASSUME IInv, phase # "over", case.closed, UNCHANGED <<case, repeated>>,
         member' \in [Incidents -> {"out", "parked", "released", "over"}]
  PROVE  IInv'
<1>1. case.state \in TerminalStates
  BY DEF IInv, ClosedIsQuiet, IsTerminal
<1>2. ClosedIsQuiet' /\ RestsUnlessRepeated'
  BY DEF IInv, ClosedIsQuiet, RestsUnlessRepeated
<1>3. SuppressedIsHeld' /\ DetectedIsBlank'
  BY <1>1 DEF SuppressedIsHeld, DetectedIsBlank, TerminalStates
<1>4. QED BY <1>2, <1>3 DEF IInv

(* A slice is released: the case is scheduled, or has gone on without it,  *)
(* and then it is legal for it to be scheduled unless it is stranded.      *)
LEMMA ReleaseCaseKeeps ==
  ASSUME IInv, NEW i \in Incidents, ReleaseCase(i)
  PROVE  IInv'
<1> DEFINE d == Post(case, Plain("incident_released"))
<1>1. /\ phase # "over" /\ ~case.died /\ UNCHANGED repeated /\ member[i] = "parked"
      /\ member' = [member EXCEPT ![i] = "released"]
      /\ case' = IF case.closed THEN case ELSE Resume(d)
  BY DEF ReleaseCase, Step, At
<1>2. member' \in [Incidents -> {"out", "parked", "released", "over"}]
  BY <1>1 DEF IInv
<1>3. CASE case.closed
  BY <1>1, <1>2, <1>3, ClosedCaseKeeps
<1>4. CASE ~case.closed
  <2>1. d = Moved(case, "SCHEDULED") /\ case' = Resume(d)
    BY <1>1, <1>4, Events DEF IInv
  <2>2. "SCHEDULED" \in CaseStates
    BY DEF CaseStates, LiveStates
  <2> HIDE DEF d
  <2>3. IsCase(d)
    BY <2>1, <2>2, MovedIsCase DEF IInv
  <2>4. case.state \in LiveStates \ {"DETECTED"}
    BY <1>1, <1>4, OpenIsLive DEF IInv, DetectedIsBlank, CaseStates
  <2>5. /\ ~d.closed /\ d.state \in AtWork
        /\ d.died => ~CanTransition(case.state, "SCHEDULED")
        /\ d.state \in {"SCHEDULED", case.state}
    <3>1. CASE CanTransition(case.state, "SCHEDULED")
      <4>1. d = Made("SCHEDULED", case.rows, case.steps, case.no, case.closed, case.died)
        BY <2>1, <3>1 DEF Moved
      <4>2. d.state = "SCHEDULED" /\ d.closed = case.closed /\ d.died = case.died
        BY <4>1, Fields
      <4>3. QED BY <1>1, <1>4, <4>2 DEF AtWork, LiveStates
    <3>2. CASE ~CanTransition(case.state, "SCHEDULED")
      <4>1. d = Made(case.state, case.rows, case.steps, case.no, case.closed, TRUE)
        BY <2>1, <3>2 DEF Moved
      <4>2. d.state = case.state /\ d.closed = case.closed
        BY <4>1 DEF Made
      <4>3. QED BY <1>4, <2>4, <3>2, <4>2, Moves DEF AtWork
    <3>3. QED BY <3>1, <3>2
  <2>6. case' = d \/ Started(d, case')
    BY <2>1, <2>3, StartingPlans DEF Resume
  <2>7. /\ IsCase(case') /\ ~case'.closed /\ case'.state \in AtWork
        /\ case'.died = d.died /\ case'.state \in {"PLANNING", "SCHEDULED", case.state}
    BY <2>3, <2>5, <2>6 DEF Started, AtWork, LiveStates
  <2>8. ~repeated => CanTransition(case.state, "SCHEDULED") /\ case.state \in Resting
    BY <2>4, Moves DEF IInv, RestsUnlessRepeated, Resting, LiveStates, TerminalStates
  <2>9. RestsUnlessRepeated'
    BY <1>1, <2>5, <2>7, <2>8 DEF RestsUnlessRepeated, Resting
  <2>10. QED BY <1>1, <1>2, <2>7, <2>9, AtWorkKeeps DEF IInv
<1>5. QED BY <1>3, <1>4

LEMMA OthersStart ==
  ASSUME IInv, NEW i \in Incidents, ReleaseOthers(i)
  PROVE  case' = case \/ (member[i] = "released" /\ Started(case, case'))
<1>1. CASE member[i] = "released" /\ ~HasPlan(case)
  <2>1. case' = StartPlan(case, <<Fallback>>, 0)
    BY <1>1 DEF ReleaseOthers, Resume
  <2>2. QED BY <1>1, <2>1, StartingPlans DEF IInv
<1>2. CASE ~(member[i] = "released" /\ ~HasPlan(case))
  BY <1>2 DEF ReleaseOthers, Resume
<1>3. QED BY <1>1, <1>2

LEMMA ReleaseOthersKeeps ==
  ASSUME IInv, NEW i \in Incidents, ReleaseOthers(i)
  PROVE  IInv'
<1>1. phase # "over" /\ ~case.died /\ UNCHANGED <<member, repeated>>
  BY DEF ReleaseOthers, Step, At
<1>2. member' \in [Incidents -> {"out", "parked", "released", "over"}]
  BY <1>1 DEF IInv
<1>3. QED BY <1>1, <1>2, OthersStart, UntouchedKeeps, StartingKeeps

LEMMA ReparkKeeps ==
  ASSUME IInv, NEW i \in Incidents, Repark(i)
  PROVE  IInv'
<1>1. phase # "over" /\ ~case.died /\ UNCHANGED repeated
  BY DEF Repark, Step, At
<1>2. CASE i \in slice /\ ~case.closed
  <2>1. case' = Park(case) /\ member' = [member EXCEPT ![i] = "parked"]
    BY <1>2 DEF Repark
  <2>2. case' = Made("SUPPRESSED_BY_INCIDENT", <<>>, case.steps, case.no,
                     case.closed, case.died)
    BY <1>1, <1>2, <2>1, OpenIsLive, ParkingHolds
  <2>3. QED BY <1>1, <1>2, <2>1, <2>2, ParkingKeeps
<1>3. CASE ~(i \in slice /\ ~case.closed)
  BY <1>1, <1>3, UntouchedKeeps DEF Repark
<1>4. QED BY <1>2, <1>3

LEMMA CompleteKeeps ==
  ASSUME IInv, NEW i \in Incidents, Complete(i)
  PROVE  IInv'
<1>1. /\ phase # "over" /\ UNCHANGED <<case, repeated>> /\ phase' = phase
      /\ member[i] = "released" /\ member' = [member EXCEPT ![i] = "over"]
  BY DEF Complete, Step, At
<1>2. member' \in [Incidents -> {"out", "parked", "released", "over"}]
  BY <1>1 DEF IInv
<1>3. SuppressedIsHeld'
  <2>1. \A j \in Incidents : member[j] = "parked" => member'[j] = "parked"
    BY <1>1 DEF IInv
  <2>2. QED BY <1>1, <2>1 DEF IInv, SuppressedIsHeld
<1>4. ClosedIsQuiet' /\ DetectedIsBlank' /\ RestsUnlessRepeated'
  BY <1>1 DEF IInv, ClosedIsQuiet, DetectedIsBlank, RestsUnlessRepeated
<1>5. QED BY <1>1, <1>2, <1>3, <1>4 DEF IInv

-----------------------------------------------------------------------------
LEMMA StepKeeps == IInv /\ [Next]_vars => IInv'
<1> SUFFICES ASSUME IInv, [Next]_vars PROVE IInv'
  OBVIOUS
<1>1. CASE UNCHANGED vars
  BY <1>1 DEF vars, incidents, IInv, IsCase, IsRecord, ClosedIsQuiet, SuppressedIsHeld,
              DetectedIsBlank, RestsUnlessRepeated
<1>2. CASE World \/ ReplyEndsCase
  BY <1>2, WorldKeeps
<1>3. CASE AfterWorld \/ ReplyPassesBy \/ AfterReplies \/ AfterDrain \/ AfterDetect \/ EndTick
  BY <1>3, PassingKeeps
<1>4. CASE ReplyPromises \/ Promises \/ Money \/ Tick \/ Exhaust
  BY <1>4, ReplyPromisesKeeps, PromisesKeeps, MoneyKeeps, TickKeeps, ExhaustKeeps
<1>5. ASSUME NEW k \in DOMAIN case.rows, RunStep(k) PROVE IInv'
  BY <1>5, SubstituteDeferKeep, RefuseKeeps, ExecuteKeeps, FailKeeps, DuplicateKeeps
  DEF RunStep
<1>6. ASSUME NEW i \in Incidents, Attach(i) \/ ReleaseStep(i) PROVE IInv'
  BY <1>6, AttachKeeps, ReleaseCaseKeeps, ReleaseOthersKeeps, ReparkKeeps, CompleteKeeps
  DEF ReleaseStep
<1>7. QED BY <1>1, <1>2, <1>3, <1>4, <1>5, <1>6 DEF Next

(* The strengthening holds of every state of the loop: the case is what    *)
(* its incidents and its promises say it is.                               *)
THEOREM Invariance == Spec => []IInv
<1>1. Init => IInv
  BY InitEstablishes
<1>2. IInv /\ [Next]_vars => IInv'
  BY StepKeeps
<1>3. QED BY <1>1, <1>2, PTL DEF Spec

(* Memory and table agree on what is closed, and a closed case is idle:    *)
(* Close and CaseManager.close, in every handler that reaches them.        *)
THEOREM MemoryAgreesWithTable == Spec => []ClosedIsQuiet
<1>1. IInv => ClosedIsQuiet
  BY DEF IInv
<1>2. QED BY <1>1, Invariance, PTL

(* A suppressed case is idle and some open incident still holds it,        *)
(* however many incidents attach, release, repark and complete.            *)
THEOREM ParkedIsHeld == Spec => []SuppressedIsHeld
<1>1. IInv => SuppressedIsHeld
  BY DEF IInv
<1>2. QED BY <1>1, Invariance, PTL

(* Nothing but a refused duplicate strands a case in EXECUTING or ends the *)
(* batch: runStep and the release controller append legal events only.     *)
THEOREM OnlyRepeatsHurt == Spec => []TroubleNeedsRepeat
<1>1. IInv => TroubleNeedsRepeat
  BY DEF IInv, RestsUnlessRepeated, Resting, TerminalStates, TroubleNeedsRepeat
<1>2. QED BY <1>1, Invariance, PTL

-----------------------------------------------------------------------------
(* Who may wake a suppressed case.                                         *)
Woken ==
  case.state = "SUPPRESSED_BY_INCIDENT"
    /\ case'.state \notin TerminalStates \cup {"SUPPRESSED_BY_INCIDENT"}

LEMMA WakersAreKnown ==
  ASSUME IInv, Next, Woken
  PROVE  \/ \E i \in stepped' \ stepped : member'[i] = "released"
         \/ promises' # promises
<1>1. case.rows = <<>> /\ case' # case /\ case.state \notin TerminalStates
  BY DEF Woken, IInv, SuppressedIsHeld, TerminalStates
<1>2. CASE World \/ ReplyEndsCase
  <2>1. PICK s \in {"RECOVERED", "OPTED_OUT", "DISPUTED"} : case' = Close(case, s)
    BY <1>2 DEF World, ReplyEndsCase
  <2>2. s \in TerminalStates
    BY DEF TerminalStates
  <2>3. case' = Made(s, <<>>, NoPlan, case.no, TRUE, case.died)
    BY <1>1, <2>1, <2>2, ClosingEnds DEF IInv
  <2>4. case'.state = s
    BY <2>3 DEF Made
  <2>5. QED BY <2>2, <2>4 DEF Woken
<1>3. CASE AfterWorld \/ ReplyPassesBy \/ AfterReplies \/ AfterDrain \/ AfterDetect \/ EndTick
  BY <1>1, <1>3 DEF AfterWorld, ReplyPassesBy, Reply, AfterReplies, AfterDrain, AfterDetect,
                    EndTick
<1>4. CASE ReplyPromises
  <2>1. case' = [case EXCEPT !.steps = NoPlan]
    BY <1>4 DEF ReplyPromises
  <2>2. case'.state = case.state
    BY <2>1, Replanning DEF IInv
  <2>3. QED BY <2>2 DEF Woken
<1>5. CASE Promises
  BY <1>1, <1>5, PromisesWake
<1>6. CASE Money
  <2>1. case' = Close(case, "RECOVERED") /\ "RECOVERED" \in TerminalStates
    BY <1>1, <1>6 DEF Money, TerminalStates
  <2>2. case' = Made("RECOVERED", <<>>, NoPlan, case.no, TRUE, case.died)
    BY <1>1, <2>1, ClosingEnds DEF IInv
  <2>3. case'.state = "RECOVERED"
    BY <2>2 DEF Made
  <2>4. QED BY <2>1, <2>3 DEF Woken
<1>7. CASE Tick
  <2> DEFINE leased ==
        [k \in DOMAIN case.rows |-> [case.rows[k] EXCEPT !.leased = case.rows[k].at <= now]]
  <2>1. case' = [case EXCEPT !.rows = leased]
    BY <1>7 DEF Tick
  <2> HIDE DEF leased
  <2>2. case'.state = case.state
    BY <2>1, Replacing, Fields DEF IInv, IsCase
  <2>3. QED BY <2>2 DEF Woken
<1>8. ASSUME NEW k \in DOMAIN case.rows PROVE FALSE
  BY <1>1, <1>8
<1>9. ASSUME NEW i \in Incidents, Attach(i) PROVE FALSE
  <2>1. case' = [Park(case) EXCEPT !.steps = NoPlan]
    BY <1>9 DEF Attach
  <2>2. Park(case) = Made("SUPPRESSED_BY_INCIDENT", <<>>, case.steps, case.no,
                          case.closed, case.died)
    BY <1>1, ParkingHolds DEF IInv
  <2>3. IsRecord(Park(case)) /\ Park(case).state = "SUPPRESSED_BY_INCIDENT"
    BY <2>2, Fields
  <2>4. case'.state = "SUPPRESSED_BY_INCIDENT"
    BY <2>1, <2>3, Replacing, Fields
  <2>5. QED BY <2>4 DEF Woken
<1>10. ASSUME NEW i \in Incidents, ReleaseStep(i)
       PROVE  \E j \in stepped' \ stepped : member'[j] = "released"
  <2>1. i \in stepped' \ stepped
    BY <1>10 DEF ReleaseStep, ReleaseCase, ReleaseOthers, Repark, Complete, Step
  <2>2. CASE ReleaseCase(i)
    BY <2>1, <2>2 DEF ReleaseCase, IInv
  <2>3. CASE ReleaseOthers(i)
    BY <1>1, <2>1, <2>3, OthersStart DEF ReleaseOthers
  <2>4. CASE Repark(i)
    <3>1. case' = Park(case)
      BY <1>1, <2>4 DEF Repark
    <3>2. Park(case) = Made("SUPPRESSED_BY_INCIDENT", <<>>, case.steps, case.no,
                            case.closed, case.died)
      BY <1>1, ParkingHolds DEF IInv
    <3>3. case'.state = "SUPPRESSED_BY_INCIDENT"
      BY <3>1, <3>2, Fields
    <3>4. QED BY <3>3 DEF Woken
  <2>5. CASE Complete(i)
    BY <1>1, <2>5 DEF Complete
  <2>6. QED BY <1>10, <2>2, <2>3, <2>4, <2>5 DEF ReleaseStep
<1>11. CASE Exhaust
  <2>1. case' = [Post(case, Terminal("UNRECOVERABLE")) EXCEPT !.rows = <<>>]
        /\ "UNRECOVERABLE" \in TerminalStates
    BY <1>1, <1>11 DEF Exhaust, TerminalStates
  <2>2. case' = Made("UNRECOVERABLE", <<>>, case.steps, case.no, case.closed, case.died)
    BY <1>1, <2>1, ClosingEnds DEF IInv
  <2>3. case'.state = "UNRECOVERABLE"
    BY <2>2, Fields
  <2>4. QED BY <2>1, <2>3 DEF Woken
<1>12. QED BY <1>2, <1>3, <1>4, <1>5, <1>6, <1>7, <1>8, <1>9, <1>10, <1>11 DEF Next

(* An action queued before the incident, a reply or a payment never wakes  *)
(* a parked case: only a release or a broken promise does.                 *)
THEOREM ParkedIsWokenInOrder == Spec => WokenOnlyByReleaseOrPromise
<1>1. IInv /\ [Next]_vars
        => [case.state = "SUPPRESSED_BY_INCIDENT"
              /\ case'.state \notin TerminalStates \cup {"SUPPRESSED_BY_INCIDENT"} =>
            \/ \E i \in stepped' \ stepped : member'[i] = "released"
            \/ promises' # promises]_vars
  BY WakersAreKnown DEF Woken
<1>2. QED BY <1>1, Invariance, PTL DEF Spec, WokenOnlyByReleaseOrPromise

-----------------------------------------------------------------------------
(* As long as no promise has made the runner forget a plan it has one at a *)
(* time: a row is the current step of the plan in memory, and is no wait.  *)
Steps == Actions \cup Waits
Row(at, action, no, leased) == [at |-> at, action |-> action, no |-> no, leased |-> leased]
Single(rows) == \E at, no, leased : \E action \in Actions : rows = <<Row(at, action, no, leased)>>
Orderly(c) ==
  /\ HasPlan(c) => c.steps \in Seq(Steps)
  /\ c.rows = <<>> \/ (HasPlan(c) /\ Single(c.rows))

OneAtATime == ~promised => promises = {} /\ Orderly(case)

(* The least element of a set of numbers: of the intervals below its       *)
(* elements one has no smaller among them.                                 *)
Below(S) == {0..n : n \in S}

LEMMA LeastOf ==
  ASSUME NEW S \in SUBSET Nat, S # {}
  PROVE  Min(S) \in S /\ \A y \in S : Min(S) <= y
<1>1. IsWellFoundedOn(StrictSubsetOrdering(Nat), FiniteSubsetsOf(Nat))
  BY FS_StrictSubsetOrderingWellFounded
<1>2. Below(S) \subseteq FiniteSubsetsOf(Nat)
  <2>1. ASSUME NEW n \in S PROVE 0..n \in SUBSET Nat /\ IsFiniteSet(0..n)
    <3>1. 0 \in Int /\ n \in Int
      OBVIOUS
    <3>2. IsFiniteSet(0..n)
      BY <3>1, FS_Interval
    <3>3. 0..n \in SUBSET Nat
      OBVIOUS
    <3>4. QED BY <3>2, <3>3
  <2>2. QED BY <2>1 DEF Below, FiniteSubsetsOf
<1>3. Below(S) # {}
  BY DEF Below
<1>4. PICK X \in Below(S) : \A Y \in Below(S) : <<Y, X>> \notin StrictSubsetOrdering(Nat)
  BY <1>1, <1>2, <1>3, WFMin
<1>5. PICK x \in S : X = 0..x
  BY <1>4 DEF Below
<1>6. ASSUME NEW y \in S, y < x PROVE FALSE
  <2>1. 0..y \in Below(S)
    BY DEF Below
  <2>2. 0..y \subseteq X /\ 0..y # X
    BY <1>5, <1>6
  <2>3. <<0..y, X>> \in StrictSubsetOrdering(Nat)
    BY <1>5, <2>2 DEF StrictSubsetOrdering
  <2>4. QED BY <1>4, <2>1, <2>3
<1>7. x \in S /\ \A y \in S : x =< y
  BY <1>6
<1>8. QED BY <1>7 DEF Min

(* What advancePlan takes from a plan: the waits up to its first action.   *)
LEMMA WaitsLead ==
  ASSUME NEW s \in Seq(Steps),
         NEW rest, rest = SubSeq(s, Len(LeadingWaits(s)) + 1, Len(s))
  PROVE  rest \in Seq(Steps) /\ (rest # <<>> => Head(rest) \in Actions)
<1> DEFINE I == {i \in 1..Len(s) : s[i] \in Actions}
<1>1. Len(s) \in Nat /\ \A i \in 1..Len(s) : s[i] \in Steps
  BY LenProperties, ElementOfSeq
<1>2. I \in SUBSET Nat /\ \A i \in I : i \in 1..Len(s) /\ s[i] \in Actions
  BY <1>1
<1>3. LeadingWaits(s) = IF (IF I # {} THEN Min(I) ELSE 0) = 0 THEN s
                        ELSE SubSeq(s, 1, (IF I # {} THEN Min(I) ELSE 0) - 1)
  BY DEF LeadingWaits, SelectInSeq
<1> HIDE DEF I
<1>4. CASE I = {}
  <2>1. rest = SubSeq(s, Len(s) + 1, Len(s))
    BY <1>3, <1>4
  <2>2. rest = <<>>
    BY <1>1, <2>1, SubSeqEmpty
  <2>3. QED BY <2>2, EmptySeq
<1>5. CASE I # {}
  <2> DEFINE m == Min(I)
  <2>1. m \in I
    BY <1>2, <1>5, LeastOf
  <2> HIDE DEF m
  <2>2. m \in 1..Len(s) /\ s[m] \in Actions
    BY <1>2, <2>1
  <2>3. LeadingWaits(s) = SubSeq(s, 1, m - 1)
    BY <1>1, <1>3, <1>5, <2>2 DEF m
  <2>4. Len(SubSeq(s, 1, m - 1)) = m - 1
    <3>1. 1 \in Int /\ m - 1 \in Int /\ \A i \in 1..(m - 1) : s[i] \in Steps
      BY <1>1, <2>2
    <3>2. Len(SubSeq(s, 1, m - 1)) = IF 1 <= m - 1 THEN (m - 1) - 1 + 1 ELSE 0
      BY <3>1, SubSeqProperties
    <3>3. QED BY <1>1, <2>2, <3>2
  <2>5. rest = SubSeq(s, m, Len(s))
    <3>1. Len(LeadingWaits(s)) = m - 1
      BY <2>3, <2>4
    <3>2. Len(LeadingWaits(s)) + 1 = m
      BY <1>1, <2>2, <3>1
    <3>3. QED BY <3>2
  <2>6. Len(s) \in m..Len(s)
    BY <1>1, <2>2
  <2>7. Head(rest) = s[m]
    BY <2>2, <2>5, <2>6, HeadTailOfSubSeq
  <2>8. rest \in Seq(Steps)
    <3>1. m \in Int /\ Len(s) \in Int /\ \A i \in m..Len(s) : s[i] \in Steps
      BY <1>1, <2>2
    <3>2. QED BY <2>5, <3>1, SubSeqProperties
  <2>9. QED BY <2>2, <2>7, <2>8
<1>6. QED BY <1>4, <1>5

(* An event leaves the rows and the plan alone.                            *)
LEMMA PostLeaves ==
  ASSUME NEW c, IsCase(c), NEW e
  PROVE  /\ Post(c, e).rows = c.rows /\ Post(c, e).steps = c.steps /\ IsRecord(Post(c, e))
         /\ Orderly(c) => Orderly(Post(c, e))
<1>1. Post(c, e) = Moved(c, TargetState(e, c.state))
  BY PostMoves
<1>2. Post(c, e).rows = c.rows /\ Post(c, e).steps = c.steps /\ IsRecord(Post(c, e))
  <2> DEFINE s == TargetState(e, c.state)
             p == Post(c, e)
  <2>1. \/ p = Made(s, c.rows, c.steps, c.no, c.closed, c.died)
        \/ p = Made(c.state, c.rows, c.steps, c.no, c.closed, TRUE)
    BY <1>1 DEF Moved
  <2> HIDE DEF s, p
  <2>2. CASE p = Made(s, c.rows, c.steps, c.no, c.closed, c.died)
    BY <2>2, Fields DEF p
  <2>3. CASE p = Made(c.state, c.rows, c.steps, c.no, c.closed, TRUE)
    <3>1. \A d : LET q == Made(c.state, c.rows, c.steps, c.no, c.closed, d)
                 IN  q.rows = c.rows /\ q.steps = c.steps /\ IsRecord(q)
      BY Fields
    <3>2. p.rows = c.rows /\ p.steps = c.steps /\ IsRecord(p)
      BY <2>3, <3>1, Zenon
    <3>3. QED BY <3>2 DEF p
  <2>4. QED BY <2>1, <2>2, <2>3
<1>3. QED BY <1>2 DEF Orderly, HasPlan

LEMMA IdleIsOrderly ==
  ASSUME NEW c, c.rows = <<>>, c.steps = NoPlan \/ c.steps \in Seq(Steps)
  PROVE  Orderly(c)
BY DEF Orderly, HasPlan

LEMMA AdvanceOrderly ==
  ASSUME NEW c, IsCase(c), c.rows = <<>>, c.steps = NoPlan \/ c.steps \in Seq(Steps), NEW delay
  PROVE  Orderly(Advance(c, delay))
<1> DEFINE waits == LeadingWaits(Known(c))
           rest  == SubSeq(Known(c), Len(waits) + 1, Len(Known(c)))
           row   == [at |-> now + delay + DelayOf(waits), action |-> Head(rest),
                     no |-> c.no, leased |-> FALSE]
           spent == [c EXCEPT !.steps = <<>>]
           next  == [c EXCEPT !.steps = Tail(rest), !.rows = Append(@, row)]
<1>1. \/ Advance(c, delay) \in {c, spent}
      \/ rest # <<>> /\ Advance(c, delay) = Post(next, Plain("action_scheduled"))
  <2>1. CASE Known(c) = <<>>
    BY <2>1 DEF Advance
  <2>2. CASE Known(c) # <<>> /\ rest = <<>>
    BY <2>2 DEF Advance
  <2>3. CASE Known(c) # <<>> /\ rest # <<>>
    BY <2>3 DEF Advance
  <2>4. QED BY <2>1, <2>2, <2>3
<1>2. IsRecord(c) /\ c.closed \in BOOLEAN /\ c.died \in BOOLEAN /\ c.state \in CaseStates
  BY DEF IsCase
<1>3. Known(c) \in Seq(Steps)
  BY EmptySeq DEF Known, HasPlan
<1>4. rest \in Seq(Steps) /\ (rest # <<>> => Head(rest) \in Actions)
  BY <1>3, WaitsLead
<1>5. Orderly(c)
  BY IdleIsOrderly
<1>6. Orderly(spent)
  <2>1. spent.rows = <<>> /\ spent.steps = <<>>
    BY <1>2, Replacing, Fields
  <2> HIDE DEF spent
  <2>2. <<>> \in Seq(Steps)
    BY EmptySeq
  <2>3. QED BY <2>1, <2>2, IdleIsOrderly
<1>7. row = Row(now + delay + DelayOf(waits), Head(rest), c.no, FALSE)
  BY DEF Row
<1> HIDE DEF rest, row, waits
<1>8. ASSUME rest # <<>> PROVE Orderly(Post(next, Plain("action_scheduled")))
  <2>1. next = Made(c.state, Append(c.rows, row), Tail(rest), c.no, c.closed, c.died)
    BY <1>2, Scheduling
  <2> HIDE DEF next
  <2>2. IsCase(next) /\ next.rows = Append(<<>>, row) /\ next.steps = Tail(rest)
    <3>1. IsCase(next)
      BY <1>2, <2>1, MadeIsCase
    <3>2. next.rows = Append(c.rows, row) /\ next.steps = Tail(rest)
      BY <2>1 DEF Made
    <3>3. QED BY <3>1, <3>2
  <2>3. Tail(rest) \in Seq(Steps)
    BY <1>4, <1>8, HeadTailProperties
  <2>4. Append(<<>>, row) = <<row>>
    OBVIOUS
  <2>5. next.steps # NoPlan
    BY <2>2, <2>3, LoopAssumption DEF Steps
  <2>6. Orderly(next)
    <3>1. Single(<<row>>)
      BY <1>4, <1>7, <1>8 DEF Single
    <3>2. QED BY <2>2, <2>3, <2>4, <2>5, <3>1 DEF Orderly, HasPlan
  <2>7. QED BY <2>2, <2>6, PostLeaves
<1> HIDE DEF spent, next
<1>9. QED BY <1>1, <1>5, <1>6, <1>8

LEMMA StartOrderly ==
  ASSUME NEW c, IsCase(c), c.rows = <<>>, Orderly(c), NEW plan \in Seq(Steps), NEW delay
  PROVE  Orderly(StartPlan(c, plan, delay))
<1>1. CASE plan = <<>> \/ c.closed \/ ~CanTransition(c.state, "DIAGNOSING")
  BY <1>1 DEF StartPlan
<1>2. CASE plan # <<>> /\ ~c.closed /\ CanTransition(c.state, "DIAGNOSING")
  <2> DEFINE fresh     == [c EXCEPT !.steps = plan, !.no = 0]
             diagnosed == Post(fresh, [type |-> "diagnosis_started", tier |-> 0])
             planned   == Post(diagnosed, Plain("plan_proposed"))
  <2>1. StartPlan(c, plan, delay) = Advance(planned, delay)
    BY <1>2 DEF StartPlan
  <2>2. IsRecord(c) /\ c.closed \in BOOLEAN /\ c.died \in BOOLEAN /\ c.state \in CaseStates
    BY DEF IsCase
  <2>3. "DIAGNOSING" \in CaseStates /\ "PLANNING" \in CaseStates
    BY DEF CaseStates, LiveStates
  <2>4. fresh = Made(c.state, c.rows, plan, 0, c.closed, c.died)
    BY <2>2, ReplacingTwo
  <2> HIDE DEF fresh
  <2>5. IsCase(fresh) /\ fresh.rows = <<>> /\ fresh.steps = plan
    BY <2>2, <2>4, Fields, MadeIsCase
  <2>6. IsCase(diagnosed) /\ diagnosed.rows = <<>> /\ diagnosed.steps = plan
    <3>1. diagnosed = Moved(fresh, "DIAGNOSING")
      BY <2>5, Events
    <3>2. IsCase(diagnosed)
      BY <2>3, <2>5, <3>1, MovedIsCase
    <3>3. QED BY <2>5, <3>2, PostLeaves
  <2> HIDE DEF diagnosed
  <2>7. IsCase(planned) /\ planned.rows = <<>> /\ planned.steps = plan
    <3>1. planned = Moved(diagnosed, "PLANNING")
      BY <2>6, Events
    <3>2. IsCase(planned)
      BY <2>3, <2>6, <3>1, MovedIsCase
    <3>3. QED BY <2>6, <3>2, PostLeaves
  <2> HIDE DEF planned
  <2>8. QED BY <2>1, <2>7, AdvanceOrderly
<1>3. QED BY <1>1, <1>2

(* The only row of a case is gone once it has been run.                    *)
LEMMA RowIsRun ==
  ASSUME IInv, Orderly(case), NEW k \in DOMAIN case.rows
  PROVE  /\ case.rows[k].action \in Actions /\ IsCase(After(k))
         /\ After(k).rows = <<>> /\ After(k).steps \in Seq(Steps)
<1>1. PICK r : case.rows = <<r>> /\ r.action \in Actions
  <2>1. case.rows # <<>>
    OBVIOUS
  <2>2. PICK at, no, leased : \E action \in Actions : case.rows = <<Row(at, action, no, leased)>>
    BY <2>1 DEF Orderly, Single
  <2>3. \A action : Row(at, action, no, leased).action = action
    BY DEF Row
  <2>4. QED BY <2>2, <2>3
<1>2. k = 1 /\ case.rows[k] = r
  BY <1>1
<1>3. RemoveAt(case.rows, k) = <<>>
  <2>1. SubSeq(<<r>>, 1, 0) = <<>> /\ SubSeq(<<r>>, 2, 1) = <<>>
    BY SubSeqEmpty
  <2>2. Len(<<r>>) = 1
    OBVIOUS
  <2>3. <<>> \o <<>> = <<>>
    OBVIOUS
  <2>4. RemoveAt(<<r>>, 1) = SubSeq(<<r>>, 1, 0) \o SubSeq(<<r>>, 2, 1)
    BY <2>2 DEF RemoveAt
  <2>5. QED BY <1>1, <1>2, <2>1, <2>3, <2>4
<1>4. After(k).rows = RemoveAt(case.rows, k) /\ After(k).steps = case.steps
  BY Replacing, Fields DEF After, IInv, IsCase
<1>5. case.steps \in Seq(Steps)
  BY <1>1 DEF Orderly
<1>6. IsCase(After(k))
  BY AfterRow
<1>7. QED BY <1>1, <1>2, <1>3, <1>4, <1>5, <1>6

(* A plan of one step, which the fallback and a release start.             *)
LEMMA FallbackOrderly ==
  ASSUME NEW c, IsCase(c), Orderly(c), ~HasPlan(c)
  PROVE  Orderly(StartPlan(c, <<Fallback>>, 0))
<1>1. Fallback \in Steps
  BY LoopAssumption DEF Steps
<1>2. <<Fallback>> \in Seq(Steps)
  BY <1>1
<1>3. c.rows = <<>>
  BY DEF Orderly
<1>4. QED BY <1>2, <1>3, StartOrderly

LEMMA RunOrderly ==
  ASSUME IInv, Orderly(case), NEW k \in DOMAIN case.rows, RunStep(k)
  PROVE  Orderly(case')
<1> DEFINE a == After(k)
<1>1. /\ case.rows[k].action \in Actions
      /\ IsCase(a) /\ a.rows = <<>> /\ a.steps \in Seq(Steps)
  BY RowIsRun
<1>2. CASE Substitute(k) \/ Defer(k)
  <2>0. PICK action \in Actions : \E delay : case' = Advance(Prepend(a, action), delay)
    BY <1>1, <1>2, LoopAssumption DEF Substitute, Defer
  <2>1. PICK delay : case' = Advance(Prepend(a, action), delay)
    BY <2>0
  <2> DEFINE t == <<action>> \o Known(a)
             c == [a EXCEPT !.steps = t]
  <2> HIDE DEF a
  <2>2. Known(a) \in Seq(Steps) /\ <<action>> \in Seq(Steps)
    BY <1>1, EmptySeq DEF Known, Steps
  <2>3. t \in Seq(Steps)
    BY <2>2, ConcatProperties
  <2> HIDE DEF t
  <2>4. IsCase(c) /\ c.rows = <<>> /\ c.steps = t
    BY <1>1, Replanning, Replacing, Fields DEF IsCase
  <2>5. Prepend(a, action) = c
    BY DEF Prepend, t
  <2> HIDE DEF c
  <2>6. QED BY <2>1, <2>3, <2>4, <2>5, AdvanceOrderly
<1>3. CASE Refuse(k)
  <2>1. case' = [a EXCEPT !.steps = NoPlan]
    BY <1>3 DEF Refuse
  <2> HIDE DEF a
  <2>2. case'.rows = <<>> /\ case'.steps = NoPlan
    BY <1>1, <2>1, Replacing, Fields DEF IsCase
  <2>3. QED BY <2>2, IdleIsOrderly
<1>4. CASE Execute(k)
  <2>1. case' = Advance(Executed(k), 0) /\ IsCase(Executed(k))
        /\ Executed(k).rows = <<>> /\ Executed(k).steps \in Seq(Steps)
    BY <1>1, <1>4, ExecutedRests DEF Execute
  <2>2. QED BY <2>1, AdvanceOrderly
<1>5. CASE Fail(k)
  <2> DEFINE b == Approved(a)
             c == [b EXCEPT !.steps = NoPlan]
  <2>1. IsCase(b) /\ b.rows = <<>>
    BY <1>1, <1>5, AuthorizedExecutes DEF Fail
  <2>2. case' = Post(c, Plain("outcome_observed"))
    BY <1>5 DEF Fail
  <2> HIDE DEF b
  <2>3. IsCase(c) /\ c.rows = <<>> /\ c.steps = NoPlan
    BY <2>1, Replanning, Replacing, Fields DEF IsCase
  <2> HIDE DEF c
  <2>4. QED BY <2>2, <2>3, IdleIsOrderly, PostLeaves
<1>6. CASE Duplicate(k)
  <2>1. case' = Advance(Approved(a), 0) /\ IsCase(Approved(a))
        /\ Approved(a).rows = <<>> /\ Approved(a).steps \in Seq(Steps)
    BY <1>1, <1>6, AuthorizedExecutes DEF Duplicate
  <2>2. QED BY <2>1, AdvanceOrderly
<1>7. QED BY <1>2, <1>3, <1>4, <1>5, <1>6 DEF RunStep

LEMMA ClosingOrderly ==
  ASSUME IInv, NEW s
  PROVE  /\ Orderly(Close(case, s))
         /\ Orderly(case) => Orderly([Post(case, Terminal(s)) EXCEPT !.rows = <<>>])
<1> DEFINE p == Post(case, Terminal(s))
<1>1. IsRecord(p) /\ p.steps = case.steps
  BY PostLeaves DEF IInv
<1>2. Close(case, s) = [p EXCEPT !.rows = <<>>, !.steps = NoPlan, !.closed = TRUE]
  BY DEF Close
<1> HIDE DEF p
<1>3. Close(case, s).rows = <<>> /\ Close(case, s).steps = NoPlan
  <2>1. Close(case, s) = Made(p.state, <<>>, NoPlan, p.no, TRUE, p.died)
    BY <1>1, <1>2, ReplacingThree
  <2>2. QED BY <2>1 DEF Made
<1> DEFINE q == [p EXCEPT !.rows = <<>>]
<1>4. q.rows = <<>> /\ q.steps = case.steps
  BY <1>1, Replacing, Fields
<1> HIDE DEF q
<1>5. Orderly(case) => Orderly(q)
  BY <1>4, IdleIsOrderly DEF Orderly, HasPlan
<1>6. QED BY <1>3, <1>5, IdleIsOrderly DEF q, p

LEMMA ParkingOrderly ==
  ASSUME IInv, Orderly(case)
  PROVE  Orderly(Park(case)) /\ Orderly([Park(case) EXCEPT !.steps = NoPlan])
<1> DEFINE p == Post(case, Plain("incident_attached"))
           q == Park(case)
           r == [q EXCEPT !.steps = NoPlan]
<1>1. IsRecord(p) /\ p.steps = case.steps
  BY PostLeaves DEF IInv
<1>2. q = [p EXCEPT !.rows = <<>>]
  BY DEF Park
<1> HIDE DEF p, q
<1>3. IsRecord(q) /\ q.rows = <<>> /\ q.steps = case.steps
  <2>1. q = Made(p.state, <<>>, p.steps, p.no, p.closed, p.died)
    BY <1>1, <1>2, Replacing
  <2>2. QED BY <1>1, <2>1, Fields
<1>4. r.rows = <<>> /\ r.steps = NoPlan
  BY <1>3, Replacing, Fields
<1> HIDE DEF r
<1>5. Orderly(q) /\ Orderly(r)
  BY <1>3, <1>4, IdleIsOrderly DEF Orderly, HasPlan
<1>6. QED BY <1>5 DEF q, r

LEMMA ReleaseOrderly ==
  ASSUME IInv, Orderly(case), NEW i \in Incidents, Attach(i) \/ ReleaseStep(i)
  PROVE  Orderly(case')
<1>1. ASSUME NEW c, IsCase(c), Orderly(c) PROVE Orderly(Resume(c))
  BY <1>1, FallbackOrderly DEF Resume
<1>2. CASE Attach(i) \/ Repark(i)
  BY <1>2, ParkingOrderly DEF Attach, Repark
<1>3. CASE ReleaseCase(i)
  <2>1. CASE case.closed
    BY <1>3, <2>1 DEF ReleaseCase
  <2>2. CASE ~case.closed
    <3> DEFINE d == Post(case, Plain("incident_released"))
    <3>1. case' = Resume(d)
      BY <1>3, <2>2 DEF ReleaseCase
    <3>2. d = Moved(case, "SCHEDULED") /\ "SCHEDULED" \in CaseStates
      BY Events DEF IInv, CaseStates, LiveStates
    <3>3. IsCase(d) /\ Orderly(d)
      BY <3>2, MovedIsCase, PostLeaves DEF IInv
    <3> HIDE DEF d
    <3>4. QED BY <1>1, <3>1, <3>3
  <2>3. QED BY <2>1, <2>2
<1>4. CASE ReleaseOthers(i)
  BY <1>1, <1>4 DEF ReleaseOthers, IInv
<1>5. CASE Complete(i)
  BY <1>5 DEF Complete
<1>6. QED BY <1>2, <1>3, <1>4, <1>5 DEF ReleaseStep

LEMMA TickOrderly ==
  ASSUME IInv, Orderly(case), Tick
  PROVE  Orderly(case')
<1> DEFINE leased ==
      [k \in DOMAIN case.rows |-> [case.rows[k] EXCEPT !.leased = case.rows[k].at <= now]]
<1>1. case' = [case EXCEPT !.rows = leased]
  BY DEF Tick
<1>2. case.rows = <<>> => leased = <<>>
  OBVIOUS
<1>3. ASSUME Single(case.rows) PROVE Single(leased)
  <2>1. PICK at, no, l : \E action \in Actions : case.rows = <<Row(at, action, no, l)>>
    BY <1>3 DEF Single
  <2>2. PICK action \in Actions : case.rows = <<Row(at, action, no, l)>>
    BY <2>1
  <2>3. [Row(at, action, no, l) EXCEPT !.leased = Row(at, action, no, l).at <= now]
          = Row(at, action, no, at <= now)
    BY DEF Row
  <2> DEFINE x == Row(at, action, no, l)
             y == Row(at, action, no, at <= now)
  <2>4. leased = [k \in DOMAIN <<x>> |-> [<<x>>[k] EXCEPT !.leased = <<x>>[k].at <= now]]
    BY <2>2, Zenon
  <2>5. \A k \in DOMAIN <<x>> : k = 1 /\ <<x>>[k] = x
    <3> HIDE DEF x
    <3> QED OBVIOUS
  <2>6. leased = [k \in DOMAIN <<x>> |-> y]
    BY <2>3, <2>4, <2>5, Zenon
  <2> HIDE DEF leased, x, y
  <2>7. [k \in DOMAIN <<x>> |-> y] = <<y>>
    OBVIOUS
  <2>8. QED BY <2>6, <2>7 DEF y, Single
<1> HIDE DEF leased
<1>4. case'.rows = leased /\ case'.steps = case.steps
  BY <1>1, Replacing, Fields DEF IInv, IsCase
<1>5. QED BY <1>2, <1>3, <1>4 DEF Orderly, HasPlan

LEMMA InitOneAtATime == Init => OneAtATime
<1> SUFFICES ASSUME Init PROVE OneAtATime
  OBVIOUS
<1>1. PICK plan \in Plans, delay \in StartDelays : case = StartPlan(NewCase, plan, delay)
  BY DEF Init
<1>2. plan \in Seq(Steps)
  BY <1>1, LoopAssumption DEF Steps
<1>3. NewCase = Made("DETECTED", <<>>, NoPlan, 0, FALSE, FALSE) /\ "DETECTED" \in CaseStates
  BY DEF NewCase, Made, CaseStates, LiveStates
<1>4. IsCase(NewCase)
  BY <1>3, MadeIsCase
<1>5. NewCase.rows = <<>> /\ NewCase.steps = NoPlan
  BY DEF NewCase
<1>6. Orderly(case)
  BY <1>1, <1>2, <1>4, <1>5, StartOrderly, IdleIsOrderly
<1>7. QED BY <1>6 DEF Init, OneAtATime

LEMMA StepOneAtATime == IInv /\ OneAtATime /\ [Next]_vars => OneAtATime'
<1> SUFFICES ASSUME IInv, OneAtATime, [Next]_vars, ~promised'
             PROVE  promises' = {} /\ Orderly(case')
  BY DEF OneAtATime, Orderly, HasPlan, Single
<1>1. ~promised /\ promises' \subseteq promises
  <2>1. ASSUME UNCHANGED <<promises, promised>> PROVE ~promised /\ promises' \subseteq promises
    BY <2>1
  <2>2. CASE World \/ AfterWorld \/ ReplyEndsCase \/ ReplyPassesBy \/ AfterReplies \/ Money \/ Tick
    BY <2>1, <2>2 DEF World, AfterWorld, ReplyEndsCase, ReplyPassesBy, AfterReplies, Money, Tick,
                      world
  <2>3. ~ReplyPromises
    BY DEF ReplyPromises
  <2>4. CASE Promises
    BY <2>4 DEF Promises, StillOpen
  <2>5. CASE \E k \in DOMAIN case.rows : RunStep(k)
    BY <2>1, <2>5 DEF RunStep, Substitute, Defer, Refuse, Execute, Fail, Duplicate, world
  <2>6. CASE \E i \in Incidents : Attach(i) \/ ReleaseStep(i)
    BY <2>1, <2>6 DEF Attach, ReleaseStep, Step, ReleaseCase, ReleaseOthers, Repark, Complete,
                      world
  <2>7. CASE AfterDrain \/ AfterDetect \/ EndTick \/ Exhaust \/ UNCHANGED vars
    BY <2>1, <2>7 DEF AfterDrain, AfterDetect, EndTick, Exhaust, world, vars
  <2>8. QED BY <2>2, <2>3, <2>4, <2>5, <2>6, <2>7 DEF Next
<1>2. promises = {} /\ promises' = {} /\ Orderly(case)
  BY <1>1 DEF OneAtATime
<1>3. CASE UNCHANGED case
  BY <1>2, <1>3
<1>4. CASE World \/ ReplyEndsCase \/ Money
  BY <1>2, <1>4, ClosingOrderly DEF World, ReplyEndsCase, Money
<1>5. CASE AfterWorld \/ ReplyPassesBy \/ AfterReplies \/ AfterDrain \/ AfterDetect \/ EndTick
  BY <1>3, <1>5 DEF AfterWorld, ReplyPassesBy, Reply, AfterReplies, AfterDrain, AfterDetect, EndTick
<1>6. ~ReplyPromises
  BY DEF ReplyPromises
<1>7. CASE Promises
  BY <1>2, <1>7 DEF Promises
<1>8. CASE Tick
  BY <1>2, <1>8, TickOrderly
<1>9. CASE \E k \in DOMAIN case.rows : RunStep(k)
  BY <1>2, <1>9, RunOrderly
<1>10. CASE \E i \in Incidents : Attach(i) \/ ReleaseStep(i)
  BY <1>2, <1>10, ReleaseOrderly
<1>11. CASE Exhaust
  BY <1>2, <1>11, ClosingOrderly DEF Exhaust
<1>12. CASE UNCHANGED vars
  BY <1>3, <1>12 DEF vars
<1>13. QED BY <1>2, <1>4, <1>5, <1>6, <1>7, <1>8, <1>9, <1>10, <1>11, <1>12 DEF Next

(* A case has one action queued at a time, whatever parks, releases,       *)
(* defers or refuses it: only a promise makes the runner forget a plan     *)
(* whose row is still in the table (IntentRouter and startPlan).           *)
THEOREM OnePlanAtATime == Spec => []OnePlanUnlessPromised
<1>1. IInv /\ OneAtATime /\ [Next]_vars => OneAtATime'
  BY StepOneAtATime
<1>2. OneAtATime => OnePlanUnlessPromised
  <2>1. ASSUME OneAtATime, ~promised PROVE Len(case.rows) <= 1
    <3>1. case.rows = <<>> \/ \E r : case.rows = <<r>>
      BY <2>1 DEF OneAtATime, Orderly, Single
    <3>2. ASSUME NEW r PROVE Len(<<r>>) = 1
      OBVIOUS
    <3>3. CASE case.rows = <<>>
      BY <3>3
    <3>4. CASE \E r : case.rows = <<r>>
      <4>1. PICK r : case.rows = <<r>>
        BY <3>4
      <4>2. Len(case.rows) = 1
        BY <3>2, <4>1
      <4>3. QED BY <4>2
    <3>5. QED BY <3>1, <3>3, <3>4
  <2>2. QED BY <2>1 DEF OnePlanUnlessPromised
<1>3. QED BY <1>1, <1>2, InitOneAtATime, Invariance, PTL DEF Spec
-----------------------------------------------------------------------------
(* The types.  First the ticks that the leading waits of a plan add up to: *)
(* the sum is a number because a least position where it is not would have *)
(* a predecessor.                                                          *)
Sums(f, len, terms) ==
  /\ f \in [0..len -> Nat]
  /\ f[0] = 0 /\ \A n \in 1..len : f[n] = f[n - 1] + terms[n]

LEMMA SumExists ==
  ASSUME NEW len \in Nat, NEW terms \in [1..len -> Nat]
  PROVE  \E f : Sums(f, len, terms)
<1> DEFINE Missing == {k \in 0..len : ~\E f : Sums(f, k, terms)}
<1>1. Missing \in SUBSET Nat
  OBVIOUS
<1>2. ASSUME Missing # {} PROVE FALSE
  <2> DEFINE k == Min(Missing)
  <2>1. k \in Missing /\ \A j \in Missing : k <= j
    BY <1>1, <1>2, LeastOf
  <2> HIDE DEF k
  <2>2. k \in 0..len /\ ~\E f : Sums(f, k, terms)
    BY <2>1
  <2>3. CASE k = 0
    <3>1. Sums([n \in 0..0 |-> 0], 0, terms)
      BY DEF Sums
    <3>2. QED BY <2>2, <2>3, <3>1
  <2>4. CASE k # 0
    <3>1. k \in 1..len /\ k - 1 \in 0..len /\ k - 1 \notin Missing
      BY <2>1, <2>2, <2>4
    <3>2. PICK g : Sums(g, k - 1, terms)
      BY <3>1
    <3> DEFINE f == [n \in 0..k |-> IF n = k THEN g[k - 1] + terms[k] ELSE g[n]]
    <3>3. g[k - 1] \in Nat /\ terms[k] \in Nat
      BY <3>1, <3>2 DEF Sums
    <3>4. f \in [0..k -> Nat]
      <4>1. \A n \in 0..k : n = k \/ n \in 0..(k - 1)
        BY <3>1
      <4>2. \A n \in 0..(k - 1) : g[n] \in Nat
        BY <3>2 DEF Sums
      <4>3. QED BY <3>3, <4>1, <4>2
    <3>5. f[k] = g[k - 1] + terms[k] /\ \A n \in 0..(k - 1) : f[n] = g[n]
      BY <3>1
    <3> HIDE DEF f
    <3>6. f[0] = 0
      BY <3>1, <3>2, <3>5 DEF Sums
    <3>7. ASSUME NEW n \in 1..k PROVE f[n] = f[n - 1] + terms[n]
      <4>1. CASE n = k
        BY <3>1, <3>5, <4>1
      <4>2. CASE n # k
        <5>1. n \in 1..(k - 1) /\ n \in 0..(k - 1) /\ n - 1 \in 0..(k - 1)
          BY <3>1, <4>2
        <5>2. QED BY <3>2, <3>5, <5>1 DEF Sums
      <4>3. QED BY <4>1, <4>2
    <3>8. QED BY <2>2, <3>4, <3>6, <3>7 DEF Sums
  <2>5. QED BY <2>3, <2>4
<1>3. Missing = {} /\ len \in 0..len
  <2> HIDE DEF Missing
  <2> QED BY <1>2
<1>4. QED BY <1>3

LEMMA DelayTyped ==
  ASSUME NEW waits \in Seq(Waits)
  PROVE  DelayOf(waits) \in Nat
<1> DEFINE len == Len(waits)
           terms == [n \in 1..len |-> Delay[waits[n]]]
           IsSum(f) == f = [n \in 0..len |-> IF n = 0 THEN 0 ELSE f[n - 1] + Delay[waits[n]]]
           sum == CHOOSE f : IsSum(f)
<1>1. len \in Nat /\ \A n \in 1..len : waits[n] \in Waits
  BY LenProperties, ElementOfSeq
<1> HIDE DEF len
<1>2. terms \in [1..len -> Nat]
  BY <1>1, LoopAssumption
<1>3. PICK f : Sums(f, len, terms)
  BY <1>1, <1>2, SumExists
<1>4. IsSum(f)
  <2>1. \A n \in 0..len : f[n] = IF n = 0 THEN 0 ELSE f[n - 1] + Delay[waits[n]]
    BY <1>1, <1>3 DEF Sums
  <2>2. f = [n \in 0..len |-> f[n]]
    BY <1>3 DEF Sums
  <2>3. [n \in 0..len |-> f[n]]
          = [n \in 0..len |-> IF n = 0 THEN 0 ELSE f[n - 1] + Delay[waits[n]]]
    BY <2>1, Zenon
  <2>4. QED BY <2>2, <2>3, Zenon
<1>5. IsSum(sum)
  BY <1>4, Zenon
<1>6. DelayOf(waits) = sum[len]
  BY Zenon DEF DelayOf, len
<1> HIDE DEF sum
<1>7. sum[0] = 0 /\ \A n \in 1..len : sum[n] = sum[n - 1] + terms[n]
  BY <1>1, <1>5
<1> DEFINE Missing == {n \in 0..len : sum[n] \notin Nat}
<1>8. ASSUME Missing # {} PROVE FALSE
  <2> DEFINE k == Min(Missing)
  <2>1. Missing \in SUBSET Nat
    OBVIOUS
  <2>2. k \in Missing /\ \A j \in Missing : k <= j
    BY <1>8, <2>1, LeastOf
  <2> HIDE DEF k
  <2>3. k \in 1..len /\ k - 1 \in 0..len
    BY <1>1, <1>7, <2>2
  <2>4. k - 1 \notin Missing
    BY <2>2, <2>3
  <2>5. sum[k - 1] \in Nat /\ terms[k] \in Nat
    BY <1>2, <2>3, <2>4
  <2>6. sum[k] \in Nat
    BY <1>7, <2>3, <2>5
  <2>7. QED BY <2>2, <2>6
<1>9. QED BY <1>1, <1>6, <1>8

(* What precedes the first action of a plan is waits.                      *)
LEMMA WaitsAreWaits ==
  ASSUME NEW s \in Seq(Steps)
  PROVE  LeadingWaits(s) \in Seq(Waits)
<1> DEFINE I == {i \in 1..Len(s) : s[i] \in Actions}
<1>1. Len(s) \in Nat /\ \A i \in 1..Len(s) : s[i] \in Steps
  BY LenProperties, ElementOfSeq
<1>2. I \in SUBSET Nat /\ \A i \in 1..Len(s) : i \notin I => s[i] \in Waits
  BY <1>1 DEF Steps
<1>3. LeadingWaits(s) = IF (IF I # {} THEN Min(I) ELSE 0) = 0 THEN s
                        ELSE SubSeq(s, 1, (IF I # {} THEN Min(I) ELSE 0) - 1)
  BY DEF LeadingWaits, SelectInSeq
<1>4. \A i \in I : i \in 1..Len(s)
  OBVIOUS
<1> HIDE DEF I
<1>5. CASE I = {}
  <2>1. LeadingWaits(s) = s /\ s \in [1..Len(s) -> Waits]
    BY <1>2, <1>3, <1>5, LenProperties
  <2>2. QED BY <1>1, <2>1
<1>6. CASE I # {}
  <2> DEFINE m == Min(I)
  <2>1. m \in I /\ \A i \in I : m <= i
    BY <1>2, <1>6, LeastOf
  <2>2. LeadingWaits(s) = SubSeq(s, 1, m - 1)
    BY <1>1, <1>3, <1>4, <1>6, <2>1
  <2> HIDE DEF m
  <2>3. 1 \in Int /\ m - 1 \in Int /\ \A i \in 1..(m - 1) : s[i] \in Waits
    BY <1>1, <1>2, <1>4, <2>1
  <2>4. QED BY <2>2, <2>3, SubSeqProperties
<1>7. QED BY <1>5, <1>6

-----------------------------------------------------------------------------
(* The data of a case record: numbers of attempts up to the cap, dated     *)
(* rows, a plan of known steps.                                            *)
Shaped(c) ==
  /\ IsRecord(c)
  /\ c.no \in 0..MaxAttempts /\ c.rows \in Seq(Rows)
  /\ c.steps = NoPlan \/ c.steps \in Seq(Steps)

LEMMA ShapedMade ==
  ASSUME NEW s, NEW r \in Seq(Rows), NEW t, t = NoPlan \/ t \in Seq(Steps),
         NEW n \in 0..MaxAttempts, NEW b, NEW d
  PROVE  Shaped(Made(s, r, t, n, b, d))
BY Fields DEF Shaped

(* An event changes none of it.                                            *)
LEMMA PostShaped ==
  ASSUME NEW c, Shaped(c), NEW e
  PROVE  Shaped(Post(c, e)) /\ Post(c, e).no = c.no
<1>1. IsRecord(c)
  BY DEF Shaped
<1>2. ASSUME NEW s, NEW d
      PROVE  /\ Shaped(Made(s, c.rows, c.steps, c.no, c.closed, d))
             /\ Made(s, c.rows, c.steps, c.no, c.closed, d).no = c.no
  BY Fields, ShapedMade DEF Shaped
<1>3. /\ \A s : [c EXCEPT !.state = s] = Made(s, c.rows, c.steps, c.no, c.closed, c.died)
      /\ \A d : [c EXCEPT !.died = d] = Made(c.state, c.rows, c.steps, c.no, c.closed, d)
  BY <1>1, Replacing
<1>4. \E s, d : Post(c, e) = Made(s, c.rows, c.steps, c.no, c.closed, d)
  BY <1>3 DEF Post
<1>5. QED BY <1>2, <1>4

LEMMA ReplanShaped ==
  ASSUME NEW c, Shaped(c), NEW t, t = NoPlan \/ t \in Seq(Steps)
  PROVE  Shaped([c EXCEPT !.steps = t]) /\ [c EXCEPT !.steps = t].no = c.no
<1>1. [c EXCEPT !.steps = t] = Made(c.state, c.rows, t, c.no, c.closed, c.died)
  BY Replacing DEF Shaped
<1>2. Shaped(Made(c.state, c.rows, t, c.no, c.closed, c.died))
  BY ShapedMade DEF Shaped
<1>3. Made(c.state, c.rows, t, c.no, c.closed, c.died).no = c.no
  BY Fields
<1>4. QED BY <1>1, <1>2, <1>3

LEMMA RowsShaped ==
  ASSUME NEW c, Shaped(c), NEW r \in Seq(Rows)
  PROVE  Shaped([c EXCEPT !.rows = r])
<1>1. [c EXCEPT !.rows = r] = Made(c.state, r, c.steps, c.no, c.closed, c.died)
  BY Replacing DEF Shaped
<1>2. QED BY <1>1, ShapedMade DEF Shaped

LEMMA NothingQueued == <<>> \in Seq(Rows)
BY EmptySeq

LEMMA AdvanceShaped ==
  ASSUME NEW c, Shaped(c), now \in Nat, NEW delay \in Nat
  PROVE  Shaped(Advance(c, delay))
<1> DEFINE waits == LeadingWaits(Known(c))
           rest  == SubSeq(Known(c), Len(waits) + 1, Len(Known(c)))
           row   == [at |-> now + delay + DelayOf(waits), action |-> Head(rest),
                     no |-> c.no, leased |-> FALSE]
           spent == [c EXCEPT !.steps = <<>>]
           next  == [c EXCEPT !.steps = Tail(rest), !.rows = Append(@, row)]
<1>1. \/ Advance(c, delay) \in {c, spent}
      \/ rest # <<>> /\ Advance(c, delay) = Post(next, Plain("action_scheduled"))
  <2>1. CASE Known(c) = <<>>
    BY <2>1 DEF Advance
  <2>2. CASE Known(c) # <<>> /\ rest = <<>>
    BY <2>2 DEF Advance
  <2>3. CASE Known(c) # <<>> /\ rest # <<>>
    BY <2>3 DEF Advance
  <2>4. QED BY <2>1, <2>2, <2>3
<1>2. IsRecord(c) /\ c.no \in 0..MaxAttempts /\ c.rows \in Seq(Rows)
  BY DEF Shaped
<1>3. Known(c) \in Seq(Steps)
  BY EmptySeq DEF Known, HasPlan, Shaped
<1>4. rest \in Seq(Steps) /\ (rest # <<>> => Head(rest) \in Actions)
  BY <1>3, WaitsLead
<1>5. DelayOf(waits) \in Nat
  BY <1>3, WaitsAreWaits, DelayTyped
<1>6. Shaped(spent)
  <2>1. <<>> \in Seq(Steps)
    BY EmptySeq
  <2>2. QED BY <2>1, ReplanShaped
<1>7. rest # <<>> => row \in Rows
  <2> HIDE DEF rest, waits
  <2>1. now + delay + DelayOf(waits) \in Nat
    BY <1>5
  <2>2. QED BY <1>2, <1>4, <2>1 DEF Rows
<1> HIDE DEF rest, row, waits
<1>8. ASSUME rest # <<>> PROVE Shaped(Post(next, Plain("action_scheduled")))
  <2>1. next = Made(c.state, Append(c.rows, row), Tail(rest), c.no, c.closed, c.died)
    BY <1>2, Scheduling
  <2>2. Tail(rest) \in Seq(Steps)
    BY <1>4, <1>8, HeadTailProperties
  <2>3. Append(c.rows, row) \in Seq(Rows)
    BY <1>2, <1>7, <1>8, AppendProperties
  <2> HIDE DEF next
  <2>4. Shaped(next)
    BY <1>2, <2>1, <2>2, <2>3, ShapedMade
  <2>5. QED BY <2>4, PostShaped
<1> HIDE DEF spent, next
<1>9. QED BY <1>1, <1>6, <1>8

LEMMA StartShaped ==
  ASSUME NEW c, Shaped(c), now \in Nat, NEW plan \in Seq(Steps), NEW delay \in Nat
  PROVE  Shaped(StartPlan(c, plan, delay))
<1> DEFINE fresh     == [c EXCEPT !.steps = plan, !.no = 0]
           diagnosed == Post(fresh, [type |-> "diagnosis_started", tier |-> 0])
           planned   == Post(diagnosed, Plain("plan_proposed"))
<1>1. StartPlan(c, plan, delay) \in {c, Advance(planned, delay)}
  BY DEF StartPlan
<1>2. fresh = Made(c.state, c.rows, plan, 0, c.closed, c.died)
  BY ReplacingTwo DEF Shaped
<1> HIDE DEF fresh
<1>3. Shaped(fresh)
  <2>1. 0 \in 0..MaxAttempts /\ c.rows \in Seq(Rows)
    BY LoopAssumption DEF Shaped
  <2>2. QED BY <1>2, <2>1, ShapedMade
<1>4. Shaped(diagnosed)
  BY <1>3, PostShaped
<1> HIDE DEF diagnosed
<1>5. Shaped(planned)
  BY <1>4, PostShaped
<1> HIDE DEF planned
<1>6. Shaped(Advance(planned, delay))
  BY <1>5, AdvanceShaped
<1>7. QED BY <1>1, <1>6

LEMMA FallbackShaped ==
  ASSUME NEW c, Shaped(c), now \in Nat
  PROVE  Shaped(StartPlan(c, <<Fallback>>, 0))
<1>1. Fallback \in Steps
  BY LoopAssumption DEF Steps
<1>2. <<Fallback>> \in Seq(Steps) /\ 0 \in Nat
  BY <1>1
<1>3. QED BY <1>2, StartShaped

LEMMA CloseShaped ==
  ASSUME NEW c, Shaped(c), NEW s
  PROVE  /\ Shaped(Close(c, s))
         /\ Shaped([Post(c, Terminal(s)) EXCEPT !.rows = <<>>])
<1> DEFINE p == Post(c, Terminal(s))
<1>1. Shaped(p)
  BY PostShaped
<1>2. Close(c, s) = [p EXCEPT !.rows = <<>>, !.steps = NoPlan, !.closed = TRUE]
  BY DEF Close
<1> HIDE DEF p
<1>3. Close(c, s) = Made(p.state, <<>>, NoPlan, p.no, TRUE, p.died)
  BY <1>1, <1>2, ReplacingThree DEF Shaped
<1>4. Shaped(Close(c, s))
  BY <1>1, <1>3, NothingQueued, ShapedMade DEF Shaped
<1>5. Shaped([p EXCEPT !.rows = <<>>])
  BY <1>1, NothingQueued, RowsShaped
<1>6. QED BY <1>4, <1>5 DEF p

LEMMA ParkShaped ==
  ASSUME NEW c, Shaped(c)
  PROVE  Shaped(Park(c)) /\ Shaped([Park(c) EXCEPT !.steps = NoPlan])
<1>1. Shaped(Post(c, Plain("incident_attached")))
  BY PostShaped
<1>2. Shaped(Park(c))
  BY <1>1, NothingQueued, RowsShaped DEF Park
<1>3. QED BY <1>2, ReplanShaped

-----------------------------------------------------------------------------
(* The rows of the case, and the case without one of them.                 *)
LEMMA RowData ==
  ASSUME Shaped(case), NEW k \in DOMAIN case.rows
  PROVE  /\ k \in 1..Len(case.rows) /\ Len(case.rows) \in Nat
         /\ case.rows[k] \in Rows
         /\ case.rows[k].action \in Actions /\ case.rows[k].no \in 0..MaxAttempts
<1>1. case.rows \in Seq(Rows)
  BY DEF Shaped
<1>2. k \in 1..Len(case.rows) /\ Len(case.rows) \in Nat /\ case.rows[k] \in Rows
  BY <1>1, LenProperties, ElementOfSeq
<1>3. QED BY <1>2 DEF Rows

LEMMA AfterShaped ==
  ASSUME Shaped(case), NEW k \in DOMAIN case.rows
  PROVE  Shaped(After(k))
<1> DEFINE before == SubSeq(case.rows, 1, k - 1)
           behind == SubSeq(case.rows, k + 1, Len(case.rows))
<1>1. case.rows \in Seq(Rows) /\ k \in 1..Len(case.rows) /\ Len(case.rows) \in Nat
  BY RowData DEF Shaped
<1>2. \A i \in 1..Len(case.rows) : case.rows[i] \in Rows
  BY <1>1, ElementOfSeq
<1>3. /\ 1 \in Int /\ k - 1 \in Int /\ k + 1 \in Int /\ Len(case.rows) \in Int
      /\ \A i \in 1..(k - 1) : case.rows[i] \in Rows
      /\ \A i \in (k + 1)..Len(case.rows) : case.rows[i] \in Rows
  BY <1>1, <1>2
<1>4. before \in Seq(Rows)
  BY <1>3, SubSeqProperties
<1>5. behind \in Seq(Rows)
  BY <1>3, SubSeqProperties
<1>6. RemoveAt(case.rows, k) = before \o behind
  BY DEF RemoveAt
<1> HIDE DEF before, behind
<1>7. RemoveAt(case.rows, k) \in Seq(Rows)
  BY <1>4, <1>5, <1>6, ConcatProperties
<1>8. QED BY <1>7, RowsShaped DEF After

LEMMA LeasedShaped ==
  ASSUME Shaped(case), now \in Nat, Tick
  PROVE  Shaped(case')
<1> DEFINE lease(r) == [r EXCEPT !.leased = r.at <= now]
           leased == [k \in DOMAIN case.rows |-> lease(case.rows[k])]
<1>1. case.rows \in Seq(Rows) /\ Len(case.rows) \in Nat /\ DOMAIN case.rows = 1..Len(case.rows)
  BY LenProperties DEF Shaped
<1>2. ASSUME NEW r \in Rows PROVE lease(r) \in Rows
  <2>1. /\ r = [at |-> r.at, action |-> r.action, no |-> r.no, leased |-> r.leased]
        /\ r.at \in Nat /\ r.action \in Actions /\ r.no \in 0..MaxAttempts
    BY DEF Rows
  <2>2. lease(r) = [at |-> r.at, action |-> r.action, no |-> r.no, leased |-> r.at <= now]
    BY <2>1
  <2>3. (r.at <= now) \in BOOLEAN
    BY <2>1
  <2>4. QED BY <2>1, <2>2, <2>3 DEF Rows
<1>3. \A k \in DOMAIN case.rows : case.rows[k] \in Rows
  BY RowData
<1>4. case' = [case EXCEPT !.rows = leased]
  BY DEF Tick
<1> HIDE DEF lease
<1>5. leased \in [1..Len(case.rows) -> Rows]
  BY <1>1, <1>2, <1>3
<1> HIDE DEF leased
<1>6. leased \in Seq(Rows)
  BY <1>1, <1>5
<1>7. QED BY <1>4, <1>6, RowsShaped

(* The first tick outside quiet hours, within a day.                       *)
LEMMA DeferralTyped == now \in Nat => UntilContactAllowed \in Nat
<1> DEFINE allowed == {d \in 1..24 : now + d \notin Quiet}
<1>1. UntilContactAllowed = IF allowed = {} THEN 1 ELSE Min(allowed)
  BY DEF UntilContactAllowed
<1>2. allowed \in SUBSET Nat
  OBVIOUS
<1> HIDE DEF allowed
<1>3. CASE allowed = {}
  BY <1>1, <1>3
<1>4. CASE allowed # {}
  BY <1>1, <1>2, <1>4, LeastOf
<1>5. QED BY <1>3, <1>4

-----------------------------------------------------------------------------
(* The steps of the drain.                                                 *)
LEMMA SubstituteDeferShaped ==
  ASSUME Shaped(case), now \in Nat, NEW k \in DOMAIN case.rows, Substitute(k) \/ Defer(k)
  PROVE  Shaped(case')
<1>1. PICK action \in Actions, delay \in Nat :
        case' = Advance(Prepend(After(k), action), delay)
  <2>1. case.rows[k].action \in Actions /\ Alternative \in Actions /\ 0 \in Nat
    BY RowData, LoopAssumption
  <2>2. QED BY <2>1, DeferralTyped DEF Substitute, Defer
<1>2. Shaped(After(k))
  BY AfterShaped
<1> DEFINE known == Known(After(k))
<1>3. known \in Seq(Steps)
  BY <1>2, EmptySeq DEF Known, HasPlan, Shaped
<1> HIDE DEF known
<1>4. <<action>> \in Seq(Steps)
  BY DEF Steps
<1>5. <<action>> \o known \in Seq(Steps)
  BY <1>3, <1>4, ConcatProperties
<1>6. Shaped(Prepend(After(k), action))
  BY <1>2, <1>5, ReplanShaped DEF Prepend, known
<1>7. QED BY <1>1, <1>6, AdvanceShaped

LEMMA ApprovedShaped ==
  ASSUME NEW c, Shaped(c)
  PROVE  Shaped(Approved(c))
<1> DEFINE p == Post(c, Plain("action_scheduled"))
           q == IF CanTransition(c.state, "EXECUTING") THEN c ELSE p
<1>1. Shaped(p)
  BY PostShaped
<1> HIDE DEF p
<1>2. Shaped(q)
  BY <1>1
<1> HIDE DEF q
<1>3. Shaped(Post(q, Plain("approval_granted")))
  BY <1>2, PostShaped
<1>4. Approved(c) = Post(q, Plain("approval_granted"))
  BY DEF Approved, q, p
<1>5. QED BY <1>3, <1>4

(* The cap is checked before an attempt is counted.                        *)
LEMMA ExecutedShaped ==
  ASSUME Shaped(case), NEW k \in DOMAIN case.rows, Authorized(k)
  PROVE  Shaped(Executed(k))
<1> DEFINE p == Post(Approved(After(k)), Plain("action_executed"))
<1>1. Shaped(p)
  BY AfterShaped, ApprovedShaped, PostShaped
<1>2. Executed(k) = [p EXCEPT !.no = case.rows[k].no + 1]
  BY DEF Executed
<1> HIDE DEF p
<1>3. case.rows[k].no + 1 \in 0..MaxAttempts
  BY RowData, LoopAssumption DEF Authorized, UnderCap
<1>4. Executed(k) = Made(p.state, p.rows, p.steps, case.rows[k].no + 1, p.closed, p.died)
  BY <1>1, <1>2, Replacing DEF Shaped
<1>5. QED BY <1>1, <1>3, <1>4, ShapedMade DEF Shaped

LEMMA RunShaped ==
  ASSUME Shaped(case), now \in Nat, NEW k \in DOMAIN case.rows, RunStep(k)
  PROVE  Shaped(case')
<1>1. CASE Substitute(k) \/ Defer(k)
  BY <1>1, SubstituteDeferShaped
<1>2. Shaped(After(k)) /\ Shaped(Approved(After(k)))
  BY AfterShaped, ApprovedShaped
<1>3. CASE Refuse(k)
  BY <1>2, <1>3, ReplanShaped DEF Refuse
<1>4. CASE Execute(k)
  <2>1. Shaped(Executed(k)) /\ 0 \in Nat
    BY <1>4, ExecutedShaped DEF Execute
  <2>2. QED BY <1>4, <2>1, AdvanceShaped DEF Execute
<1>5. CASE Fail(k)
  <2>1. Shaped([Approved(After(k)) EXCEPT !.steps = NoPlan])
    BY <1>2, ReplanShaped
  <2>2. QED BY <1>5, <2>1, PostShaped DEF Fail
<1>6. CASE Duplicate(k)
  <2>1. 0 \in Nat
    OBVIOUS
  <2>2. QED BY <1>2, <1>6, <2>1, AdvanceShaped DEF Duplicate
<1>7. QED BY <1>1, <1>3, <1>4, <1>5, <1>6 DEF RunStep

(* The steps of an incident.                                               *)
LEMMA IncidentShaped ==
  ASSUME Shaped(case), now \in Nat, NEW i \in Incidents, Attach(i) \/ ReleaseStep(i)
  PROVE  Shaped(case')
<1>1. CASE Attach(i)
  BY <1>1, ParkShaped DEF Attach
<1>2. ASSUME NEW c, Shaped(c) PROVE Shaped(Resume(c))
  BY <1>2, FallbackShaped DEF Resume
<1>3. CASE ReleaseCase(i)
  <2>1. Shaped(Post(case, Plain("incident_released")))
    BY PostShaped
  <2>2. QED BY <1>2, <1>3, <2>1 DEF ReleaseCase
<1>4. CASE ReleaseOthers(i)
  BY <1>2, <1>4 DEF ReleaseOthers
<1>5. CASE Repark(i)
  BY <1>5, ParkShaped DEF Repark
<1>6. CASE Complete(i)
  BY <1>6 DEF Complete
<1>7. QED BY <1>1, <1>3, <1>4, <1>5, <1>6 DEF ReleaseStep

-----------------------------------------------------------------------------
(* The data around the case.                                               *)
Counted ==
  /\ {payment, promised} \subseteq BOOLEAN
  /\ used \subseteq Actions \X (0..MaxAttempts)
  /\ replies \in 0..MaxReplies
  /\ promises \subseteq 0..(Horizon + Grace)
  /\ slice \subseteq Incidents /\ stepped \subseteq Incidents
  /\ now \in 0..Horizon
  /\ phase \in {"world", "replies", "promises", "money", "drain", "detect", "release", "close", "over"}

LEMMA InitTyped == Init => Shaped(case) /\ Counted
<1> SUFFICES ASSUME Init PROVE Shaped(case) /\ Counted
  OBVIOUS
<1>1. PICK plan \in Plans, delay \in StartDelays : case = StartPlan(NewCase, plan, delay)
  BY DEF Init
<1>2. plan \in Seq(Steps) /\ delay \in Nat
  BY <1>1, LoopAssumption DEF Steps
<1>3. NewCase = Made("DETECTED", <<>>, NoPlan, 0, FALSE, FALSE) /\ 0 \in 0..MaxAttempts
  BY LoopAssumption DEF NewCase, Made
<1>4. Shaped(NewCase)
  BY <1>3, NothingQueued, ShapedMade
<1>5. now \in Nat
  BY DEF Init
<1>6. Shaped(case)
  BY <1>1, <1>2, <1>4, <1>5, StartShaped
<1>7. Counted
  <2>1. now = 0 /\ replies = 0 /\ 0 \in 0..Horizon /\ 0 \in 0..MaxReplies
    BY LoopAssumption DEF Init
  <2>2. QED BY <2>1 DEF Init, Counted
<1>8. QED BY <1>6, <1>7

LEMMA StepShaped == Shaped(case) /\ Counted /\ [Next]_vars => Shaped(case')
<1> SUFFICES ASSUME Shaped(case), Counted, [Next]_vars PROVE Shaped(case')
  OBVIOUS
<1>1. now \in Nat
  BY LoopAssumption DEF Counted
<1>2. CASE UNCHANGED case
  BY <1>2
<1>3. CASE World \/ ReplyEndsCase \/ Money \/ Exhaust
  <2>1. CASE World \/ ReplyEndsCase
    BY <2>1, CloseShaped DEF World, ReplyEndsCase
  <2>2. CASE Money
    BY <2>2, CloseShaped DEF Money
  <2>3. CASE Exhaust
    <3>1. Shaped([Post(case, Terminal("UNRECOVERABLE")) EXCEPT !.rows = <<>>])
      BY CloseShaped
    <3>2. QED BY <2>3, <3>1 DEF Exhaust
  <2>4. QED BY <1>3, <2>1, <2>2, <2>3
<1>4. CASE AfterWorld \/ ReplyPassesBy \/ AfterReplies \/ AfterDrain \/ AfterDetect \/ EndTick
  BY <1>2, <1>4 DEF AfterWorld, ReplyPassesBy, Reply, AfterReplies, AfterDrain, AfterDetect, EndTick
<1>5. CASE ReplyPromises
  BY <1>5, ReplanShaped DEF ReplyPromises
<1>6. CASE Promises
  BY <1>1, <1>6, FallbackShaped DEF Promises
<1>7. CASE Tick
  BY <1>1, <1>7, LeasedShaped
<1>8. CASE \E k \in DOMAIN case.rows : RunStep(k)
  BY <1>1, <1>8, RunShaped
<1>9. CASE \E i \in Incidents : Attach(i) \/ ReleaseStep(i)
  BY <1>1, <1>9, IncidentShaped
<1>10. CASE UNCHANGED vars
  BY <1>2, <1>10 DEF vars
<1>11. QED BY <1>3, <1>4, <1>5, <1>6, <1>7, <1>8, <1>9, <1>10 DEF Next

LEMMA StepCounted == Shaped(case) /\ Counted /\ [Next]_vars => Counted'
<1> SUFFICES ASSUME Shaped(case), Counted, [Next]_vars PROVE Counted'
  OBVIOUS
<1>1. CASE World \/ AfterWorld \/ AfterReplies \/ Tick \/ AfterDrain \/ AfterDetect \/ Exhaust
  BY <1>1 DEF World, AfterWorld, AfterReplies, Tick, AfterDrain, AfterDetect, Exhaust, Proceed,
              world, incidents, Counted
<1>2. CASE Money
  BY <1>2 DEF Money, incidents, Counted
<1>3. CASE ReplyEndsCase \/ ReplyPassesBy \/ ReplyPromises
  <2>1. /\ replies' \in 0..MaxReplies
        /\ UNCHANGED <<used, payment, slice, stepped, phase, now>>
    BY <1>3, LoopAssumption
    DEF ReplyEndsCase, ReplyPassesBy, ReplyPromises, Reply, incidents, Counted
  <2>2. CASE ReplyEndsCase \/ ReplyPassesBy
    BY <2>1, <2>2 DEF ReplyEndsCase, ReplyPassesBy, Counted
  <2>3. CASE ReplyPromises
    <3>1. promises' = promises \cup {now + Grace} /\ promised' = TRUE
      BY <2>3 DEF ReplyPromises
    <3>2. now + Grace \in 0..(Horizon + Grace)
      BY LoopAssumption DEF Counted
    <3>3. QED BY <2>1, <3>1, <3>2 DEF Counted
  <2>4. QED BY <1>3, <2>2, <2>3
<1>4. CASE Promises
  <2>1. promises' \subseteq promises
    BY <1>4 DEF Promises, StillOpen
  <2>2. phase' = "money" /\ UNCHANGED <<used, replies, payment, promised, slice, stepped, now>>
    BY <1>4 DEF Promises, Proceed, incidents
  <2>3. QED BY <2>1, <2>2 DEF Counted
<1>5. CASE EndTick
  <2>1. UNCHANGED <<used, replies, payment, promises, promised, slice>> /\ stepped' = {}
    BY <1>5 DEF EndTick, world
  <2>2. now' \in 0..Horizon /\ phase' \in {"world", "close"}
    BY <1>5, LoopAssumption DEF EndTick, Counted
  <2>3. QED BY <2>1, <2>2 DEF Counted
<1>6. ASSUME NEW k \in DOMAIN case.rows, RunStep(k) PROVE Counted'
  <2>1. CASE Substitute(k) \/ Defer(k) \/ Refuse(k) \/ Duplicate(k)
    BY <2>1 DEF Substitute, Defer, Refuse, Duplicate, world, incidents, Counted
  <2>2. KeyOf(k) \in Actions \X (0..MaxAttempts)
    BY RowData DEF KeyOf
  <2>3. CASE Fail(k)
    <3>1. /\ used' \in {used, used \cup {KeyOf(k)}}
          /\ UNCHANGED <<replies, payment, promises, promised, slice, stepped, now, phase>>
      BY <2>3 DEF Fail, world, incidents
    <3>2. QED BY <2>2, <3>1 DEF Counted
  <2>4. CASE Execute(k)
    <3>1. /\ used' = used \cup {KeyOf(k)} /\ payment' \in {payment, TRUE}
          /\ UNCHANGED <<promises, promised, slice, stepped, now, phase>>
      BY <2>4 DEF Execute, incidents
    <3>2. replies' \in 0..MaxReplies
      BY <2>4, LoopAssumption DEF Execute, Counted
    <3>3. QED BY <2>2, <3>1, <3>2 DEF Counted
  <2>5. QED BY <1>6, <2>1, <2>3, <2>4 DEF RunStep
<1>7. ASSUME NEW i \in Incidents, Attach(i) \/ ReleaseStep(i) PROVE Counted'
  <2>1. slice' \subseteq Incidents /\ stepped' \subseteq Incidents
    BY <1>7 DEF Attach, ReleaseStep, Step, ReleaseCase, ReleaseOthers, Repark, Complete, Counted
  <2>2. UNCHANGED <<used, replies, payment, promises, promised, now, phase>>
    BY <1>7 DEF Attach, ReleaseStep, Step, ReleaseCase, ReleaseOthers, Repark, Complete, world
  <2>3. QED BY <2>1, <2>2 DEF Counted
<1>8. CASE UNCHANGED vars
  BY <1>8 DEF vars, Counted
<1>9. QED BY <1>1, <1>2, <1>3, <1>4, <1>5, <1>6, <1>7, <1>8 DEF Next

(* The state has its types.  What that takes: the policy refuses a row at  *)
(* the cap, so no attempt is numbered beyond maxAttemptsPerCase; a plan is *)
(* put back and cut without holes; every row is due at a tick, whatever    *)
(* waits, start delays and quiet hours add up to.                          *)
THEOREM TypeCorrect == Spec => []TypeOK
<1> DEFINE Data == Shaped(case) /\ Counted
<1>1. Init => Data
  BY InitTyped
<1>2. Data /\ [Next]_vars => Data'
  <2>1. ASSUME Data, [Next]_vars PROVE Shaped(case') /\ Counted'
    BY <2>1, StepShaped, StepCounted
  <2>2. QED BY <2>1
<1>3. Data /\ IInv => TypeOK
  BY DEF Shaped, Counted, IInv, IsCase, TypeOK, HasPlan, Steps
<1> HIDE DEF Data
<1>4. QED BY <1>1, <1>2, <1>3, Invariance, PTL DEF Spec
=============================================================================
