---------------------------- MODULE RecoveryLoop ----------------------------
(***************************************************************************)
(* One case in the tick loop of the batch runner (packages/sim/src/        *)
(* runner.ts): its plan, what the world and the customer do to it, and the *)
(* incidents that park and release it.  The batch runs its handlers one    *)
(* after the other, so a handler is one step; what is hard here is the     *)
(* sequences.  Whatever the other cases of an incident do is a choice of   *)
(* the release controller's steps.                                         *)
(*                                                                         *)
(* One unit of time is one tick.  An action stands for an actionId with    *)
(* its params: the idempotency key is the action and its attempt number.   *)
(***************************************************************************)
EXTENDS Naturals, Sequences, FiniteSets, SequencesExt, CaseLifecycle

CONSTANTS
  Actions,        \* capability actions, with their params
  Waits,          \* schedule-kind actions
  Delay,          \* the ticks a wait delays what follows
  Plans,          \* the plans Phase A may choose; <<>> is a holdout or an escalation
  StartDelays,    \* how long the first step of a plan is put off
  Contact,        \* actions that consume the contact budget and keep quiet hours
  Capped,         \* actions that may need a human approval
  Permitted,      \* actions the policy allows on this rail
  Alternative,    \* the optimizer's best permitted candidate
  Fallback,       \* genericFallback
  MaxAttempts,    \* maxAttemptsPerCase
  Quiet,          \* the ticks that lie in quiet hours
  Grace,          \* promiseGraceMs
  TicksPerWindow,
  Incidents,      \* incidents that may hold this case
  Horizon,        \* the measurement window
  MaxReplies,     \* bound: replies on their way at once
  NoPlan          \* remainingSteps has no entry for the case

ASSUME LoopAssumption ==
  /\ Actions \cap Waits = {}
  /\ Delay \in [Waits -> Nat]
  /\ Plans \subseteq Seq(Actions \cup Waits) /\ NoPlan \notin Seq(Actions \cup Waits)
  /\ StartDelays \subseteq Nat
  /\ Contact \subseteq Actions /\ Capped \subseteq Actions /\ Permitted \subseteq Actions
  /\ Alternative \in Permitted /\ Fallback \in Permitted
  /\ {MaxAttempts, Grace, TicksPerWindow} \subseteq Nat \ {0}
  /\ {Horizon, MaxReplies} \subseteq Nat
  /\ Quiet \subseteq Nat

VARIABLES
  case,       \* tables: state, rows (pending and leased actions); memory: steps,
              \* no (attemptNos), closed; died: an exception has ended the batch
  used,       \* the idempotency keys of action_attempts
  replies,    \* pendingReplies
  payment,    \* whether pendingSettlements holds something
  promises,   \* the dates of the open promises_to_pay
  member,     \* what each incident holds: this case not yet, parked, released, or closed
  slice,      \* incidents whose slice in flight has this case
  stepped,    \* incidents whose release has stepped in this tick
  phase, now, \* where the tick loop stands
  repeated,   \* history: a duplicate attempt was refused
  promised    \* history: the customer has promised to pay

vars == <<case, used, replies, payment, promises, member, slice, stepped, phase, now,
          repeated, promised>>
world == <<replies, payment, promises, promised>>
incidents == <<member, slice, stepped>>

-----------------------------------------------------------------------------
(* append: an illegal transition throws, and outside the try of runStep    *)
(* nothing catches it.                                                     *)
Post(c, e) ==
  IF CanTransition(c.state, TargetState(e, c.state))
  THEN [c EXCEPT !.state = TargetState(e, c.state)]
  ELSE [c EXCEPT !.died = TRUE]

(* A terminal event: it cancels the pending rows in the same transaction,  *)
(* and the runner notes the case as closed and forgets its plan.           *)
CloseForgotten(c, s) == [Post(c, Terminal(s)) EXCEPT !.rows = <<>>, !.steps = NoPlan]
Close(c, s) == [Post(c, Terminal(s)) EXCEPT !.rows = <<>>, !.steps = NoPlan, !.closed = TRUE]

HasPlan(c) == c.steps # NoPlan
Known(c) == IF HasPlan(c) THEN c.steps ELSE <<>>

(* The schedule-kind steps a plan starts with, and the delay they add up to.*)
LeadingWaits(s) ==
  LET first == SelectInSeq(s, LAMBDA a : a \in Actions)
  IN  IF first = 0 THEN s ELSE SubSeq(s, 1, first - 1)
DelayOf(waits) ==
  LET sum[n \in 0..Len(waits)] == IF n = 0 THEN 0 ELSE sum[n - 1] + Delay[waits[n]]
  IN  sum[Len(waits)]

(* advancePlan: take the next action, past the waits before it, and        *)
(* schedule it; a plan of nothing but waits is used up and leaves no row.  *)
Advance(c, delay) ==
  LET waits == LeadingWaits(Known(c))
      rest  == SubSeq(Known(c), Len(waits) + 1, Len(Known(c)))
      row   == [at |-> now + delay + DelayOf(waits), action |-> Head(rest),
                no |-> c.no, leased |-> FALSE]
  IN  CASE Known(c) = <<>> -> c
        [] Known(c) # <<>> /\ rest = <<>> -> [c EXCEPT !.steps = <<>>]
        [] OTHER -> Post([c EXCEPT !.steps = Tail(rest), !.rows = Append(@, row)],
                         Plain("action_scheduled"))

(* startPlan: only from a state that may be diagnosed again.               *)
StartPlan(c, plan, delay) ==
  IF plan = <<>> \/ c.closed \/ ~CanTransition(c.state, "DIAGNOSING")
  THEN c
  ELSE LET diagnosed == Post([c EXCEPT !.steps = plan, !.no = 0],
                             [type |-> "diagnosis_started", tier |-> 0])
       IN  Advance(Post(diagnosed, Plain("plan_proposed")), delay)

(* Entering an incident: the event, then the cancellation.                 *)
ParkLeavingRows(c) == Post(c, Plain("incident_attached"))
Park(c) == [Post(c, Plain("incident_attached")) EXCEPT !.rows = <<>>]

-----------------------------------------------------------------------------
NewCase == [state |-> "DETECTED", rows |-> <<>>, steps |-> NoPlan, no |-> 0,
            closed |-> FALSE, died |-> FALSE]

(* The case as Phase A leaves it.                                          *)
Init ==
  /\ phase = "world" /\ now = 0
  /\ \E plan \in Plans, delay \in StartDelays : case = StartPlan(NewCase, plan, delay)
  /\ used = {} /\ replies = 0 /\ payment = FALSE /\ promises = {}
  /\ member = [i \in Incidents |-> "out"] /\ slice = {} /\ stepped = {}
  /\ repeated = FALSE /\ promised = FALSE

At(p) == phase = p /\ ~case.died
Proceed(p, q) == At(p) /\ phase' = q

(* What the world does on its own, to a case that is not closed.           *)
World ==
  /\ At("world") /\ ~case.closed
  /\ \E s \in {"RECOVERED", "OPTED_OUT", "DISPUTED"} : case' = Close(case, s)
  /\ UNCHANGED <<used, world, incidents, phase, now, repeated>>

AfterWorld ==
  /\ Proceed("world", "replies")
  /\ UNCHANGED <<case, used, world, incidents, now, repeated>>

(* One reply that has arrived; a closed case ignores it.                   *)
Reply ==
  /\ At("replies") /\ replies > 0
  /\ replies' = replies - 1
  /\ UNCHANGED <<used, payment, incidents, phase, now, repeated>>

(* IntentRouter.route of a dispute or an opt-out, of nothing actionable,   *)
(* and of a promise, which forgets the plan and keeps the row.             *)
ReplyEndsCase ==
  /\ Reply /\ ~case.closed
  /\ \E s \in {"DISPUTED", "OPTED_OUT"} : case' = Close(case, s)
  /\ UNCHANGED <<promises, promised>>

ReplyPassesBy ==
  /\ Reply
  /\ UNCHANGED <<case, promises, promised>>

ReplyPromises ==
  /\ Reply /\ ~case.closed
  /\ promises' = promises \cup {now + Grace}
  /\ promised' = TRUE
  /\ case' = [case EXCEPT !.steps = NoPlan]

AfterReplies ==
  /\ Proceed("replies", "promises")
  /\ UNCHANGED <<case, used, world, incidents, now, repeated>>

(* reconcilePromises settles what has come due.  A promise is kept when any*)
(* money has arrived, and all the money there is closes the case.          *)
StillOpen == {p \in promises : p > now}

(* The cases that a broken promise wakes.                                  *)
Promises ==
  /\ Proceed("promises", "money")
  /\ promises' = StillOpen
  /\ case' = IF promises' = promises \/ case.closed \/ HasPlan(case)
             THEN case
             ELSE StartPlan(case, <<Fallback>>, 0)
  /\ UNCHANGED <<used, replies, payment, promised, incidents, now, repeated>>

(* A payment the agent caused; a closed case ignores it.                   *)
Money ==
  /\ At("money") /\ payment
  /\ payment' = FALSE
  /\ case' = IF case.closed THEN case ELSE Close(case, "RECOVERED")
  /\ UNCHANGED <<used, replies, promises, promised, incidents, phase, now, repeated>>

(* scheduler.tick.                                                         *)
Tick ==
  /\ Proceed("money", "drain")
  /\ case' = [case EXCEPT !.rows =
                [k \in DOMAIN case.rows |-> [case.rows[k] EXCEPT !.leased = case.rows[k].at <= now]]]
  /\ UNCHANGED <<used, world, incidents, now, repeated>>

-----------------------------------------------------------------------------
(* runStep for the leased row that comes first: by date, then by insertion.*)
(* complete follows whatever it does, so the row is gone afterwards.       *)
IsNext(k) ==
  /\ case.rows[k].leased
  /\ \A j \in DOMAIN case.rows :
       case.rows[j].leased => case.rows[j].at > case.rows[k].at
                              \/ (case.rows[j].at = case.rows[k].at /\ j >= k)

Running(k) == At("drain") /\ IsNext(k)
After(k) == [case EXCEPT !.rows = RemoveAt(case.rows, k)]
KeyOf(k) == <<case.rows[k].action, case.rows[k].no>>

(* The rules of authorize, in its order.                                   *)
OnRail(k) == case.rows[k].action \in Permitted
UnderCap(k) == case.rows[k].no < MaxAttempts
InQuietHours(k) == case.rows[k].action \in Contact /\ now \in Quiet
MayBeRefused(k) == case.rows[k].action \in Contact \cup Capped

Prepend(c, action) == [c EXCEPT !.steps = <<action>> \o Known(c)]

UntilContactAllowed ==
  LET allowed == {d \in 1..24 : now + d \notin Quiet}
  IN  IF allowed = {} THEN 1 ELSE Min(allowed)

Substitute(k) ==
  /\ Running(k) /\ ~OnRail(k)
  /\ case' = Advance(Prepend(After(k), Alternative), 0)
  /\ UNCHANGED <<used, world, incidents, phase, now, repeated>>

Defer(k) ==
  /\ Running(k) /\ OnRail(k) /\ UnderCap(k) /\ InQuietHours(k)
  /\ case' = Advance(Prepend(After(k), case.rows[k].action), UntilContactAllowed)
  /\ UNCHANGED <<used, world, incidents, phase, now, repeated>>

(* No alternative, the cap, the budget or the approval: the plan ends.     *)
Refuse(k) ==
  /\ Running(k)
  /\ \/ ~OnRail(k)
     \/ ~UnderCap(k)
     \/ ~InQuietHours(k) /\ MayBeRefused(k)
  /\ case' = [After(k) EXCEPT !.steps = NoPlan]
  /\ UNCHANGED <<used, world, incidents, phase, now, repeated>>

(* A token: the case is brought to EXECUTING by way of SCHEDULED where it  *)
(* has to be.                                                              *)
Authorized(k) ==
  /\ Running(k) /\ OnRail(k) /\ UnderCap(k) /\ ~InQuietHours(k)
  /\ CanTransition(case.state, "EXECUTING") \/ CanTransition(case.state, "SCHEDULED")

Approved(c) ==
  Post(IF CanTransition(c.state, "EXECUTING") THEN c ELSE Post(c, Plain("action_scheduled")),
       Plain("approval_granted"))

Executed(k) ==
  [Post(Approved(After(k)), Plain("action_executed")) EXCEPT !.no = case.rows[k].no + 1]

(* The executor's call succeeds; the customer may answer a contact, may    *)
(* pay, and the plan goes on.                                              *)
Execute(k) ==
  /\ Authorized(k) /\ KeyOf(k) \notin used
  /\ used' = used \cup {KeyOf(k)}
  /\ case' = Advance(Executed(k), 0)
  /\ \/ replies' = replies
     \/ case.rows[k].action \in Contact /\ replies < MaxReplies /\ replies' = replies + 1
  /\ payment' \in {payment, TRUE}
  /\ UNCHANGED <<promises, promised, incidents, phase, now, repeated>>

(* It throws, before or after the attempt is on record.                    *)
FailUnobserved(k) ==
  /\ Authorized(k) /\ KeyOf(k) \notin used
  /\ used' \in {used, used \cup {KeyOf(k)}}
  /\ case' = [Approved(After(k)) EXCEPT !.steps = NoPlan]
  /\ UNCHANGED <<world, incidents, phase, now, repeated>>

Fail(k) ==
  /\ Authorized(k) /\ KeyOf(k) \notin used
  /\ used' \in {used, used \cup {KeyOf(k)}}
  /\ case' = Post([Approved(After(k)) EXCEPT !.steps = NoPlan], Plain("outcome_observed"))
  /\ UNCHANGED <<world, incidents, phase, now, repeated>>

(* DuplicateAttemptError: carry on with the rest of the plan, if there is  *)
(* one, from where the approval has put the case.                          *)
Duplicate(k) ==
  /\ Authorized(k) /\ KeyOf(k) \in used
  /\ case' = Advance(Approved(After(k)), 0)
  /\ repeated' = TRUE
  /\ UNCHANGED <<used, world, incidents, phase, now>>

AfterDrain ==
  /\ Proceed("drain", "detect")
  /\ \A k \in DOMAIN case.rows : ~case.rows[k].leased
  /\ UNCHANGED <<case, used, world, incidents, now, repeated>>

-----------------------------------------------------------------------------
WindowClosed == (now + 1) % TicksPerWindow = 0

(* A flagged segment: the incident opens and parks every affected case     *)
(* that is not closed and has an entry in remainingSteps, used up or not.  *)
Attach(i) ==
  /\ At("detect") /\ WindowClosed
  /\ member[i] = "out" /\ ~case.closed /\ HasPlan(case)
  /\ case' = [Park(case) EXCEPT !.steps = NoPlan]
  /\ member' = [member EXCEPT ![i] = "parked"]
  /\ UNCHANGED <<used, world, slice, stepped, phase, now, repeated>>

AfterDetect ==
  /\ Proceed("detect", "release")
  /\ UNCHANGED <<case, used, world, incidents, now, repeated>>

(* One step of the release controller for each open incident.              *)
Step(i) ==
  /\ At("release") /\ WindowClosed
  /\ i \notin stepped /\ member[i] \in {"parked", "released"}
  /\ stepped' = stepped \cup {i}
  /\ UNCHANGED <<used, world, phase, now, repeated>>

(* Whatever a release leaves without an entry picks a plan up again.       *)
ResumeAnyway(c) == StartPlan(c, <<Fallback>>, 0)
Resume(c) == IF HasPlan(c) THEN c ELSE StartPlan(c, <<Fallback>>, 0)

(* A slice that has this case in it, ...                                   *)
ReleaseCase(i) ==
  /\ Step(i) /\ member[i] = "parked"
  /\ member' = [member EXCEPT ![i] = "released"]
  /\ slice' = slice \cup {i}
  /\ case' = IF case.closed THEN case ELSE Resume(Post(case, Plain("incident_released")))

(* ... and one that has other cases of the incident in it.                 *)
ReleaseOthers(i) ==
  /\ Step(i)
  /\ slice' = slice \ {i}
  /\ case' = IF member[i] = "released" THEN Resume(case) ELSE case
  /\ UNCHANGED member

(* The circuit breaker: it pulls back the slice in flight.                 *)
Repark(i) ==
  /\ Step(i)
  /\ slice' = slice \ {i}
  /\ IF i \in slice /\ ~case.closed
     THEN /\ case' = Park(case)
          /\ member' = [member EXCEPT ![i] = "parked"]
     ELSE UNCHANGED <<case, member>>

Complete(i) ==
  /\ Step(i) /\ member[i] = "released"
  /\ member' = [member EXCEPT ![i] = "over"]
  /\ slice' = slice \ {i}
  /\ UNCHANGED case

EndTick ==
  /\ At("release")
  /\ WindowClosed => \A i \in Incidents : member[i] \in {"parked", "released"} => i \in stepped
  /\ stepped' = {}
  /\ IF now < Horizon THEN now' = now + 1 /\ phase' = "world"
                      ELSE now' = now /\ phase' = "close"
  /\ UNCHANGED <<case, used, world, member, slice, repeated>>

(* exhaust, for a case whose row is in none of the listed states.          *)
Ended == {"RECOVERED", "OPTED_OUT", "DISPUTED", "UNRECOVERABLE", "STOPPED_HUMAN"}

ExhaustUnparked ==
  /\ Proceed("close", "over")
  /\ case' = IF case.closed \/ case.state \in Ended \cup {"SUPPRESSED_BY_INCIDENT"} THEN case
             ELSE [Post(case, Terminal("UNRECOVERABLE")) EXCEPT !.rows = <<>>]
  /\ UNCHANGED <<used, world, incidents, now, repeated>>

Exhaust ==
  /\ Proceed("close", "over")
  /\ case' = IF case.closed \/ case.state \in Ended THEN case
             ELSE [Post(case, Terminal("UNRECOVERABLE")) EXCEPT !.rows = <<>>]
  /\ UNCHANGED <<used, world, incidents, now, repeated>>

RunStep(k) == Substitute(k) \/ Defer(k) \/ Refuse(k) \/ Execute(k) \/ Fail(k) \/ Duplicate(k)
ReleaseStep(i) == ReleaseCase(i) \/ ReleaseOthers(i) \/ Repark(i) \/ Complete(i)

Next ==
  \/ World \/ AfterWorld
  \/ ReplyEndsCase \/ ReplyPassesBy \/ ReplyPromises \/ AfterReplies
  \/ Promises \/ Money \/ Tick
  \/ \E k \in DOMAIN case.rows : RunStep(k)
  \/ AfterDrain
  \/ \E i \in Incidents : Attach(i) \/ ReleaseStep(i)
  \/ AfterDetect \/ EndTick \/ Exhaust

(* runBatch is one sequential program: it goes on until it ends or throws. *)
Spec == Init /\ [][Next]_vars /\ WF_vars(Next)

-----------------------------------------------------------------------------
Rows == [at : Nat, action : Actions, no : 0..MaxAttempts, leased : BOOLEAN]

(* The types, and the attempt numbers the policy can let through.          *)
TypeOK ==
  /\ case.state \in CaseStates /\ case.no \in 0..MaxAttempts
  /\ case.rows \in Seq(Rows)
  /\ HasPlan(case) => case.steps \in Seq(Actions \cup Waits)
  /\ {case.closed, case.died, payment, repeated, promised} \subseteq BOOLEAN
  /\ used \subseteq Actions \X (0..MaxAttempts)
  /\ replies \in 0..MaxReplies
  /\ promises \subseteq 0..(Horizon + Grace)
  /\ member \in [Incidents -> {"out", "parked", "released", "over"}]
  /\ slice \subseteq Incidents /\ stepped \subseteq Incidents
  /\ now \in 0..Horizon
  /\ phase \in {"world", "replies", "promises", "money", "drain", "detect", "release", "close", "over"}

(* The set the runner keeps in memory agrees with the table: what it takes *)
(* for closed is closed, what is closed it takes for closed until the      *)
(* window ends, and a closed case has nothing left to run.                 *)
ClosedIsQuiet ==
  /\ phase # "over" => (case.closed <=> IsTerminal(case.state))
  /\ IsTerminal(case.state) => case.rows = <<>>
  /\ case.closed => case.steps = NoPlan

(* A suppressed case has nothing queued, and there is an open incident that*)
(* still counts it among the cases it has to release.                      *)
SuppressedIsHeld ==
  case.state = "SUPPRESSED_BY_INCIDENT" =>
    /\ case.rows = <<>>
    /\ \E i \in Incidents : member[i] = "parked"

(* One pending action at a time: two plans run beside each other only when *)
(* a promise made the runner forget the first.                             *)
OnePlanUnlessPromised == ~promised => Len(case.rows) <= 1

(* A handler leaves a case in EXECUTING, or ends the batch with an         *)
(* exception, only after a repeated attempt was refused.                   *)
TroubleNeedsRepeat == case.state = "EXECUTING" \/ case.died => repeated

(* A suppressed case moves on only in a step of an incident that holds or  *)
(* has released it, or when a promise of its customer is broken: never by  *)
(* an action that was queued before, a reply or a payment on its way.      *)
WokenOnlyByReleaseOrPromise ==
  [][case.state = "SUPPRESSED_BY_INCIDENT"
       /\ case'.state \notin TerminalStates \cup {"SUPPRESSED_BY_INCIDENT"} =>
     \/ \E i \in stepped' \ stepped : member'[i] = "released"
     \/ promises' # promises]_vars

(* Every case ends in a terminal state, unless an exception ends the batch.*)
EveryCaseEnds == <>(IsTerminal(case.state) \/ case.died)

-----------------------------------------------------------------------------
(* What the comments say.  After a step a case is not stranded in          *)
(* EXECUTING, from where nothing may re-plan it (runStep's catch).         *)
NotStranded == case.state # "EXECUTING"
=============================================================================
