------------------------------ MODULE Incident ------------------------------
(***************************************************************************)
(* Incidents over several cases: the detector opens one for a failing      *)
(* segment, the incident manager parks the cases it covers, the release    *)
(* controller gives them back in slices and its breaker pulls a slice back *)
(* (packages/engine/src/incident.ts, release-controller.ts and the         *)
(* detector part of runBatch, packages/sim/src/runner.ts).                 *)
(*                                                                         *)
(* The batch is one process: a tick drains the queue, and the last tick of *)
(* a window then judges the segments, parks, and releases.  The webhook    *)
(* server is another process, which closes cases at any await of the       *)
(* first, and openFromDowntime is called from outside.  An append that the *)
(* state machine refuses throws, and unless it is caught ends the batch    *)
(* where it stands.                                                        *)
(***************************************************************************)
EXTENDS Naturals, Sequences, FiniteSets, CaseLifecycle, Detector

CONSTANTS
  Cases,      \* in the order of their ids
  Segments,
  LongPlan,   \* the cases with a second step in their plan at the start
  Payers,     \* bound: the cases that may end by themselves
  TicksPerWindow,
  Covers,     \* the cases the runner counts to a segment
  Readings,   \* what one window may have counted, by segment
  Ramp,       \* RAMP_STAGES, in percent
  Jitter,     \* jitterFraction, in percent
  Incidents,  \* ids; bound of the incidents ever opened
  None

ASSUME IncidentAssumption ==
  /\ Cases \subseteq Nat /\ LongPlan \subseteq Cases /\ Payers \subseteq Cases
  /\ Covers \in [Segments -> SUBSET Cases]
  /\ Ramp \in Seq(1..100) /\ Ramp # <<>> /\ Ramp[Len(Ramp)] = 100
  /\ Jitter \in 0..100 /\ TicksPerWindow \in Nat \ {0}
  /\ Incidents \subseteq Nat /\ None \notin Incidents
  /\ IsFiniteSet(Incidents) /\ IsFiniteSet(Segments)
  /\ Readings \subseteq [Segments -> [attempts : Nat, approvals : Nat,
                                    baseAttempts : Nat, baseApprovals : Nat]]

VARIABLES
  case,      \* its state; due: it has a pending action; plan: what its entry of
             \* remainingSteps has left, none without an entry; work: where the drain stands with it
  incident,  \* the incidents table
  member,    \* incident_members: not yet, parked, or released
  open,      \* openIncidents: the id by which the loop follows a segment
  mine,      \* members: the cases an incident was opened for
  inFlight,  \* #inFlight: the slice of the current stage
  dwell,     \* the detector's counters
  window,    \* what the last window counted
  loop,      \* where the loop stands
  door,      \* where openFromDowntime stands in the webhook server
  alive,     \* the process is running
  raced      \* history: the segments two openers have looked up at once

vars == <<case, incident, member, open, mine, inFlight, dwell, window, loop, door, alive, raced>>
memory == <<open, mine, inFlight, dwell, window>>

Idle == [pc |-> "tick", ticks |-> 1, segments |-> {}, segment |-> None, id |-> None,
         cases |-> {}, todo |-> {}]

Closed(c) == IsTerminal(case[c].state)
Parked(i) == {c \in Cases : member[i][c] = "parked"}
Observations(w) ==
  {[segment |-> s, attempts |-> w[s].attempts, approvals |-> w[s].approvals,
    baseAttempts |-> w[s].baseAttempts, baseApprovals |-> w[s].baseApprovals] : s \in Segments}

(* A case as an accepted event leaves it.                                  *)
Posts(k, type) == CanTransition(k.state, Drives[type])
Post(k, type) == [k EXCEPT !.state = Drives[type]]

Init ==
  /\ case = [c \in Cases |-> [state |-> "SCHEDULED", due |-> TRUE, work |-> "idle",
                             plan |-> IF c \in LongPlan THEN "left" ELSE "used"]]
  /\ incident = [i \in Incidents |-> [state |-> "none", segment |-> None, stage |-> 0]]
  /\ member = [i \in Incidents |-> [c \in Cases |-> "no"]]
  /\ open = [s \in Segments |-> None]
  /\ mine = [i \in Incidents |-> {}]
  /\ inFlight = [i \in Incidents |-> {}]
  /\ dwell = [s \in Segments |-> 0]
  /\ window \in Readings
  /\ loop = Idle
  /\ door = [pc |-> "idle", segment |-> None]
  /\ alive = TRUE
  /\ raced = {}

Loop(p) == alive /\ loop.pc = p

-----------------------------------------------------------------------------
(* The drain.  A tick leases what is due by now, and runs one after        *)
(* another.                                                                *)
Drained == \A c \in Cases : case[c].work = "idle"

Lease ==
  /\ Loop("tick")
  /\ \E batch \in SUBSET {c \in Cases : case[c].due} :
       case' = [c \in Cases |->
         IF c \in batch THEN [case[c] EXCEPT !.due = FALSE, !.work = "hand"] ELSE case[c]]
  /\ loop' = [loop EXCEPT !.pc = "drain"]
  /\ UNCHANGED <<incident, member, memory, door, alive, raced>>

Works(c, from, after) ==
  /\ alive /\ case[c].work = from
  /\ case' = [case EXCEPT ![c] = after]
  /\ UNCHANGED <<incident, member, memory, loop, door, alive, raced>>

(* runStep: from a state that leads neither to EXECUTING nor to SCHEDULED  *)
(* the step is dropped ...                                                 *)
MayRun(k) == Posts(k, "approval_granted") \/ Posts(k, "action_scheduled")

Begin(c) ==
  /\ \A d \in Cases : case[d].work \in {"idle", "hand"}
  /\ Works(c, "hand", [case[c] EXCEPT !.work = IF MayRun(case[c]) THEN "grant" ELSE "idle"])

(* ... else the approval is recorded, outside the try.                     *)
Approve(c) ==
  /\ MayRun(case[c])
  /\ Works(c, "grant", [Post(case[c], "approval_granted") EXCEPT !.work = "call"])

(* The answer.  An action_executed that is refused is caught like a failed *)
(* call: the plan is over, and outcome_observed only ends an EXECUTING.    *)
Answered(k, fails) ==
  IF Posts(k, "action_executed")
  THEN [Post(k, "action_executed") EXCEPT
          !.plan = IF fails THEN "none" ELSE k.plan,
          !.work = IF k.plan = "left" /\ ~fails THEN "advance" ELSE "idle"]
  ELSE [k EXCEPT !.plan = "none", !.work = "idle"]

Finish(c) == \E fails \in BOOLEAN : Works(c, "call", Answered(case[c], fails))

(* advancePlan: the row of the next step, then its event.                  *)
Schedule(c) ==
  Works(c, "advance", [case[c] EXCEPT !.due = TRUE, !.plan = "used", !.work = "announce"])

Announced(k) ==
  IF Posts(k, "action_scheduled")
  THEN [Post(k, "action_scheduled") EXCEPT !.work = "idle"]
  ELSE [k EXCEPT !.plan = "none", !.work = "idle"]

Announce(c) == Works(c, "announce", Announced(case[c]))

NextTick ==
  /\ Loop("drain") /\ Drained /\ loop.ticks < TicksPerWindow
  /\ loop' = [Idle EXCEPT !.ticks = loop.ticks + 1]
  /\ UNCHANGED <<case, incident, member, memory, door, alive, raced>>

Drain ==
  \/ Lease \/ NextTick
  \/ \E c \in Cases : Begin(c) \/ Approve(c) \/ Finish(c) \/ Schedule(c) \/ Announce(c)

-----------------------------------------------------------------------------
(* A payment, an opt-out or a dispute ends a case and cancels its rows in  *)
(* one transaction: in the webhook server, or before the drain of a tick,  *)
(* where the batch forgets the plan as well.                               *)
Close(c) ==
  /\ ~Closed(c)
  /\ \E plan \in {case[c].plan} \cup (IF Loop("tick") THEN {"none"} ELSE {}) :
       case' = [case EXCEPT ![c] = [@ EXCEPT !.state = "RECOVERED", !.due = FALSE, !.plan = plan]]
  /\ UNCHANGED <<incident, member, memory, loop, door, alive, raced>>

(* IncidentManager.open is a SELECT and then an INSERT, for either opener. *)
Unused == {i \in Incidents : incident[i].state = "none"}
OpenForOnlyOpen(s) == {i \in Incidents : incident[i].state = "open" /\ incident[i].segment = s}
OpenFor(s) == {i \in Incidents : incident[i].state \in {"open", "releasing"} /\ incident[i].segment = s}
Opened(s) == [incident EXCEPT ![Min(Unused)] = [state |-> "open", segment |-> s, stage |-> 0]]

DoorSelect(s) ==
  /\ door.pc = "idle" /\ Cardinality(Unused) > Cardinality(loop.segments)
  /\ OpenFor(s) = {}
  /\ door' = [pc |-> "insert", segment |-> s]
  /\ raced' = IF loop.pc = "insert" /\ loop.segment = s THEN raced \cup {s} ELSE raced
  /\ UNCHANGED <<case, incident, member, memory, loop, alive>>

DoorInsert ==
  /\ door.pc = "insert"
  /\ incident' = Opened(door.segment)
  /\ door' = [pc |-> "idle", segment |-> None]
  /\ UNCHANGED <<case, member, memory, loop, alive, raced>>

-----------------------------------------------------------------------------
(* A window closes: the detector judges it.                                *)
Flagged == {o.segment : o \in Candidates(dwell', Observations(window'))}
Followed == {s \in Segments : open[s] # None}

Resting == UNCHANGED <<alive, raced, door>>

Releasing(S) == IF S = {} THEN Idle ELSE [Idle EXCEPT !.pc = "release", !.segments = S]
Opening(S) == IF S = {} THEN Releasing(Followed) ELSE [Idle EXCEPT !.pc = "flagged", !.segments = S]

NewWindow ==
  /\ Loop("drain") /\ Drained /\ loop.ticks = TicksPerWindow
  /\ window' \in Readings
  /\ dwell' = DwellAfter(dwell, Observations(window'))
  /\ Cardinality(Unused) >= Cardinality(Flagged \ Followed) + (IF door.pc = "idle" THEN 0 ELSE 1)
  /\ loop' = Opening(Flagged \ Followed)
  /\ UNCHANGED <<case, incident, member, open, mine, inFlight, door, alive, raced>>

(* What the runner does when it has the id: it follows the segment, and    *)
(* parks the cases that it covers and that have a plan.                    *)
Parking(s, i) ==
  LET affected == {c \in Covers[s] : case[c].plan # "none"}
  IN  /\ open' = [open EXCEPT ![s] = i]
      /\ loop' = [loop EXCEPT !.pc = "attach", !.segment = s, !.id = i,
                              !.cases = affected, !.todo = affected]

OpenSelect(s) ==
  /\ Loop("flagged") /\ s \in loop.segments
  /\ IF OpenFor(s) # {}
     THEN Parking(s, Min(OpenFor(s)))
     ELSE loop' = [loop EXCEPT !.pc = "insert", !.segment = s] /\ UNCHANGED open
  /\ raced' = IF OpenFor(s) = {} /\ door.segment = s THEN raced \cup {s} ELSE raced
  /\ UNCHANGED <<case, incident, member, mine, inFlight, dwell, window, door, alive>>

OpenInsert ==
  /\ Loop("insert")
  /\ incident' = Opened(loop.segment)
  /\ Parking(loop.segment, Min(Unused))
  /\ UNCHANGED <<case, member, mine, inFlight, dwell, window>> /\ Resting

(* attachAndSuppress: each case in turn, the member, the event, then the   *)
(* cancellation of its actions.                                            *)
Current == Min(loop.todo)
Takes(c) == ~Closed(c) /\ (loop.pc = "attach" => member[loop.id][c] = "no")

(* attach and repark: a case that is skipped is dropped from the list.     *)
TakeForgetsReparked(p, after) ==
  /\ Loop(p) /\ loop.todo # {}
  /\ IF Takes(Current)
     THEN /\ member' = IF p = "attach" THEN [member EXCEPT ![loop.id][Current] = "parked"] ELSE member
          /\ loop' = [loop EXCEPT !.pc = after]
     ELSE /\ loop' = [loop EXCEPT !.todo = loop.todo \ {Current}]
          /\ UNCHANGED member
  /\ UNCHANGED <<case, incident, memory>> /\ Resting

Take(p, after) ==
  /\ Loop(p) /\ loop.todo # {}
  /\ IF Takes(Current)
     THEN /\ member' = [member EXCEPT ![loop.id][Current] = "parked"]
          /\ loop' = [loop EXCEPT !.pc = after]
     ELSE /\ loop' = [loop EXCEPT !.todo = loop.todo \ {Current}]
          /\ UNCHANGED member
  /\ UNCHANGED <<case, incident, memory>> /\ Resting

Suppress(p, after) ==
  /\ Loop(p) /\ Posts(case[Current], "incident_attached")
  /\ case' = [case EXCEPT ![Current] = Post(case[Current], "incident_attached")]
  /\ loop' = [loop EXCEPT !.pc = after]
  /\ UNCHANGED <<incident, member, memory>> /\ Resting

CancelOnlyAttached(p, after) ==
  /\ Loop(p)
  /\ case' = IF p = "parked" THEN [case EXCEPT ![Current].due = FALSE] ELSE case
  /\ loop' = [loop EXCEPT !.pc = after, !.todo = loop.todo \ {Current}]
  /\ UNCHANGED <<incident, member, memory>> /\ Resting

Cancel(p, after) ==
  /\ Loop(p)
  /\ case' = [case EXCEPT ![Current].due = FALSE]
  /\ loop' = [loop EXCEPT !.pc = after, !.todo = loop.todo \ {Current}]
  /\ UNCHANGED <<incident, member, memory>> /\ Resting

Attach == Take("attach", "attached")
AttachSuppress == Suppress("attached", "parked")
AttachCancel == Cancel("parked", "attach")

(* The runner forgets the plans of all it meant to park.                   *)
AttachEnds ==
  /\ Loop("attach") /\ loop.todo = {}
  /\ mine' = [mine EXCEPT ![loop.id] = loop.cases]
  /\ case' = [c \in Cases |-> IF c \in loop.cases THEN [case[c] EXCEPT !.plan = "none"] ELSE case[c]]
  /\ loop' = Opening(loop.segments \ {loop.segment})
  /\ UNCHANGED <<incident, member, open, inFlight, dwell, window>> /\ Resting

-----------------------------------------------------------------------------
(* setState: the state and the stage together.                             *)
SetState(i, s, n) == [incident EXCEPT ![i].state = s, ![i].stage = n]

(* The release loop steps every incident the runner follows, once.  What   *)
(* the loop keeps of an incident it has closed is never read again.        *)
(* No traffic is a neutral reading: it counts as the baseline.             *)
HealthyNeedsTraffic(s) ==
  /\ window[s].attempts > 0
  /\ 10 * window[s].approvals * window[s].baseAttempts
       >= 9 * window[s].baseApprovals * window[s].attempts

Healthy(s) ==
  \/ window[s].attempts = 0
  \/ 10 * window[s].approvals * window[s].baseAttempts
       >= 9 * window[s].baseApprovals * window[s].attempts

Steps(s) == Loop("release") /\ s \in loop.segments
Stepped(s) == Releasing(loop.segments \ {s})

StepHolds(s) ==
  /\ Steps(s) /\ ~Healthy(s) /\ inFlight[open[s]] = {}
  /\ incident' = SetState(open[s], "open", 0)
  /\ loop' = Stepped(s)
  /\ UNCHANGED <<case, member, memory>> /\ Resting

StepPullsBack(s) ==
  /\ Steps(s) /\ ~Healthy(s) /\ inFlight[open[s]] # {}
  /\ loop' = [loop EXCEPT !.pc = "repark", !.segment = s, !.id = open[s], !.todo = inFlight[open[s]]]
  /\ UNCHANGED <<case, incident, member, memory>> /\ Resting

Repark == Take("repark", "retaken")
ReparkSuppress == Suppress("retaken", "reparked")
ReparkCancel == Cancel("reparked", "repark")

ReparkEnds ==
  /\ Loop("repark") /\ loop.todo = {}
  /\ inFlight' = [inFlight EXCEPT ![loop.id] = {}]
  /\ incident' = SetState(loop.id, "open", 0)
  /\ loop' = Stepped(loop.segment)
  /\ UNCHANGED <<case, member, open, mine, dwell, window>> /\ Resting

StepCompletes(s) ==
  /\ Steps(s) /\ Healthy(s) /\ Parked(open[s]) = {}
  /\ incident' = SetState(open[s], "closed", Len(Ramp))
  /\ open' = [open EXCEPT ![s] = None]
  /\ dwell' = [dwell EXCEPT ![s] = 0]
  /\ loop' = Stepped(s)
  /\ mine' = [mine EXCEPT ![open[s]] = {}]
  /\ inFlight' = [inFlight EXCEPT ![open[s]] = {}]
  /\ UNCHANGED <<case, member, window>> /\ Resting

(* The sizes a jittered slice of n cases may have, rounded to the nearest. *)
SliceSizes(stage, n) ==
  LET percent == Ramp[Min({stage + 1, Len(Ramp)})]
  IN  IF percent = 100
      THEN {n}
      ELSE {Min({n, Max({1, (n * percent * j + 5000) \div 10000})}) : j \in (100 - Jitter)..(100 + Jitter)}

FirstOf(S, n) == {c \in S : Cardinality({d \in S : d <= c}) <= n}

(* release marks the whole slice and then appends, case by case, for those *)
(* that were live when it looked.                                          *)
StepReleases(s) ==
  /\ Steps(s) /\ Healthy(s) /\ Parked(open[s]) # {}
  /\ \E n \in SliceSizes(incident[open[s]].stage, Cardinality(Parked(open[s]))) :
       LET slice == FirstOf(Parked(open[s]), n)
       IN  /\ member' = [member EXCEPT ![open[s]] =
                           [c \in Cases |-> IF c \in slice THEN "released" ELSE member[open[s]][c]]]
           /\ loop' = [loop EXCEPT !.pc = "wake", !.segment = s, !.id = open[s], !.cases = slice,
                                   !.todo = {c \in slice : ~Closed(c)}]
  /\ UNCHANGED <<case, incident, memory>> /\ Resting

Wake ==
  /\ Loop("wake") /\ loop.todo # {} /\ Posts(case[Current], "incident_released")
  /\ case' = [case EXCEPT ![Current] = Post(case[Current], "incident_released")]
  /\ loop' = [loop EXCEPT !.todo = loop.todo \ {Current}]
  /\ UNCHANGED <<incident, member, memory>> /\ Resting

WakeEnds ==
  /\ Loop("wake") /\ loop.todo = {}
  /\ inFlight' = [inFlight EXCEPT ![loop.id] = loop.cases]
  /\ incident' = SetState(loop.id, "releasing", Min({incident[loop.id].stage + 1, Len(Ramp)}))
  /\ loop' = [loop EXCEPT !.pc = "resume", !.todo = mine[loop.id] \ Parked(loop.id)]
  /\ UNCHANGED <<case, member, open, mine, dwell, window>> /\ Resting

(* startPlan with one action, for a case of the incident without a plan.   *)
Resumed(k) ==
  IF k.plan # "none" \/ ~CanTransition(k.state, "DIAGNOSING")
  THEN k
  ELSE [Post(k, "action_scheduled") EXCEPT !.plan = "used", !.due = TRUE]

Resume ==
  /\ Loop("resume") /\ loop.todo # {}
  /\ case' = [case EXCEPT ![Current] = Resumed(case[Current])]
  /\ loop' = [loop EXCEPT !.todo = loop.todo \ {Current}]
  /\ UNCHANGED <<incident, member, memory>> /\ Resting

ResumeEnds ==
  /\ Loop("resume") /\ loop.todo = {}
  /\ loop' = Stepped(loop.segment)
  /\ UNCHANGED <<case, incident, member, memory>> /\ Resting

-----------------------------------------------------------------------------
(* An append that is refused ends the batch.  What a crash would leave is  *)
(* the state it happens in, so it needs no action of its own.              *)
Throws ==
  /\ \/ alive /\ \E c \in Cases : case[c].work = "grant" /\ ~MayRun(case[c])
     \/ (Loop("attached") \/ Loop("retaken")) /\ ~Posts(case[Current], "incident_attached")
     \/ Loop("wake") /\ loop.todo # {} /\ ~Posts(case[Current], "incident_released")
  /\ alive' = FALSE
  /\ UNCHANGED <<case, incident, member, memory, loop, door, raced>>

Watch ==
  \/ NewWindow \/ OpenInsert \/ Throws
  \/ Attach \/ AttachSuppress \/ AttachCancel \/ AttachEnds
  \/ Repark \/ ReparkSuppress \/ ReparkCancel \/ ReparkEnds
  \/ Wake \/ WakeEnds \/ Resume \/ ResumeEnds
  \/ \E s \in Segments :
       OpenSelect(s) \/ StepHolds(s) \/ StepPullsBack(s) \/ StepCompletes(s) \/ StepReleases(s)

Door == DoorInsert \/ \E s \in Segments : DoorSelect(s)

Next == Drain \/ Watch \/ Door \/ (\E c \in Payers : Close(c))

(* The batch runs on; nobody has to pay, and nobody to report an outage.   *)
Spec == Init /\ [][Next]_vars /\ WF_vars(Drain \/ Watch)

-----------------------------------------------------------------------------
Kases == [state : CaseStates, due : BOOLEAN, plan : {"none", "used", "left"},
          work : {"idle", "hand", "grant", "call", "advance", "announce"}]
Rows == [state : {"none", "open", "releasing", "closed"},
         segment : Segments \cup {None}, stage : 0..Len(Ramp)]
Places == {"tick", "drain", "flagged", "insert", "attach", "attached", "parked", "release",
           "repark", "retaken", "reparked", "wake", "resume"}
Loops == [pc : Places, ticks : 1..TicksPerWindow, segments : SUBSET Segments,
          segment : Segments \cup {None}, id : Incidents \cup {None},
          cases : SUBSET Cases, todo : SUBSET Cases]

TypeOK ==
  /\ case \in [Cases -> Kases]
  /\ incident \in [Incidents -> Rows]
  /\ member \in [Incidents -> [Cases -> {"no", "parked", "released"}]]
  /\ open \in [Segments -> Incidents \cup {None}]
  /\ mine \in [Incidents -> SUBSET Cases] /\ inFlight \in [Incidents -> SUBSET Cases]
  /\ dwell \in [Segments -> 0..DwellWindows] /\ window \in Readings
  /\ loop \in Loops
  /\ door \in [pc : {"idle"}, segment : {None}] \cup [pc : {"insert"}, segment : Segments]
  /\ alive \in BOOLEAN /\ raced \subseteq Segments

(* A suppressed case is in the hands of an incident that will release it:  *)
(* parked in one that is not closed, or next in a slice whose rows are     *)
(* already marked.  If the process ends in the middle of such a slice, the *)
(* rest of it stays suppressed and no incident holds it.                   *)
SuppressedIsOwned ==
  \A c \in Cases : case[c].state = "SUPPRESSED_BY_INCIDENT" =>
    \/ \E i \in Incidents : incident[i].state \in {"open", "releasing"} /\ c \in Parked(i)
    \/ loop.pc = "wake" /\ c \in loop.todo

(* Nothing is pending or running for a suppressed case, except between the *)
(* event and the cancellation, which are two transactions: a process that  *)
(* ends there leaves a parked case with an action that will fire.          *)
QuietWhileParked ==
  \A c \in Cases : case[c].state = "SUPPRESSED_BY_INCIDENT" =>
    /\ case[c].work = "idle"
    /\ case[c].due => loop.pc \in {"parked", "reparked"} /\ c = Current

(* Two incidents of one segment are only ever live together when both      *)
(* openers had looked for one before either inserted.                      *)
TwinsWereRaced ==
  \A i, j \in Incidents :
    /\ i # j
    /\ incident[i].segment = incident[j].segment
    /\ {incident[i].state, incident[j].state} \subseteq {"open", "releasing"}
    => incident[i].segment \in raced

(* One window never flags a segment together with a part of it: the drop   *)
(* belongs to the parent or to the child, and cases are not parked twice   *)
(* for one failure.                                                        *)
FlaggedApart ==
  loop.pc = "flagged" => \A s, t \in loop.segments : ~IsAncestor(s, t)

(* No case stays suppressed for ever while the process lives and the rates *)
(* have recovered, with traffic on its segment or without.                 *)
Calm == \A o \in Observations(window) : ~IsDrop(o)
SuppressedIsReleased ==
  \A c \in Cases :
    []<>(case[c].state # "SUPPRESSED_BY_INCIDENT" \/ ~Calm \/ ~alive)
=============================================================================
