--------------------------- MODULE IncidentProofs ---------------------------
(***************************************************************************)
(* Theorems about Incident, for any cases, segments, readings, ramp,       *)
(* jitter and number of incidents.  None depends on the test by which the  *)
(* detector finds a drop, only on how it tells a segment from its parts.   *)
(***************************************************************************)
EXTENDS Incident, FiniteSetTheorems, TLAPS

Live == {"open", "releasing"}
IsLive(i) == incident[i].state \in Live

AtInsert == {"flagged", "insert"}
AtPark == {"attach", "attached", "parked"}
AtBreaker == {"repark", "retaken", "reparked"}
AtRelease == {"release", "wake", "resume"} \cup AtBreaker

(* What the loop follows is an incident of that segment that is live.      *)
FollowedIsLive ==
  \A s \in Segments : open[s] # None => IsLive(open[s]) /\ incident[open[s]].segment = s

(* Where the loop stands, it works on an incident that it follows.         *)
LoopFollows ==
  /\ loop.pc = "insert" => loop.segment \in loop.segments
  /\ loop.pc \in AtPark \cup (AtRelease \ {"release"}) =>
       loop.segment \in loop.segments /\ loop.id # None /\ open[loop.segment] = loop.id
  /\ loop.pc \in AtRelease => loop.segments \subseteq Followed
  /\ loop.pc \in {"attached", "parked", "retaken", "reparked"} =>
       loop.todo # {} /\ member[loop.id][Current] = "parked"

(* There is a row for every incident that the two openers are about to     *)
(* insert.                                                                 *)
ToOpen ==
  IF loop.pc \in AtInsert THEN loop.segments
  ELSE IF loop.pc \in AtPark THEN loop.segments \ {loop.segment} ELSE {}
AtDoor == IF door.pc = "insert" THEN 1 ELSE 0
RoomLeft == Cardinality(Unused) >= Cardinality(ToOpen) + AtDoor

OpenersLooked ==
  /\ loop.pc = "insert" => loop.segment \in raced \/ OpenFor(loop.segment) = {}
  /\ door.pc = "insert" => door.segment \in raced \/ OpenFor(door.segment) = {}
  /\ loop.pc = "insert" /\ door.pc = "insert" /\ loop.segment = door.segment =>
       loop.segment \in raced

SegmentsApart ==
  loop.pc \in AtInsert \cup AtPark => \A s, t \in loop.segments : ~IsAncestor(s, t)

DrainedOutside == loop.pc # "drain" => Drained

LoopInv == TypeOK /\ FollowedIsLive /\ LoopFollows /\ RoomLeft

-----------------------------------------------------------------------------
(* The least element of a set of numbers: of the intervals below its       *)
(* elements one has no smaller among them.                                 *)
Below(S) == {0..n : n \in S}

LEMMA LeastOf ==
  ASSUME NEW S \in SUBSET Nat, S # {}
  PROVE  Min(S) \in S /\ \A y \in S : Min(S) <= y
<1>1. IsWellFoundedOn(StrictSubsetOrdering(Nat), FiniteSubsetsOf(Nat))
  BY FS_StrictSubsetOrderingWellFounded
<1>2. Below(S) \subseteq FiniteSubsetsOf(Nat)
  <2>1. ASSUME NEW n \in S PROVE 0..n \in SUBSET Nat /\ IsFiniteSet(0..n)
    <3>1. 0 \in Int /\ n \in Int
      OBVIOUS
    <3>2. IsFiniteSet(0..n)
      BY <3>1, FS_Interval
    <3>3. 0..n \in SUBSET Nat
      OBVIOUS
    <3>4. QED BY <3>2, <3>3
  <2>2. QED BY <2>1 DEF Below, FiniteSubsetsOf
<1>3. Below(S) # {}
  BY DEF Below
<1>4. PICK X \in Below(S) : \A Y \in Below(S) : <<Y, X>> \notin StrictSubsetOrdering(Nat)
  BY <1>1, <1>2, <1>3, WFMin
<1>5. PICK x \in S : X = 0..x
  BY <1>4 DEF Below
<1>6. ASSUME NEW y \in S, y < x PROVE FALSE
  <2>1. 0..y \in Below(S)
    BY DEF Below
  <2>2. 0..y \subseteq X /\ 0..y # X
    BY <1>5, <1>6
  <2>3. <<0..y, X>> \in StrictSubsetOrdering(Nat)
    BY <1>5, <2>2 DEF StrictSubsetOrdering
  <2>4. QED BY <1>4, <2>1, <2>3
<1>7. x \in S /\ \A y \in S : x =< y
  BY <1>6
<1>8. QED BY <1>7 DEF Min

LEMMA LesserOf ==
  ASSUME NEW a \in Nat, NEW b \in Nat
  PROVE  Min({a, b}) \in {a, b} /\ Min({a, b}) <= a /\ Min({a, b}) <= b
<1>1. {a, b} \in SUBSET Nat /\ {a, b} # {}
  OBVIOUS
<1>2. QED BY <1>1, LeastOf

(* The states the events drive a case to, and the moves that matter.       *)
LEMMA Targets ==
  /\ Drives["approval_granted"] = "EXECUTING" /\ Drives["action_executed"] = "OBSERVING"
  /\ Drives["action_scheduled"] = "SCHEDULED" /\ Drives["incident_released"] = "SCHEDULED"
  /\ Drives["incident_attached"] = "SUPPRESSED_BY_INCIDENT"
  /\ {"EXECUTING", "OBSERVING", "SCHEDULED", "SUPPRESSED_BY_INCIDENT", "RECOVERED"}
       \subseteq CaseStates
  /\ ~IsTerminal("SUPPRESSED_BY_INCIDENT")
  BY DEF Drives, CaseStates, LiveStates, TerminalStates, IsTerminal

LEMMA Posted ==
  ASSUME NEW k \in Kases,
         NEW type \in {"approval_granted", "action_executed", "action_scheduled",
                       "incident_released", "incident_attached"}
  PROVE  /\ Post(k, type) \in Kases /\ Post(k, type).state = Drives[type]
         /\ Post(k, type).due = k.due /\ Post(k, type).work = k.work
<1>1. Drives[type] \in CaseStates
  BY Targets
<1>2. Post(k, type) \in Kases
  BY <1>1 DEF Post, Kases
<1>3. Post(k, type).state = Drives[type]
  BY DEF Post, Kases
<1>4. Post(k, type).due = k.due
  BY DEF Post, Kases
<1>5. Post(k, type).work = k.work
  BY DEF Post, Kases
<1>6. QED BY <1>2, <1>3, <1>4, <1>5

(* Where the loop goes with a set of segments.                             *)
LEMMA IdleIs ==
  Idle \in Loops /\ Idle.pc = "tick" /\ Idle.segments = {}
<1>1. "tick" \in Places /\ 1 \in 1..TicksPerWindow
  BY IncidentAssumption DEF Places
<1>2. QED BY <1>1 DEF Idle, Loops

LEMMA ReleasingIs ==
  ASSUME NEW S \in SUBSET Segments
  PROVE  /\ Releasing(S) \in Loops /\ Releasing(S).pc \in {"tick", "release"}
         /\ Releasing(S).segments = S
<1>1. CASE S = {}
  BY <1>1, IdleIs DEF Releasing
<1>2. CASE S # {}
  <2>1. "release" \in Places
    BY DEF Places
  <2>2. [Idle EXCEPT !.pc = "release", !.segments = S] \in Loops
    BY <2>1, IdleIs DEF Loops
  <2>3. [Idle EXCEPT !.pc = "release", !.segments = S].pc = "release"
    BY DEF Idle
  <2>4. [Idle EXCEPT !.pc = "release", !.segments = S].segments = S
    BY DEF Idle
  <2>5. QED BY <1>2, <2>2, <2>3, <2>4 DEF Releasing
<1>3. QED BY <1>1, <1>2

LEMMA OpeningIs ==
  ASSUME TypeOK, NEW S \in SUBSET Segments
  PROVE  /\ Opening(S) \in Loops
         /\ \/ Opening(S).pc = "flagged" /\ Opening(S).segments = S
            \/ Opening(S).pc \in {"tick", "release"} /\ Opening(S).segments = Followed
<1>1. CASE S = {}
  <2>1. Followed \in SUBSET Segments
    BY DEF Followed
  <2>2. QED BY <1>1, <2>1, ReleasingIs DEF Opening
<1>2. CASE S # {}
  <2>1. "flagged" \in Places
    BY DEF Places
  <2>2. [Idle EXCEPT !.pc = "flagged", !.segments = S] \in Loops
    BY <2>1, IdleIs DEF Loops
  <2>3. [Idle EXCEPT !.pc = "flagged", !.segments = S].pc = "flagged"
    BY DEF Idle
  <2>4. [Idle EXCEPT !.pc = "flagged", !.segments = S].segments = S
    BY DEF Idle
  <2>5. QED BY <1>2, <2>2, <2>3, <2>4 DEF Opening
<1>3. QED BY <1>1, <1>2

-----------------------------------------------------------------------------
(* The steps of the loop, by the fields they change.                       *)
SameWork ==
  /\ loop'.segments = loop.segments /\ loop'.segment = loop.segment
  /\ loop'.id = loop.id /\ loop'.cases = loop.cases

LEMMA LoopKeeps ==
  ASSUME TypeOK
  PROVE  /\ loop.ticks \in 1..TicksPerWindow /\ loop.segments \in SUBSET Segments
         /\ loop.segment \in Segments \cup {None} /\ loop.id \in Incidents \cup {None}
         /\ loop.cases \in SUBSET Cases /\ loop.todo \in SUBSET Cases /\ loop.pc \in Places
  BY DEF TypeOK, Loops

LEMMA LoopMovesOn ==
  ASSUME TypeOK, NEW p \in Places, NEW T \in SUBSET Cases,
         \/ loop' = [loop EXCEPT !.pc = p] /\ T = loop.todo
         \/ loop' = [loop EXCEPT !.todo = T] /\ p = loop.pc
         \/ loop' = [loop EXCEPT !.pc = p, !.todo = T]
  PROVE  loop' \in Loops /\ SameWork /\ loop'.pc = p /\ loop'.todo = T
<1>1. loop \in Loops
  BY DEF TypeOK
<1>2. QED BY <1>1 DEF Loops, SameWork

LEMMA LoopTurnsTo ==
  ASSUME TypeOK, NEW p \in Places, NEW s \in Segments, NEW i \in Incidents,
         NEW C \in SUBSET Cases, NEW T \in SUBSET Cases,
         loop' = [loop EXCEPT !.pc = p, !.segment = s, !.id = i, !.cases = C, !.todo = T]
  PROVE  /\ loop' \in Loops /\ loop'.pc = p /\ loop'.segments = loop.segments
         /\ loop'.segment = s /\ loop'.id = i /\ loop'.cases = C /\ loop'.todo = T
<1>1. loop \in Loops
  BY DEF TypeOK
<1>2. QED BY <1>1 DEF Loops

LEMMA LoopLooks ==
  ASSUME TypeOK, NEW s \in Segments, loop' = [loop EXCEPT !.pc = "insert", !.segment = s]
  PROVE  /\ loop' \in Loops /\ loop'.pc = "insert" /\ loop'.segments = loop.segments
         /\ loop'.segment = s
<1>1. loop \in Loops /\ "insert" \in Places
  BY DEF TypeOK, Places
<1>2. QED BY <1>1 DEF Loops

(* The first of the cases to do is one of them.                            *)
LEMMA CurrentIs ==
  ASSUME TypeOK, loop.todo # {}
  PROVE  Current \in loop.todo /\ Current \in Cases
<1>1. loop.todo \in SUBSET Cases
  BY LoopKeeps
<1>2. loop.todo \in SUBSET Nat
  <2>1. Cases \subseteq Nat
    BY IncidentAssumption
  <2>2. QED BY <1>1, <2>1
<1>3. Min(loop.todo) \in loop.todo
  BY <1>2, LeastOf
<1>4. QED BY <1>1, <1>3 DEF Current

LEMMA RestOfTodo ==
  ASSUME TypeOK
  PROVE  loop.todo \in SUBSET Cases /\ loop.todo \ {Current} \in SUBSET Cases
<1>1. loop.todo \in SUBSET Cases
  BY LoopKeeps
<1>2. QED BY <1>1

(* The row of an incident after setState, and the table after an INSERT.   *)
RowStates == {"none", "open", "releasing", "closed"}

LEMMA SetStateIs ==
  ASSUME TypeOK, NEW i \in Incidents, NEW s \in RowStates, NEW n \in 0..Len(Ramp)
  PROVE  /\ SetState(i, s, n) \in [Incidents -> Rows]
         /\ SetState(i, s, n)[i].state = s
         /\ SetState(i, s, n)[i].segment = incident[i].segment
         /\ \A j \in Incidents : j # i => SetState(i, s, n)[j] = incident[j]
<1> DEFINE r == incident[i]
           row == [state |-> s, segment |-> r.segment, stage |-> n]
<1>1. incident \in [Incidents -> Rows] /\ r \in Rows
  BY DEF TypeOK
<1>2. r = [state |-> r.state, segment |-> r.segment, stage |-> r.stage]
      /\ r.segment \in Segments \cup {None}
  BY <1>1 DEF Rows
<1>3. SetState(i, s, n) = [incident EXCEPT ![i] = [r EXCEPT !.state = s, !.stage = n]]
  BY <1>1 DEF SetState
<1>4. [r EXCEPT !.state = s, !.stage = n] = row
  <2> DEFINE a == [r EXCEPT !.state = s]
  <2>1. [r EXCEPT !.state = s, !.stage = n] = [a EXCEPT !.stage = n]
    OBVIOUS
  <2>2. a = [state |-> s, segment |-> r.segment, stage |-> r.stage]
    BY <1>2
  <2> HIDE DEF a
  <2>3. [a EXCEPT !.stage = n] = row
    BY <2>2
  <2>4. QED BY <2>1, <2>3
<1>5. row \in Rows
  BY <1>2, Zenon DEF Rows, RowStates
<1> HIDE DEF r, row
<1>6. SetState(i, s, n) = [incident EXCEPT ![i] = row]
  BY <1>3, <1>4
<1>7. SetState(i, s, n) \in [Incidents -> Rows] /\ SetState(i, s, n)[i] = row
      /\ \A j \in Incidents : j # i => SetState(i, s, n)[j] = incident[j]
  BY <1>1, <1>5, <1>6
<1>8. row.state = s /\ row.segment = incident[i].segment
  BY DEF row, r
<1>9. QED BY <1>7, <1>8

LEMMA StageIs ==
  /\ 0 \in 0..Len(Ramp) /\ Len(Ramp) \in 0..Len(Ramp)
  /\ \A n \in 0..Len(Ramp) : Min({n + 1, Len(Ramp)}) \in 0..Len(Ramp)
<1>1. Len(Ramp) \in Nat
  BY IncidentAssumption
<1>2. ASSUME NEW n \in 0..Len(Ramp) PROVE Min({n + 1, Len(Ramp)}) \in 0..Len(Ramp)
  <2>1. n + 1 \in Nat
    BY <1>1
  <2>2. Min({n + 1, Len(Ramp)}) \in Nat /\ Min({n + 1, Len(Ramp)}) <= Len(Ramp)
    BY <1>1, <2>1, LesserOf
  <2>3. QED BY <1>1, <2>2
<1>3. QED BY <1>1, <1>2

LEMMA OpenedIs ==
  ASSUME TypeOK, Unused # {}, NEW s \in Segments
  PROVE  /\ Min(Unused) \in Unused /\ Min(Unused) \in Incidents
         /\ Opened(s) \in [Incidents -> Rows]
         /\ Opened(s)[Min(Unused)].state = "open" /\ Opened(s)[Min(Unused)].segment = s
         /\ \A j \in Incidents : j # Min(Unused) => Opened(s)[j] = incident[j]
<1> DEFINE row == [state |-> "open", segment |-> s, stage |-> 0]
<1>1. Unused \in SUBSET Incidents
  BY DEF Unused
<1>2. Unused \in SUBSET Nat
  BY <1>1, IncidentAssumption
<1>3. Min(Unused) \in Unused
  BY <1>2, LeastOf
<1>4. 0 \in 0..Len(Ramp) /\ s \in Segments \cup {None}
  BY StageIs
<1>5. row \in Rows
  BY <1>4, Zenon DEF Rows
<1>6. row.state = "open" /\ row.segment = s
  OBVIOUS
<1>7. incident \in [Incidents -> Rows]
  BY DEF TypeOK
<1>8. Opened(s) = [incident EXCEPT ![Min(Unused)] = row]
  BY DEF Opened
<1> HIDE DEF row
<1>9. QED BY <1>1, <1>3, <1>5, <1>6, <1>7, <1>8

-----------------------------------------------------------------------------
(* What the invariant says of the incident the loop works on.              *)
Working == AtPark \cup (AtRelease \ {"release"})

LEMMA WorksOn ==
  ASSUME LoopInv, loop.pc \in Working
  PROVE  /\ loop.segment \in Segments /\ loop.segment \in loop.segments
         /\ loop.id \in Incidents /\ open[loop.segment] = loop.id
         /\ IsLive(loop.id) /\ incident[loop.id].segment = loop.segment
<1>1. loop.segment \in loop.segments /\ loop.id # None /\ open[loop.segment] = loop.id
  BY DEF LoopInv, LoopFollows, Working
<1>2. loop.segment \in Segments /\ loop.id \in Incidents
  BY <1>1, LoopKeeps DEF LoopInv
<1>3. IsLive(open[loop.segment]) /\ incident[open[loop.segment]].segment = loop.segment
  BY <1>1, <1>2 DEF LoopInv, FollowedIsLive
<1>4. QED BY <1>1, <1>2, <1>3

LEMMA StepsOn ==
  ASSUME LoopInv, NEW s \in Segments, Steps(s)
  PROVE  /\ loop.pc = "release" /\ s \in loop.segments /\ open[s] \in Incidents
         /\ IsLive(open[s]) /\ incident[open[s]].segment = s
<1>1. loop.pc = "release" /\ s \in loop.segments
  BY DEF Steps, Loop
<1>2. open[s] # None
  BY <1>1 DEF LoopInv, LoopFollows, AtRelease, Followed
<1>3. open[s] \in Incidents
  BY <1>2 DEF LoopInv, TypeOK
<1>4. QED BY <1>1, <1>2, <1>3 DEF LoopInv, FollowedIsLive

LEMMA FiniteSets ==
  ASSUME TypeOK
  PROVE  /\ IsFiniteSet(Unused) /\ IsFiniteSet(loop.segments) /\ IsFiniteSet(ToOpen)
         /\ Cardinality(Unused) \in Nat /\ Cardinality(loop.segments) \in Nat
         /\ Cardinality(ToOpen) \in Nat
<1>1. IsFiniteSet(Incidents) /\ IsFiniteSet(Segments)
  BY IncidentAssumption
<1>2. Unused \subseteq Incidents /\ loop.segments \subseteq Segments
  BY LoopKeeps DEF Unused
<1>3. ToOpen \subseteq Segments
  BY <1>2 DEF ToOpen
<1>4. IsFiniteSet(Unused) /\ IsFiniteSet(loop.segments) /\ IsFiniteSet(ToOpen)
  BY <1>1, <1>2, <1>3, FS_Subset
<1>5. QED BY <1>4, FS_CardinalityType

LEMMA RowLeft ==
  ASSUME LoopInv, loop.pc = "insert" \/ door.pc = "insert"
  PROVE  Unused # {}
<1>1. TypeOK
  BY DEF LoopInv
<1>2. Cardinality(Unused) >= Cardinality(ToOpen) + AtDoor
  BY DEF LoopInv, RoomLeft
<1>3. Cardinality(ToOpen) \in Nat /\ Cardinality(Unused) \in Nat /\ AtDoor \in {0, 1}
  BY <1>1, FiniteSets DEF AtDoor
<1>4. CASE door.pc = "insert"
  <2>1. AtDoor = 1
    BY <1>4 DEF AtDoor
  <2>2. Cardinality(Unused) # 0
    BY <1>2, <1>3, <2>1
  <2>3. QED BY <2>2, FS_EmptySet
<1>5. CASE loop.pc = "insert"
  <2>1. ToOpen = loop.segments /\ loop.segment \in loop.segments
    BY <1>5 DEF ToOpen, AtInsert, LoopInv, LoopFollows
  <2>2. Cardinality(ToOpen) # 0
    BY <1>1, <2>1, FiniteSets, FS_EmptySet
  <2>3. Cardinality(Unused) # 0
    BY <1>2, <1>3, <2>2
  <2>4. QED BY <2>3, FS_EmptySet
<1>6. QED BY <1>4, <1>5

(* Fewer segments to open with the same rows leaves room.                  *)
LEMMA RoomKept ==
  ASSUME LoopInv, TypeOK', Unused' = Unused, ToOpen' \subseteq ToOpen, door' = door
  PROVE  RoomLeft'
<1>1. IsFiniteSet(ToOpen) /\ Cardinality(ToOpen) \in Nat /\ Cardinality(Unused) \in Nat
  BY FiniteSets DEF LoopInv
<1>2. Cardinality(ToOpen') \in Nat /\ Cardinality(ToOpen') <= Cardinality(ToOpen)
  BY <1>1, FS_Subset, FS_CardinalityType
<1>3. Cardinality(Unused) >= Cardinality(ToOpen) + AtDoor
  BY DEF LoopInv, RoomLeft
<1>4. AtDoor' = AtDoor /\ AtDoor \in Nat
  BY DEF AtDoor
<1>5. QED BY <1>1, <1>2, <1>3, <1>4 DEF RoomLeft

(* One row less.                                                           *)
LEMMA RowTaken ==
  ASSUME LoopInv, Unused # {}, NEW s \in Segments, incident' = Opened(s)
  PROVE  /\ Unused' = Unused \ {Min(Unused)}
         /\ Cardinality(Unused') = Cardinality(Unused) - 1
<1>1. TypeOK
  BY DEF LoopInv
<1>2. /\ Min(Unused) \in Unused /\ incident'[Min(Unused)].state = "open"
      /\ \A j \in Incidents : j # Min(Unused) => incident'[j] = incident[j]
  BY <1>1, OpenedIs
<1>3. Unused' = Unused \ {Min(Unused)}
  BY <1>2 DEF Unused
<1>4. QED BY <1>1, <1>2, <1>3, FiniteSets, FS_RemoveElement

(* The rows that are followed keep their state, and no row is freed.       *)
LEMMA StateSet ==
  ASSUME LoopInv, NEW i \in Incidents, IsLive(i), NEW st \in {"open", "releasing", "closed"},
         NEW n \in 0..Len(Ramp), incident' = SetState(i, st, n)
  PROVE  /\ incident' \in [Incidents -> Rows] /\ Unused' = Unused
         /\ incident'[i].state = st /\ incident'[i].segment = incident[i].segment
         /\ \A j \in Incidents : j # i => incident'[j] = incident[j]
<1>1. st \in RowStates
  BY DEF RowStates
<1>2. /\ incident' \in [Incidents -> Rows]
      /\ incident'[i].state = st /\ incident'[i].segment = incident[i].segment
      /\ \A j \in Incidents : j # i => incident'[j] = incident[j]
  BY <1>1, SetStateIs DEF LoopInv
<1>3. incident[i].state # "none"
  BY DEF IsLive, Live
<1>4. Unused' = Unused
  BY <1>2, <1>3 DEF Unused
<1>5. QED BY <1>2, <1>4

(* A step of the loop with the same segment and incident in hand.          *)
LEMMA SameWorkKeeps ==
  ASSUME LoopInv, TypeOK', SameWork, open' = open, door' = door, Unused' = Unused,
         FollowedIsLive',
         \/ {loop.pc, loop'.pc} \subseteq AtPark
         \/ {loop.pc, loop'.pc} \subseteq AtRelease \ {"release"}
         \/ {loop.pc, loop'.pc} \subseteq {"tick", "drain"},
         loop'.pc \in {"attached", "parked", "retaken", "reparked"} =>
           loop'.todo # {} /\ member'[loop'.id][Current'] = "parked"
  PROVE  LoopInv'
<1>1. LoopFollows'
  BY DEF LoopInv, LoopFollows, SameWork, AtPark, AtRelease, AtBreaker, Followed
<1>2. ToOpen' \subseteq ToOpen
  BY DEF ToOpen, SameWork, AtInsert, AtPark, AtRelease, AtBreaker
<1>3. RoomLeft'
  BY <1>2, RoomKept
<1>4. QED BY <1>1, <1>3 DEF LoopInv

(* The loop is done with a segment of the release, or with the last.       *)
LEMMA SteppedKeeps ==
  ASSUME LoopInv, TypeOK', NEW s \in Segments, loop' = Stepped(s), door' = door,
         Unused' = Unused, FollowedIsLive', loop.segments \ {s} \subseteq Followed'
  PROVE  LoopInv'
<1>1. loop.segments \ {s} \in SUBSET Segments
  BY LoopKeeps DEF LoopInv
<1>2. loop'.pc \in {"tick", "release"} /\ loop'.segments = loop.segments \ {s}
  BY <1>1, ReleasingIs DEF Stepped
<1>3. LoopFollows'
  BY <1>2 DEF LoopFollows, AtPark, AtRelease, AtBreaker
<1>4. ToOpen' = {}
  BY <1>2 DEF ToOpen, AtInsert, AtPark
<1>5. RoomLeft'
  BY <1>4, RoomKept
<1>6. QED BY <1>3, <1>5 DEF LoopInv

LEMMA FrameKeeps ==
  ASSUME LoopInv, TypeOK', UNCHANGED <<incident, member, open, door, loop>>
  PROVE  LoopInv'
  BY DEF LoopInv, FollowedIsLive, IsLive, LoopFollows, Followed, RoomLeft, Unused, ToOpen,
         AtDoor, Current

-----------------------------------------------------------------------------
(* What the steps leave of a case.                                         *)
Suppressed == "SUPPRESSED_BY_INCIDENT"
Stages == {"idle", "hand", "grant", "call", "advance", "announce"}
Plans == {"none", "used", "left"}

Leased(k) == [k EXCEPT !.due = FALSE, !.work = "hand"]
At(k, w) == [k EXCEPT !.work = w]
Approved(k) == [Post(k, "approval_granted") EXCEPT !.work = "call"]
Continued(k) == [k EXCEPT !.due = TRUE, !.plan = "used", !.work = "announce"]
Ended(k, p) == [k EXCEPT !.state = "RECOVERED", !.due = FALSE, !.plan = p]
Cancelled(k) == [k EXCEPT !.due = FALSE]
Forgotten(k) == [k EXCEPT !.plan = "none"]

LEMMA LeasedIs ==
  ASSUME NEW k \in Kases
  PROVE  /\ Leased(k) \in Kases
         /\ Leased(k).state = k.state
<1>1. Leased(k) \in Kases
  BY Targets DEF Leased, Kases
<1>2. Leased(k).state = k.state
  BY DEF Leased, Kases
<1>3. QED BY <1>1, <1>2

LEMMA AtIs ==
  ASSUME NEW k \in Kases, NEW w \in Stages
  PROVE  /\ At(k, w) \in Kases
         /\ At(k, w).state = k.state /\ At(k, w).due = k.due
<1>1. At(k, w) \in Kases
  BY Targets DEF At, Stages, Kases
<1>2. At(k, w).state = k.state
  BY DEF At, Stages, Kases
<1>3. At(k, w).due = k.due
  BY DEF At, Stages, Kases
<1>4. QED BY <1>1, <1>2, <1>3

LEMMA ContinuedIs ==
  ASSUME NEW k \in Kases
  PROVE  /\ Continued(k) \in Kases
         /\ Continued(k).state = k.state
<1>1. Continued(k) \in Kases
  BY Targets DEF Continued, Kases
<1>2. Continued(k).state = k.state
  BY DEF Continued, Kases
<1>3. QED BY <1>1, <1>2

LEMMA EndedIs ==
  ASSUME NEW k \in Kases, NEW p \in Plans
  PROVE  /\ Ended(k, p) \in Kases
         /\ Ended(k, p).state = "RECOVERED" /\ Ended(k, p).work = k.work
<1>1. Ended(k, p) \in Kases
  BY Targets DEF Ended, Plans, Kases
<1>2. Ended(k, p).state = "RECOVERED"
  BY DEF Ended, Plans, Kases
<1>3. Ended(k, p).work = k.work
  BY DEF Ended, Plans, Kases
<1>4. QED BY <1>1, <1>2, <1>3

LEMMA CancelledIs ==
  ASSUME NEW k \in Kases
  PROVE  /\ Cancelled(k) \in Kases
         /\ Cancelled(k).state = k.state /\ Cancelled(k).work = k.work /\ Cancelled(k).due = FALSE
<1>1. Cancelled(k) \in Kases
  BY Targets DEF Cancelled, Kases
<1>2. Cancelled(k).state = k.state
  BY DEF Cancelled, Kases
<1>3. Cancelled(k).work = k.work
  BY DEF Cancelled, Kases
<1>4. Cancelled(k).due = FALSE
  BY DEF Cancelled, Kases
<1>5. QED BY <1>1, <1>2, <1>3, <1>4

LEMMA ForgottenIs ==
  ASSUME NEW k \in Kases
  PROVE  /\ Forgotten(k) \in Kases
         /\ Forgotten(k).state = k.state /\ Forgotten(k).work = k.work /\ Forgotten(k).due = k.due
<1>1. Forgotten(k) \in Kases
  BY Targets DEF Forgotten, Kases
<1>2. Forgotten(k).state = k.state
  BY DEF Forgotten, Kases
<1>3. Forgotten(k).work = k.work
  BY DEF Forgotten, Kases
<1>4. Forgotten(k).due = k.due
  BY DEF Forgotten, Kases
<1>5. QED BY <1>1, <1>2, <1>3, <1>4

LEMMA ApprovedIs ==
  ASSUME NEW k \in Kases
  PROVE  /\ Approved(k) \in Kases
         /\ Approved(k).state = "EXECUTING" /\ Approved(k).due = k.due
<1> DEFINE q == Post(k, "approval_granted")
<1>1. q \in Kases /\ q.state = "EXECUTING" /\ q.due = k.due
  BY Posted, Targets
<1>2. Approved(k) = At(q, "call")
  BY DEF Approved, At
<1>3. "call" \in Stages
  BY DEF Stages
<1> HIDE DEF q
<1>4. QED BY <1>1, <1>2, <1>3, AtIs

(* The answer to a call, and the event of the next step: either may be     *)
(* refused, and then the plan is over.                                     *)
LEMMA AnsweredIs ==
  ASSUME NEW k \in Kases, NEW fails \in BOOLEAN
  PROVE  /\ Answered(k, fails) \in Kases /\ Answered(k, fails).due = k.due
         /\ Answered(k, fails).state \in {k.state, "OBSERVING"}
<1>1. CASE ~Posts(k, "action_executed")
  <2>1. Answered(k, fails) = At(Forgotten(k), "idle")
    BY <1>1 DEF Answered, At, Forgotten
  <2>2. Forgotten(k) \in Kases /\ Forgotten(k).state = k.state /\ Forgotten(k).due = k.due
    BY ForgottenIs
  <2>3. "idle" \in Stages
    BY DEF Stages
  <2>4. QED BY <2>1, <2>2, <2>3, AtIs
<1>2. CASE Posts(k, "action_executed")
  <2> DEFINE p == IF fails THEN "none" ELSE k.plan
             w == IF k.plan = "left" /\ ~fails THEN "advance" ELSE "idle"
             q == Post(k, "action_executed")
             a == [q EXCEPT !.plan = p, !.work = w]
  <2>1. Answered(k, fails) = a
    BY <1>2 DEF Answered
  <2>2. p \in Plans /\ w \in Stages
    BY DEF Kases, Plans, Stages
  <2>3. q \in Kases /\ q.state = "OBSERVING" /\ q.due = k.due
    BY Posted, Targets
  <2> HIDE DEF p, w, q
  <2>4. a \in Kases
    BY <2>2, <2>3 DEF Kases, Plans, Stages
  <2>5. a.state = q.state
    BY <2>3 DEF Kases
  <2>6. a.due = q.due
    BY <2>3 DEF Kases
  <2>7. QED BY <2>1, <2>3, <2>4, <2>5, <2>6
<1>3. QED BY <1>1, <1>2

LEMMA AnnouncedIs ==
  ASSUME NEW k \in Kases
  PROVE  /\ Announced(k) \in Kases /\ Announced(k).due = k.due
         /\ Announced(k).state \in {k.state, "SCHEDULED"}
<1>1. "idle" \in Stages
  BY DEF Stages
<1>2. CASE ~Posts(k, "action_scheduled")
  <2>1. Announced(k) = At(Forgotten(k), "idle")
    BY <1>2 DEF Announced, At, Forgotten
  <2>2. Forgotten(k) \in Kases /\ Forgotten(k).state = k.state /\ Forgotten(k).due = k.due
    BY ForgottenIs
  <2>3. QED BY <1>1, <2>1, <2>2, AtIs
<1>3. CASE Posts(k, "action_scheduled")
  <2> DEFINE q == Post(k, "action_scheduled")
  <2>1. Announced(k) = At(q, "idle")
    BY <1>3 DEF Announced, At
  <2>2. q \in Kases /\ q.state = "SCHEDULED" /\ q.due = k.due
    BY Posted, Targets
  <2> HIDE DEF q
  <2>3. QED BY <1>1, <2>1, <2>2, AtIs
<1>4. QED BY <1>2, <1>3

LEMMA ResumedIs ==
  ASSUME NEW k \in Kases
  PROVE  /\ Resumed(k) \in Kases /\ Resumed(k).work = k.work
         /\ Resumed(k) = k \/ Resumed(k).state = "SCHEDULED"
<1>1. CASE Resumed(k) = k
  BY <1>1
<1>2. CASE Resumed(k) # k
  <2> DEFINE q == Post(k, "action_scheduled")
             a == [q EXCEPT !.plan = "used", !.due = TRUE]
  <2>1. Resumed(k) = a
    BY <1>2 DEF Resumed
  <2>2. q \in Kases /\ q.state = "SCHEDULED" /\ q.work = k.work
    BY Posted, Targets
  <2> HIDE DEF q
  <2>3. a \in Kases
    BY <2>2 DEF Kases
  <2>4. a.state = q.state
    BY <2>2 DEF Kases
  <2>5. a.work = q.work
    BY <2>2 DEF Kases
  <2>6. QED BY <2>1, <2>2, <2>3, <2>4, <2>5
<1>3. QED BY <1>1, <1>2

-----------------------------------------------------------------------------
(* The types, and what the loop follows, step by step.                     *)
LEMMA LoopStarts ==
  ASSUME Init PROVE LoopInv
<1>1. TypeOK
  <2>1. "SCHEDULED" \in CaseStates
    BY Targets
  <2>2. case \in [Cases -> Kases]
    BY <2>1 DEF Init, Kases
  <2>3. [state |-> "none", segment |-> None, stage |-> 0] \in Rows
    BY StageIs DEF Rows
  <2>4. incident \in [Incidents -> Rows]
    BY <2>3 DEF Init
  <2>5. dwell \in [Segments -> 0..DwellWindows]
    BY DetectorAssumption DEF Init
  <2>6. QED BY <2>2, <2>4, <2>5, IdleIs DEF Init, TypeOK
<1>2. FollowedIsLive /\ LoopFollows
  BY IdleIs DEF Init, FollowedIsLive, LoopFollows, AtPark, AtRelease, AtBreaker
<1>3. ToOpen = {} /\ AtDoor = 0
  BY IdleIs DEF Init, ToOpen, AtInsert, AtPark, AtDoor
<1>4. Cardinality(Unused) \in Nat
  BY <1>1, FiniteSets
<1>5. RoomLeft
  BY <1>3, <1>4, FS_EmptySet DEF RoomLeft
<1>6. QED BY <1>1, <1>2, <1>5 DEF LoopInv

LEMMA WorksKeeps ==
  ASSUME LoopInv, NEW c \in Cases, NEW from, NEW after \in Kases, Works(c, from, after)
  PROVE  LoopInv'
<1>1. UNCHANGED <<incident, member, open, door, loop>>
  BY DEF Works, memory
<1>2. TypeOK'
  BY DEF LoopInv, TypeOK, Works, memory
<1>3. QED BY <1>1, <1>2, FrameKeeps

LEMMA DrainKeeps ==
  ASSUME LoopInv, Drain PROVE LoopInv'
<1>1. TypeOK /\ case \in [Cases -> Kases]
  BY DEF LoopInv, TypeOK
<1>2. CASE Lease
  <2>1. PICK batch \in SUBSET {c \in Cases : case[c].due} :
          case' = [c \in Cases |-> IF c \in batch THEN Leased(case[c]) ELSE case[c]]
    BY <1>2 DEF Lease, Leased
  <2>2. case' \in [Cases -> Kases]
    BY <1>1, <2>1, LeasedIs
  <2>3. loop' \in Loops /\ SameWork /\ loop'.pc = "drain" /\ loop.pc = "tick"
    <3>1. "drain" \in Places /\ loop.todo \in SUBSET Cases /\ loop' = [loop EXCEPT !.pc = "drain"]
      BY <1>1, <1>2, LoopKeeps DEF Places, Lease
    <3>2. QED BY <1>1, <1>2, <3>1, LoopMovesOn DEF Lease, Loop
  <2>4. TypeOK'
    BY <1>1, <1>2, <2>2, <2>3 DEF TypeOK, Lease, memory
  <2>5. FollowedIsLive' /\ Unused' = Unused /\ open' = open /\ door' = door
    BY <1>2 DEF Lease, memory, LoopInv, FollowedIsLive, IsLive, Unused
  <2>6. QED BY <2>3, <2>4, <2>5, SameWorkKeeps
<1>3. CASE NextTick
  <2>1. loop.ticks + 1 \in 1..TicksPerWindow
    BY <1>1, <1>3, LoopKeeps, IncidentAssumption DEF NextTick
  <2>2. loop' \in Loops /\ loop'.pc = "tick" /\ loop'.segments = {}
    BY <1>3, <2>1, IdleIs DEF NextTick, Loops
  <2>3. TypeOK'
    BY <1>1, <1>3, <2>2 DEF TypeOK, NextTick, memory
  <2>4. FollowedIsLive' /\ Unused' = Unused /\ door' = door
    BY <1>3 DEF NextTick, memory, LoopInv, FollowedIsLive, IsLive, Unused
  <2>5. LoopFollows' /\ ToOpen' = {}
    BY <2>2 DEF LoopFollows, ToOpen, AtInsert, AtPark, AtRelease, AtBreaker
  <2>6. RoomLeft'
    BY <2>3, <2>4, <2>5, RoomKept
  <2>7. QED BY <2>3, <2>4, <2>5, <2>6 DEF LoopInv
<1>4. CASE \E c \in Cases : Begin(c) \/ Approve(c) \/ Finish(c) \/ Schedule(c) \/ Announce(c)
  <2>1. PICK c \in Cases : Begin(c) \/ Approve(c) \/ Finish(c) \/ Schedule(c) \/ Announce(c)
    BY <1>4
  <2>2. case[c] \in Kases
    BY <1>1
  <2>3. CASE Begin(c)
    <3> DEFINE w == IF MayRun(case[c]) THEN "grant" ELSE "idle"
    <3>1. w \in Stages /\ Works(c, "hand", At(case[c], w))
      BY <2>3 DEF Begin, At, Stages
    <3>2. QED BY <2>2, <3>1, AtIs, WorksKeeps
  <2>4. CASE Approve(c)
    <3>1. Works(c, "grant", Approved(case[c]))
      BY <2>4 DEF Approve, Approved
    <3>2. QED BY <2>2, <3>1, ApprovedIs, WorksKeeps
  <2>5. CASE Finish(c)
    <3>1. PICK fails \in BOOLEAN : Works(c, "call", Answered(case[c], fails))
      BY <2>5 DEF Finish
    <3>2. QED BY <2>2, <3>1, AnsweredIs, WorksKeeps
  <2>6. CASE Schedule(c)
    <3>1. Works(c, "advance", Continued(case[c]))
      BY <2>6 DEF Schedule, Continued
    <3>2. QED BY <2>2, <3>1, ContinuedIs, WorksKeeps
  <2>7. CASE Announce(c)
    <3>1. Works(c, "announce", Announced(case[c]))
      BY <2>7 DEF Announce
    <3>2. QED BY <2>2, <3>1, AnnouncedIs, WorksKeeps
  <2>8. QED BY <2>1, <2>3, <2>4, <2>5, <2>6, <2>7
<1>5. QED BY <1>2, <1>3, <1>4 DEF Drain

LEMMA ClosesBy ==
  ASSUME TypeOK, NEW c \in Cases, Close(c)
  PROVE  \E p \in Plans : case' = [case EXCEPT ![c] = Ended(case[c], p)]
<1>1. case \in [Cases -> Kases] /\ case[c].plan \in Plans /\ "none" \in Plans
  BY DEF TypeOK, Kases, Plans
<1>2. PICK plan \in {case[c].plan} \cup (IF Loop("tick") THEN {"none"} ELSE {}) :
        case' = [case EXCEPT ![c] = Ended(case[c], plan)]
  BY <1>1 DEF Close, Ended
<1>3. plan \in Plans
  BY <1>1
<1>4. QED BY <1>2, <1>3

LEMMA CloseKeeps ==
  ASSUME LoopInv, NEW c \in Cases, Close(c) PROVE LoopInv'
<1>1. TypeOK /\ case \in [Cases -> Kases]
  BY DEF LoopInv, TypeOK
<1>2. PICK p \in Plans : case' = [case EXCEPT ![c] = Ended(case[c], p)]
  BY <1>1, ClosesBy
<1>3. case' \in [Cases -> Kases]
  BY <1>1, <1>2, EndedIs
<1>4. TypeOK' /\ UNCHANGED <<incident, member, open, door, loop>>
  BY <1>1, <1>3 DEF TypeOK, Close, memory
<1>5. QED BY <1>4, FrameKeeps

LEMMA ThrowsKeeps ==
  ASSUME LoopInv, Throws PROVE LoopInv'
<1>1. TypeOK' /\ UNCHANGED <<incident, member, open, door, loop>>
  BY DEF LoopInv, TypeOK, Throws, memory
<1>2. QED BY <1>1, FrameKeeps

LEMMA DoorKeeps ==
  ASSUME LoopInv, Door PROVE LoopInv'
<1>1. TypeOK
  BY DEF LoopInv
<1>2. ASSUME NEW s \in Segments, DoorSelect(s) PROVE LoopInv'
  <2>1. door'.pc = "insert" /\ door' \in [pc : {"insert"}, segment : Segments]
    BY <1>2 DEF DoorSelect
  <2>2. TypeOK'
    BY <1>1, <1>2, <2>1 DEF TypeOK, DoorSelect, memory
  <2>3. FollowedIsLive' /\ LoopFollows' /\ Unused' = Unused /\ ToOpen' = ToOpen
    BY <1>2 DEF DoorSelect, memory, LoopInv, FollowedIsLive, IsLive, LoopFollows, Followed,
                Current, Unused, ToOpen
  <2>4. ToOpen \subseteq loop.segments
    BY DEF ToOpen
  <2>5. IsFiniteSet(loop.segments) /\ Cardinality(loop.segments) \in Nat
        /\ Cardinality(ToOpen) \in Nat /\ Cardinality(Unused) \in Nat
    BY <1>1, FiniteSets
  <2>6. Cardinality(ToOpen) <= Cardinality(loop.segments)
    BY <2>4, <2>5, FS_Subset
  <2>7. Cardinality(Unused) > Cardinality(loop.segments) /\ AtDoor' = 1
    BY <1>2, <2>1 DEF DoorSelect, AtDoor
  <2>8. RoomLeft'
    BY <2>3, <2>5, <2>6, <2>7 DEF RoomLeft
  <2>9. QED BY <2>2, <2>3, <2>8 DEF LoopInv
<1>3. CASE DoorInsert
  <2>1. Unused # {} /\ Cardinality(Unused) \in Nat /\ Cardinality(ToOpen) \in Nat
    BY <1>1, <1>3, RowLeft, FiniteSets DEF DoorInsert
  <2>2. door.segment \in Segments
    BY <1>1, <1>3 DEF TypeOK, DoorInsert
  <2>3. incident' = Opened(door.segment) /\ incident' \in [Incidents -> Rows]
    BY <1>1, <1>3, <2>1, <2>2, OpenedIs DEF DoorInsert
  <2>4. /\ Min(Unused) \in Unused
        /\ \A j \in Incidents : j # Min(Unused) => incident'[j] = incident[j]
    BY <1>1, <2>1, <2>2, <2>3, OpenedIs
  <2>5. TypeOK'
    BY <1>1, <1>3, <2>3 DEF TypeOK, DoorInsert, memory
  <2>6. FollowedIsLive'
    BY <1>1, <1>3, <2>4
    DEF DoorInsert, memory, LoopInv, FollowedIsLive, IsLive, Live, Unused, TypeOK
  <2>7. LoopFollows' /\ ToOpen' = ToOpen /\ AtDoor = 1 /\ AtDoor' = 0
    BY <1>3
    DEF DoorInsert, memory, LoopInv, LoopFollows, Followed, Current, ToOpen, AtDoor
  <2>8. Cardinality(Unused') = Cardinality(Unused) - 1
    BY <2>1, <2>2, <2>3, RowTaken
  <2>9. RoomLeft'
    BY <2>1, <2>7, <2>8 DEF RoomLeft, LoopInv
  <2>10. QED BY <2>5, <2>6, <2>7, <2>9 DEF LoopInv
<1>4. QED BY <1>2, <1>3 DEF Door

(* Only observed segments are ever flagged, and the counters stay bounded. *)
LEMMA JudgedAreSegments ==
  ASSUME NEW d, NEW w PROVE {o.segment : o \in Candidates(d, Observations(w))} \subseteq Segments
<1>1. Candidates(d, Observations(w)) \subseteq Observations(w)
  BY DEF Candidates, Failing, Significant, Tested
<1>2. \A o \in Observations(w) : o.segment \in Segments
  BY DEF Observations
<1>3. QED BY <1>1, <1>2

LEMMA DwellIs ==
  ASSUME NEW d \in [Segments -> 0..DwellWindows], NEW w
  PROVE  DwellAfter(d, Observations(w)) \in [Segments -> 0..DwellWindows]
<1>1. DwellWindows \in Nat \ {0}
  BY DetectorAssumption
<1>2. ASSUME NEW n \in 0..DwellWindows PROVE Min({n + 1, DwellWindows}) \in 0..DwellWindows
  <2>1. n + 1 \in Nat /\ DwellWindows \in Nat
    BY <1>1
  <2>2. Min({n + 1, DwellWindows}) \in {n + 1, DwellWindows}
        /\ Min({n + 1, DwellWindows}) <= DwellWindows
    BY <2>1, LesserOf
  <2>3. QED BY <2>1, <2>2
<1>3. ASSUME NEW s \in Segments
      PROVE  DwellAfter(d, Observations(w))[s]
               \in {Min({d[s] + 1, DwellWindows}), d[s], 0}
  BY DEF DwellAfter
<1>4. ASSUME NEW s \in Segments PROVE DwellAfter(d, Observations(w))[s] \in 0..DwellWindows
  <2>1. d[s] \in 0..DwellWindows /\ 0 \in 0..DwellWindows
    BY <1>1
  <2>2. Min({d[s] + 1, DwellWindows}) \in 0..DwellWindows
    BY <1>2, <2>1
  <2>3. QED BY <1>3, <2>1, <2>2
<1>5. DwellAfter(d, Observations(w)) = [s \in Segments |-> DwellAfter(d, Observations(w))[s]]
  BY DEF DwellAfter
<1>6. QED BY <1>4, <1>5

LEMMA NewWindowKeeps ==
  ASSUME LoopInv, NewWindow PROVE LoopInv'
<1> DEFINE S == Flagged \ Followed
<1>1. TypeOK
  BY DEF LoopInv
<1>2. S \in SUBSET Segments /\ IsFiniteSet(S) /\ Cardinality(S) \in Nat
  <2>1. Flagged \subseteq Segments
    BY JudgedAreSegments DEF Flagged
  <2>2. QED BY <2>1, IncidentAssumption, FS_Subset, FS_CardinalityType
<1>3. /\ Cardinality(Unused) >= Cardinality(S) + (IF door.pc = "idle" THEN 0 ELSE 1)
      /\ loop' = Opening(S)
  BY DEF NewWindow
<1> HIDE DEF S
<1>4. /\ loop' \in Loops
      /\ \/ loop'.pc = "flagged" /\ loop'.segments = S
         \/ loop'.pc \in {"tick", "release"} /\ loop'.segments = Followed
  BY <1>1, <1>2, <1>3, OpeningIs
<1>5. dwell' \in [Segments -> 0..DwellWindows]
  BY <1>1, DwellIs DEF NewWindow, TypeOK
<1>6. TypeOK'
  BY <1>1, <1>4, <1>5 DEF NewWindow, TypeOK
<1>7. FollowedIsLive' /\ LoopFollows' /\ Unused' = Unused
  BY <1>4 DEF NewWindow, LoopInv, FollowedIsLive, IsLive, LoopFollows, Followed, Unused,
              AtPark, AtRelease, AtBreaker
<1>8. ToOpen' \subseteq S
  BY <1>4 DEF ToOpen, AtInsert, AtPark
<1>9. Cardinality(ToOpen') <= Cardinality(S) /\ Cardinality(ToOpen') \in Nat
  BY <1>2, <1>8, FS_Subset, FS_CardinalityType
<1>10. AtDoor' = (IF door.pc = "idle" THEN 0 ELSE 1)
  BY <1>1 DEF NewWindow, TypeOK, AtDoor
<1>11. Cardinality(Unused) \in Nat /\ AtDoor' \in Nat
  BY <1>1, FiniteSets DEF AtDoor
<1>12. RoomLeft'
  BY <1>2, <1>3, <1>7, <1>9, <1>10, <1>11 DEF RoomLeft
<1>13. QED BY <1>6, <1>7, <1>12 DEF LoopInv

LEMMA ParkingIs ==
  ASSUME TypeOK, NEW s \in Segments, NEW i \in Incidents, Parking(s, i)
  PROVE  /\ open' = [open EXCEPT ![s] = i]
         /\ loop' \in Loops /\ loop'.pc = "attach" /\ loop'.segments = loop.segments
         /\ loop'.segment = s /\ loop'.id = i
<1> DEFINE affected == {c \in Covers[s] : case[c].plan # "none"}
<1>1. Covers[s] \in SUBSET Cases
  BY IncidentAssumption
<1>2. affected \in SUBSET Cases /\ "attach" \in Places
  BY <1>1 DEF Places
<1>3. open' = [open EXCEPT ![s] = i]
  BY DEF Parking
<1>4. loop' = [loop EXCEPT !.pc = "attach", !.segment = s, !.id = i,
                           !.cases = affected, !.todo = affected]
  BY DEF Parking
<1> HIDE DEF affected
<1>5. QED BY <1>2, <1>3, <1>4, LoopTurnsTo

LEMMA OpenSelectKeeps ==
  ASSUME LoopInv, NEW s \in Segments, OpenSelect(s) PROVE LoopInv'
<1>1. TypeOK /\ open \in [Segments -> Incidents \cup {None}]
  BY DEF LoopInv, TypeOK
<1>2. /\ loop.pc = "flagged" /\ s \in loop.segments /\ Unused' = Unused
      /\ door' = door /\ incident' = incident /\ raced' \subseteq Segments
  BY <1>1 DEF OpenSelect, Loop, Unused, TypeOK
<1>3. CASE OpenFor(s) # {}
  <2> DEFINE i == Min(OpenFor(s))
  <2>1. i \in OpenFor(s)
    <3>1. OpenFor(s) \subseteq Incidents /\ Incidents \subseteq Nat
      BY IncidentAssumption DEF OpenFor
    <3>2. OpenFor(s) \in SUBSET Nat
      BY <3>1
    <3>3. QED BY <1>3, <3>2, LeastOf
  <2>2. i \in Incidents /\ IsLive(i) /\ incident[i].segment = s /\ Parking(s, i)
    BY <1>3, <2>1 DEF OpenFor, IsLive, Live, OpenSelect
  <2> HIDE DEF i
  <2>3. /\ open' = [open EXCEPT ![s] = i]
        /\ loop' \in Loops /\ loop'.pc = "attach" /\ loop'.segments = loop.segments
        /\ loop'.segment = s /\ loop'.id = i
    BY <1>1, <2>2, ParkingIs
  <2>4. TypeOK'
    BY <1>1, <1>2, <2>2, <2>3 DEF OpenSelect, TypeOK
  <2>5. FollowedIsLive'
    BY <1>1, <1>2, <2>2, <2>3 DEF LoopInv, FollowedIsLive, IsLive
  <2>6. LoopFollows'
    <3>1. i # None
      BY <2>2, IncidentAssumption
    <3>2. QED BY <1>1, <1>2, <2>2, <2>3, <3>1
          DEF LoopFollows, AtPark, AtRelease, AtBreaker
  <2>7. ToOpen' \subseteq ToOpen
    BY <1>2, <2>3 DEF ToOpen, AtInsert, AtPark
  <2>8. RoomLeft'
    BY <1>2, <2>4, <2>7, RoomKept
  <2>9. QED BY <2>4, <2>5, <2>6, <2>8 DEF LoopInv
<1>4. CASE OpenFor(s) = {}
  <2>1. loop' = [loop EXCEPT !.pc = "insert", !.segment = s] /\ open' = open
    BY <1>4 DEF OpenSelect
  <2>2. /\ loop' \in Loops /\ loop'.pc = "insert" /\ loop'.segments = loop.segments
        /\ loop'.segment = s
    BY <1>1, <2>1, LoopLooks
  <2>3. TypeOK'
    BY <1>1, <1>2, <2>1, <2>2 DEF OpenSelect, TypeOK
  <2>4. FollowedIsLive' /\ LoopFollows'
    BY <1>2, <2>1, <2>2
    DEF LoopInv, FollowedIsLive, IsLive, LoopFollows, AtPark, AtRelease, AtBreaker
  <2>5. ToOpen' \subseteq ToOpen
    BY <1>2, <2>2 DEF ToOpen, AtInsert
  <2>6. RoomLeft'
    BY <1>2, <2>3, <2>5, RoomKept
  <2>7. QED BY <2>3, <2>4, <2>6 DEF LoopInv
<1>5. QED BY <1>3, <1>4

LEMMA OpenInsertKeeps ==
  ASSUME LoopInv, OpenInsert PROVE LoopInv'
<1> DEFINE i == Min(Unused)
           s == loop.segment
<1>1. TypeOK /\ open \in [Segments -> Incidents \cup {None}]
  BY DEF LoopInv, TypeOK
<1>2. loop.pc = "insert" /\ s \in loop.segments /\ Unused # {}
  BY RowLeft DEF OpenInsert, Loop, LoopInv, LoopFollows
<1>3. s \in Segments
  BY <1>1, <1>2, LoopKeeps
<1>4. incident' = Opened(s) /\ Parking(s, i)
  BY DEF OpenInsert
<1>5. /\ i \in Unused /\ i \in Incidents /\ incident' \in [Incidents -> Rows]
      /\ incident'[i].state = "open" /\ incident'[i].segment = s
      /\ \A j \in Incidents : j # i => incident'[j] = incident[j]
  BY <1>1, <1>2, <1>3, <1>4, OpenedIs
<1>6. Cardinality(Unused') = Cardinality(Unused) - 1
  BY <1>2, <1>3, <1>4, RowTaken
<1> HIDE DEF i
<1>7. /\ open' = [open EXCEPT ![s] = i]
      /\ loop' \in Loops /\ loop'.pc = "attach" /\ loop'.segments = loop.segments
      /\ loop'.segment = s /\ loop'.id = i
  BY <1>1, <1>3, <1>4, <1>5, ParkingIs
<1>8. TypeOK'
  BY <1>1, <1>3, <1>5, <1>7 DEF OpenInsert, Resting, TypeOK
<1>9. FollowedIsLive'
  BY <1>1, <1>3, <1>5, <1>7 DEF LoopInv, FollowedIsLive, IsLive, Live, Unused
<1>10. LoopFollows'
  <2>1. i # None
    BY <1>5, IncidentAssumption
  <2>2. QED BY <1>1, <1>2, <1>3, <1>7, <2>1 DEF LoopFollows, AtPark, AtRelease, AtBreaker
<1>11. ToOpen = loop.segments /\ ToOpen' = ToOpen \ {s} /\ AtDoor' = AtDoor
  BY <1>2, <1>7 DEF ToOpen, AtInsert, AtPark, AtDoor, OpenInsert, Resting
<1>12. Cardinality(ToOpen') = Cardinality(ToOpen) - 1
  BY <1>1, <1>2, <1>11, FiniteSets, FS_RemoveElement
<1>13. Cardinality(ToOpen) \in Nat /\ Cardinality(Unused) \in Nat /\ AtDoor \in Nat
  BY <1>1, FiniteSets DEF AtDoor
<1>14. RoomLeft'
  BY <1>6, <1>11, <1>12, <1>13 DEF LoopInv, RoomLeft
<1>15. QED BY <1>8, <1>9, <1>10, <1>14 DEF LoopInv

(* attach and repark, case by case.                                        *)
Hands(p, after) == <<p, after>> \in {<<"attach", "attached">>, <<"repark", "retaken">>}
Events(p, after) == <<p, after>> \in {<<"attached", "parked">>, <<"retaken", "reparked">>}
Drops(p, after) == <<p, after>> \in {<<"parked", "attach">>, <<"reparked", "repark">>}

LEMMA TakeIs ==
  ASSUME LoopInv, NEW p, NEW after, Hands(p, after), Take(p, after)
  PROVE  /\ TypeOK' /\ SameWork /\ UNCHANGED <<case, incident, open, door, raced>>
         /\ loop.pc = p /\ loop.id \in Incidents /\ Current \in loop.todo /\ Current \in Cases
         /\ \/ /\ loop'.pc = after /\ loop'.todo = loop.todo
               /\ member' = [member EXCEPT ![loop.id][Current] = "parked"]
            \/ loop'.pc = p /\ loop'.todo \subseteq loop.todo /\ member' = member
<1>1. TypeOK /\ loop.pc = p /\ loop.todo # {}
  BY DEF LoopInv, Take, Loop
<1>2. loop.pc \in Working /\ loop.pc \notin {"parked", "reparked"}
  BY <1>1 DEF Hands, Working, AtPark, AtRelease, AtBreaker
<1>3. loop.id \in Incidents
  BY <1>2, WorksOn
<1>4. Current \in loop.todo /\ Current \in Cases
  BY <1>1, CurrentIs
<1>5. p \in Places /\ after \in Places
  BY DEF Hands, Places
<1>6. UNCHANGED <<case, incident, open, mine, inFlight, dwell, window, alive, raced, door>>
  BY DEF Take, memory, Resting
<1>7. CASE Takes(Current)
  <2>1. /\ member' = [member EXCEPT ![loop.id][Current] = "parked"]
        /\ loop' = [loop EXCEPT !.pc = after]
    BY <1>7 DEF Take
  <2>2. loop' \in Loops /\ SameWork /\ loop'.pc = after /\ loop'.todo = loop.todo
    BY <1>1, <1>5, <2>1, RestOfTodo, LoopMovesOn
  <2>3. member' \in [Incidents -> [Cases -> {"no", "parked", "released"}]]
    BY <1>1, <1>3, <1>4, <2>1 DEF TypeOK
  <2>4. TypeOK'
    BY <1>1, <1>6, <2>2, <2>3 DEF TypeOK
  <2>5. QED BY <1>1, <1>3, <1>4, <1>6, <2>1, <2>2, <2>4
<1>8. CASE ~Takes(Current)
  <2>1. member' = member /\ loop' = [loop EXCEPT !.todo = loop.todo \ {Current}]
    BY <1>8 DEF Take
  <2>2. loop' \in Loops /\ SameWork /\ loop'.pc = p /\ loop'.todo = loop.todo \ {Current}
    BY <1>1, <1>5, <2>1, RestOfTodo, LoopMovesOn
  <2>3. TypeOK'
    BY <1>1, <1>6, <2>1, <2>2 DEF TypeOK
  <2>4. QED BY <1>1, <1>3, <1>4, <1>6, <2>1, <2>2, <2>3
<1>9. QED BY <1>7, <1>8

LEMMA TakeKeeps ==
  ASSUME LoopInv, NEW p, NEW after, Hands(p, after), Take(p, after)
  PROVE  LoopInv'
<1>1. /\ TypeOK /\ TypeOK' /\ SameWork /\ UNCHANGED <<incident, open, door>>
      /\ loop.pc = p /\ loop.id \in Incidents /\ Current \in loop.todo /\ Current \in Cases
      /\ \/ /\ loop'.pc = after /\ loop'.todo = loop.todo
            /\ member' = [member EXCEPT ![loop.id][Current] = "parked"]
         \/ loop'.pc = p /\ loop'.todo \subseteq loop.todo /\ member' = member
  BY TakeIs DEF LoopInv
<1>2. FollowedIsLive' /\ Unused' = Unused
  BY <1>1 DEF LoopInv, FollowedIsLive, IsLive, Unused
<1>3. {loop.pc, loop'.pc} \subseteq AtPark \/ {loop.pc, loop'.pc} \subseteq AtRelease \ {"release"}
  BY <1>1 DEF Hands, AtPark, AtRelease, AtBreaker
<1>4. loop'.pc \in {"attached", "parked", "retaken", "reparked"} =>
        loop'.todo # {} /\ member'[loop'.id][Current'] = "parked"
  BY <1>1 DEF Hands, Current, SameWork, TypeOK
<1>5. QED BY <1>1, <1>2, <1>3, <1>4, SameWorkKeeps

LEMMA SuppressIs ==
  ASSUME LoopInv, NEW p, NEW after, Events(p, after), Suppress(p, after)
  PROVE  /\ TypeOK' /\ SameWork /\ UNCHANGED <<incident, member, open, door, raced>>
         /\ loop.pc = p /\ loop'.pc = after /\ loop'.todo = loop.todo /\ Current' = Current
         /\ loop.id \in Incidents /\ Current \in loop.todo /\ Current \in Cases
         /\ case' = [case EXCEPT ![Current] = Post(case[Current], "incident_attached")]
<1>1. TypeOK /\ loop.pc = p /\ case \in [Cases -> Kases]
  BY DEF LoopInv, Suppress, Loop, TypeOK
<1>2. loop.pc \in Working /\ loop.todo # {}
  BY <1>1 DEF LoopInv, LoopFollows, Events, Working, AtPark, AtRelease, AtBreaker
<1>3. loop.id \in Incidents /\ Current \in loop.todo /\ Current \in Cases
  BY <1>1, <1>2, WorksOn, CurrentIs
<1>4. /\ UNCHANGED <<incident, member, open, mine, inFlight, dwell, window, alive, raced, door>>
      /\ loop' = [loop EXCEPT !.pc = after]
      /\ case' = [case EXCEPT ![Current] = Post(case[Current], "incident_attached")]
  BY DEF Suppress, memory, Resting
<1>5. after \in Places
  BY DEF Events, Places
<1>6. loop' \in Loops /\ SameWork /\ loop'.pc = after /\ loop'.todo = loop.todo
  BY <1>1, <1>4, <1>5, RestOfTodo, LoopMovesOn
<1>7. Post(case[Current], "incident_attached") \in Kases
  BY <1>1, <1>3, Posted
<1>8. case' \in [Cases -> Kases]
  BY <1>1, <1>4, <1>7
<1>9. TypeOK' /\ Current' = Current
  BY <1>1, <1>4, <1>6, <1>8 DEF TypeOK, Current
<1>10. QED BY <1>1, <1>3, <1>4, <1>6, <1>9

LEMMA SuppressKeeps ==
  ASSUME LoopInv, NEW p, NEW after, Events(p, after), Suppress(p, after)
  PROVE  LoopInv'
<1>1. /\ TypeOK /\ TypeOK' /\ SameWork /\ UNCHANGED <<incident, member, open, door>>
      /\ loop.pc = p /\ loop'.pc = after /\ loop'.todo = loop.todo /\ Current' = Current
  BY SuppressIs DEF LoopInv
<1>2. FollowedIsLive' /\ Unused' = Unused
  BY <1>1 DEF LoopInv, FollowedIsLive, IsLive, Unused
<1>3. {loop.pc, loop'.pc} \subseteq AtPark \/ {loop.pc, loop'.pc} \subseteq AtRelease \ {"release"}
  BY <1>1 DEF Events, AtPark, AtRelease, AtBreaker
<1>4. loop.pc \in {"attached", "retaken"}
  BY <1>1 DEF Events
<1>5. loop'.todo # {} /\ member'[loop'.id][Current'] = "parked"
  BY <1>1, <1>4 DEF LoopInv, LoopFollows, SameWork
<1>6. QED BY <1>1, <1>2, <1>3, <1>5, SameWorkKeeps

LEMMA CancelIs ==
  ASSUME LoopInv, NEW p, NEW after, Drops(p, after), Cancel(p, after)
  PROVE  /\ TypeOK' /\ SameWork /\ UNCHANGED <<incident, member, open, door, raced>>
         /\ loop.pc = p /\ loop'.pc = after /\ Current \in Cases
         /\ case' = [case EXCEPT ![Current] = Cancelled(case[Current])]
<1>1. TypeOK /\ loop.pc = p /\ case \in [Cases -> Kases]
  BY DEF LoopInv, Cancel, Loop, TypeOK
<1>2. loop.todo # {}
  BY <1>1 DEF LoopInv, LoopFollows, Drops
<1>3. Current \in Cases
  BY <1>1, <1>2, CurrentIs
<1>4. /\ UNCHANGED <<incident, member, open, mine, inFlight, dwell, window, alive, raced, door>>
      /\ loop' = [loop EXCEPT !.pc = after, !.todo = loop.todo \ {Current}]
  BY DEF Cancel, memory, Resting
<1>5. case' = [case EXCEPT ![Current] = Cancelled(case[Current])]
  BY <1>1, <1>3 DEF Cancel, Cancelled
<1>6. after \in Places
  BY DEF Drops, Places
<1>7. loop' \in Loops /\ SameWork /\ loop'.pc = after
  BY <1>1, <1>4, <1>6, RestOfTodo, LoopMovesOn
<1>8. case' \in [Cases -> Kases]
  BY <1>1, <1>3, <1>5, CancelledIs
<1>9. TypeOK'
  BY <1>1, <1>4, <1>7, <1>8 DEF TypeOK
<1>10. QED BY <1>1, <1>3, <1>4, <1>5, <1>7, <1>9

LEMMA CancelKeeps ==
  ASSUME LoopInv, NEW p, NEW after, Drops(p, after), Cancel(p, after)
  PROVE  LoopInv'
<1>1. /\ TypeOK' /\ SameWork /\ UNCHANGED <<incident, member, open, door>>
      /\ loop.pc = p /\ loop'.pc = after
  BY CancelIs
<1>2. FollowedIsLive' /\ Unused' = Unused
  BY <1>1 DEF LoopInv, FollowedIsLive, IsLive, Unused
<1>3. {loop.pc, loop'.pc} \subseteq AtPark \/ {loop.pc, loop'.pc} \subseteq AtRelease \ {"release"}
  BY <1>1 DEF Drops, AtPark, AtRelease, AtBreaker
<1>4. loop'.pc \notin {"attached", "parked", "retaken", "reparked"}
  BY <1>1 DEF Drops
<1>5. QED BY <1>1, <1>2, <1>3, <1>4, SameWorkKeeps

LEMMA AttachEndsIs ==
  ASSUME LoopInv, AttachEnds
  PROVE  /\ TypeOK' /\ UNCHANGED <<incident, member, open, door, raced>> /\ loop.pc = "attach"
         /\ case' = [c \in Cases |-> IF c \in loop.cases THEN Forgotten(case[c]) ELSE case[c]]
         /\ \/ loop'.pc = "flagged" /\ loop'.segments = loop.segments \ {loop.segment}
            \/ loop'.pc \in {"tick", "release"} /\ loop'.segments = Followed
<1>1. TypeOK /\ loop.pc = "attach" /\ case \in [Cases -> Kases]
  BY DEF LoopInv, AttachEnds, Loop, TypeOK
<1>2. loop.id \in Incidents /\ loop.cases \in SUBSET Cases
  BY <1>1, WorksOn, LoopKeeps DEF Working, AtPark
<1>3. case' = [c \in Cases |-> IF c \in loop.cases THEN Forgotten(case[c]) ELSE case[c]]
  BY DEF AttachEnds, Forgotten
<1>4. case' \in [Cases -> Kases]
  BY <1>1, <1>3, ForgottenIs
<1>5. mine' \in [Incidents -> SUBSET Cases]
  BY <1>1, <1>2 DEF AttachEnds, TypeOK
<1>6. loop.segments \ {loop.segment} \in SUBSET Segments
  BY <1>1, LoopKeeps
<1>7. /\ loop' \in Loops
      /\ \/ loop'.pc = "flagged" /\ loop'.segments = loop.segments \ {loop.segment}
         \/ loop'.pc \in {"tick", "release"} /\ loop'.segments = Followed
  BY <1>1, <1>6, OpeningIs DEF AttachEnds
<1>8. UNCHANGED <<incident, member, open, inFlight, dwell, window, alive, raced, door>>
  BY DEF AttachEnds, Resting
<1>9. TypeOK'
  BY <1>1, <1>4, <1>5, <1>7, <1>8 DEF TypeOK
<1>10. QED BY <1>1, <1>3, <1>7, <1>8, <1>9

LEMMA AttachEndsKeeps ==
  ASSUME LoopInv, AttachEnds PROVE LoopInv'
<1>1. /\ TypeOK' /\ UNCHANGED <<incident, member, open, door>> /\ loop.pc = "attach"
      /\ \/ loop'.pc = "flagged" /\ loop'.segments = loop.segments \ {loop.segment}
         \/ loop'.pc \in {"tick", "release"} /\ loop'.segments = Followed
  BY AttachEndsIs
<1>2. FollowedIsLive' /\ Unused' = Unused
  BY <1>1 DEF LoopInv, FollowedIsLive, IsLive, Unused
<1>3. LoopFollows'
  BY <1>1 DEF LoopFollows, AtPark, AtRelease, AtBreaker, Followed
<1>4. ToOpen' \subseteq ToOpen
  BY <1>1 DEF ToOpen, AtInsert, AtPark
<1>5. RoomLeft'
  BY <1>1, <1>2, <1>4, RoomKept
<1>6. QED BY <1>1, <1>2, <1>3, <1>5 DEF LoopInv

(* The release loop.  A step that only sets the state of the incident it   *)
(* follows leaves it live.                                                 *)
LEMMA StaysFollowed ==
  ASSUME LoopInv, NEW i \in Incidents, open' = open,
         incident'[i].state \in Live, incident'[i].segment = incident[i].segment,
         \A j \in Incidents : j # i => incident'[j] = incident[j]
  PROVE  FollowedIsLive'
<1>1. open \in [Segments -> Incidents \cup {None}]
  BY DEF LoopInv, TypeOK
<1>2. QED BY <1>1 DEF LoopInv, FollowedIsLive, IsLive

LEMMA StepHoldsKeeps ==
  ASSUME LoopInv, NEW s \in Segments, StepHolds(s) PROVE LoopInv'
<1>1. TypeOK /\ Steps(s)
  BY DEF LoopInv, StepHolds
<1>2. /\ loop.pc = "release" /\ s \in loop.segments /\ open[s] \in Incidents
      /\ IsLive(open[s]) /\ incident[open[s]].segment = s
  BY <1>1, StepsOn
<1>3. /\ incident' = SetState(open[s], "open", 0) /\ loop' = Stepped(s)
      /\ UNCHANGED <<case, member, open, mine, inFlight, dwell, window, alive, raced, door>>
  BY DEF StepHolds, memory, Resting
<1>4. /\ incident' \in [Incidents -> Rows] /\ Unused' = Unused
      /\ incident'[open[s]].state = "open"
      /\ incident'[open[s]].segment = incident[open[s]].segment
      /\ \A j \in Incidents : j # open[s] => incident'[j] = incident[j]
  BY <1>2, <1>3, StageIs, StateSet
<1>5. loop.segments \ {s} \in SUBSET Segments
  BY <1>1, LoopKeeps
<1>6. loop' \in Loops
  BY <1>3, <1>5, ReleasingIs DEF Stepped
<1>7. TypeOK'
  BY <1>1, <1>3, <1>4, <1>6 DEF TypeOK
<1>8. FollowedIsLive'
  BY <1>2, <1>3, <1>4, StaysFollowed DEF Live
<1>9. loop.segments \ {s} \subseteq Followed'
  BY <1>2, <1>3 DEF LoopInv, LoopFollows, AtRelease, Followed
<1>10. QED BY <1>3, <1>4, <1>7, <1>8, <1>9, SteppedKeeps

LEMMA StepCompletesIs ==
  ASSUME LoopInv, NEW s \in Segments, StepCompletes(s)
  PROVE  /\ TypeOK' /\ UNCHANGED <<case, member, door, raced>> /\ loop.pc = "release"
         /\ open[s] \in Incidents /\ incident'[open[s]].state = "closed"
         /\ \A j \in Incidents : j # open[s] => incident'[j] = incident[j]
         /\ Unused' = Unused /\ loop' = Stepped(s)
         /\ open' = [open EXCEPT ![s] = None] /\ incident[open[s]].segment = s
<1>1. TypeOK /\ Steps(s)
  BY DEF LoopInv, StepCompletes
<1>2. /\ loop.pc = "release" /\ s \in loop.segments /\ open[s] \in Incidents
      /\ IsLive(open[s]) /\ incident[open[s]].segment = s
  BY <1>1, StepsOn
<1>3. /\ incident' = SetState(open[s], "closed", Len(Ramp)) /\ loop' = Stepped(s)
      /\ open' = [open EXCEPT ![s] = None]
      /\ UNCHANGED <<case, member, window, alive, raced, door>>
  BY DEF StepCompletes, Resting
<1>4. /\ incident' \in [Incidents -> Rows] /\ Unused' = Unused
      /\ incident'[open[s]].state = "closed"
      /\ \A j \in Incidents : j # open[s] => incident'[j] = incident[j]
  BY <1>2, <1>3, StageIs, StateSet
<1>5. loop.segments \ {s} \in SUBSET Segments
  BY <1>1, LoopKeeps
<1>6. loop' \in Loops
  BY <1>3, <1>5, ReleasingIs DEF Stepped
<1>7. /\ dwell' \in [Segments -> 0..DwellWindows]
      /\ mine' \in [Incidents -> SUBSET Cases] /\ inFlight' \in [Incidents -> SUBSET Cases]
      /\ open' \in [Segments -> Incidents \cup {None}]
  <2>1. 0 \in 0..DwellWindows
    BY DetectorAssumption
  <2>2. QED BY <1>1, <1>2, <1>3, <2>1 DEF TypeOK, StepCompletes
<1>8. TypeOK'
  BY <1>1, <1>3, <1>4, <1>6, <1>7 DEF TypeOK
<1>9. QED BY <1>2, <1>3, <1>4, <1>8

LEMMA StepCompletesKeeps ==
  ASSUME LoopInv, NEW s \in Segments, StepCompletes(s) PROVE LoopInv'
<1>1. /\ TypeOK' /\ door' = door /\ Unused' = Unused /\ loop' = Stepped(s)
      /\ loop.pc = "release" /\ open[s] \in Incidents /\ incident[open[s]].segment = s
      /\ open' = [open EXCEPT ![s] = None]
      /\ \A j \in Incidents : j # open[s] => incident'[j] = incident[j]
  BY StepCompletesIs
<1>2. open \in [Segments -> Incidents \cup {None}]
  BY DEF LoopInv, TypeOK
<1>3. ASSUME NEW t \in Segments, open'[t] # None
      PROVE  IsLive(open[t])' /\ incident'[open'[t]].segment = t
  <2>1. t # s /\ open'[t] = open[t] /\ open[t] \in Incidents
    BY <1>1, <1>2, <1>3
  <2>2. IsLive(open[t]) /\ incident[open[t]].segment = t
    BY <1>3, <2>1 DEF LoopInv, FollowedIsLive
  <2>3. open[t] # open[s]
    BY <1>1, <2>1, <2>2
  <2>4. incident'[open[t]] = incident[open[t]]
    BY <1>1, <2>1, <2>3
  <2>5. QED BY <2>1, <2>2, <2>4 DEF IsLive
<1>4. FollowedIsLive'
  BY <1>3 DEF FollowedIsLive
<1>5. loop.segments \ {s} \subseteq Followed'
  <2>1. loop.segments \subseteq Followed
    BY <1>1 DEF LoopInv, LoopFollows, AtRelease
  <2>2. QED BY <1>1, <1>2, <2>1 DEF Followed
<1>6. QED BY <1>1, <1>4, <1>5, SteppedKeeps

LEMMA StepPullsBackKeeps ==
  ASSUME LoopInv, NEW s \in Segments, StepPullsBack(s) PROVE LoopInv'
<1>1. TypeOK /\ Steps(s)
  BY DEF LoopInv, StepPullsBack
<1>2. loop.pc = "release" /\ s \in loop.segments /\ open[s] \in Incidents
  BY <1>1, StepsOn
<1>3. /\ loop' = [loop EXCEPT !.pc = "repark", !.segment = s, !.id = open[s],
                             !.todo = inFlight[open[s]]]
      /\ UNCHANGED <<case, incident, member, open, mine, inFlight, dwell, window, alive, raced,
                    door>>
  BY DEF StepPullsBack, memory, Resting
<1>4. "repark" \in Places /\ inFlight[open[s]] \in SUBSET Cases /\ loop.cases \in SUBSET Cases
  BY <1>1, <1>2, LoopKeeps DEF Places, TypeOK
<1>5. /\ loop' \in Loops /\ loop'.pc = "repark" /\ loop'.segments = loop.segments
      /\ loop'.segment = s /\ loop'.id = open[s]
  <2> DEFINE i == open[s]
             T == inFlight[i]
  <2>1. /\ loop' = [loop EXCEPT !.pc = "repark", !.segment = s, !.id = i, !.todo = T]
        /\ i \in Incidents /\ T \in SUBSET Cases /\ loop \in Loops
    BY <1>1, <1>2, <1>3, <1>4 DEF TypeOK
  <2> HIDE DEF i, T
  <2>2. /\ loop' \in Loops /\ loop'.pc = "repark" /\ loop'.segments = loop.segments
        /\ loop'.segment = s /\ loop'.id = i
    BY <1>4, <2>1 DEF Loops
  <2>3. QED BY <2>2 DEF i
<1>6. TypeOK'
  BY <1>1, <1>3, <1>5 DEF TypeOK
<1>7. FollowedIsLive' /\ Unused' = Unused
  BY <1>3 DEF LoopInv, FollowedIsLive, IsLive, Unused
<1>8. LoopFollows'
  <2>1. open[s] # None /\ loop.segments \subseteq Followed
    BY <1>2, IncidentAssumption DEF LoopInv, LoopFollows, AtRelease
  <2>2. QED BY <1>2, <1>3, <1>5, <2>1 DEF LoopFollows, AtPark, AtRelease, AtBreaker, Followed
<1>9. ToOpen' \subseteq ToOpen
  BY <1>5 DEF ToOpen, AtInsert, AtPark
<1>10. RoomLeft'
  BY <1>3, <1>6, <1>7, <1>9, RoomKept
<1>11. QED BY <1>6, <1>7, <1>8, <1>10 DEF LoopInv

LEMMA StepReleasesIs ==
  ASSUME LoopInv, NEW s \in Segments, StepReleases(s)
  PROVE  /\ TypeOK' /\ UNCHANGED <<case, incident, open, door, raced>>
         /\ loop.pc = "release" /\ s \in loop.segments /\ open[s] \in Incidents
         /\ loop'.pc = "wake" /\ loop'.segments = loop.segments
         /\ loop'.segment = s /\ loop'.id = open[s]
         /\ \E slice \in SUBSET Cases :
              /\ loop'.todo = {c \in slice : ~Closed(c)}
              /\ member' = [member EXCEPT ![open[s]] =
                   [c \in Cases |-> IF c \in slice THEN "released" ELSE member[open[s]][c]]]
<1>1. TypeOK /\ Steps(s)
  BY DEF LoopInv, StepReleases
<1>2. loop.pc = "release" /\ s \in loop.segments /\ open[s] \in Incidents
  BY <1>1, StepsOn
<1>3. \E slice \in SUBSET Cases :
        /\ member' = [member EXCEPT ![open[s]] =
             [c \in Cases |-> IF c \in slice THEN "released" ELSE member[open[s]][c]]]
        /\ loop' = [loop EXCEPT !.pc = "wake", !.segment = s, !.id = open[s], !.cases = slice,
                                !.todo = {c \in slice : ~Closed(c)}]
  <2>1. PICK n \in SliceSizes(incident[open[s]].stage, Cardinality(Parked(open[s]))) :
          LET slice == FirstOf(Parked(open[s]), n)
          IN  /\ member' = [member EXCEPT ![open[s]] =
                   [c \in Cases |-> IF c \in slice THEN "released" ELSE member[open[s]][c]]]
              /\ loop' = [loop EXCEPT !.pc = "wake", !.segment = s, !.id = open[s],
                                      !.cases = slice, !.todo = {c \in slice : ~Closed(c)}]
    BY DEF StepReleases
  <2>2. FirstOf(Parked(open[s]), n) \in SUBSET Cases
    BY DEF FirstOf, Parked
  <2>3. QED BY <2>1, <2>2
<1>4. PICK slice \in SUBSET Cases :
        /\ member' = [member EXCEPT ![open[s]] =
             [c \in Cases |-> IF c \in slice THEN "released" ELSE member[open[s]][c]]]
        /\ loop' = [loop EXCEPT !.pc = "wake", !.segment = s, !.id = open[s], !.cases = slice,
                                !.todo = {c \in slice : ~Closed(c)}]
  BY <1>3
<1>5. UNCHANGED <<case, incident, open, mine, inFlight, dwell, window, alive, raced, door>>
  BY DEF StepReleases, memory, Resting
<1>6. "wake" \in Places /\ {c \in slice : ~Closed(c)} \in SUBSET Cases
  BY DEF Places
<1>7. /\ loop' \in Loops /\ loop'.pc = "wake" /\ loop'.segments = loop.segments
      /\ loop'.segment = s /\ loop'.id = open[s] /\ loop'.todo = {c \in slice : ~Closed(c)}
  <2> DEFINE i == open[s]
             T == {c \in slice : ~Closed(c)}
  <2>1. /\ loop' = [loop EXCEPT !.pc = "wake", !.segment = s, !.id = i, !.cases = slice,
                                !.todo = T]
        /\ i \in Incidents /\ T \in SUBSET Cases
    BY <1>2, <1>4, <1>6
  <2> HIDE DEF i, T
  <2>2. /\ loop' \in Loops /\ loop'.pc = "wake" /\ loop'.segments = loop.segments
        /\ loop'.segment = s /\ loop'.id = i /\ loop'.todo = T
    BY <1>1, <1>6, <2>1, LoopTurnsTo
  <2>3. QED BY <2>2 DEF i, T
<1>8. member' \in [Incidents -> [Cases -> {"no", "parked", "released"}]]
  BY <1>1, <1>2, <1>4 DEF TypeOK
<1>9. TypeOK'
  BY <1>1, <1>5, <1>7, <1>8 DEF TypeOK
<1>10. QED BY <1>2, <1>4, <1>5, <1>7, <1>9

LEMMA StepReleasesKeeps ==
  ASSUME LoopInv, NEW s \in Segments, StepReleases(s) PROVE LoopInv'
<1>1. /\ TypeOK' /\ UNCHANGED <<incident, open, door>>
      /\ loop.pc = "release" /\ s \in loop.segments /\ open[s] \in Incidents
      /\ loop'.pc = "wake" /\ loop'.segments = loop.segments
      /\ loop'.segment = s /\ loop'.id = open[s]
  BY StepReleasesIs
<1>2. FollowedIsLive' /\ Unused' = Unused
  BY <1>1 DEF LoopInv, FollowedIsLive, IsLive, Unused
<1>3. LoopFollows'
  <2>1. open[s] # None /\ loop.segments \subseteq Followed
    BY <1>1, IncidentAssumption DEF LoopInv, LoopFollows, AtRelease
  <2>2. QED BY <1>1, <2>1 DEF LoopFollows, AtPark, AtRelease, AtBreaker, Followed
<1>4. ToOpen' \subseteq ToOpen
  BY <1>1 DEF ToOpen, AtInsert, AtPark
<1>5. RoomLeft'
  BY <1>1, <1>2, <1>4, RoomKept
<1>6. QED BY <1>1, <1>2, <1>3, <1>5 DEF LoopInv

LEMMA ReparkEndsIs ==
  ASSUME LoopInv, ReparkEnds
  PROVE  /\ TypeOK' /\ UNCHANGED <<case, member, open, door, raced>> /\ loop.pc = "repark"
         /\ loop.id \in Incidents /\ Unused' = Unused /\ loop' = Stepped(loop.segment)
         /\ incident'[loop.id].state = "open"
         /\ incident'[loop.id].segment = incident[loop.id].segment
         /\ \A j \in Incidents : j # loop.id => incident'[j] = incident[j]
<1>1. TypeOK /\ loop.pc = "repark"
  BY DEF LoopInv, ReparkEnds, Loop
<1>2. loop.id \in Incidents /\ IsLive(loop.id) /\ loop.segment \in Segments
  BY <1>1, WorksOn DEF Working, AtRelease, AtBreaker
<1>3. /\ incident' = SetState(loop.id, "open", 0) /\ loop' = Stepped(loop.segment)
      /\ UNCHANGED <<case, member, open, mine, dwell, window, alive, raced, door>>
      /\ inFlight' = [inFlight EXCEPT ![loop.id] = {}]
  BY DEF ReparkEnds, Resting
<1>4. /\ incident' \in [Incidents -> Rows] /\ Unused' = Unused
      /\ incident'[loop.id].state = "open"
      /\ incident'[loop.id].segment = incident[loop.id].segment
      /\ \A j \in Incidents : j # loop.id => incident'[j] = incident[j]
  BY <1>2, <1>3, StageIs, StateSet
<1>5. loop.segments \ {loop.segment} \in SUBSET Segments
  BY <1>1, LoopKeeps
<1>6. loop' \in Loops
  BY <1>3, <1>5, ReleasingIs DEF Stepped
<1>7. TypeOK'
  BY <1>1, <1>2, <1>3, <1>4, <1>6 DEF TypeOK
<1>8. QED BY <1>1, <1>2, <1>3, <1>4, <1>7

LEMMA ReparkEndsKeeps ==
  ASSUME LoopInv, ReparkEnds PROVE LoopInv'
<1>1. /\ TypeOK' /\ open' = open /\ door' = door /\ loop.pc = "repark"
      /\ loop.id \in Incidents /\ Unused' = Unused /\ loop' = Stepped(loop.segment)
      /\ incident'[loop.id].state = "open"
      /\ incident'[loop.id].segment = incident[loop.id].segment
      /\ \A j \in Incidents : j # loop.id => incident'[j] = incident[j]
  BY ReparkEndsIs
<1>2. FollowedIsLive'
  BY <1>1, StaysFollowed DEF Live
<1>3. loop.segment \in Segments
  BY <1>1, WorksOn DEF Working, AtRelease, AtBreaker
<1>4. loop.segments \ {loop.segment} \subseteq Followed'
  BY <1>1 DEF LoopInv, LoopFollows, AtRelease, AtBreaker, Followed
<1>5. QED BY <1>1, <1>2, <1>3, <1>4, SteppedKeeps

LEMMA WakeIs ==
  ASSUME LoopInv, Wake
  PROVE  /\ TypeOK' /\ SameWork /\ UNCHANGED <<incident, member, open, door, raced>>
         /\ loop.pc = "wake" /\ loop'.pc = "wake" /\ loop'.todo = loop.todo \ {Current}
         /\ Current \in Cases
         /\ case' = [case EXCEPT ![Current] = Post(case[Current], "incident_released")]
<1>1. TypeOK /\ loop.pc = "wake" /\ loop.todo # {} /\ case \in [Cases -> Kases]
  BY DEF LoopInv, Wake, Loop, TypeOK
<1>2. Current \in Cases
  BY <1>1, CurrentIs
<1>3. /\ loop' = [loop EXCEPT !.todo = loop.todo \ {Current}]
      /\ case' = [case EXCEPT ![Current] = Post(case[Current], "incident_released")]
      /\ UNCHANGED <<incident, member, open, mine, inFlight, dwell, window, alive, raced, door>>
  BY DEF Wake, memory, Resting
<1>4. loop' \in Loops /\ SameWork /\ loop'.pc = "wake" /\ loop'.todo = loop.todo \ {Current}
  <2>1. "wake" \in Places
    BY DEF Places
  <2>2. QED BY <1>1, <1>3, <2>1, RestOfTodo, LoopMovesOn
<1>5. Post(case[Current], "incident_released") \in Kases
  BY <1>1, <1>2, Posted
<1>6. case' \in [Cases -> Kases]
  BY <1>1, <1>3, <1>5
<1>7. TypeOK'
  BY <1>1, <1>3, <1>4, <1>6 DEF TypeOK
<1>8. QED BY <1>1, <1>2, <1>3, <1>4, <1>7

LEMMA ResumeIs ==
  ASSUME LoopInv, Resume
  PROVE  /\ TypeOK' /\ SameWork /\ UNCHANGED <<incident, member, open, door, raced>>
         /\ loop.pc = "resume" /\ loop'.pc = "resume" /\ Current \in Cases
         /\ case' = [case EXCEPT ![Current] = Resumed(case[Current])]
<1>1. TypeOK /\ loop.pc = "resume" /\ loop.todo # {} /\ case \in [Cases -> Kases]
  BY DEF LoopInv, Resume, Loop, TypeOK
<1>2. Current \in Cases
  BY <1>1, CurrentIs
<1>3. /\ loop' = [loop EXCEPT !.todo = loop.todo \ {Current}]
      /\ case' = [case EXCEPT ![Current] = Resumed(case[Current])]
      /\ UNCHANGED <<incident, member, open, mine, inFlight, dwell, window, alive, raced, door>>
  BY DEF Resume, memory, Resting
<1>4. loop' \in Loops /\ SameWork /\ loop'.pc = "resume"
  <2>1. "resume" \in Places
    BY DEF Places
  <2>2. QED BY <1>1, <1>3, <2>1, RestOfTodo, LoopMovesOn
<1>5. case' \in [Cases -> Kases]
  BY <1>1, <1>2, <1>3, ResumedIs
<1>6. TypeOK'
  BY <1>1, <1>3, <1>4, <1>5 DEF TypeOK
<1>7. QED BY <1>1, <1>2, <1>3, <1>4, <1>6

LEMMA WakeOrResumeKeeps ==
  ASSUME LoopInv, Wake \/ Resume PROVE LoopInv'
<1>1. /\ TypeOK' /\ SameWork /\ UNCHANGED <<incident, member, open, door>>
      /\ {loop.pc, loop'.pc} \subseteq {"wake", "resume"}
  BY WakeIs, ResumeIs
<1>2. FollowedIsLive' /\ Unused' = Unused
  BY <1>1 DEF LoopInv, FollowedIsLive, IsLive, Unused
<1>3. {loop.pc, loop'.pc} \subseteq AtRelease \ {"release"}
  BY <1>1 DEF AtRelease
<1>4. loop'.pc \notin {"attached", "parked", "retaken", "reparked"}
  BY <1>1
<1>5. QED BY <1>1, <1>2, <1>3, <1>4, SameWorkKeeps

LEMMA WakeEndsIs ==
  ASSUME LoopInv, WakeEnds
  PROVE  /\ TypeOK' /\ SameWork /\ UNCHANGED <<case, member, open, door, raced>>
         /\ loop.pc = "wake" /\ loop.todo = {} /\ loop'.pc = "resume"
         /\ loop.id \in Incidents /\ Unused' = Unused
         /\ incident'[loop.id].state = "releasing"
         /\ incident'[loop.id].segment = incident[loop.id].segment
         /\ \A j \in Incidents : j # loop.id => incident'[j] = incident[j]
<1>1. TypeOK /\ loop.pc = "wake" /\ loop.todo = {}
  BY DEF LoopInv, WakeEnds, Loop
<1>2. loop.id \in Incidents /\ IsLive(loop.id)
  BY <1>1, WorksOn DEF Working, AtRelease
<1>3. /\ incident' = SetState(loop.id, "releasing", Min({incident[loop.id].stage + 1, Len(Ramp)}))
      /\ loop' = [loop EXCEPT !.pc = "resume", !.todo = mine[loop.id] \ Parked(loop.id)]
      /\ inFlight' = [inFlight EXCEPT ![loop.id] = loop.cases]
      /\ UNCHANGED <<case, member, open, mine, dwell, window, alive, raced, door>>
  BY DEF WakeEnds, Resting
<1>4. incident[loop.id].stage \in 0..Len(Ramp)
  BY <1>1, <1>2 DEF TypeOK, Rows
<1>5. Min({incident[loop.id].stage + 1, Len(Ramp)}) \in 0..Len(Ramp)
  BY <1>4, StageIs
<1>6. /\ incident' \in [Incidents -> Rows] /\ Unused' = Unused
      /\ incident'[loop.id].state = "releasing"
      /\ incident'[loop.id].segment = incident[loop.id].segment
      /\ \A j \in Incidents : j # loop.id => incident'[j] = incident[j]
  BY <1>2, <1>3, <1>5, StateSet
<1>7. "resume" \in Places /\ mine[loop.id] \ Parked(loop.id) \in SUBSET Cases
      /\ loop.cases \in SUBSET Cases
  BY <1>1, <1>2, LoopKeeps DEF Places, TypeOK
<1>8. loop' \in Loops /\ SameWork /\ loop'.pc = "resume"
  BY <1>1, <1>3, <1>7, LoopMovesOn
<1>9. inFlight' \in [Incidents -> SUBSET Cases]
  BY <1>1, <1>2, <1>3, <1>7 DEF TypeOK
<1>10. TypeOK'
  BY <1>1, <1>3, <1>6, <1>8, <1>9 DEF TypeOK
<1>11. QED BY <1>1, <1>2, <1>3, <1>6, <1>8, <1>10

LEMMA WakeEndsKeeps ==
  ASSUME LoopInv, WakeEnds PROVE LoopInv'
<1>1. /\ TypeOK' /\ SameWork /\ open' = open /\ door' = door
      /\ loop.pc = "wake" /\ loop'.pc = "resume"
      /\ loop.id \in Incidents /\ Unused' = Unused
      /\ incident'[loop.id].state = "releasing"
      /\ incident'[loop.id].segment = incident[loop.id].segment
      /\ \A j \in Incidents : j # loop.id => incident'[j] = incident[j]
  BY WakeEndsIs
<1>2. FollowedIsLive'
  BY <1>1, StaysFollowed DEF Live
<1>3. {loop.pc, loop'.pc} \subseteq AtRelease \ {"release"}
  BY <1>1 DEF AtRelease
<1>4. QED BY <1>1, <1>2, <1>3, SameWorkKeeps

LEMMA ResumeEndsKeeps ==
  ASSUME LoopInv, ResumeEnds PROVE LoopInv'
<1>1. TypeOK /\ loop.pc = "resume"
  BY DEF LoopInv, ResumeEnds, Loop
<1>2. loop.segment \in Segments
  BY <1>1, WorksOn DEF Working, AtRelease
<1>3. /\ loop' = Stepped(loop.segment)
      /\ UNCHANGED <<case, incident, member, open, mine, inFlight, dwell, window, alive, raced,
                    door>>
  BY DEF ResumeEnds, memory, Resting
<1>4. loop.segments \ {loop.segment} \in SUBSET Segments
  BY <1>1, LoopKeeps
<1>5. loop' \in Loops
  BY <1>3, <1>4, ReleasingIs DEF Stepped
<1>6. TypeOK'
  BY <1>1, <1>3, <1>5 DEF TypeOK
<1>7. FollowedIsLive' /\ Unused' = Unused
  BY <1>3 DEF LoopInv, FollowedIsLive, IsLive, Unused
<1>8. loop.segments \ {loop.segment} \subseteq Followed'
  BY <1>1, <1>3 DEF LoopInv, LoopFollows, AtRelease, Followed
<1>9. QED BY <1>2, <1>3, <1>6, <1>7, <1>8, SteppedKeeps

LEMMA LoopSteps ==
  ASSUME LoopInv, [Next]_vars PROVE LoopInv'
<1>1. CASE Drain BY <1>1, DrainKeeps
<1>2. CASE Door BY <1>2, DoorKeeps
<1>3. ASSUME NEW c \in Payers, Close(c) PROVE LoopInv'
  <2>1. c \in Cases
    BY IncidentAssumption
  <2>2. QED BY <1>3, <2>1, CloseKeeps
<1>4. CASE Watch
  <2>1. CASE NewWindow BY <2>1, NewWindowKeeps
  <2>2. CASE OpenInsert BY <2>2, OpenInsertKeeps
  <2>3. CASE Throws BY <2>3, ThrowsKeeps
  <2>4. CASE Attach \/ Repark
    BY <2>4, TakeKeeps DEF Attach, Repark, Hands
  <2>5. CASE AttachSuppress \/ ReparkSuppress
    BY <2>5, SuppressKeeps DEF AttachSuppress, ReparkSuppress, Events
  <2>6. CASE AttachCancel \/ ReparkCancel
    BY <2>6, CancelKeeps DEF AttachCancel, ReparkCancel, Drops
  <2>7. CASE AttachEnds BY <2>7, AttachEndsKeeps
  <2>8. CASE ReparkEnds BY <2>8, ReparkEndsKeeps
  <2>9. CASE Wake \/ Resume BY <2>9, WakeOrResumeKeeps
  <2>10. CASE WakeEnds BY <2>10, WakeEndsKeeps
  <2>11. CASE ResumeEnds BY <2>11, ResumeEndsKeeps
  <2>12. ASSUME NEW s \in Segments,
                \/ OpenSelect(s) \/ StepHolds(s) \/ StepPullsBack(s) \/ StepCompletes(s)
                \/ StepReleases(s)
         PROVE  LoopInv'
    BY <2>12, OpenSelectKeeps, StepHoldsKeeps, StepPullsBackKeeps, StepCompletesKeeps,
       StepReleasesKeeps
  <2>13. QED BY <1>4, <2>1, <2>2, <2>3, <2>4, <2>5, <2>6, <2>7, <2>8, <2>9, <2>10, <2>11, <2>12
         DEF Watch
<1>5. CASE UNCHANGED vars
  <2>1. TypeOK' /\ UNCHANGED <<incident, member, open, door, loop>>
    BY <1>5 DEF LoopInv, TypeOK, vars
  <2>2. QED BY <2>1, FrameKeeps
<1>6. QED BY <1>1, <1>2, <1>3, <1>4, <1>5 DEF Next

-----------------------------------------------------------------------------
(* Two live incidents of one segment.                                      *)
Looked == OpenersLooked /\ TwinsWereRaced

(* A step that opens nothing: what is live was, for the same segment.      *)
LEMMA NothingOpened ==
  ASSUME Looked, door' = door, raced' = raced,
         \A i \in Incidents : IsLive(i)' => IsLive(i) /\ incident'[i].segment = incident[i].segment,
         loop'.pc = "insert" => loop.pc = "insert" /\ loop'.segment = loop.segment
  PROVE  Looked'
<1>1. ASSUME NEW s, OpenFor(s) = {} PROVE OpenFor(s)' = {}
  BY <1>1 DEF OpenFor, IsLive, Live
<1>2. OpenersLooked'
  <2>1. ASSUME NEW d, d = loop'.segment, loop'.pc = "insert", d \notin raced'
        PROVE  OpenFor(d)' = {}
    BY <1>1, <2>1 DEF Looked, OpenersLooked
  <2>2. ASSUME NEW d, d = door'.segment, door'.pc = "insert", d \notin raced'
        PROVE  OpenFor(d)' = {}
    BY <1>1, <2>2 DEF Looked, OpenersLooked
  <2>3. loop'.pc = "insert" /\ door'.pc = "insert" /\ loop'.segment = door'.segment =>
          loop'.segment \in raced'
    BY DEF Looked, OpenersLooked
  <2>4. QED BY <2>1, <2>2, <2>3 DEF OpenersLooked, OpenFor
<1>3. TwinsWereRaced'
  BY DEF Looked, TwinsWereRaced, IsLive, Live
<1>4. QED BY <1>2, <1>3 DEF Looked

(* An INSERT for a segment in which nothing is live, or that is raced.     *)
LEMMA InsertTwins ==
  ASSUME TypeOK, Looked, Unused # {}, NEW s \in Segments, incident' = Opened(s), raced' = raced,
         s \in raced \/ OpenFor(s) = {}
  PROVE  TwinsWereRaced' /\ \A t : t # s /\ OpenFor(t) = {} => OpenFor(t)' = {}
<1>1. /\ Min(Unused) \in Incidents
      /\ incident'[Min(Unused)].segment = s
      /\ \A j \in Incidents : j # Min(Unused) => incident'[j] = incident[j]
  BY OpenedIs
<1>2. ASSUME NEW t, t # s, OpenFor(t) = {} PROVE OpenFor(t)' = {}
  BY <1>1, <1>2 DEF OpenFor
<1>3. ASSUME NEW i \in Incidents, NEW j \in Incidents, i # j,
             incident'[i].segment = incident'[j].segment,
             {incident'[i].state, incident'[j].state} \subseteq {"open", "releasing"}
      PROVE  incident'[i].segment \in raced'
  <2>1. CASE i # Min(Unused) /\ j # Min(Unused)
    BY <1>1, <1>3, <2>1 DEF Looked, TwinsWereRaced
  <2>2. CASE i = Min(Unused)
    <3>1. j \in OpenFor(s)
      BY <1>1, <1>3, <2>2 DEF OpenFor
    <3>2. QED BY <1>1, <2>2, <3>1
  <2>3. CASE j = Min(Unused)
    <3>1. i \in OpenFor(s)
      BY <1>1, <1>3, <2>3 DEF OpenFor
    <3>2. QED BY <1>1, <1>3, <2>3, <3>1
  <2>4. QED BY <2>1, <2>2, <2>3
<1>4. QED BY <1>2, <1>3 DEF TwinsWereRaced

LEMMA OpenInsertTwins ==
  ASSUME LoopInv, Looked, OpenInsert PROVE Looked'
<1>1. TypeOK /\ loop.pc = "insert" /\ Unused # {} /\ loop.segment \in Segments
  BY RowLeft, LoopKeeps DEF LoopInv, LoopFollows, OpenInsert, Loop
<1>2. incident' = Opened(loop.segment) /\ raced' = raced /\ door' = door
  BY DEF OpenInsert, Resting
<1>3. loop.segment \in raced \/ OpenFor(loop.segment) = {}
  BY <1>1 DEF Looked, OpenersLooked
<1>4. /\ TwinsWereRaced'
      /\ \A t : t # loop.segment /\ OpenFor(t) = {} => OpenFor(t)' = {}
  BY <1>1, <1>2, <1>3, InsertTwins
<1>5. loop'.pc = "attach"
  <2>1. Min(Unused) \in Incidents /\ Parking(loop.segment, Min(Unused))
    BY <1>1, OpenedIs DEF OpenInsert
  <2>2. QED BY <1>1, <2>1, ParkingIs
<1>6. door.pc = "insert" => door.segment \in raced \/ OpenFor(door.segment)' = {}
  <2>1. door.pc = "insert" /\ door.segment = loop.segment => door.segment \in raced
    BY <1>1 DEF Looked, OpenersLooked
  <2>2. door.pc = "insert" => door.segment \in raced \/ OpenFor(door.segment) = {}
    BY DEF Looked, OpenersLooked
  <2>3. ASSUME NEW d, d = door.segment, door.pc = "insert", d \notin raced
        PROVE  OpenFor(d)' = {}
    BY <1>4, <2>1, <2>2, <2>3
  <2>4. QED BY <1>2, <2>3 DEF OpenFor
<1>7. OpenersLooked'
  BY <1>2, <1>5, <1>6 DEF OpenersLooked
<1>8. QED BY <1>4, <1>7 DEF Looked

LEMMA DoorTwins ==
  ASSUME LoopInv, Looked, Door PROVE Looked'
<1>1. ASSUME NEW s \in Segments, DoorSelect(s) PROVE Looked'
  <2>1. /\ incident' = incident /\ loop' = loop /\ door'.pc = "insert" /\ door'.segment = s
        /\ raced \subseteq raced' /\ OpenFor(s) = {}
        /\ loop.pc = "insert" /\ loop.segment = s => s \in raced'
    BY <1>1 DEF DoorSelect
  <2>2. TwinsWereRaced'
    BY <2>1 DEF Looked, TwinsWereRaced
  <2>3. OpenersLooked'
    BY <2>1 DEF Looked, OpenersLooked, OpenFor
  <2>4. QED BY <2>2, <2>3 DEF Looked
<1>2. CASE DoorInsert
  <2>1. TypeOK /\ door.pc = "insert" /\ Unused # {} /\ door.segment \in Segments
    BY <1>2, RowLeft DEF LoopInv, TypeOK, DoorInsert
  <2>2. incident' = Opened(door.segment) /\ raced' = raced /\ loop' = loop /\ door'.pc = "idle"
    BY <1>2 DEF DoorInsert
  <2>3. door.segment \in raced \/ OpenFor(door.segment) = {}
    BY <2>1 DEF Looked, OpenersLooked
  <2>4. /\ TwinsWereRaced'
        /\ \A t : t # door.segment /\ OpenFor(t) = {} => OpenFor(t)' = {}
    BY <2>1, <2>2, <2>3, InsertTwins
  <2>5. loop.pc = "insert" => loop.segment \in raced \/ OpenFor(loop.segment)' = {}
    <3>1. loop.pc = "insert" /\ loop.segment = door.segment => loop.segment \in raced
      BY <2>1 DEF Looked, OpenersLooked
    <3>2. loop.pc = "insert" => loop.segment \in raced \/ OpenFor(loop.segment) = {}
      BY DEF Looked, OpenersLooked
    <3>3. ASSUME NEW d, d = loop.segment, loop.pc = "insert", d \notin raced
          PROVE  OpenFor(d)' = {}
      BY <2>4, <3>1, <3>2, <3>3
    <3>4. QED BY <2>2, <3>3 DEF OpenFor
  <2>6. OpenersLooked'
    BY <2>2, <2>5 DEF OpenersLooked
  <2>7. QED BY <2>4, <2>6 DEF Looked
<1>3. QED BY <1>1, <1>2 DEF Door

LEMMA OpenSelectTwins ==
  ASSUME LoopInv, Looked, NEW s \in Segments, OpenSelect(s) PROVE Looked'
<1>1. TypeOK /\ loop.pc = "flagged" /\ incident' = incident /\ door' = door
  BY DEF LoopInv, OpenSelect, Loop
<1>2. CASE OpenFor(s) # {}
  <2>1. raced' = raced /\ loop'.pc # "insert"
    <3>1. loop \in Loops /\ Parking(s, Min(OpenFor(s))) /\ raced' = raced
      BY <1>1, <1>2 DEF TypeOK, OpenSelect
    <3>2. loop'.pc = "attach"
      BY <3>1 DEF Parking, Loops
    <3>3. QED BY <3>1, <3>2
  <2>2. QED BY <1>1, <2>1, NothingOpened DEF IsLive
<1>3. CASE OpenFor(s) = {}
  <2>1. /\ loop'.pc = "insert" /\ loop'.segment = s
        /\ raced \subseteq raced'
        /\ door.segment = s => s \in raced'
    <3>1. loop' = [loop EXCEPT !.pc = "insert", !.segment = s]
      BY <1>3 DEF OpenSelect
    <3>2. loop'.pc = "insert" /\ loop'.segment = s
      BY <1>1, <3>1, LoopLooks
    <3>3. QED BY <1>3, <3>2 DEF OpenSelect
  <2>2. TwinsWereRaced'
    BY <1>1, <2>1 DEF Looked, TwinsWereRaced
  <2>3. OpenersLooked'
    BY <1>1, <1>3, <2>1 DEF Looked, OpenersLooked, OpenFor
  <2>4. QED BY <2>2, <2>3 DEF Looked
<1>4. QED BY <1>2, <1>3

LEMMA TwinSteps ==
  ASSUME LoopInv, Looked, [Next]_vars PROVE Looked'
<1>1. CASE Door BY <1>1, DoorTwins
<1>2. CASE OpenInsert BY <1>2, OpenInsertTwins
<1>3. ASSUME NEW s \in Segments, OpenSelect(s) PROVE Looked'
  BY <1>3, OpenSelectTwins
<1>4. TypeOK /\ loop \in Loops
  BY DEF LoopInv, TypeOK
<1>5. CASE Drain \/ Throws \/ (\E c \in Payers : Close(c)) \/ UNCHANGED vars
  <2>1. incident' = incident /\ door' = door /\ raced' = raced
    BY <1>5 DEF Drain, Lease, NextTick, Begin, Approve, Finish, Schedule, Announce, Works, Throws,
                Close, vars
  <2>2. loop' = loop \/ loop'.pc # "insert"
    BY <1>4, <1>5, IdleIs DEF Drain, Lease, NextTick, Begin, Approve, Finish, Schedule, Announce,
                      Works, Throws, Close, vars, Loops
  <2>3. QED BY <2>1, <2>2, NothingOpened DEF IsLive
<1>6. CASE Watch /\ ~OpenInsert /\ ~(\E s \in Segments : OpenSelect(s)) /\ ~Throws
  <2>1. CASE NewWindow
    <3>1. Flagged \ Followed \in SUBSET Segments
      BY JudgedAreSegments DEF Flagged
    <3>2. incident' = incident /\ door' = door /\ raced' = raced /\ loop'.pc # "insert"
      BY <1>4, <2>1, <3>1, OpeningIs DEF NewWindow
    <3>3. QED BY <3>2, NothingOpened DEF IsLive
  <2>2. CASE Attach \/ Repark
    <3>1. incident' = incident /\ door' = door /\ raced' = raced /\ loop'.pc # "insert"
      BY <2>2, TakeIs DEF Attach, Repark, Hands
    <3>2. QED BY <3>1, NothingOpened DEF IsLive
  <2>3. CASE AttachSuppress \/ ReparkSuppress
    <3>1. incident' = incident /\ door' = door /\ raced' = raced /\ loop'.pc # "insert"
      BY <2>3, SuppressIs DEF AttachSuppress, ReparkSuppress, Events
    <3>2. QED BY <3>1, NothingOpened DEF IsLive
  <2>4. CASE AttachCancel \/ ReparkCancel
    <3>1. incident' = incident /\ door' = door /\ raced' = raced /\ loop'.pc # "insert"
      BY <2>4, CancelIs DEF AttachCancel, ReparkCancel, Drops
    <3>2. QED BY <3>1, NothingOpened DEF IsLive
  <2>5. CASE AttachEnds \/ Wake \/ Resume
    <3>1. incident' = incident /\ door' = door /\ raced' = raced /\ loop'.pc # "insert"
      BY <2>5, AttachEndsIs, WakeIs, ResumeIs
    <3>2. QED BY <3>1, NothingOpened DEF IsLive
  <2>6. CASE ReparkEnds \/ ResumeEnds \/ \E s \in Segments : StepHolds(s)
    <3>1. loop'.pc # "insert"
      <4>1. PICK s : loop' = Stepped(s)
        BY <2>6 DEF ReparkEnds, ResumeEnds, StepHolds
      <4>2. loop.segments \ {s} \in SUBSET Segments
        BY <1>4, LoopKeeps
      <4>3. QED BY <4>1, <4>2, ReleasingIs DEF Stepped
    <3>2. door' = door /\ raced' = raced
      BY <2>6 DEF ReparkEnds, ResumeEnds, StepHolds, Resting
    <3>3. ASSUME NEW i \in Incidents, IsLive(i)'
          PROVE  IsLive(i) /\ incident'[i].segment = incident[i].segment
      <4>1. CASE ResumeEnds
        BY <3>3, <4>1 DEF ResumeEnds, IsLive
      <4>2. CASE ReparkEnds
        <5>1. loop.id \in Incidents /\ IsLive(loop.id)
          BY <4>2, WorksOn DEF ReparkEnds, Loop, Working, AtRelease, AtBreaker
        <5>2. QED BY <3>3, <4>2, <5>1, ReparkEndsIs DEF IsLive
      <4>3. ASSUME NEW s \in Segments, StepHolds(s)
            PROVE  IsLive(i) /\ incident'[i].segment = incident[i].segment
        <5>1. open[s] \in Incidents /\ IsLive(open[s]) /\ incident' = SetState(open[s], "open", 0)
          BY <4>3, StepsOn DEF StepHolds
        <5>2. QED BY <3>3, <5>1, StageIs, StateSet DEF IsLive
      <4>4. QED BY <2>6, <4>1, <4>2, <4>3
    <3>4. QED BY <3>1, <3>2, <3>3, NothingOpened
  <2>7. CASE WakeEnds
    <3>1. loop.id \in Incidents /\ IsLive(loop.id)
      BY <2>7, WorksOn DEF WakeEnds, Loop, Working, AtRelease
    <3>2. QED BY <2>7, <3>1, WakeEndsIs, NothingOpened DEF IsLive
  <2>8. ASSUME NEW s \in Segments, StepPullsBack(s) PROVE Looked'
    <3>1. incident' = incident /\ door' = door /\ raced' = raced
      BY <2>8 DEF StepPullsBack, Resting
    <3>2. loop'.pc # "insert"
      BY <1>4, <2>8 DEF StepPullsBack, Loops
    <3>3. QED BY <3>1, <3>2, NothingOpened DEF IsLive
  <2>9. ASSUME NEW s \in Segments, StepReleases(s) PROVE Looked'
    BY <2>9, StepReleasesIs, NothingOpened DEF IsLive
  <2>10. ASSUME NEW s \in Segments, StepCompletes(s) PROVE Looked'
    <3>1. /\ door' = door /\ raced' = raced /\ loop' = Stepped(s)
          /\ incident'[open[s]].state = "closed"
          /\ \A j \in Incidents : j # open[s] => incident'[j] = incident[j]
      BY <2>10, StepCompletesIs
    <3>2. loop.segments \ {s} \in SUBSET Segments
      BY <1>4, LoopKeeps
    <3>3. loop'.pc # "insert"
      BY <3>1, <3>2, ReleasingIs DEF Stepped
    <3>4. QED BY <3>1, <3>3, NothingOpened DEF IsLive, Live
  <2>11. QED BY <1>6, <2>1, <2>2, <2>3, <2>4, <2>5, <2>6, <2>7, <2>8, <2>9, <2>10 DEF Watch
<1>7. QED BY <1>1, <1>2, <1>3, <1>5, <1>6 DEF Next

-----------------------------------------------------------------------------
(* The suppressed cases.  A step that suppresses nobody, gives nobody work *)
(* and parks or frees nobody leaves them as they were.                     *)
Owned == SuppressedIsOwned /\ QuietWhileParked /\ DrainedOutside
AtCancel == {"parked", "reparked"}

Calmer(c) ==
  case'[c].state = Suppressed =>
    /\ case[c].state = Suppressed
    /\ case'[c].work = case[c].work
    /\ case'[c].due => case[c].due

KeepsHold ==
  \A i \in Incidents, c \in Cases :
    IsLive(i) /\ member[i][c] = "parked" => incident'[i].state \in Live /\ member'[i][c] = "parked"

LEMMA OwnedKept ==
  ASSUME SuppressedIsOwned, \A c \in Cases : Calmer(c), KeepsHold,
         \A c \in Cases : loop.pc = "wake" /\ c \in loop.todo /\ case'[c].state = Suppressed =>
                            loop'.pc = "wake" /\ c \in loop'.todo
  PROVE  SuppressedIsOwned'
<1>1. ASSUME NEW c \in Cases, case'[c].state = Suppressed
      PROVE  \/ \E i \in Incidents : incident'[i].state \in Live /\ member'[i][c] = "parked"
             \/ loop'.pc = "wake" /\ c \in loop'.todo
  <2>1. case[c].state = Suppressed
    BY <1>1 DEF Calmer
  <2>2. \/ \E i \in Incidents : IsLive(i) /\ member[i][c] = "parked"
        \/ loop.pc = "wake" /\ c \in loop.todo
    BY <2>1 DEF SuppressedIsOwned, Suppressed, IsLive, Live, Parked
  <2>3. QED BY <1>1, <2>2 DEF KeepsHold
<1>2. QED BY <1>1 DEF SuppressedIsOwned, Suppressed, Live, Parked

LEMMA QuietKept ==
  ASSUME QuietWhileParked, \A c \in Cases : Calmer(c),
         loop.pc \in AtCancel => loop'.pc \in AtCancel /\ Current' = Current
  PROVE  QuietWhileParked'
  BY DEF QuietWhileParked, Calmer, Suppressed, AtCancel

LEMMA DrainedKept ==
  ASSUME DrainedOutside, \A c \in Cases : case'[c].work = case[c].work,
         loop'.pc # "drain" => loop.pc # "drain" \/ Drained
  PROVE  DrainedOutside'
  BY DEF DrainedOutside, Drained

LEMMA StillOwned ==
  ASSUME Owned, loop' = loop, \A c \in Cases : Calmer(c), KeepsHold,
         \A c \in Cases : case'[c].work = case[c].work
  PROVE  Owned'
<1>1. SuppressedIsOwned' /\ DrainedOutside'
  BY OwnedKept, DrainedKept DEF Owned
<1>2. Current' = Current
  BY DEF Current
<1>3. QuietWhileParked'
  BY <1>2, QuietKept DEF Owned
<1>4. QED BY <1>1, <1>3 DEF Owned

LEMMA ElsewhereOwned ==
  ASSUME Owned, case' = case, KeepsHold, loop.pc \notin AtCancel,
         loop.pc = "wake" => loop.todo = {},
         loop'.pc # "drain" => loop.pc # "drain" \/ Drained
  PROVE  Owned'
<1>1. \A c \in Cases : Calmer(c)
  BY DEF Calmer
<1>2. QED BY <1>1, OwnedKept, QuietKept, DrainedKept DEF Owned

(* An INSERT takes an unused row.                                          *)
LEMMA OpeningHolds ==
  ASSUME TypeOK, Unused # {}, NEW s \in Segments, incident' = Opened(s), member' = member
  PROVE  KeepsHold
<1>1. /\ Min(Unused) \in Unused
      /\ \A j \in Incidents : j # Min(Unused) => incident'[j] = incident[j]
  BY OpenedIs
<1>2. QED BY <1>1 DEF KeepsHold, IsLive, Live, Unused

(* In the drain, what is run is not suppressed and does not become so.     *)
LEMMA WorksOwned ==
  ASSUME LoopInv, Owned, NEW c \in Cases, NEW from, from # "idle", NEW after \in Kases,
         Works(c, from, after),
         after.state \in {case[c].state, "EXECUTING", "OBSERVING", "SCHEDULED"}
  PROVE  Owned'
<1>1. case \in [Cases -> Kases]
  BY DEF LoopInv, TypeOK
<1>2. /\ case[c].work = from /\ case' = [case EXCEPT ![c] = after]
      /\ UNCHANGED <<incident, member, loop>>
  BY DEF Works
<1>3. case[c].state # Suppressed
  BY <1>2 DEF Owned, QuietWhileParked, Suppressed
<1>4. \A d \in Cases : Calmer(d)
  BY <1>1, <1>2, <1>3 DEF Calmer, Suppressed
<1>5. KeepsHold
  BY <1>2 DEF KeepsHold, IsLive
<1>6. loop.pc = "drain"
  BY <1>2 DEF Owned, DrainedOutside, Drained
<1>7. Current' = Current
  BY <1>2 DEF Current
<1>8. DrainedOutside'
  BY <1>2, <1>6 DEF DrainedOutside
<1>9. SuppressedIsOwned' /\ QuietWhileParked'
  BY <1>2, <1>4, <1>5, <1>7, OwnedKept, QuietKept DEF Owned
<1>10. QED BY <1>8, <1>9 DEF Owned

LEMMA DrainOwned ==
  ASSUME LoopInv, Owned, Drain PROVE Owned'
<1>1. TypeOK /\ case \in [Cases -> Kases] /\ loop \in Loops
  BY DEF LoopInv, TypeOK
<1>2. CASE Lease
  <2>1. PICK batch \in SUBSET {c \in Cases : case[c].due} :
          case' = [c \in Cases |-> IF c \in batch THEN Leased(case[c]) ELSE case[c]]
    BY <1>2 DEF Lease, Leased
  <2>2. loop.pc = "tick" /\ loop'.pc = "drain" /\ UNCHANGED <<incident, member>>
    BY <1>1, <1>2 DEF Lease, Loop, Loops
  <2>3. ASSUME NEW c \in Cases PROVE Calmer(c)
    <3>1. case[c].state = Suppressed => c \notin batch
      BY <2>1, <2>2 DEF Owned, QuietWhileParked, Suppressed
    <3>2. case'[c].state = case[c].state
      BY <1>1, <2>1, LeasedIs
    <3>3. QED BY <2>1, <3>1, <3>2 DEF Calmer
  <2>4. KeepsHold
    BY <2>2 DEF KeepsHold, IsLive
  <2>5. SuppressedIsOwned' /\ QuietWhileParked'
    BY <2>2, <2>3, <2>4, OwnedKept, QuietKept DEF Owned, AtCancel
  <2>6. DrainedOutside'
    BY <2>2 DEF DrainedOutside
  <2>7. QED BY <2>5, <2>6 DEF Owned
<1>3. CASE NextTick
  <2>1. case' = case /\ loop.pc = "drain" /\ Drained
    BY <1>3 DEF NextTick, Loop
  <2>2. KeepsHold
    BY <1>3 DEF NextTick, KeepsHold, IsLive
  <2>3. QED BY <2>1, <2>2, ElsewhereOwned DEF AtCancel, Owned
<1>4. CASE \E c \in Cases : Begin(c) \/ Approve(c) \/ Finish(c) \/ Schedule(c) \/ Announce(c)
  <2>1. PICK c \in Cases : Begin(c) \/ Approve(c) \/ Finish(c) \/ Schedule(c) \/ Announce(c)
    BY <1>4
  <2>2. case[c] \in Kases
    BY <1>1
  <2>3. CASE Begin(c)
    <3> DEFINE w == IF MayRun(case[c]) THEN "grant" ELSE "idle"
    <3>1. w \in Stages /\ Works(c, "hand", At(case[c], w))
      BY <2>3 DEF Begin, At, Stages
    <3>2. At(case[c], w) \in Kases /\ At(case[c], w).state = case[c].state
      BY <2>2, <3>1, AtIs
    <3>3. QED BY <3>1, <3>2, WorksOwned
  <2>4. CASE Approve(c)
    <3>1. Works(c, "grant", Approved(case[c]))
      BY <2>4 DEF Approve, Approved
    <3>2. QED BY <2>2, <3>1, ApprovedIs, WorksOwned
  <2>5. CASE Finish(c)
    <3>1. PICK fails \in BOOLEAN : Works(c, "call", Answered(case[c], fails))
      BY <2>5 DEF Finish
    <3>2. QED BY <2>2, <3>1, AnsweredIs, WorksOwned
  <2>6. CASE Schedule(c)
    <3>1. Works(c, "advance", Continued(case[c]))
      BY <2>6 DEF Schedule, Continued
    <3>2. QED BY <2>2, <3>1, ContinuedIs, WorksOwned
  <2>7. CASE Announce(c)
    <3>1. Works(c, "announce", Announced(case[c]))
      BY <2>7 DEF Announce
    <3>2. QED BY <2>2, <3>1, AnnouncedIs, WorksOwned
  <2>8. QED BY <2>1, <2>3, <2>4, <2>5, <2>6, <2>7
<1>5. QED BY <1>2, <1>3, <1>4 DEF Drain

LEMMA CloseOwned ==
  ASSUME LoopInv, Owned, NEW c \in Cases, Close(c) PROVE Owned'
<1>1. TypeOK /\ case \in [Cases -> Kases]
  BY DEF LoopInv, TypeOK
<1>2. PICK p \in Plans : case' = [case EXCEPT ![c] = Ended(case[c], p)]
  BY <1>1, ClosesBy
<1>3. /\ case'[c].state = "RECOVERED" /\ case'[c].work = case[c].work
      /\ \A d \in Cases : d # c => case'[d] = case[d]
  BY <1>1, <1>2, EndedIs
<1>4. \A d \in Cases : Calmer(d) /\ case'[d].work = case[d].work
  BY <1>3 DEF Calmer, Suppressed
<1>5. loop' = loop /\ KeepsHold
  BY DEF Close, KeepsHold, IsLive
<1>6. QED BY <1>4, <1>5, StillOwned

(* attach and repark.                                                      *)
LEMMA TakeOwned ==
  ASSUME LoopInv, Owned, NEW p, NEW after, Hands(p, after), Take(p, after)
  PROVE  Owned'
<1>1. /\ TypeOK /\ UNCHANGED <<case, incident>>
      /\ loop.pc = p /\ loop.id \in Incidents /\ Current \in Cases
      /\ \/ member' = [member EXCEPT ![loop.id][Current] = "parked"]
         \/ member' = member
  BY TakeIs DEF LoopInv
<1>2. KeepsHold
  BY <1>1 DEF KeepsHold, IsLive, TypeOK
<1>3. loop.pc \notin AtCancel \cup {"wake", "drain"}
  BY <1>1 DEF Hands, AtCancel
<1>4. QED BY <1>1, <1>2, <1>3, ElsewhereOwned

LEMMA SuppressOwned ==
  ASSUME LoopInv, Owned, NEW p, NEW after, Events(p, after), Suppress(p, after)
  PROVE  Owned'
<1>1. /\ TypeOK /\ UNCHANGED <<incident, member>>
      /\ loop.pc = p /\ loop'.pc = after /\ loop'.todo = loop.todo /\ Current' = Current
      /\ loop.id \in Incidents /\ Current \in Cases
      /\ case' = [case EXCEPT ![Current] = Post(case[Current], "incident_attached")]
  BY SuppressIs DEF LoopInv
<1>2. case \in [Cases -> Kases] /\ loop.pc \in Working
  BY <1>1 DEF TypeOK, Events, Working, AtPark, AtRelease, AtBreaker
<1>3. IsLive(loop.id) /\ member[loop.id][Current] = "parked"
  BY <1>1, <1>2, WorksOn DEF LoopInv, LoopFollows, Events
<1>4. /\ case'[Current].work = case[Current].work
      /\ \A d \in Cases : d # Current => case'[d] = case[d]
  BY <1>1, <1>2, Posted
<1>5. loop.pc \in {"attached", "retaken"} /\ loop'.pc \in AtCancel
  BY <1>1 DEF Events, AtCancel
<1>6. Drained
  BY <1>5 DEF Owned, DrainedOutside
<1>7. SuppressedIsOwned'
  <2>1. ASSUME NEW c \in Cases, case'[c].state = Suppressed
        PROVE  \E i \in Incidents : incident'[i].state \in Live /\ member'[i][c] = "parked"
    <3>1. CASE c = Current
      BY <1>1, <1>3, <3>1 DEF IsLive
    <3>2. CASE c # Current
      <4>1. case[c].state = Suppressed
        BY <1>4, <2>1, <3>2
      <4>2. QED BY <1>1, <1>5, <4>1
            DEF Owned, SuppressedIsOwned, Suppressed, Live, Parked
    <3>3. QED BY <3>1, <3>2
  <2>2. QED BY <2>1 DEF SuppressedIsOwned, Suppressed, Live, Parked
<1>8. QuietWhileParked'
  <2>1. ASSUME NEW c \in Cases, case'[c].state = Suppressed
        PROVE  case'[c].work = "idle" /\ (case'[c].due => c = Current')
    <3>1. CASE c = Current
      BY <1>1, <1>4, <1>6, <3>1 DEF Drained
    <3>2. CASE c # Current
      <4>1. case'[c] = case[c] /\ case[c].state = Suppressed
        BY <1>4, <2>1, <3>2
      <4>2. QED BY <1>5, <4>1 DEF Owned, QuietWhileParked, Suppressed
    <3>3. QED BY <3>1, <3>2
  <2>2. QED BY <1>5, <2>1 DEF QuietWhileParked, Suppressed, AtCancel
<1>9. DrainedOutside'
  <2>1. ASSUME NEW c \in Cases PROVE case'[c].work = case[c].work
    BY <1>4
  <2>2. QED BY <1>6, <2>1, DrainedKept DEF Owned
<1>10. QED BY <1>7, <1>8, <1>9 DEF Owned

LEMMA CancelOwned ==
  ASSUME LoopInv, Owned, NEW p, NEW after, Drops(p, after), Cancel(p, after)
  PROVE  Owned'
<1>1. /\ TypeOK /\ UNCHANGED <<incident, member>> /\ loop.pc = p /\ Current \in Cases
      /\ case' = [case EXCEPT ![Current] = Cancelled(case[Current])]
  BY CancelIs DEF LoopInv
<1>2. case \in [Cases -> Kases] /\ loop.pc \notin {"wake", "drain"}
  BY <1>1 DEF TypeOK, Drops
<1>3. /\ case'[Current].state = case[Current].state /\ case'[Current].work = case[Current].work
      /\ case'[Current].due = FALSE
      /\ \A d \in Cases : d # Current => case'[d] = case[d]
  BY <1>1, <1>2, CancelledIs
<1>4. ASSUME NEW d \in Cases PROVE Calmer(d) /\ case'[d].work = case[d].work
  BY <1>3 DEF Calmer
<1>5. KeepsHold
  BY <1>1 DEF KeepsHold, IsLive
<1>6. SuppressedIsOwned' /\ DrainedOutside'
  BY <1>2, <1>4, <1>5, OwnedKept, DrainedKept DEF Owned
<1>7. QuietWhileParked'
  <2>1. ASSUME NEW c \in Cases, case'[c].state = Suppressed
        PROVE  case'[c].work = "idle" /\ ~case'[c].due
    <3>1. CASE c = Current
      BY <1>3, <1>4, <2>1, <3>1 DEF Calmer, Owned, QuietWhileParked, Suppressed
    <3>2. CASE c # Current
      BY <1>3, <2>1, <3>2 DEF Owned, QuietWhileParked, Suppressed
    <3>3. QED BY <3>1, <3>2
  <2>2. QED BY <2>1 DEF QuietWhileParked, Suppressed
<1>8. QED BY <1>6, <1>7 DEF Owned

LEMMA AttachEndsOwned ==
  ASSUME LoopInv, Owned, AttachEnds PROVE Owned'
<1>1. /\ UNCHANGED <<incident, member>> /\ loop.pc = "attach"
      /\ case' = [c \in Cases |-> IF c \in loop.cases THEN Forgotten(case[c]) ELSE case[c]]
  BY AttachEndsIs
<1>2. case \in [Cases -> Kases]
  BY DEF LoopInv, TypeOK
<1>3. ASSUME NEW d \in Cases PROVE Calmer(d) /\ case'[d].work = case[d].work
  BY <1>1, <1>2, ForgottenIs DEF Calmer
<1>4. KeepsHold
  BY <1>1 DEF KeepsHold, IsLive
<1>5. QED BY <1>1, <1>3, <1>4, OwnedKept, QuietKept, DrainedKept DEF Owned, AtCancel

(* The release.                                                            *)
LEMMA StepReleasesOwned ==
  ASSUME LoopInv, Owned, NEW s \in Segments, StepReleases(s) PROVE Owned'
<1>1. /\ TypeOK /\ UNCHANGED <<case, incident>> /\ loop.pc = "release" /\ loop'.pc = "wake"
      /\ open[s] \in Incidents
  BY StepReleasesIs DEF LoopInv
<1>2. PICK slice \in SUBSET Cases :
        /\ loop'.todo = {c \in slice : ~Closed(c)}
        /\ member' = [member EXCEPT ![open[s]] =
             [c \in Cases |-> IF c \in slice THEN "released" ELSE member[open[s]][c]]]
  BY StepReleasesIs
<1>3. ASSUME NEW c \in Cases, case'[c].state = Suppressed
      PROVE  \/ \E i \in Incidents : incident'[i].state \in Live /\ member'[i][c] = "parked"
             \/ c \in loop'.todo
  <2>1. case[c].state = Suppressed /\ ~Closed(c)
    BY <1>1, <1>3, Targets DEF Closed, Suppressed
  <2>2. PICK i \in Incidents : incident[i].state \in Live /\ member[i][c] = "parked"
    BY <1>1, <2>1 DEF Owned, SuppressedIsOwned, Suppressed, Live, Parked
  <2>3. CASE i = open[s] /\ c \in slice
    BY <1>2, <2>1, <2>3
  <2>4. CASE ~(i = open[s] /\ c \in slice)
    BY <1>1, <1>2, <2>2, <2>4 DEF TypeOK
  <2>5. QED BY <2>3, <2>4
<1>4. SuppressedIsOwned'
  BY <1>1, <1>3 DEF SuppressedIsOwned, Suppressed, Live, Parked
<1>5. ASSUME NEW c \in Cases PROVE Calmer(c) /\ case'[c].work = case[c].work
  BY <1>1 DEF Calmer
<1>6. QuietWhileParked' /\ DrainedOutside'
  BY <1>1, <1>5, QuietKept, DrainedKept DEF Owned, AtCancel
<1>7. QED BY <1>4, <1>6 DEF Owned

LEMMA WakeOwned ==
  ASSUME LoopInv, Owned, Wake PROVE Owned'
<1>1. /\ UNCHANGED <<incident, member>> /\ loop.pc = "wake" /\ loop'.pc = "wake"
      /\ loop'.todo = loop.todo \ {Current} /\ Current \in Cases
      /\ case' = [case EXCEPT ![Current] = Post(case[Current], "incident_released")]
  BY WakeIs
<1>2. case \in [Cases -> Kases]
  BY DEF LoopInv, TypeOK
<1>3. /\ case'[Current].state = "SCHEDULED" /\ case'[Current].work = case[Current].work
      /\ \A d \in Cases : d # Current => case'[d] = case[d]
  BY <1>1, <1>2, Posted, Targets
<1>4. ASSUME NEW d \in Cases PROVE Calmer(d) /\ case'[d].work = case[d].work
  BY <1>3 DEF Calmer, Suppressed
<1>5. KeepsHold
  BY <1>1 DEF KeepsHold, IsLive
<1>6. \A c \in Cases : c \in loop.todo /\ case'[c].state = Suppressed => c \in loop'.todo
  BY <1>1, <1>3 DEF Suppressed
<1>7. SuppressedIsOwned'
  BY <1>1, <1>4, <1>5, <1>6, OwnedKept DEF Owned
<1>8. QuietWhileParked' /\ DrainedOutside'
  BY <1>1, <1>4, QuietKept, DrainedKept DEF Owned, AtCancel
<1>9. QED BY <1>7, <1>8 DEF Owned

LEMMA ResumeOwned ==
  ASSUME LoopInv, Owned, Resume PROVE Owned'
<1>1. /\ UNCHANGED <<incident, member>> /\ loop.pc = "resume" /\ loop'.pc = "resume"
      /\ Current \in Cases /\ case' = [case EXCEPT ![Current] = Resumed(case[Current])]
  BY ResumeIs
<1>2. case \in [Cases -> Kases]
  BY DEF LoopInv, TypeOK
<1>3. /\ case'[Current] = case[Current] \/ case'[Current].state = "SCHEDULED"
      /\ case'[Current].work = case[Current].work
      /\ \A d \in Cases : d # Current => case'[d] = case[d]
  BY <1>1, <1>2, ResumedIs
<1>4. ASSUME NEW d \in Cases PROVE Calmer(d) /\ case'[d].work = case[d].work
  BY <1>3 DEF Calmer, Suppressed
<1>5. KeepsHold
  BY <1>1 DEF KeepsHold, IsLive
<1>6. QED BY <1>1, <1>4, <1>5, OwnedKept, QuietKept, DrainedKept DEF Owned, AtCancel

LEMMA OwnedSteps ==
  ASSUME LoopInv, Owned, [Next]_vars PROVE Owned'
<1>1. TypeOK
  BY DEF LoopInv
<1>2. CASE Drain BY <1>2, DrainOwned
<1>3. ASSUME NEW c \in Payers, Close(c) PROVE Owned'
  <2>1. c \in Cases
    BY IncidentAssumption
  <2>2. QED BY <1>3, <2>1, CloseOwned
<1>4. CASE Door \/ Throws \/ UNCHANGED vars
  <2>1. case' = case /\ loop' = loop /\ member' = member
    BY <1>4 DEF Door, DoorInsert, DoorSelect, Throws, vars
  <2>2. KeepsHold
    <3>1. CASE DoorInsert
      <4>1. Unused # {} /\ door.segment \in Segments /\ incident' = Opened(door.segment)
        BY <1>1, <3>1, RowLeft DEF DoorInsert, TypeOK
      <4>2. QED BY <1>1, <2>1, <4>1, OpeningHolds
    <3>2. CASE incident' = incident
      BY <2>1, <3>2 DEF KeepsHold, IsLive
    <3>3. QED BY <1>4, <3>1, <3>2 DEF Door, DoorSelect, Throws, vars
  <2>3. ASSUME NEW c \in Cases PROVE Calmer(c) /\ case'[c].work = case[c].work
    BY <2>1 DEF Calmer
  <2>4. QED BY <2>1, <2>2, <2>3, StillOwned
<1>5. CASE Watch /\ ~Throws
  <2>1. CASE NewWindow
    <3>1. case' = case /\ KeepsHold /\ loop.pc = "drain" /\ Drained
      BY <2>1 DEF NewWindow, KeepsHold, IsLive, Loop
    <3>2. QED BY <3>1, ElsewhereOwned DEF AtCancel
  <2>2. CASE OpenInsert
    <3>1. case' = case /\ member' = member /\ loop.pc = "insert"
      BY <2>2 DEF OpenInsert, Loop
    <3>2. Unused # {} /\ loop.segment \in Segments /\ incident' = Opened(loop.segment)
      BY <1>1, <2>2, <3>1, RowLeft, LoopKeeps DEF OpenInsert, LoopInv, LoopFollows
    <3>3. KeepsHold
      BY <1>1, <3>1, <3>2, OpeningHolds
    <3>4. QED BY <3>1, <3>3, ElsewhereOwned DEF AtCancel
  <2>3. CASE Attach \/ Repark
    BY <2>3, TakeOwned DEF Attach, Repark, Hands
  <2>4. CASE AttachSuppress \/ ReparkSuppress
    BY <2>4, SuppressOwned DEF AttachSuppress, ReparkSuppress, Events
  <2>5. CASE AttachCancel \/ ReparkCancel
    BY <2>5, CancelOwned DEF AttachCancel, ReparkCancel, Drops
  <2>6. CASE AttachEnds BY <2>6, AttachEndsOwned
  <2>7. CASE Wake BY <2>7, WakeOwned
  <2>8. CASE Resume BY <2>8, ResumeOwned
  <2>9. CASE ReparkEnds
    <3>1. KeepsHold /\ case' = case /\ loop.pc = "repark"
      BY <2>9, ReparkEndsIs DEF KeepsHold, IsLive, Live
    <3>2. QED BY <3>1, ElsewhereOwned DEF AtCancel
  <2>10. CASE WakeEnds
    <3>1. KeepsHold /\ case' = case /\ loop.pc = "wake" /\ loop.todo = {}
      BY <2>10, WakeEndsIs DEF KeepsHold, IsLive, Live
    <3>2. QED BY <3>1, ElsewhereOwned DEF AtCancel
  <2>11. CASE ResumeEnds
    <3>1. KeepsHold /\ case' = case /\ loop.pc = "resume"
      BY <2>11 DEF ResumeEnds, Loop, KeepsHold, IsLive
    <3>2. QED BY <3>1, ElsewhereOwned DEF AtCancel
  <2>12. ASSUME NEW s \in Segments, OpenSelect(s) \/ StepPullsBack(s) PROVE Owned'
    <3>1. KeepsHold /\ case' = case /\ loop.pc \in {"flagged", "release"}
      BY <2>12 DEF OpenSelect, StepPullsBack, Steps, Loop, KeepsHold, IsLive
    <3>2. QED BY <3>1, ElsewhereOwned DEF AtCancel
  <2>13. ASSUME NEW s \in Segments, StepHolds(s) PROVE Owned'
    <3>1. /\ loop.pc = "release" /\ open[s] \in Incidents /\ IsLive(open[s])
          /\ incident' = SetState(open[s], "open", 0)
      BY <2>13, StepsOn DEF StepHolds
    <3>2. KeepsHold /\ case' = case
      BY <2>13, <3>1, StageIs, StateSet DEF StepHolds, KeepsHold, IsLive, Live
    <3>3. QED BY <3>1, <3>2, ElsewhereOwned DEF AtCancel
  <2>14. ASSUME NEW s \in Segments, StepCompletes(s) PROVE Owned'
    <3>1. /\ UNCHANGED <<case, member>> /\ loop.pc = "release"
          /\ \A j \in Incidents : j # open[s] => incident'[j] = incident[j]
      BY <2>14, StepCompletesIs
    <3>2. \A c \in Cases : member[open[s]][c] # "parked"
      BY <2>14 DEF StepCompletes, Parked
    <3>3. KeepsHold
      BY <3>1, <3>2 DEF KeepsHold, IsLive
    <3>4. QED BY <3>1, <3>3, ElsewhereOwned DEF AtCancel
  <2>15. ASSUME NEW s \in Segments, StepReleases(s) PROVE Owned'
    BY <2>15, StepReleasesOwned
  <2>16. QED BY <1>5, <2>1, <2>2, <2>3, <2>4, <2>5, <2>6, <2>7, <2>8, <2>9, <2>10, <2>11, <2>12,
             <2>13, <2>14, <2>15 DEF Watch
<1>6. QED BY <1>2, <1>3, <1>4, <1>5 DEF Next

-----------------------------------------------------------------------------
(* What one window flags.  The drop is a whole number of thousandths, and  *)
(* either the parent has nine tenths of the part's or it has not.          *)
LEMMA DropIs ==
  ASSUME NEW w \in Readings, NEW o \in Observations(w), IsDrop(o)
  PROVE  Drop(o) \in Int
<1>1. PICK s \in Segments :
        o = [segment |-> s, attempts |-> w[s].attempts, approvals |-> w[s].approvals,
             baseAttempts |-> w[s].baseAttempts, baseApprovals |-> w[s].baseApprovals]
  BY DEF Observations
<1>2. w[s] \in [attempts : Nat, approvals : Nat, baseAttempts : Nat, baseApprovals : Nat]
  BY IncidentAssumption
<1>3. o.attempts \in Nat /\ o.approvals \in Nat /\ o.baseAttempts \in Nat /\ o.baseApprovals \in Nat
  BY <1>1, <1>2
<1>4. o.attempts > 0 /\ o.baseAttempts > 0
  BY DEF IsDrop
<1>5. 1000 * o.approvals \in Nat /\ 1000 * o.baseApprovals \in Nat
  BY <1>3
<1>6. Rate(o.approvals, o.attempts) \in Int /\ Rate(o.baseApprovals, o.baseAttempts) \in Int
  BY <1>3, <1>4, <1>5 DEF Rate
<1>7. QED BY <1>6 DEF Drop

LEMMA CandidatesApart ==
  ASSUME NEW w \in Readings, NEW d,
         NEW o \in Candidates(d, Observations(w)), NEW p \in Candidates(d, Observations(w))
  PROVE  ~IsAncestor(o.segment, p.segment)
<1> DEFINE obs == Observations(w)
           dwelled == {q \in Failing(obs) : d[q.segment] >= DwellWindows}
<1>1. o \in dwelled /\ p \in dwelled
  BY DEF Candidates
<1>2. /\ ~(IsAncestor(o.segment, p.segment) /\ 10 * Drop(o) >= 9 * Drop(p))
      /\ ~(IsAncestor(o.segment, p.segment) /\ 10 * Drop(o) < 9 * Drop(p))
  BY <1>1 DEF Candidates
<1>3. \A q \in dwelled : q \in obs /\ IsDrop(q)
  BY DEF Failing, Significant, Tested
<1>4. Drop(o) \in Int /\ Drop(p) \in Int
  BY <1>1, <1>3, DropIs
<1>5. 10 * Drop(o) >= 9 * Drop(p) \/ 10 * Drop(o) < 9 * Drop(p)
  BY <1>4
<1>6. QED BY <1>2, <1>5

LEMMA ApartSteps ==
  ASSUME LoopInv, SegmentsApart, [Next]_vars PROVE SegmentsApart'
<1> DEFINE Watched(pc) == pc \in AtInsert \cup AtPark
<1>1. TypeOK /\ loop \in Loops
  BY DEF LoopInv, TypeOK
<1>2. SUFFICES \/ ~Watched(loop'.pc)
               \/ Watched(loop.pc) /\ loop'.segments \subseteq loop.segments
               \/ NewWindow
  <2>1. CASE ~Watched(loop'.pc)
    BY <2>1 DEF SegmentsApart
  <2>2. CASE Watched(loop.pc) /\ loop'.segments \subseteq loop.segments
    BY <2>2 DEF SegmentsApart
  <2>3. CASE NewWindow
    <3> DEFINE S == Flagged \ Followed
    <3>1. S \in SUBSET Segments /\ loop' = Opening(S) /\ window' \in Readings
      BY <2>3, JudgedAreSegments DEF Flagged, NewWindow
    <3>2. \A s, t \in S : ~IsAncestor(s, t)
      BY <3>1, CandidatesApart DEF Flagged
    <3> HIDE DEF S
    <3>3. loop'.pc \in {"tick", "release"} \/ loop'.segments = S
      BY <1>1, <3>1, OpeningIs
    <3>4. QED BY <3>2, <3>3 DEF SegmentsApart, AtInsert, AtPark
  <2>4. QED BY <2>1, <2>2, <2>3
<1>3. CASE Drain \/ Door \/ Throws \/ (\E c \in Payers : Close(c)) \/ UNCHANGED vars
  <2>1. loop' = loop \/ loop'.pc \in {"tick", "drain"}
    BY <1>1, <1>3, IdleIs
    DEF Drain, Lease, NextTick, Begin, Approve, Finish, Schedule, Announce, Works, Door,
        DoorInsert, DoorSelect, Throws, Close, vars, Loops
  <2>2. QED BY <2>1 DEF AtInsert, AtPark
<1>4. CASE Watch /\ ~Throws
  <2>1. CASE OpenInsert
    <3>1. loop.pc = "insert" /\ Unused # {} /\ loop.segment \in Segments
      BY <1>1, <2>1, RowLeft, LoopKeeps DEF LoopInv, LoopFollows, OpenInsert, Loop
    <3>2. Min(Unused) \in Incidents /\ Parking(loop.segment, Min(Unused))
      BY <1>1, <2>1, <3>1, OpenedIs DEF OpenInsert
    <3>3. QED BY <1>1, <3>1, <3>2, ParkingIs DEF AtInsert
  <2>2. ASSUME NEW s \in Segments, OpenSelect(s)
        PROVE  Watched(loop.pc) /\ loop'.segments \subseteq loop.segments
    <3>1. loop.pc = "flagged"
      BY <2>2 DEF OpenSelect, Loop
    <3>2. loop'.segments = loop.segments
      BY <1>1, <2>2 DEF OpenSelect, Parking, Loops
    <3>3. QED BY <3>1, <3>2 DEF AtInsert
  <2>3. CASE Attach \/ Repark
    <3>1. SameWork /\ (loop.pc = "attach" \/ loop'.pc \in {"repark", "retaken"})
      BY <2>3, TakeIs DEF Attach, Repark, Hands
    <3>2. QED BY <3>1 DEF SameWork, AtInsert, AtPark
  <2>4. CASE AttachSuppress \/ ReparkSuppress
    <3>1. SameWork /\ (loop.pc = "attached" \/ loop'.pc = "reparked")
      BY <2>4, SuppressIs DEF AttachSuppress, ReparkSuppress, Events
    <3>2. QED BY <3>1 DEF SameWork, AtInsert, AtPark
  <2>5. CASE AttachCancel \/ ReparkCancel
    <3>1. SameWork /\ (loop.pc = "parked" \/ loop'.pc = "repark")
      BY <2>5, CancelIs DEF AttachCancel, ReparkCancel, Drops
    <3>2. QED BY <3>1 DEF SameWork, AtInsert, AtPark
  <2>6. CASE AttachEnds
    BY <2>6, AttachEndsIs DEF AtInsert, AtPark
  <2>7. CASE Wake \/ WakeEnds \/ Resume
    BY <2>7, WakeIs, WakeEndsIs, ResumeIs DEF AtInsert, AtPark
  <2>8. CASE \/ ReparkEnds \/ ResumeEnds
             \/ \E s \in Segments : StepHolds(s) \/ StepCompletes(s)
    <3>1. PICK s : loop' = Stepped(s)
      BY <2>8 DEF ReparkEnds, ResumeEnds, StepHolds, StepCompletes
    <3>2. loop.segments \ {s} \in SUBSET Segments
      BY <1>1, LoopKeeps
    <3>3. loop'.pc \in {"tick", "release"}
      BY <3>1, <3>2, ReleasingIs DEF Stepped
    <3>4. QED BY <3>3 DEF AtInsert, AtPark
  <2>9. ASSUME NEW s \in Segments, StepPullsBack(s) PROVE ~Watched(loop'.pc)
    <3>1. loop'.pc = "repark"
      BY <1>1, <2>9 DEF StepPullsBack, Loops
    <3>2. QED BY <3>1 DEF AtInsert, AtPark
  <2>10. ASSUME NEW s \in Segments, StepReleases(s) PROVE ~Watched(loop'.pc)
    BY <2>10, StepReleasesIs DEF AtInsert, AtPark
  <2>11. QED BY <1>4, <2>1, <2>2, <2>3, <2>4, <2>5, <2>6, <2>7, <2>8, <2>9, <2>10 DEF Watch
<1>5. QED BY <1>3, <1>4 DEF Next

-----------------------------------------------------------------------------
IInv == LoopInv /\ Looked /\ Owned /\ SegmentsApart

LEMMA Starts ==
  ASSUME Init PROVE IInv
<1>1. LoopInv
  BY LoopStarts
<1>2. loop.pc = "tick" /\ door.pc = "idle"
  BY IdleIs DEF Init
<1>3. \A i \in Incidents : incident[i].state = "none"
  BY DEF Init
<1>4. \A c \in Cases : case[c].state = "SCHEDULED" /\ case[c].work = "idle"
  BY DEF Init
<1>5. Looked
  BY <1>2, <1>3 DEF Looked, OpenersLooked, TwinsWereRaced
<1>6. Owned
  BY <1>4 DEF Owned, SuppressedIsOwned, QuietWhileParked, DrainedOutside, Drained
<1>7. SegmentsApart
  BY <1>2 DEF SegmentsApart, AtInsert, AtPark
<1>8. QED BY <1>1, <1>5, <1>6, <1>7 DEF IInv

(* The invariant of an incident: what the loop follows is live and has a   *)
(* row, the openers looked before they insert, the suppressed cases are    *)
(* held and quiet, and the segments in hand are not parts of one another.  *)
THEOREM Invariance == Spec => []IInv
<1>1. Init => IInv
  BY Starts
<1>2. IInv /\ [Next]_vars => IInv'
  BY LoopSteps, TwinSteps, OwnedSteps, ApartSteps DEF IInv
<1>3. QED BY <1>1, <1>2, PTL DEF Spec

(* Every variable keeps its type, for any instance: the counters of the    *)
(* detector and the stages of the ramp stay in their bounds.               *)
THEOREM TypeCorrect == Spec => []TypeOK
<1>1. IInv => TypeOK
  BY DEF IInv, LoopInv
<1>2. QED BY <1>1, Invariance, PTL

(* What the release loop and the parking write to is always a row that is  *)
(* live and of that segment (openIncidents, runner.ts).                    *)
THEOREM FollowsOnlyLive == Spec => []FollowedIsLive
<1>1. IInv => FollowedIsLive
  BY DEF IInv, LoopInv
<1>2. QED BY <1>1, Invariance, PTL

(* A suppressed case is parked in a live incident, or next in a slice that *)
(* is being released, wherever the process stops.                          *)
THEOREM SuppressedAreOwned == Spec => []SuppressedIsOwned
<1>1. IInv => SuppressedIsOwned
  BY DEF IInv, Owned
<1>2. QED BY <1>1, Invariance, PTL

(* Nothing is pending or running for a suppressed case, except between its *)
(* event and the cancellation of its actions.                              *)
THEOREM ParkedAreQuiet == Spec => []QuietWhileParked
<1>1. IInv => QuietWhileParked
  BY DEF IInv, Owned
<1>2. QED BY <1>1, Invariance, PTL

(* Two live incidents of one segment need two openers that both looked     *)
(* before either inserted, whatever the number of incidents.               *)
THEOREM TwinsNeedRace == Spec => []TwinsWereRaced
<1>1. IInv => TwinsWereRaced
  BY DEF IInv, Looked
<1>2. QED BY <1>1, Invariance, PTL

(* A window never flags a segment with a part of it, whatever was counted  *)
(* and whatever test says that a rate has dropped.                         *)
THEOREM FlagsApart == Spec => []FlaggedApart
<1>1. IInv => FlaggedApart
  BY DEF IInv, SegmentsApart, FlaggedApart, AtInsert
<1>2. QED BY <1>1, Invariance, PTL
=============================================================================
