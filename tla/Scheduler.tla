------------------------------ MODULE Scheduler ------------------------------
(***************************************************************************)
(* The durable scheduler (packages/engine/src/scheduler.ts) and the loop   *)
(* that drains it (the "What the agent decided to do" part of runBatch,    *)
(* packages/sim/src/runner.ts).  Workers tick, run what they have leased,  *)
(* and complete it; a worker may hang past its lease or die, and a         *)
(* terminal write cancels the rows of its case, between any two steps.     *)
(*                                                                         *)
(* Rows are named by their id and exist from the start as "absent": what   *)
(* the planner schedules, and when, is left open.  The call a row stands   *)
(* for is the step runStep makes with it; the specification only keeps     *)
(* whether it has been made.                                               *)
(***************************************************************************)
EXTENDS Naturals, FiniteSets, FiniteSetsExt

CONSTANTS
  Rows,       \* ids of scheduled_actions
  Cases,
  CaseOf,     \* the case of each row
  FireAt,     \* when each row is due
  Workers,
  Limit,      \* how many rows a tick may lease
  LeaseTime,
  MaxTime,    \* bound of the clock
  MaxLeases,  \* bound: a row leased this often is not leased again
  NoOne       \* the owner of a row that is not leased

ASSUME SchedulerAssumption ==
  /\ CaseOf \in [Rows -> Cases]
  /\ FireAt \in [Rows -> Nat]
  /\ Limit \in Nat \ {0} /\ LeaseTime \in Nat \ {0}
  /\ MaxTime \in Nat /\ MaxLeases \in Nat
  /\ NoOne \notin Workers

VARIABLES
  row,      \* scheduled_actions, with a history field: inserted after the
            \* terminal event of its case
  locked,   \* the rows a tick has selected FOR UPDATE, by worker
  hand,     \* the rows each worker has been given and not finished, with
            \* a history field: until when each is its own
  busy,     \* the row each worker is running, if any
  ran,      \* history: the rows whose action some worker has run
  ended,    \* the cases whose terminal event is written
  dead,     \* the workers that have died
  now       \* the clock

vars == <<row, locked, hand, busy, ran, ended, dead, now>>

Row(state, late) ==
  [state |-> state, owner |-> NoOne, expiry |-> 0, attempts |-> 0, late |-> late]
NoRow == Row("absent", FALSE)

Unleased(r, state) == [row[r] EXCEPT !.state = state, !.owner = NoOne, !.expiry = 0]

Live(r) == row[r].state \in {"pending", "leased"}
Settled(r) == row[r].state \in {"done", "cancelled"}

Held(w) == {h.id : h \in hand[w]}

IsLocked(r) == \E w \in Workers : r \in locked[w]

Init ==
  /\ row = [r \in Rows |-> NoRow]
  /\ locked = [w \in Workers |-> {}]
  /\ hand = [w \in Workers |-> {}]
  /\ busy = [w \in Workers |-> {}]
  /\ ran = {}
  /\ ended = {}
  /\ dead = {}
  /\ now = 0

-----------------------------------------------------------------------------
(* schedule: an INSERT, with no look at the case.                          *)
Schedule(r) ==
  /\ row[r].state = "absent"
  /\ row' = [row EXCEPT ![r] = Row("pending", CaseOf[r] \in ended)]
  /\ UNCHANGED <<locked, hand, busy, ran, ended, dead, now>>

(* tick, first statement: the due pending rows, up to the limit, skipping  *)
(* those another tick has locked.                                          *)
DueExactly ==
  {r \in Rows : row[r].state = "pending" /\ FireAt[r] = now /\ row[r].attempts < MaxLeases}

Due == {r \in Rows : row[r].state = "pending" /\ FireAt[r] <= now /\ row[r].attempts < MaxLeases}

DueUnlocked == {r \in Due : ~IsLocked(r)}

Ticking(w) == w \notin dead /\ locked[w] = {} /\ hand[w] = {}

TickSelectUnlocked(w) ==
  /\ Ticking(w) /\ Due # {}
  /\ \E batch \in kSubset(IF Cardinality(Due) < Limit THEN Cardinality(Due) ELSE Limit, Due) :
       locked' = [locked EXCEPT ![w] = batch]
  /\ UNCHANGED <<row, hand, busy, ran, ended, dead, now>>

TickSelect(w) ==
  LET n == Cardinality(DueUnlocked) IN
  /\ Ticking(w) /\ n > 0
  /\ \E batch \in kSubset(IF n < Limit THEN n ELSE Limit, DueUnlocked) :
       locked' = [locked EXCEPT ![w] = batch]
  /\ UNCHANGED <<row, hand, busy, ran, ended, dead, now>>

(* ... and the second, which commits: lease them.  The lease runs from the *)
(* start of the tick; the clock of a batch does not move inside a tick.    *)
TickLease(w) ==
  /\ locked[w] # {}
  /\ row' = [r \in Rows |->
               IF r \in locked[w]
                 THEN [state |-> "leased", owner |-> w, expiry |-> now + LeaseTime,
                       attempts |-> row[r].attempts + 1, late |-> row[r].late]
                 ELSE row[r]]
  /\ hand' = [hand EXCEPT ![w] = {[id |-> r, until |-> now + LeaseTime] : r \in locked[w]}]
  /\ locked' = [locked EXCEPT ![w] = {}]
  /\ UNCHANGED <<busy, ran, ended, dead, now>>

-----------------------------------------------------------------------------
(* The loop over what the tick returned: runStep for a row whose case the  *)
(* worker does not know to be closed ...                                   *)
Run(w, r) ==
  /\ r \in Held(w) /\ busy[w] = {}
  /\ busy' = [busy EXCEPT ![w] = {r}]
  /\ ran' = ran \cup {r}
  /\ UNCHANGED <<row, locked, hand, ended, dead, now>>

Drop(w, r) == hand' = [hand EXCEPT ![w] = {h \in @ : h.id # r}]

(* complete asks only that the row be leased, by anyone; it does not touch *)
(* one that was cancelled or given back.                                   *)
SetDoneAnyState(r) == row' = [row EXCEPT ![r] = Unleased(r, "done")]

SetDone(r) == row' = IF row[r].state = "leased" THEN [row EXCEPT ![r] = Unleased(r, "done")] ELSE row

(* ... and completes it.                                                   *)
Complete(w, r) ==
  /\ busy[w] = {r}
  /\ SetDone(r)
  /\ Drop(w, r)
  /\ busy' = [busy EXCEPT ![w] = {}]
  /\ UNCHANGED <<locked, ran, ended, dead, now>>

(* A row of a case the worker knows to be closed is completed unrun.       *)
CompleteUnrun(w, r) ==
  /\ r \in Held(w) /\ busy[w] = {}
  /\ CaseOf[r] \in ended
  /\ SetDone(r)
  /\ Drop(w, r)
  /\ UNCHANGED <<locked, busy, ran, ended, dead, now>>

(* release: the worker gives a row back unrun; again whoever has leased it. *)
Release(w, r) ==
  /\ r \in Held(w) /\ busy[w] = {}
  /\ row' = IF row[r].state = "leased" THEN [row EXCEPT ![r] = Unleased(r, "pending")] ELSE row
  /\ Drop(w, r)
  /\ UNCHANGED <<locked, busy, ran, ended, dead, now>>

(* reclaimExpiredLeases: one UPDATE over every lease that has run out.     *)
Expired == {r \in Rows : row[r].state = "leased" /\ row[r].expiry <= now}

ReclaimExpiredLeases ==
  /\ Expired # {}
  /\ row' = [r \in Rows |-> IF r \in Expired THEN Unleased(r, "pending") ELSE row[r]]
  /\ UNCHANGED <<locked, hand, busy, ran, ended, dead, now>>

(* The terminal write with cancelForCase, or the same UPDATE in append: it *)
(* waits for the locks a tick holds and then cancels what it finds.        *)
Cancellable(c) == {r \in Rows : CaseOf[r] = c /\ Live(r)}

Cancelled(c) == [r \in Rows |-> IF r \in Cancellable(c) THEN Unleased(r, "cancelled") ELSE row[r]]

TerminalWriteSkipLocked(c) ==
  /\ c \notin ended
  /\ ended' = ended \cup {c}
  /\ row' = Cancelled(c)
  /\ UNCHANGED <<locked, hand, busy, ran, dead, now>>

TerminalWrite(c) ==
  /\ c \notin ended
  /\ \A r \in Cancellable(c) : ~IsLocked(r)
  /\ ended' = ended \cup {c}
  /\ row' = Cancelled(c)
  /\ UNCHANGED <<locked, hand, busy, ran, dead, now>>

(* A worker dies: an open tick rolls back, a lease stays.                  *)
Crash(w) ==
  /\ w \notin dead
  /\ dead' = dead \cup {w}
  /\ locked' = [locked EXCEPT ![w] = {}]
  /\ hand' = [hand EXCEPT ![w] = {}]
  /\ busy' = [busy EXCEPT ![w] = {}]
  /\ UNCHANGED <<row, ran, ended, now>>

Tick ==
  /\ now < MaxTime
  /\ now' = now + 1
  /\ \A w \in Workers : locked[w] = {}
  /\ UNCHANGED <<row, locked, hand, busy, ran, ended, dead>>

-----------------------------------------------------------------------------
Work(w) ==
  \/ TickSelect(w) \/ TickLease(w)
  \/ \E r \in Rows : Run(w, r) \/ Complete(w, r) \/ CompleteUnrun(w, r)

Next ==
  \/ \E r \in Rows : Schedule(r)
  \/ \E w \in Workers : Work(w) \/ Crash(w) \/ \E r \in Rows : Release(w, r)
  \/ \E c \in Cases : TerminalWrite(c)
  \/ ReclaimExpiredLeases
  \/ Tick

(* A live worker keeps ticking and working through its batch, as the loop  *)
(* of runBatch does, and the clock advances to the horizon.  Nothing in    *)
(* the code calls reclaimExpiredLeases on its own: no fairness for it.     *)
Fairness == WF_vars(Tick) /\ \A w \in Workers : WF_vars(Work(w))

Spec == Init /\ [][Next]_vars /\ Fairness

-----------------------------------------------------------------------------
(* The types of the table, the hands of the workers, and the clock.        *)
TypeOK ==
  /\ row \in [Rows -> [state : {"absent", "pending", "leased", "done", "cancelled"},
                       owner : Workers \cup {NoOne}, expiry : Nat, attempts : Nat,
                       late : BOOLEAN]]
  /\ locked \in [Workers -> SUBSET Rows]
  /\ hand \in [Workers -> SUBSET [id : Rows, until : Nat]]
  /\ busy \in [Workers -> SUBSET Rows]
  /\ ran \in SUBSET Rows
  /\ ended \in SUBSET Cases
  /\ dead \in SUBSET Workers
  /\ now \in Nat

(* scheduler.ts, the comment of tick: workers split the due rows.  Two of  *)
(* them have one row within their leases only from a third lease on: one   *)
(* worker has overrun the first, another has the second, and the first     *)
(* has then given back what was no longer its own.                         *)
WorkersSplitTheDueRows ==
  \A v, w \in Workers : v # w =>
    \A g \in hand[v], h \in hand[w] :
      g.id = h.id /\ now < g.until /\ now < h.until => row[g.id].attempts > 2

(* At-least-once: a row is done only when some worker has run it, or its   *)
(* case has ended; no order of hangs, crashes and reclaims skips one.  The *)
(* guard of Agenda's Finish, as an invariant.                              *)
DoneWasRun ==
  \A r \in Rows : row[r].state = "done" => r \in ran \/ CaseOf[r] \in ended

(* The terminal write reaches every row queued before it, one that a tick  *)
(* has just selected and not yet leased included.                          *)
OnlyLateRowsOutliveTheirCase ==
  \A r \in Rows : CaseOf[r] \in ended /\ Live(r) => row[r].late

(* As long as one worker lives, a row that falls due is settled, unless    *)
(* the worker that leased it died (only a reclaim, which nothing calls,    *)
(* frees it then) or the bound on leases is reached.                       *)
Stranded(r) == row[r].state = "leased" /\ row[r].owner \in dead

EveryRowSettles ==
  (\E w \in Workers : [](w \notin dead)) =>
    \A r \in Rows :
      row[r].state = "pending" /\ FireAt[r] <= MaxTime
        ~> Settled(r) \/ Stranded(r) \/ row[r].attempts = MaxLeases
-----------------------------------------------------------------------------
(* The scheduler implements Agenda: a row that is pending or leased is an  *)
(* open entry, and who has it makes no difference.                         *)
Abstract(state) == IF state \in {"pending", "leased"} THEN "open" ELSE state

Promised == INSTANCE Agenda WITH entry <- [r \in Rows |-> Abstract(row[r].state)]

ImplementsAgenda == Promised!Spec
=============================================================================
