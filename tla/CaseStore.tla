------------------------------ MODULE CaseStore ------------------------------
(***************************************************************************)
(* Opening cases and appending to their event logs (packages/db/src/       *)
(* case-events.ts, packages/engine/src/case-manager.ts), at the grain of   *)
(* the PostgreSQL transactions: every step below is one statement, or the  *)
(* rest of a transaction after its last lock.  Triggers, writers and the   *)
(* planner interleave between the steps, and each of them may die there.   *)
(*                                                                         *)
(* A trigger carries the id of the case it would open, so triggers are     *)
(* named by their case.  Writers are the callers of append: the runner,    *)
(* the verifier, the incident manager, the webhook route.                  *)
(***************************************************************************)
EXTENDS CaseLifecycle, FiniteSets

CONSTANTS
  Cases,         \* case ids; also the triggers that would open them
  Obligations,
  ObligationOf,  \* the obligation each trigger is about
  Writers,       \* concurrent callers of append
  Events,        \* the events they append
  Actions,       \* ids of scheduled_actions rows
  MaxEvents,     \* bound: writers append while the logs hold fewer events in all
  NoOne          \* the holder of a free lock

ASSUME CaseStoreAssumption ==
  /\ ObligationOf \in [Cases -> Obligations]
  /\ Events \subseteq CaseEvents
  /\ MaxEvents \in Nat
  /\ NoOne \notin Cases \cup Writers

VARIABLES
  row,      \* cases: the current row of each case id
  rev,      \* case_revisions: the latest revision of each case
  log,      \* case_events: the log of each case
  queue,    \* scheduled_actions: the live (pending or leased) rows of each case,
            \* with a history field: queued after the case had closed
  obLock,   \* the obligations row lock the upsert of openOrAttach takes
  rowLock,  \* the cases row lock SELECT ... FOR UPDATE takes
  trigger,  \* where each call of openOrAttach stands
  writer    \* where each writer stands

vars == <<row, rev, log, queue, obLock, rowLock, trigger, writer>>

NoRow ==
  [exists |-> FALSE, nextSeq |-> 0, state |-> "DETECTED", tier |-> 0,
   incident |-> FALSE, reason |-> FALSE, closed |-> FALSE]

Idle == [pc |-> "idle"]

(* closed_at IS NULL, which is how the code asks whether a case is open.   *)
Open(c) == row[c].exists /\ ~row[c].closed

OpenCasesOf(o) == {c \in Cases : ObligationOf[c] = o /\ Open(c)}

Init ==
  /\ row = [c \in Cases |-> NoRow]
  /\ rev = [c \in Cases |-> InitialRevision]
  /\ log = [c \in Cases |-> <<>>]
  /\ queue = [c \in Cases |-> {}]
  /\ obLock = [o \in Obligations |-> NoOne]
  /\ rowLock = [c \in Cases |-> NoOne]
  /\ trigger = [c \in Cases |-> "idle"]
  /\ writer = [w \in Writers |-> Idle]

-----------------------------------------------------------------------------
(* What append writes to the cases row: the reducer's fields, next_seq, and *)
(* closed_at once there is a terminal reason.                              *)
RowAfterStickyIncident(r, next) ==
  [exists |-> r.exists, nextSeq |-> r.nextSeq + 1, state |-> next.state, tier |-> next.tier,
   incident |-> r.incident \/ next.incident, reason |-> next.reason,
   closed |-> r.closed \/ next.reason]

RowAfter(r, next) ==
  [exists |-> r.exists, nextSeq |-> r.nextSeq + 1, state |-> next.state, tier |-> next.tier,
   incident |-> next.incident, reason |-> next.reason, closed |-> r.closed \/ next.reason]

(* Cancel-on-terminal: what is left of the case's live scheduled actions.  *)
QueueAfterNoCancel(live, next) == live

QueueAfter(live, next) == IF IsTerminal(next.state) THEN {} ELSE live

(* The writes of one append transaction, after it has locked the case row  *)
(* and read next_seq.  The code folds the whole log again; one Reduce of   *)
(* the latest revision is the same thing, which ReplayReproducesRow says.  *)
(* A seq already in the log breaks UNIQUE (case_id, seq), and an event the *)
(* reducer refuses throws: neither append is enabled.                      *)
AppendWrites(c, e, seq) ==
  LET next == Reduce(rev[c], e) IN
  /\ seq = Len(log[c])
  /\ Accepts(rev[c], e)
  /\ log' = [log EXCEPT ![c] = Append(@, e)]
  /\ rev' = [rev EXCEPT ![c] = next]
  /\ row' = [row EXCEPT ![c] = RowAfter(row[c], next)]
  /\ queue' = [queue EXCEPT ![c] = QueueAfter(queue[c], next)]

-----------------------------------------------------------------------------
(* openOrAttach, first transaction: upsert the obligation.  DO UPDATE takes *)
(* the row lock even when the row is there; DO NOTHING would not.          *)
OpenUpsertDoNothing(c) ==
  /\ trigger[c] = "idle"
  /\ trigger' = [trigger EXCEPT ![c] = "upserted"]
  /\ UNCHANGED <<row, rev, log, queue, obLock, rowLock, writer>>

OpenUpsert(c) ==
  /\ trigger[c] = "idle"
  /\ obLock[ObligationOf[c]] = NoOne
  /\ obLock' = [obLock EXCEPT ![ObligationOf[c]] = c]
  /\ trigger' = [trigger EXCEPT ![c] = "upserted"]
  /\ UNCHANGED <<row, rev, log, queue, rowLock, writer>>

(* ... look for an open case: one found absorbs the trigger and commits.   *)
OpenSelectCommits(c) ==
  /\ trigger[c] = "upserted"
  /\ trigger' = [trigger EXCEPT ![c] = IF OpenCasesOf(ObligationOf[c]) # {} THEN "idle" ELSE "selected"]
  /\ obLock' = [obLock EXCEPT ![ObligationOf[c]] = NoOne]
  /\ UNCHANGED <<row, rev, log, queue, rowLock, writer>>

OpenSelect(c) ==
  LET o == ObligationOf[c] IN
  /\ trigger[c] = "upserted"
  /\ IF OpenCasesOf(o) # {}
       THEN /\ trigger' = [trigger EXCEPT ![c] = "idle"]
            /\ obLock' = [obLock EXCEPT ![o] = NoOne]
       ELSE /\ trigger' = [trigger EXCEPT ![c] = "selected"]
            /\ obLock' = obLock
  /\ UNCHANGED <<row, rev, log, queue, rowLock, writer>>

(* ... insert the case and commit.  A case id that exists breaks the       *)
(* primary key: that transaction can only fail.                            *)
OpenInsert(c) ==
  /\ trigger[c] = "selected"
  /\ ~row[c].exists
  /\ row' = [row EXCEPT ![c] = [NoRow EXCEPT !.exists = TRUE]]
  /\ trigger' = [trigger EXCEPT ![c] = "inserted"]
  /\ obLock' = [obLock EXCEPT ![ObligationOf[c]] = NoOne]
  /\ UNCHANGED <<rev, log, queue, rowLock, writer>>

(* Second transaction: append case_opened, waiting for the row lock.       *)
OpenAppend(c) ==
  /\ trigger[c] = "inserted"
  /\ rowLock[c] = NoOne
  /\ AppendWrites(c, Plain("case_opened"), row[c].nextSeq)
  /\ trigger' = [trigger EXCEPT ![c] = "idle"]
  /\ UNCHANGED <<obLock, rowLock, writer>>

(* The caller throws or dies: its transaction rolls back, what it has      *)
(* committed before stays.                                                 *)
OpenFails(c) ==
  LET o == ObligationOf[c] IN
  /\ trigger[c] # "idle"
  /\ trigger' = [trigger EXCEPT ![c] = "idle"]
  /\ obLock' = [obLock EXCEPT ![o] = IF @ = c THEN NoOne ELSE @]
  /\ UNCHANGED <<row, rev, log, queue, rowLock, writer>>

-----------------------------------------------------------------------------
(* append: lock the case row and read next_seq.  A planner that has just   *)
(* scheduled an action appends action_scheduled; any other caller may      *)
(* append any event.                                                       *)
LockedWriter(w, c, todo) == [pc |-> "locked", case |-> c, seq |-> row[c].nextSeq, todo |-> todo]

AppendLockNoForUpdate(w, c) ==
  /\ row[c].exists
  /\ MapThenSumSet(LAMBDA d : Len(log[d]), Cases) < MaxEvents
  /\ \/ /\ writer[w].pc = "idle"
        /\ writer' = [writer EXCEPT ![w] = LockedWriter(w, c, Events)]
     \/ /\ writer[w].pc = "scheduled" /\ writer[w].case = c
        /\ writer' = [writer EXCEPT ![w] = LockedWriter(w, c, {Plain("action_scheduled")})]
  /\ UNCHANGED <<row, rev, log, queue, obLock, rowLock, trigger>>

AppendLock(w, c) ==
  /\ row[c].exists
  /\ MapThenSumSet(LAMBDA d : Len(log[d]), Cases) < MaxEvents
  /\ rowLock[c] = NoOne
  /\ \/ /\ writer[w].pc = "idle"
        /\ writer' = [writer EXCEPT ![w] = LockedWriter(w, c, Events)]
     \/ /\ writer[w].pc = "scheduled" /\ writer[w].case = c
        /\ writer' = [writer EXCEPT ![w] = LockedWriter(w, c, {Plain("action_scheduled")})]
  /\ rowLock' = [rowLock EXCEPT ![c] = w]
  /\ UNCHANGED <<row, rev, log, queue, obLock, trigger>>

(* ... and the rest of the transaction, with the lock it releases.         *)
AppendCommit(w) ==
  /\ writer[w].pc = "locked"
  /\ \E e \in writer[w].todo : AppendWrites(writer[w].case, e, writer[w].seq)
  /\ rowLock' = [rowLock EXCEPT ![writer[w].case] = NoOne]
  /\ writer' = [writer EXCEPT ![w] = Idle]
  /\ UNCHANGED <<obLock, trigger>>

(* advancePlan: the caller has seen the case live, an append of its own    *)
(* having been accepted, before it schedules.                              *)
PlanRead(w, c) ==
  /\ writer[w].pc = "idle"
  /\ row[c].exists
  /\ ~IsTerminal(row[c].state)
  /\ writer' = [writer EXCEPT ![w] = [pc |-> "planning", case |-> c]]
  /\ UNCHANGED <<row, rev, log, queue, obLock, rowLock, trigger>>

(* Scheduler.schedule takes no lock on the case and reads nothing of it.   *)
Schedule(w, a) ==
  LET c == writer[w].case IN
  /\ writer[w].pc = "planning"
  /\ \A d \in Cases : \A q \in queue[d] : q.id # a
  /\ queue' = [queue EXCEPT ![c] = @ \cup {[id |-> a, late |-> IsTerminal(row[c].state)]}]
  /\ writer' = [writer EXCEPT ![w] = [pc |-> "scheduled", case |-> c]]
  /\ UNCHANGED <<row, rev, log, obLock, rowLock, trigger>>

(* Any throw of append (an illegal transition, UNIQUE, a lost connection)  *)
(* or the death of the process.                                            *)
WriterFails(w) ==
  /\ writer[w].pc # "idle"
  /\ writer' = [writer EXCEPT ![w] = Idle]
  /\ rowLock' = [c \in Cases |-> IF rowLock[c] = w THEN NoOne ELSE rowLock[c]]
  /\ UNCHANGED <<row, rev, log, queue, obLock, trigger>>

(* Scheduler.complete: a leased row is done and leaves the live rows.      *)
Complete(c) ==
  /\ \E q \in queue[c] : queue' = [queue EXCEPT ![c] = @ \ {q}]
  /\ UNCHANGED <<row, rev, log, obLock, rowLock, trigger, writer>>

(* recordDiagnosis: a plain UPDATE of the tier, called by plan() once the  *)
(* case is open and before any event has moved it.                         *)
RecordDiagnosis(c, t) ==
  /\ row[c].exists /\ trigger[c] = "idle"
  /\ row[c].state = "DETECTED" /\ log[c] # <<>>
  /\ rowLock[c] = NoOne
  /\ row' = [row EXCEPT ![c].tier = t]
  /\ UNCHANGED <<rev, log, queue, obLock, rowLock, trigger, writer>>

-----------------------------------------------------------------------------
Next ==
  \/ \E c \in Cases :
       \/ OpenUpsert(c) \/ OpenSelect(c) \/ OpenInsert(c) \/ OpenAppend(c) \/ OpenFails(c)
       \/ Complete(c)
       \/ \E t \in Tiers : RecordDiagnosis(c, t)
  \/ \E w \in Writers :
       \/ \E c \in Cases : AppendLock(w, c) \/ PlanRead(w, c)
       \/ AppendCommit(w)
       \/ \E a \in Actions : Schedule(w, a)
       \/ WriterFails(w)

Spec == Init /\ [][Next]_vars

-----------------------------------------------------------------------------
WriterStates ==
  {Idle}
  \cup [pc : {"planning", "scheduled"}, case : Cases]
  \cup [pc : {"locked"}, case : Cases, seq : Nat, todo : SUBSET CaseEvents]

RowStates ==
  [exists : BOOLEAN, nextSeq : Nat, state : CaseStates, tier : Tiers,
   incident : BOOLEAN, reason : BOOLEAN, closed : BOOLEAN]

(* The types of the tables, the locks and the program counters.            *)
TypeOK ==
  /\ row \in [Cases -> RowStates]
  /\ rev \in [Cases -> Revisions]
  /\ log \in [Cases -> Seq(CaseEvents)]
  /\ queue \in [Cases -> SUBSET [id : Actions, late : BOOLEAN]]
  /\ obLock \in [Obligations -> Cases \cup {NoOne}]
  /\ rowLock \in [Cases -> Writers \cup {NoOne}]
  /\ trigger \in [Cases -> {"idle", "upserted", "selected", "inserted"}]
  /\ writer \in [Writers -> WriterStates]

(* case-manager.ts: an obligation has at most one open case, however its   *)
(* triggers race and wherever they die.                                    *)
OneOpenCasePerObligation ==
  \A c, d \in Cases :
    ObligationOf[c] = ObligationOf[d] /\ Open(c) /\ Open(d) => c = d

(* case-events.ts: a writer that holds the case row appends at the end of  *)
(* the log; it never meets UNIQUE (case_id, seq).                          *)
SeqNeverCollides ==
  \A w \in Writers :
    writer[w].pc = "locked" => writer[w].seq = Len(log[writer[w].case])

(* replay: the whole log, folded from the start.                           *)
Replay(c) == ReduceAll(log[c])

(* Replay: folding the log gives the stored revision, and the cases row    *)
(* agrees with it in everything but the tier, which has a second writer.   *)
ReplayReproducesRow ==
  \A c \in Cases :
    /\ rev[c] = Replay(c)
    /\ row[c].nextSeq = rev[c].revision
    /\ row[c].state = rev[c].state
    /\ row[c].incident = rev[c].incident
    /\ row[c].reason = rev[c].reason
    /\ row[c].closed = rev[c].reason

(* The terminal write cancels what is queued in its own transaction: the   *)
(* only action a closed case can have live was queued after it closed, by  *)
(* a planner that had read it before.                                      *)
OnlyLateActionsOnClosedCases ==
  \A c \in Cases : IsTerminal(row[c].state) => \A q \in queue[c] : q.late

(* A case leaves no terminal state, and closed_at is never cleared: what   *)
(* CaseRegistry's Append says, of the row.                                 *)
TerminalIsFinal ==
  [][\A c \in Cases :
       /\ IsTerminal(row[c].state) => row'[c].state = row[c].state
       /\ row[c].closed => row'[c].closed]_vars
-----------------------------------------------------------------------------
(* The store implements CaseRegistry: the registry sees which case rows    *)
(* exist, which have closed_at, the reduced states and the queued ids.     *)
Moves == {m \in CaseStates \X CaseStates : CanTransition(m[1], m[2])}

Promised == INSTANCE CaseRegistry WITH
  First <- "DETECTED", Finals <- TerminalStates,
  opened <- {c \in Cases : row[c].exists},
  closed <- {c \in Cases : row[c].closed},
  state <- [c \in Cases |-> rev[c].state],
  queued <- [c \in Cases |-> {q.id : q \in queue[c]}]

ImplementsRegistry == Promised!Spec
=============================================================================
