--------------------------- MODULE CaseStoreProofs ---------------------------
(***************************************************************************)
(* Theorems about CaseStore, for every set of cases, obligations, writers  *)
(* and events and every bound.                                             *)
(***************************************************************************)
EXTENDS CaseStore, TLAPS

(* targetState never leaves the fourteen case states.                      *)
LEMMA TargetStateType ==
  ASSUME NEW s \in CaseStates, NEW e \in CaseEvents
  PROVE  TargetState(e, s) \in CaseStates
<1>1. CASE e \in TerminalEvents
  BY <1>1 DEF TerminalEvents, TargetState, CaseStates
<1>2. CASE e \in DiagnosisEvents
  BY <1>2 DEF DiagnosisEvents, TargetState, CaseStates, LiveStates, Drives
<1>3. CASE e \in PlainEvents
  BY <1>3 DEF PlainEvents, TargetState, CaseStates, LiveStates, TerminalStates, Drives
<1>4. QED BY <1>1, <1>2, <1>3 DEF CaseEvents

(* reduce maps a revision and an event to a revision, one revision on.     *)
LEMMA ReduceType ==
  ASSUME NEW r \in Revisions, NEW e \in CaseEvents
  PROVE  Reduce(r, e) \in Revisions
<1>1. TargetState(e, r.state) \in CaseStates
  BY TargetStateType DEF Revisions
<1>2. (IF e.type = "diagnosis_started" THEN e.tier ELSE r.tier) \in Tiers
  <2>1. e.type = "diagnosis_started" => e \in DiagnosisEvents
    BY DEF CaseEvents, PlainEvents, TerminalEvents, DiagnosisEvents
  <2>2. QED BY <2>1 DEF DiagnosisEvents, Revisions
<1>3. r.revision + 1 \in Nat
  BY DEF Revisions
<1>4. /\ ((r.incident \/ e.type = "incident_attached") /\ e.type # "incident_released") \in BOOLEAN
      /\ (r.reason \/ e.type = "terminal_reached") \in BOOLEAN
  OBVIOUS
<1>5. QED
  BY <1>1, <1>2, <1>3, <1>4, Zenon DEF Reduce, Revisions

(* canTransition lets nothing out of a terminal state.                     *)
LEMMA TerminalAbsorbs ==
  ASSUME NEW r \in Revisions, NEW e \in CaseEvents, Accepts(r, e), IsTerminal(r.state)
  PROVE  TargetState(e, r.state) = r.state
BY DEF Accepts, CanTransition

-----------------------------------------------------------------------------
(* The strengthening.  The row agrees with the latest revision; a locked   *)
(* writer owns the row lock and its snapshot of next_seq; a trigger inside *)
(* its first transaction owns the obligation lock, and once it has looked  *)
(* there is no open case for it to find.                                   *)
RowAgrees ==
  \A c \in Cases :
    /\ row[c].state = rev[c].state
    /\ row[c].closed = rev[c].reason
    /\ row[c].nextSeq = Len(log[c])

WriterHoldsRow ==
  \A w \in Writers :
    writer[w].pc = "locked" => rowLock[writer[w].case] = w /\ row[writer[w].case].exists

UnbornIsBlank ==
  \A c \in Cases :
    /\ ~row[c].exists => row[c] = NoRow
    /\ trigger[c] = "inserted" => row[c].exists

TriggerHoldsObligation ==
  \A c \in Cases :
    /\ trigger[c] \in {"upserted", "selected"} => obLock[ObligationOf[c]] = c
    /\ trigger[c] = "selected" => OpenCasesOf(ObligationOf[c]) = {}

IInv ==
  /\ TypeOK
  /\ RowAgrees
  /\ UnbornIsBlank
  /\ WriterHoldsRow
  /\ SeqNeverCollides
  /\ TriggerHoldsObligation
  /\ OneOpenCasePerObligation
  /\ OnlyLateActionsOnClosedCases

(* What the transaction of append does to the tables, for a case that may  *)
(* stand anywhere: types, agreement, one event more, closed_at never       *)
(* cleared, a terminal state kept, and no live action left at a close.     *)
LEMMA AppendEffect ==
  ASSUME TypeOK, RowAgrees,
         NEW c \in Cases, NEW e \in CaseEvents, NEW seq, AppendWrites(c, e, seq)
  PROVE  /\ row' \in [Cases -> RowStates] /\ rev' \in [Cases -> Revisions]
         /\ log' \in [Cases -> Seq(CaseEvents)]
         /\ queue' \in [Cases -> SUBSET [id : Actions, late : BOOLEAN]]
         /\ RowAgrees'
         /\ seq = Len(log[c]) /\ Len(log'[c]) = Len(log[c]) + 1
         /\ \A d \in Cases \ {c} :
              row'[d] = row[d] /\ rev'[d] = rev[d] /\ log'[d] = log[d] /\ queue'[d] = queue[d]
         /\ row'[c].exists = row[c].exists
         /\ row[c].closed => row'[c].closed
         /\ IsTerminal(row[c].state) => row'[c].state = row[c].state
         /\ IsTerminal(row'[c].state) => queue'[c] = {}
<1> DEFINE next == Reduce(rev[c], e)
<1>1. rev[c] \in Revisions /\ row[c] \in RowStates /\ log[c] \in Seq(CaseEvents)
  BY DEF TypeOK
<1>2. next \in Revisions
  BY <1>1, ReduceType
<1>3. next.state = TargetState(e, rev[c].state) /\ (rev[c].reason => next.reason)
  BY DEF Reduce
<1>4. row[c].state = rev[c].state /\ row[c].closed = rev[c].reason /\ row[c].nextSeq = Len(log[c])
  BY DEF RowAgrees
<1>5. IsTerminal(rev[c].state) => next.state = rev[c].state
  BY <1>1, <1>3, TerminalAbsorbs DEF AppendWrites
<1> HIDE DEF next
<1>6. /\ row'[c] = RowAfter(row[c], next)
      /\ rev'[c] = next /\ log'[c] = Append(log[c], e)
      /\ queue'[c] = QueueAfter(queue[c], next)
      /\ seq = Len(log[c])
  BY Zenon DEF AppendWrites, next, TypeOK
<1>7. \A d \in Cases \ {c} :
        row'[d] = row[d] /\ rev'[d] = rev[d] /\ log'[d] = log[d] /\ queue'[d] = queue[d]
  BY DEF AppendWrites, TypeOK
<1>8. DOMAIN row' = Cases /\ DOMAIN rev' = Cases /\ DOMAIN log' = Cases /\ DOMAIN queue' = Cases
  BY DEF AppendWrites, TypeOK
<1>9. row'[c] \in RowStates
  BY <1>1, <1>2, <1>6 DEF RowStates, Revisions, RowAfter
<1>10. log'[c] \in Seq(CaseEvents) /\ Len(log'[c]) = Len(log[c]) + 1
  BY <1>1, <1>6
<1>11. /\ row'[c].state = next.state /\ row'[c].closed = (row[c].closed \/ next.reason)
       /\ row'[c].nextSeq = row[c].nextSeq + 1 /\ row'[c].exists = row[c].exists
  BY <1>6 DEF RowAfter
<1>12. RowAgrees'
  <2> SUFFICES ASSUME NEW d \in Cases
               PROVE  /\ row'[d].state = rev'[d].state /\ row'[d].closed = rev'[d].reason
                      /\ row'[d].nextSeq = Len(log'[d])
    BY DEF RowAgrees
  <2>1. CASE d = c
    <3>1. (row[c].closed \/ next.reason) = next.reason
      BY <1>1, <1>2, <1>3, <1>4 DEF RowStates, Revisions
    <3>2. row'[c].nextSeq = Len(log'[c])
      BY <1>4, <1>10, <1>11
    <3>3. QED BY <2>1, <3>1, <3>2, <1>6, <1>11
  <2>2. CASE d # c
    BY <2>2, <1>7 DEF RowAgrees
  <2>3. QED BY <2>1, <2>2
<1>13. queue'[c] \in SUBSET [id : Actions, late : BOOLEAN]
  BY <1>6 DEF QueueAfter, TypeOK
<1>14. /\ row' \in [Cases -> RowStates] /\ rev' \in [Cases -> Revisions]
       /\ log' \in [Cases -> Seq(CaseEvents)]
       /\ queue' \in [Cases -> SUBSET [id : Actions, late : BOOLEAN]]
  BY <1>2, <1>6, <1>7, <1>8, <1>9, <1>10, <1>13 DEF TypeOK, AppendWrites
<1>15. IsTerminal(row'[c].state) => queue'[c] = {}
  BY <1>6, <1>11 DEF QueueAfter
<1>16. IsTerminal(row[c].state) => row'[c].state = row[c].state
  BY <1>4, <1>5, <1>11
<1>17. row[c].closed => row'[c].closed
  BY <1>11
<1>18. QED
  BY <1>6, <1>7, <1>10, <1>11, <1>12, <1>14, <1>15, <1>16, <1>17

(* What the program counter of a locked writer says of its other fields.   *)
LEMMA LockedWriterType ==
  ASSUME TypeOK, NEW w \in Writers, writer[w].pc = "locked"
  PROVE  writer[w].case \in Cases /\ writer[w].seq \in Nat /\ writer[w].todo \subseteq CaseEvents
<1>1. writer[w] \in WriterStates /\ writer[w] # Idle
  BY DEF TypeOK, Idle
<1>2. writer[w] \notin [pc : {"planning", "scheduled"}, case : Cases]
  OBVIOUS
<1>3. writer[w] \in [pc : {"locked"}, case : Cases, seq : Nat, todo : SUBSET CaseEvents]
  BY <1>1, <1>2 DEF WriterStates
<1>4. QED BY <1>3

(* So an append keeps every part of IInv that the locks do not enter.      *)
LEMMA AppendKeeps ==
  ASSUME IInv, NEW c \in Cases, NEW e \in CaseEvents, NEW seq,
         AppendWrites(c, e, seq), row[c].exists
  PROVE  /\ RowAgrees'
         /\ \A d \in Cases : row'[d].exists = row[d].exists /\ (Open(d)' => Open(d))
         /\ \A d \in Cases : ~row'[d].exists => row'[d] = NoRow
         /\ OneOpenCasePerObligation'
         /\ OnlyLateActionsOnClosedCases'
<1>1. /\ RowAgrees'
      /\ \A d \in Cases \ {c} : row'[d] = row[d] /\ queue'[d] = queue[d]
      /\ row'[c].exists = row[c].exists
      /\ row[c].closed => row'[c].closed
      /\ IsTerminal(row'[c].state) => queue'[c] = {}
  BY AppendEffect DEF IInv
<1>2. \A d \in Cases : row'[d].exists = row[d].exists /\ (Open(d)' => Open(d))
  BY <1>1 DEF Open
<1>3. \A d \in Cases : ~row'[d].exists => row'[d] = NoRow
  BY <1>1 DEF IInv, UnbornIsBlank
<1>4. OneOpenCasePerObligation'
  BY <1>2 DEF IInv, OneOpenCasePerObligation
<1>5. OnlyLateActionsOnClosedCases'
  BY <1>1 DEF IInv, OnlyLateActionsOnClosedCases
<1>6. QED BY <1>1, <1>2, <1>3, <1>4, <1>5

-----------------------------------------------------------------------------
LEMMA InitEstablishes == Init => IInv
<1> SUFFICES ASSUME Init PROVE IInv
  OBVIOUS
<1>1. NoRow \in RowStates /\ InitialRevision \in Revisions
  BY DEF NoRow, InitialRevision, RowStates, Revisions, CaseStates, LiveStates, Tiers
<1>2. TypeOK
  BY <1>1 DEF Init, TypeOK, WriterStates
<1>3. \A c \in Cases : ~Open(c)
  BY DEF Init, Open, NoRow
<1>4. RowAgrees /\ UnbornIsBlank
  BY DEF Init, RowAgrees, UnbornIsBlank, NoRow, InitialRevision
<1>5. WriterHoldsRow /\ SeqNeverCollides /\ TriggerHoldsObligation
  BY DEF Init, WriterHoldsRow, SeqNeverCollides, TriggerHoldsObligation, Idle
<1>6. OneOpenCasePerObligation /\ OnlyLateActionsOnClosedCases
  BY <1>3 DEF Init, OneOpenCasePerObligation, OnlyLateActionsOnClosedCases
<1>7. QED BY <1>2, <1>4, <1>5, <1>6 DEF IInv

-----------------------------------------------------------------------------
(* The steps of openOrAttach.                                              *)
LEMMA OpenUpsertKeeps ==
  ASSUME IInv, NEW c \in Cases, OpenUpsert(c)
  PROVE  IInv'
<1> USE CaseStoreAssumption
<1>1. TypeOK'
  BY DEF IInv, TypeOK, OpenUpsert
<1>2. /\ RowAgrees' /\ UnbornIsBlank' /\ WriterHoldsRow' /\ SeqNeverCollides'
      /\ OneOpenCasePerObligation' /\ OnlyLateActionsOnClosedCases'
  BY DEF IInv, TypeOK, OpenUpsert, RowAgrees, UnbornIsBlank, WriterHoldsRow, SeqNeverCollides,
         OneOpenCasePerObligation, Open, OnlyLateActionsOnClosedCases
<1>3. TriggerHoldsObligation'
  <2>1. SUFFICES ASSUME NEW d \in Cases
                 PROVE  /\ trigger'[d] \in {"upserted", "selected"}
                             => obLock'[ObligationOf[d]] = d
                        /\ trigger'[d] = "selected" => OpenCasesOf(ObligationOf[d])' = {}
    BY DEF TriggerHoldsObligation
  <2>2. OpenCasesOf(ObligationOf[d])' = OpenCasesOf(ObligationOf[d])
    BY DEF OpenUpsert, OpenCasesOf, Open
  <2>3. /\ trigger[d] \in {"upserted", "selected"} => obLock[ObligationOf[d]] = d
        /\ trigger[d] = "selected" => OpenCasesOf(ObligationOf[d]) = {}
    BY DEF IInv, TriggerHoldsObligation
  <2>4. trigger'[d] = IF d = c THEN "upserted" ELSE trigger[d]
    BY DEF IInv, TypeOK, OpenUpsert
  <2>5. /\ obLock[ObligationOf[c]] = NoOne
        /\ obLock'[ObligationOf[d]] = IF ObligationOf[d] = ObligationOf[c] THEN c
                                      ELSE obLock[ObligationOf[d]]
    BY DEF IInv, TypeOK, OpenUpsert
  <2>6. d # NoOne
    OBVIOUS
  <2>7. QED BY <2>2, <2>3, <2>4, <2>5, <2>6
<1>4. QED BY <1>1, <1>2, <1>3 DEF IInv

LEMMA OpenSelectKeeps ==
  ASSUME IInv, NEW c \in Cases, OpenSelect(c)
  PROVE  IInv'
<1> USE CaseStoreAssumption
<1>1. TypeOK'
  BY DEF IInv, TypeOK, OpenSelect
<1>2. /\ RowAgrees' /\ UnbornIsBlank' /\ WriterHoldsRow' /\ SeqNeverCollides'
      /\ OneOpenCasePerObligation' /\ OnlyLateActionsOnClosedCases'
  BY DEF IInv, TypeOK, OpenSelect, RowAgrees, UnbornIsBlank, WriterHoldsRow, SeqNeverCollides,
         OneOpenCasePerObligation, Open, OnlyLateActionsOnClosedCases
<1>3. TriggerHoldsObligation'
  BY DEF IInv, TypeOK, OpenSelect, TriggerHoldsObligation, OpenCasesOf, Open
<1>4. QED BY <1>1, <1>2, <1>3 DEF IInv

LEMMA OpenInsertKeeps ==
  ASSUME IInv, NEW c \in Cases, OpenInsert(c)
  PROVE  IInv'
<1> USE CaseStoreAssumption
<1>1. row[c] = NoRow /\ row'[c] = [NoRow EXCEPT !.exists = TRUE]
  BY DEF IInv, TypeOK, UnbornIsBlank, OpenInsert
<1>2. /\ row'[c].exists /\ ~row'[c].closed /\ ~IsTerminal(row'[c].state)
      /\ row'[c] \in RowStates
      /\ row'[c].state = row[c].state /\ row'[c].closed = row[c].closed
      /\ row'[c].nextSeq = row[c].nextSeq
  <2>1. NoRow \in RowStates
    BY DEF NoRow, RowStates, CaseStates, LiveStates, Tiers
  <2>2. row'[c] \in RowStates
    BY <1>1, <2>1 DEF RowStates
  <2>3. /\ row'[c].exists /\ row'[c].closed = FALSE /\ row'[c].state = "DETECTED"
        /\ row[c].closed = FALSE /\ row[c].state = "DETECTED"
        /\ row'[c].nextSeq = row[c].nextSeq
    BY <1>1 DEF NoRow
  <2>4. ~IsTerminal("DETECTED")
    BY DEF IsTerminal, TerminalStates
  <2>5. QED BY <2>2, <2>3, <2>4
<1>3. \A d \in Cases \ {c} : row'[d] = row[d] /\ trigger'[d] = trigger[d]
  BY DEF IInv, TypeOK, OpenInsert
<1>4. TypeOK'
  BY <1>2 DEF IInv, TypeOK, OpenInsert
<1>5. RowAgrees'
  BY <1>2, <1>3 DEF IInv, OpenInsert, RowAgrees
<1>6. UnbornIsBlank' /\ WriterHoldsRow' /\ SeqNeverCollides'
  BY <1>2, <1>3 DEF IInv, TypeOK, OpenInsert, UnbornIsBlank, WriterHoldsRow, SeqNeverCollides
<1>7. OpenCasesOf(ObligationOf[c]) = {}
  BY DEF IInv, TriggerHoldsObligation, OpenInsert
<1>8. OneOpenCasePerObligation'
  BY <1>3, <1>7 DEF IInv, OneOpenCasePerObligation, OpenCasesOf, Open
<1>9. OnlyLateActionsOnClosedCases'
  BY <1>2, <1>3 DEF IInv, OpenInsert, OnlyLateActionsOnClosedCases
<1>10. TriggerHoldsObligation'
  <2> SUFFICES ASSUME NEW d \in Cases, trigger'[d] \in {"upserted", "selected"}
               PROVE  /\ obLock'[ObligationOf[d]] = d
                      /\ trigger'[d] = "selected" => OpenCasesOf(ObligationOf[d])' = {}
    BY DEF TriggerHoldsObligation
  <2>1. d # c
    BY DEF IInv, TypeOK, OpenInsert
  <2>2. obLock[ObligationOf[d]] = d /\ obLock[ObligationOf[c]] = c
    BY <2>1, <1>3 DEF IInv, TriggerHoldsObligation, OpenInsert
  <2>3. ObligationOf[d] # ObligationOf[c]
    BY <2>1, <2>2
  <2>4. QED
    BY <2>1, <2>2, <2>3, <1>3 DEF IInv, TypeOK, OpenInsert, TriggerHoldsObligation, OpenCasesOf, Open
<1>11. QED BY <1>4, <1>5, <1>6, <1>8, <1>9, <1>10 DEF IInv

LEMMA OpenAppendKeeps ==
  ASSUME IInv, NEW c \in Cases, OpenAppend(c)
  PROVE  IInv'
<1> USE CaseStoreAssumption
<1>1. Plain("case_opened") \in CaseEvents /\ row[c].exists
  BY DEF CaseEvents, PlainEvents, Plain, Drives, IInv, UnbornIsBlank, OpenAppend
<1>2. AppendWrites(c, Plain("case_opened"), row[c].nextSeq)
  BY DEF OpenAppend
<1>3. /\ row' \in [Cases -> RowStates] /\ rev' \in [Cases -> Revisions]
      /\ log' \in [Cases -> Seq(CaseEvents)]
      /\ queue' \in [Cases -> SUBSET [id : Actions, late : BOOLEAN]]
      /\ \A d \in Cases \ {c} : log'[d] = log[d]
  BY <1>1, <1>2, AppendEffect DEF IInv
<1>4. /\ RowAgrees' /\ OneOpenCasePerObligation' /\ OnlyLateActionsOnClosedCases'
      /\ \A d \in Cases : row'[d].exists = row[d].exists /\ (Open(d)' => Open(d))
      /\ \A d \in Cases : ~row'[d].exists => row'[d] = NoRow
  BY <1>1, <1>2, AppendKeeps
<1>5. TypeOK'
  BY <1>3 DEF IInv, TypeOK, OpenAppend
<1>6. WriterHoldsRow' /\ UnbornIsBlank'
  <2>1. UnbornIsBlank'
    BY <1>4 DEF IInv, TypeOK, OpenAppend, UnbornIsBlank
  <2>2. WriterHoldsRow'
    BY <1>4, LockedWriterType DEF IInv, OpenAppend, WriterHoldsRow
  <2>3. QED BY <2>1, <2>2
<1>7. SeqNeverCollides'
  <2> SUFFICES ASSUME NEW w \in Writers, writer[w].pc = "locked"
               PROVE  writer[w].seq = Len(log'[writer[w].case])
    BY DEF SeqNeverCollides, OpenAppend
  <2>1. writer[w].case \in Cases /\ rowLock[writer[w].case] = w
    BY LockedWriterType DEF IInv, WriterHoldsRow
  <2>2. writer[w].case # c
    BY <2>1 DEF OpenAppend
  <2>3. QED BY <2>1, <2>2, <1>3 DEF IInv, SeqNeverCollides
<1>8. TriggerHoldsObligation'
  BY <1>4 DEF IInv, TypeOK, OpenAppend, TriggerHoldsObligation, OpenCasesOf
<1>9. QED BY <1>4, <1>5, <1>6, <1>7, <1>8 DEF IInv

LEMMA OpenFailsKeeps ==
  ASSUME IInv, NEW c \in Cases, OpenFails(c)
  PROVE  IInv'
<1> USE CaseStoreAssumption
<1>1. TypeOK'
  BY DEF IInv, TypeOK, OpenFails
<1>2. /\ RowAgrees' /\ UnbornIsBlank' /\ WriterHoldsRow' /\ SeqNeverCollides'
      /\ OneOpenCasePerObligation' /\ OnlyLateActionsOnClosedCases'
  BY DEF IInv, TypeOK, OpenFails, RowAgrees, UnbornIsBlank, WriterHoldsRow, SeqNeverCollides,
         OneOpenCasePerObligation, Open, OnlyLateActionsOnClosedCases
<1>3. TriggerHoldsObligation'
  BY DEF IInv, TypeOK, OpenFails, TriggerHoldsObligation, OpenCasesOf, Open
<1>4. QED BY <1>1, <1>2, <1>3 DEF IInv

-----------------------------------------------------------------------------
(* The steps of append and of its callers.                                 *)
LEMMA AppendLockKeeps ==
  ASSUME IInv, NEW w \in Writers, NEW c \in Cases, AppendLock(w, c)
  PROVE  IInv'
<1> USE CaseStoreAssumption
<1>1. \E todo \in SUBSET CaseEvents : writer' = [writer EXCEPT ![w] = LockedWriter(w, c, todo)]
  <2>1. Events \in SUBSET CaseEvents /\ {Plain("action_scheduled")} \in SUBSET CaseEvents
    BY DEF CaseEvents, PlainEvents, Plain, Drives
  <2>2. QED BY <2>1 DEF AppendLock
<1>2. PICK todo \in SUBSET CaseEvents : writer' = [writer EXCEPT ![w] = LockedWriter(w, c, todo)]
  BY <1>1
<1>3. /\ rowLock' = [rowLock EXCEPT ![c] = w] /\ rowLock[c] = NoOne /\ row[c].exists
      /\ UNCHANGED <<row, rev, log, queue, obLock, trigger>>
  BY DEF AppendLock
<1>4. row[c].nextSeq = Len(log[c]) /\ row[c].nextSeq \in Nat
  BY DEF IInv, TypeOK, RowAgrees, RowStates
<1>5. /\ writer'[w].pc = "locked" /\ writer'[w].case = c /\ writer'[w].seq = Len(log[c])
      /\ writer'[w] \in WriterStates
      /\ \A v \in Writers \ {w} : writer'[v] = writer[v]
  BY <1>2, <1>4 DEF IInv, TypeOK, LockedWriter, WriterStates
<1>6. TypeOK'
  BY <1>2, <1>3, <1>5 DEF IInv, TypeOK
<1>7. WriterHoldsRow' /\ SeqNeverCollides'
  <2> SUFFICES ASSUME NEW v \in Writers, writer'[v].pc = "locked"
               PROVE  /\ rowLock'[writer'[v].case] = v /\ row'[writer'[v].case].exists
                      /\ writer'[v].seq = Len(log'[writer'[v].case])
    BY DEF WriterHoldsRow, SeqNeverCollides
  <2>1. CASE v = w
    BY <2>1, <1>3, <1>5 DEF IInv, TypeOK
  <2>2. CASE v # w
    <3>1. writer'[v] = writer[v] /\ rowLock[writer[v].case] = v /\ writer[v].case \in Cases
      BY <2>2, <1>5, LockedWriterType DEF IInv, WriterHoldsRow
    <3>2. writer[v].case # c
      BY <3>1, <1>3
    <3>3. QED BY <3>1, <3>2, <1>3 DEF IInv, TypeOK, WriterHoldsRow, SeqNeverCollides
  <2>3. QED BY <2>1, <2>2
<1>8. /\ RowAgrees' /\ UnbornIsBlank' /\ TriggerHoldsObligation'
      /\ OneOpenCasePerObligation' /\ OnlyLateActionsOnClosedCases'
  BY <1>3 DEF IInv, RowAgrees, UnbornIsBlank, TriggerHoldsObligation, OpenCasesOf, Open,
              OneOpenCasePerObligation, OnlyLateActionsOnClosedCases
<1>9. QED BY <1>6, <1>7, <1>8 DEF IInv

LEMMA AppendCommitKeeps ==
  ASSUME IInv, NEW w \in Writers, AppendCommit(w)
  PROVE  IInv'
<1> DEFINE c == writer[w].case
<1>1. /\ writer[w].pc = "locked" /\ c \in Cases /\ writer[w].todo \subseteq CaseEvents
      /\ rowLock[c] = w /\ row[c].exists
  BY LockedWriterType DEF AppendCommit, IInv, WriterHoldsRow
<1>2. PICK e \in writer[w].todo : AppendWrites(c, e, writer[w].seq)
  BY DEF AppendCommit
<1>3. e \in CaseEvents
  BY <1>1
<1> HIDE DEF c
<1>4. /\ row' \in [Cases -> RowStates] /\ rev' \in [Cases -> Revisions]
      /\ log' \in [Cases -> Seq(CaseEvents)]
      /\ queue' \in [Cases -> SUBSET [id : Actions, late : BOOLEAN]]
      /\ \A d \in Cases \ {c} : log'[d] = log[d]
  BY <1>1, <1>2, <1>3, AppendEffect DEF IInv
<1>5. /\ RowAgrees' /\ OneOpenCasePerObligation' /\ OnlyLateActionsOnClosedCases'
      /\ \A d \in Cases : row'[d].exists = row[d].exists /\ (Open(d)' => Open(d))
      /\ \A d \in Cases : ~row'[d].exists => row'[d] = NoRow
  BY <1>1, <1>2, <1>3, AppendKeeps
<1>6. /\ rowLock' = [rowLock EXCEPT ![c] = NoOne] /\ writer' = [writer EXCEPT ![w] = Idle]
      /\ UNCHANGED <<obLock, trigger>>
  BY DEF AppendCommit, c
<1>7. TypeOK'
  BY <1>4, <1>6 DEF IInv, TypeOK, WriterStates
<1>8. WriterHoldsRow' /\ SeqNeverCollides'
  <2> SUFFICES ASSUME NEW v \in Writers, writer'[v].pc = "locked"
               PROVE  /\ rowLock'[writer'[v].case] = v /\ row'[writer'[v].case].exists
                      /\ writer'[v].seq = Len(log'[writer'[v].case])
    BY DEF WriterHoldsRow, SeqNeverCollides
  <2>1. v # w /\ writer'[v] = writer[v]
    BY <1>6 DEF IInv, TypeOK, Idle
  <2>2. rowLock[writer[v].case] = v /\ writer[v].case \in Cases
    BY <2>1, LockedWriterType DEF IInv, WriterHoldsRow
  <2>3. writer[v].case # c
    BY <2>1, <2>2, <1>1
  <2>4. QED
    BY <2>1, <2>2, <2>3, <1>4, <1>5, <1>6 DEF IInv, TypeOK, WriterHoldsRow, SeqNeverCollides
<1>9. UnbornIsBlank' /\ TriggerHoldsObligation'
  BY <1>5, <1>6 DEF IInv, TypeOK, UnbornIsBlank, TriggerHoldsObligation, OpenCasesOf
<1>10. QED BY <1>5, <1>7, <1>8, <1>9 DEF IInv

(* The steps that touch neither a log nor a lock they do not own.          *)
LEMMA PlanReadKeeps ==
  ASSUME IInv, NEW w \in Writers, NEW c \in Cases, PlanRead(w, c)
  PROVE  IInv'
<1>1. /\ writer' = [writer EXCEPT ![w] = [pc |-> "planning", case |-> c]]
      /\ UNCHANGED <<row, rev, log, queue, obLock, rowLock, trigger>>
  BY DEF PlanRead
<1>2. TypeOK'
  BY <1>1 DEF IInv, TypeOK, WriterStates
<1>3. WriterHoldsRow' /\ SeqNeverCollides'
  BY <1>1 DEF IInv, TypeOK, WriterHoldsRow, SeqNeverCollides
<1>4. /\ RowAgrees' /\ UnbornIsBlank' /\ TriggerHoldsObligation'
      /\ OneOpenCasePerObligation' /\ OnlyLateActionsOnClosedCases'
  BY <1>1 DEF IInv, RowAgrees, UnbornIsBlank, TriggerHoldsObligation, OpenCasesOf, Open,
              OneOpenCasePerObligation, OnlyLateActionsOnClosedCases
<1>5. QED BY <1>2, <1>3, <1>4 DEF IInv

LEMMA ScheduleKeeps ==
  ASSUME IInv, NEW w \in Writers, NEW a \in Actions, Schedule(w, a)
  PROVE  IInv'
<1> DEFINE c == writer[w].case
           q == [id |-> a, late |-> IsTerminal(row[c].state)]
<1>1. /\ writer' = [writer EXCEPT ![w] = [pc |-> "scheduled", case |-> c]]
      /\ queue' = [queue EXCEPT ![c] = @ \cup {q}]
      /\ UNCHANGED <<row, rev, log, obLock, rowLock, trigger>>
  BY DEF Schedule
<1>2. c \in Cases
  <2>1. writer[w] \in WriterStates /\ writer[w].pc = "planning"
    BY DEF Schedule, IInv, TypeOK
  <2>2. writer[w] \in [pc : {"planning", "scheduled"}, case : Cases]
    BY <2>1 DEF WriterStates, Idle
  <2>3. QED BY <2>2
<1>3. q \in [id : Actions, late : BOOLEAN] /\ q.late = IsTerminal(row[c].state)
  BY DEF IsTerminal
<1> HIDE DEF c, q
<1>4. /\ [pc |-> "scheduled", case |-> c] \in WriterStates
      /\ queue' \in [Cases -> SUBSET [id : Actions, late : BOOLEAN]]
  BY <1>1, <1>2, <1>3 DEF IInv, TypeOK, WriterStates
<1>5. TypeOK'
  BY <1>1, <1>4 DEF IInv, TypeOK
<1>6. WriterHoldsRow' /\ SeqNeverCollides'
  BY <1>1 DEF IInv, TypeOK, WriterHoldsRow, SeqNeverCollides
<1>7. OnlyLateActionsOnClosedCases'
  BY <1>1, <1>2, <1>3 DEF IInv, TypeOK, OnlyLateActionsOnClosedCases
<1>8. /\ RowAgrees' /\ UnbornIsBlank' /\ TriggerHoldsObligation' /\ OneOpenCasePerObligation'
  BY <1>1 DEF IInv, RowAgrees, UnbornIsBlank, TriggerHoldsObligation, OpenCasesOf, Open,
              OneOpenCasePerObligation
<1>9. QED BY <1>5, <1>6, <1>7, <1>8 DEF IInv

LEMMA WriterFailsKeeps ==
  ASSUME IInv, NEW w \in Writers, WriterFails(w)
  PROVE  IInv'
<1>1. /\ writer' = [writer EXCEPT ![w] = Idle]
      /\ rowLock' = [d \in Cases |-> IF rowLock[d] = w THEN NoOne ELSE rowLock[d]]
      /\ UNCHANGED <<row, rev, log, queue, obLock, trigger>>
  BY DEF WriterFails
<1>2. TypeOK'
  BY <1>1 DEF IInv, TypeOK, WriterStates
<1>3. WriterHoldsRow' /\ SeqNeverCollides'
  <2> SUFFICES ASSUME NEW v \in Writers, writer'[v].pc = "locked"
               PROVE  /\ rowLock'[writer'[v].case] = v /\ row'[writer'[v].case].exists
                      /\ writer'[v].seq = Len(log'[writer'[v].case])
    BY DEF WriterHoldsRow, SeqNeverCollides
  <2>1. v # w /\ writer'[v] = writer[v]
    BY <1>1 DEF IInv, TypeOK, Idle
  <2>2. rowLock[writer[v].case] = v /\ writer[v].case \in Cases
    BY <2>1, LockedWriterType DEF IInv, WriterHoldsRow
  <2>3. QED
    BY <2>1, <2>2, <1>1 DEF IInv, WriterHoldsRow, SeqNeverCollides
<1>4. /\ RowAgrees' /\ UnbornIsBlank' /\ TriggerHoldsObligation'
      /\ OneOpenCasePerObligation' /\ OnlyLateActionsOnClosedCases'
  BY <1>1 DEF IInv, RowAgrees, UnbornIsBlank, TriggerHoldsObligation, OpenCasesOf, Open,
              OneOpenCasePerObligation, OnlyLateActionsOnClosedCases
<1>5. QED BY <1>2, <1>3, <1>4 DEF IInv

LEMMA CompleteKeeps ==
  ASSUME IInv, NEW c \in Cases, Complete(c)
  PROVE  IInv'
<1>1. PICK q \in queue[c] : queue' = [queue EXCEPT ![c] = @ \ {q}]
  BY DEF Complete
<1>2. UNCHANGED <<row, rev, log, obLock, rowLock, trigger, writer>>
  BY DEF Complete
<1>3. TypeOK' /\ OnlyLateActionsOnClosedCases'
  BY <1>1, <1>2 DEF IInv, TypeOK, OnlyLateActionsOnClosedCases
<1>4. /\ RowAgrees' /\ UnbornIsBlank' /\ TriggerHoldsObligation'
      /\ WriterHoldsRow' /\ SeqNeverCollides' /\ OneOpenCasePerObligation'
  BY <1>2 DEF IInv, RowAgrees, UnbornIsBlank, TriggerHoldsObligation, OpenCasesOf, Open,
              WriterHoldsRow, SeqNeverCollides, OneOpenCasePerObligation
<1>5. QED BY <1>3, <1>4 DEF IInv

LEMMA RecordDiagnosisKeeps ==
  ASSUME IInv, NEW c \in Cases, NEW t \in Tiers, RecordDiagnosis(c, t)
  PROVE  IInv'
<1>1. /\ row' = [row EXCEPT ![c].tier = t] /\ row[c].exists
      /\ UNCHANGED <<rev, log, queue, obLock, rowLock, trigger, writer>>
  BY DEF RecordDiagnosis
<1>2. row[c] \in RowStates /\ row' = [row EXCEPT ![c] = [row[c] EXCEPT !.tier = t]]
  BY <1>1 DEF IInv, TypeOK
<1>3. row'[c] \in RowStates /\ \A d \in Cases \ {c} : row'[d] = row[d]
  BY <1>2 DEF IInv, TypeOK, RowStates
<1>4. /\ row'[c].exists = row[c].exists /\ row'[c].nextSeq = row[c].nextSeq
      /\ row'[c].state = row[c].state /\ row'[c].closed = row[c].closed
  BY <1>2 DEF IInv, TypeOK, RowStates
<1>5. TypeOK'
  BY <1>1, <1>2, <1>3 DEF IInv, TypeOK
<1>6. \A d \in Cases : Open(d)' = Open(d)
  BY <1>3, <1>4 DEF Open
<1>7. RowAgrees' /\ UnbornIsBlank' /\ OnlyLateActionsOnClosedCases'
  BY <1>1, <1>3, <1>4 DEF IInv, RowAgrees, UnbornIsBlank, OnlyLateActionsOnClosedCases
<1>8. TriggerHoldsObligation' /\ OneOpenCasePerObligation'
  BY <1>1, <1>6 DEF IInv, TriggerHoldsObligation, OpenCasesOf, OneOpenCasePerObligation
<1>9. WriterHoldsRow' /\ SeqNeverCollides'
  BY <1>1, <1>3, <1>4, LockedWriterType DEF IInv, WriterHoldsRow, SeqNeverCollides
<1>10. QED BY <1>5, <1>7, <1>8, <1>9 DEF IInv

-----------------------------------------------------------------------------
LEMMA StutterKeeps == IInv /\ UNCHANGED vars => IInv'
BY DEF IInv, vars, TypeOK, RowAgrees, UnbornIsBlank, WriterHoldsRow, SeqNeverCollides,
       TriggerHoldsObligation, OpenCasesOf, Open, OneOpenCasePerObligation,
       OnlyLateActionsOnClosedCases

LEMMA NextKeeps == IInv /\ [Next]_vars => IInv'
<1> SUFFICES ASSUME IInv, [Next]_vars PROVE IInv'
  OBVIOUS
<1>1. ASSUME NEW c \in Cases, OpenUpsert(c) PROVE IInv'
  BY <1>1, OpenUpsertKeeps
<1>2. ASSUME NEW c \in Cases, OpenSelect(c) PROVE IInv'
  BY <1>2, OpenSelectKeeps
<1>3. ASSUME NEW c \in Cases, OpenInsert(c) PROVE IInv'
  BY <1>3, OpenInsertKeeps
<1>4. ASSUME NEW c \in Cases, OpenAppend(c) PROVE IInv'
  BY <1>4, OpenAppendKeeps
<1>5. ASSUME NEW c \in Cases, OpenFails(c) PROVE IInv'
  BY <1>5, OpenFailsKeeps
<1>6. ASSUME NEW c \in Cases, Complete(c) PROVE IInv'
  BY <1>6, CompleteKeeps
<1>7. ASSUME NEW c \in Cases, NEW t \in Tiers, RecordDiagnosis(c, t) PROVE IInv'
  BY <1>7, RecordDiagnosisKeeps
<1>8. ASSUME NEW w \in Writers, NEW c \in Cases, AppendLock(w, c) PROVE IInv'
  BY <1>8, AppendLockKeeps
<1>9. ASSUME NEW w \in Writers, NEW c \in Cases, PlanRead(w, c) PROVE IInv'
  BY <1>9, PlanReadKeeps
<1>10. ASSUME NEW w \in Writers, AppendCommit(w) PROVE IInv'
  BY <1>10, AppendCommitKeeps
<1>11. ASSUME NEW w \in Writers, NEW a \in Actions, Schedule(w, a) PROVE IInv'
  BY <1>11, ScheduleKeeps
<1>12. ASSUME NEW w \in Writers, WriterFails(w) PROVE IInv'
  BY <1>12, WriterFailsKeeps
<1>13. CASE UNCHANGED vars
  BY <1>13, StutterKeeps
<1>14. QED
  BY <1>1, <1>2, <1>3, <1>4, <1>5, <1>6, <1>7, <1>8, <1>9, <1>10, <1>11, <1>12, <1>13 DEF Next

(* IInv is an invariant of the store.                                      *)
THEOREM Invariance == Spec => []IInv
BY InitEstablishes, NextKeeps, PTL DEF Spec

(* The tables, the locks and the program counters keep their types.        *)
THEOREM TypeCorrect == Spec => []TypeOK
<1>1. IInv => TypeOK
  BY DEF IInv
<1>2. QED BY <1>1, Invariance, PTL

(* openOrAttach never leaves an obligation with two open cases, for any    *)
(* number of racing triggers and wherever they die.                        *)
THEOREM OneOpenCase == Spec => []OneOpenCasePerObligation
<1>1. IInv => OneOpenCasePerObligation
  BY DEF IInv
<1>2. QED BY <1>1, Invariance, PTL

(* The row lock of append makes its snapshot of next_seq the end of the    *)
(* log until it commits.                                                   *)
THEOREM SeqIsEndOfLog == Spec => []SeqNeverCollides
<1>1. IInv => SeqNeverCollides
  BY DEF IInv
<1>2. QED BY <1>1, Invariance, PTL

(* After the terminal write, only a planner that read the case before it   *)
(* can have put an action on the queue.                                    *)
THEOREM NothingQueuedSurvivesClosing == Spec => []OnlyLateActionsOnClosedCases
<1>1. IInv => OnlyLateActionsOnClosedCases
  BY DEF IInv
<1>2. QED BY <1>1, Invariance, PTL

(* What a step may do to a closed case: nothing to its state, and closed_at *)
(* stays set.                                                               *)
LEMMA StepIsFinal ==
  ASSUME IInv, [Next]_vars, NEW c \in Cases
  PROVE  /\ IsTerminal(row[c].state) => row'[c].state = row[c].state
         /\ row[c].closed => row'[c].closed
<1>1. ASSUME NEW d \in Cases, NEW e \in CaseEvents, NEW seq, AppendWrites(d, e, seq)
      PROVE  /\ IsTerminal(row[c].state) => row'[c].state = row[c].state
             /\ row[c].closed => row'[c].closed
  <2>1. /\ \A b \in Cases \ {d} : row'[b] = row[b]
        /\ row[d].closed => row'[d].closed
        /\ IsTerminal(row[d].state) => row'[d].state = row[d].state
    BY <1>1, AppendEffect DEF IInv
  <2>2. QED BY <2>1
<1>2. ASSUME NEW d \in Cases, OpenAppend(d)
      PROVE  /\ IsTerminal(row[c].state) => row'[c].state = row[c].state
             /\ row[c].closed => row'[c].closed
  <2>1. Plain("case_opened") \in CaseEvents
    BY DEF CaseEvents, PlainEvents, Plain, Drives
  <2>2. QED BY <1>1, <1>2, <2>1 DEF OpenAppend
<1>3. ASSUME NEW w \in Writers, AppendCommit(w)
      PROVE  /\ IsTerminal(row[c].state) => row'[c].state = row[c].state
             /\ row[c].closed => row'[c].closed
  <2>1. writer[w].case \in Cases /\ writer[w].todo \subseteq CaseEvents
    BY <1>3, LockedWriterType DEF IInv, AppendCommit
  <2>2. PICK e \in writer[w].todo : AppendWrites(writer[w].case, e, writer[w].seq)
    BY <1>3 DEF AppendCommit
  <2>3. QED BY <1>1, <2>1, <2>2
<1>4. ASSUME NEW d \in Cases, OpenInsert(d)
      PROVE  /\ IsTerminal(row[c].state) => row'[c].state = row[c].state
             /\ row[c].closed => row'[c].closed
  <2>1. row[d] = NoRow /\ row' = [row EXCEPT ![d] = [NoRow EXCEPT !.exists = TRUE]]
    BY <1>4 DEF IInv, UnbornIsBlank, OpenInsert
  <2>2. row[d].state = "DETECTED" /\ row[d].closed = FALSE
    BY <2>1 DEF NoRow
  <2>3. ~IsTerminal("DETECTED")
    BY DEF IsTerminal, TerminalStates
  <2>4. QED BY <2>1, <2>2, <2>3 DEF IInv, TypeOK
<1>5. ASSUME NEW d \in Cases, NEW t \in Tiers, RecordDiagnosis(d, t)
      PROVE  /\ IsTerminal(row[c].state) => row'[c].state = row[c].state
             /\ row[c].closed => row'[c].closed
  BY <1>5 DEF IInv, TypeOK, RowStates, RecordDiagnosis
<1>6. CASE UNCHANGED row
  BY <1>6
<1>7. QED
  BY <1>2, <1>3, <1>4, <1>5, <1>6
     DEF Next, vars, OpenUpsert, OpenSelect, OpenFails, Complete, AppendLock, PlanRead, Schedule,
         WriterFails

(* A closed case is never reopened and never changes how it ended.         *)
THEOREM ClosedIsFinal == Spec => TerminalIsFinal
<1>1. IInv /\ [Next]_vars =>
        [\A c \in Cases :
           /\ IsTerminal(row[c].state) => row'[c].state = row[c].state
           /\ row[c].closed => row'[c].closed]_vars
  BY StepIsFinal
<1>2. QED BY <1>1, Invariance, PTL DEF Spec, TerminalIsFinal

-----------------------------------------------------------------------------
(* Replay.  A fold of a log is the function reduceAll goes through; that   *)
(* there is one, and that each ends in the stored revision, is kept by     *)
(* every append.                                                           *)
IsFold(f, l) ==
  f = [n \in 0..Len(l) |-> IF n = 0 THEN InitialRevision ELSE Reduce(f[n - 1], l[n])]

FoldsTo(l, r) ==
  /\ \E f : IsFold(f, l)
  /\ \A f : IsFold(f, l) => f[Len(l)] = r

LEMMA ReplayIs ==
  ASSUME NEW l, NEW r, FoldsTo(l, r)
  PROVE  ReduceAll(l) = r
<1> DEFINE g == CHOOSE f : IsFold(f, l)
<1>1. IsFold(g, l)
  BY Zenon DEF FoldsTo
<1>2. ReduceAll(l) = g[Len(l)]
  BY Zenon DEF ReduceAll, IsFold
<1>3. QED BY <1>1, <1>2 DEF FoldsTo

LEMMA EmptyFolds == FoldsTo(<<>>, InitialRevision)
<1>1. \A f : IsFold(f, <<>>) => f[0] = InitialRevision
  BY DEF IsFold
<1>2. IsFold([n \in 0..0 |-> InitialRevision], <<>>)
  BY DEF IsFold
<1>3. QED BY <1>1, <1>2 DEF FoldsTo

LEMMA AppendFolds ==
  ASSUME NEW l \in Seq(CaseEvents), NEW r, NEW e \in CaseEvents, FoldsTo(l, r)
  PROVE  FoldsTo(Append(l, e), Reduce(r, e))
<1> DEFINE k == Len(l)
           m == Append(l, e)
<1>1. /\ k \in Nat /\ Len(m) = k + 1
      /\ m[k + 1] = e /\ \A n \in 1..k : m[n] = l[n]
  OBVIOUS
<1> HIDE DEF k, m
<1>2. ASSUME NEW f, IsFold(f, m) PROVE f[k + 1] = Reduce(r, e)
  <2> DEFINE g == [n \in 0..k |-> f[n]]
  <2>1. f[0] = InitialRevision /\ \A n \in 1..(k + 1) : f[n] = Reduce(f[n - 1], m[n])
    BY <1>1, <1>2 DEF IsFold
  <2>2. IsFold(g, l)
    BY <1>1, <2>1 DEF IsFold, k
  <2>3. g[k] = r
    BY <2>2 DEF FoldsTo, k
  <2>4. QED BY <1>1, <2>1, <2>3
<1>3. \E f : IsFold(f, m)
  <2>1. PICK g : IsFold(g, l)
    BY DEF FoldsTo
  <2>2. g[0] = InitialRevision /\ \A n \in 1..k : g[n] = Reduce(g[n - 1], l[n])
    BY <1>1, <2>1 DEF IsFold, k
  <2> DEFINE f == [n \in 0..(k + 1) |-> IF n <= k THEN g[n] ELSE Reduce(g[k], e)]
  <2>3. f[0] = InitialRevision /\ \A n \in 1..(k + 1) : f[n] = Reduce(f[n - 1], m[n])
    <3>1. f[0] = g[0] /\ f[k + 1] = Reduce(g[k], e)
      BY <1>1
    <3>2. \A n \in 0..k : f[n] = g[n]
      BY <1>1
    <3> HIDE DEF f
    <3>3. ASSUME NEW n \in 1..(k + 1) PROVE f[n] = Reduce(f[n - 1], m[n])
      <4>1. n - 1 \in 0..k /\ f[n - 1] = g[n - 1]
        BY <1>1, <3>2
      <4>2. CASE n = k + 1
        <5>1. n - 1 = k
          BY <1>1, <4>2
        <5>2. QED BY <1>1, <3>1, <4>1, <4>2, <5>1
      <4>3. CASE n # k + 1
        <5>1. n \in 1..k /\ n \in 0..k
          BY <1>1, <4>3
        <5>2. QED BY <1>1, <2>2, <3>2, <4>1, <5>1
      <4>4. QED BY <4>2, <4>3
    <3>4. QED BY <2>2, <3>1, <3>3
  <2>4. f = [n \in 0..Len(m) |-> f[n]]
    BY <1>1
  <2> HIDE DEF f
  <2>5. \A n \in 0..Len(m) :
          f[n] = IF n = 0 THEN InitialRevision ELSE Reduce(f[n - 1], m[n])
    BY <1>1, <2>3
  <2>6. [n \in 0..Len(m) |-> f[n]]
          = [n \in 0..Len(m) |-> IF n = 0 THEN InitialRevision ELSE Reduce(f[n - 1], m[n])]
    BY <2>5, Zenon
  <2>7. IsFold(f, m)
    BY <2>4, <2>6, Zenon DEF IsFold
  <2>8. QED BY <2>7
<1>4. QED BY <1>1, <1>2, <1>3 DEF FoldsTo, k, m

(* What of the row append copies from the revision, and what the revision  *)
(* is of the log.                                                          *)
Replayed ==
  \A c \in Cases :
    /\ FoldsTo(log[c], rev[c])
    /\ rev[c].revision = Len(log[c])
    /\ row[c].incident = rev[c].incident
    /\ row[c].reason = rev[c].reason

LEMMA InitReplayed == Init => Replayed
<1> SUFFICES ASSUME Init, NEW c \in Cases
             PROVE  /\ FoldsTo(log[c], rev[c])
                    /\ rev[c].revision = Len(log[c])
                    /\ row[c].incident = rev[c].incident
                    /\ row[c].reason = rev[c].reason
  BY DEF Replayed
<1>1. log[c] = <<>> /\ rev[c] = InitialRevision /\ row[c] = NoRow
  BY DEF Init
<1>2. FoldsTo(log[c], rev[c])
  BY <1>1, EmptyFolds
<1>3. Len(log[c]) = 0
  BY <1>1
<1>4. QED BY <1>1, <1>2, <1>3 DEF NoRow, InitialRevision

LEMMA AppendReplays ==
  ASSUME IInv, Replayed,
         NEW c \in Cases, NEW e \in CaseEvents, NEW seq, AppendWrites(c, e, seq)
  PROVE  Replayed'
<1> DEFINE next == Reduce(rev[c], e)
<1>1. log[c] \in Seq(CaseEvents) /\ rev[c].revision = Len(log[c]) /\ FoldsTo(log[c], rev[c])
  BY DEF IInv, TypeOK, Replayed
<1>2. next.revision = rev[c].revision + 1
  BY DEF Reduce
<1>3. FoldsTo(Append(log[c], e), next)
  BY <1>1, AppendFolds
<1> HIDE DEF next
<1>4. row'[c] = RowAfter(row[c], next) /\ rev'[c] = next /\ log'[c] = Append(log[c], e)
  BY Zenon DEF AppendWrites, next, IInv, TypeOK
<1>5. \A d \in Cases \ {c} : row'[d] = row[d] /\ rev'[d] = rev[d] /\ log'[d] = log[d]
  BY DEF AppendWrites, IInv, TypeOK
<1>6. /\ FoldsTo(log'[c], rev'[c])
      /\ rev'[c].revision = Len(log'[c])
      /\ row'[c].incident = rev'[c].incident
      /\ row'[c].reason = rev'[c].reason
  BY <1>1, <1>2, <1>3, <1>4 DEF RowAfter
<1>7. QED BY <1>5, <1>6 DEF Replayed

LEMMA StepReplayed == IInv /\ Replayed /\ [Next]_vars => Replayed'
<1> SUFFICES ASSUME IInv, Replayed, [Next]_vars PROVE Replayed'
  OBVIOUS
<1>1. ASSUME NEW c \in Cases, OpenAppend(c) PROVE Replayed'
  <2>1. Plain("case_opened") \in CaseEvents
    BY DEF CaseEvents, PlainEvents, Plain, Drives
  <2>2. QED BY <1>1, <2>1, AppendReplays DEF OpenAppend
<1>2. ASSUME NEW w \in Writers, AppendCommit(w) PROVE Replayed'
  <2>1. writer[w].case \in Cases /\ writer[w].todo \subseteq CaseEvents
    BY <1>2, LockedWriterType DEF IInv, AppendCommit
  <2>2. PICK e \in writer[w].todo : AppendWrites(writer[w].case, e, writer[w].seq)
    BY <1>2 DEF AppendCommit
  <2>3. QED BY <2>1, <2>2, AppendReplays
<1>3. ASSUME UNCHANGED <<rev, log>>,
             \A c \in Cases : row'[c].incident = row[c].incident /\ row'[c].reason = row[c].reason
      PROVE  Replayed'
  BY <1>3 DEF Replayed
<1>4. ASSUME NEW c \in Cases, OpenInsert(c) PROVE Replayed'
  <2>1. row[c] = NoRow /\ row' = [row EXCEPT ![c] = [NoRow EXCEPT !.exists = TRUE]]
    BY <1>4 DEF IInv, UnbornIsBlank, OpenInsert
  <2>2. \A d \in Cases : row'[d].incident = row[d].incident /\ row'[d].reason = row[d].reason
    BY <2>1 DEF IInv, TypeOK, NoRow
  <2>3. QED BY <1>3, <1>4, <2>2 DEF OpenInsert
<1>5. ASSUME NEW c \in Cases, NEW t \in Tiers, RecordDiagnosis(c, t) PROVE Replayed'
  <2>1. \A d \in Cases : row'[d].incident = row[d].incident /\ row'[d].reason = row[d].reason
    BY <1>5 DEF IInv, TypeOK, RowStates, RecordDiagnosis
  <2>2. QED BY <1>3, <1>5, <2>1 DEF RecordDiagnosis
<1>6. CASE UNCHANGED <<row, rev, log>>
  BY <1>3, <1>6
<1>7. QED
  BY <1>1, <1>2, <1>4, <1>5, <1>6
     DEF Next, vars, OpenUpsert, OpenSelect, OpenFails, Complete, AppendLock, PlanRead, Schedule,
         WriterFails

(* Folding the log of a case gives the stored revision, and the row agrees *)
(* with it, for logs of any length and any interleaving of their writers   *)
(* (CaseEventStore.replay, and the fold inside append).                    *)
THEOREM ReplayAgrees == Spec => []ReplayReproducesRow
<1>1. IInv /\ Replayed => ReplayReproducesRow
  BY ReplayIs DEF IInv, RowAgrees, Replayed, Replay, ReplayReproducesRow
<1>2. QED BY <1>1, Invariance, InitReplayed, StepReplayed, PTL DEF Spec
-----------------------------------------------------------------------------
(* The registry.  Whoever plans for a case has seen it in the table, and no *)
(* queue holds an id twice.                                                *)
PlannerKnowsCase ==
  \A w \in Writers :
    writer[w].pc \in {"planning", "scheduled"} => writer[w].case \in Cases /\ row[writer[w].case].exists

QueuedOnce == \A c \in Cases : \A p, q \in queue[c] : p.id = q.id => p = q

RowsStay == \A c \in Cases : row[c].exists => row'[c].exists

(* A case row is never deleted.                                            *)
LEMMA StepKeepsRows == IInv /\ [Next]_vars => RowsStay
<1> SUFFICES ASSUME IInv, [Next]_vars PROVE RowsStay
  OBVIOUS
<1>1. ASSUME NEW d \in Cases, NEW e \in CaseEvents, NEW seq, AppendWrites(d, e, seq)
      PROVE  RowsStay
  <2>1. /\ \A b \in Cases \ {d} : row'[b] = row[b]
        /\ row'[d].exists = row[d].exists
    BY <1>1, AppendEffect DEF IInv
  <2>2. QED BY <2>1 DEF RowsStay
<1>2. ASSUME NEW d \in Cases, OpenAppend(d) PROVE RowsStay
  <2>1. Plain("case_opened") \in CaseEvents
    BY DEF CaseEvents, PlainEvents, Plain, Drives
  <2>2. QED BY <1>1, <1>2, <2>1 DEF OpenAppend
<1>3. ASSUME NEW w \in Writers, AppendCommit(w) PROVE RowsStay
  <2>1. writer[w].case \in Cases /\ writer[w].todo \subseteq CaseEvents
    BY <1>3, LockedWriterType DEF IInv, AppendCommit
  <2>2. PICK e \in writer[w].todo : AppendWrites(writer[w].case, e, writer[w].seq)
    BY <1>3 DEF AppendCommit
  <2>3. QED BY <1>1, <2>1, <2>2
<1>4. ASSUME NEW d \in Cases, OpenInsert(d) PROVE RowsStay
  BY <1>4 DEF IInv, TypeOK, OpenInsert, RowsStay
<1>5. ASSUME NEW d \in Cases, NEW t \in Tiers, RecordDiagnosis(d, t) PROVE RowsStay
  BY <1>5 DEF IInv, TypeOK, RowStates, RecordDiagnosis, RowsStay
<1>6. CASE UNCHANGED row
  BY <1>6 DEF RowsStay
<1>7. QED
  BY <1>2, <1>3, <1>4, <1>5, <1>6
     DEF Next, vars, OpenUpsert, OpenSelect, OpenFails, Complete, AppendLock, PlanRead, Schedule,
         WriterFails

LEMMA StepKeepsPlanners ==
  ASSUME IInv, PlannerKnowsCase, [Next]_vars
  PROVE  PlannerKnowsCase'
<1>1. \A c \in Cases : row[c].exists => row'[c].exists
  BY StepKeepsRows DEF RowsStay
<1>2. ASSUME NEW w \in Writers,
             \A v \in Writers \ {w} : writer'[v] = writer[v],
             writer'[w].pc \in {"planning", "scheduled"}
                => writer'[w].case \in Cases /\ row[writer'[w].case].exists
      PROVE  PlannerKnowsCase'
  BY <1>1, <1>2 DEF PlannerKnowsCase
<1>3. CASE UNCHANGED writer
  BY <1>1, <1>3 DEF PlannerKnowsCase
<1>4. ASSUME NEW w \in Writers, NEW c \in Cases, AppendLock(w, c) PROVE PlannerKnowsCase'
  <2>1. PICK todo : writer' = [writer EXCEPT ![w] = LockedWriter(w, c, todo)]
    BY <1>4 DEF AppendLock
  <2>2. writer'[w].pc = "locked" /\ \A v \in Writers \ {w} : writer'[v] = writer[v]
    BY <2>1 DEF IInv, TypeOK, LockedWriter
  <2>3. QED BY <2>2, <1>2
<1>5. ASSUME NEW w \in Writers, NEW c \in Cases, PlanRead(w, c) PROVE PlannerKnowsCase'
  <2>1. writer'[w].case = c /\ \A v \in Writers \ {w} : writer'[v] = writer[v]
    BY <1>5 DEF IInv, TypeOK, PlanRead
  <2>2. QED BY <2>1, <1>2, <1>5 DEF PlanRead
<1>6. ASSUME NEW w \in Writers, AppendCommit(w) \/ WriterFails(w) PROVE PlannerKnowsCase'
  <2>1. writer'[w] = Idle /\ \A v \in Writers \ {w} : writer'[v] = writer[v]
    BY <1>6 DEF IInv, TypeOK, AppendCommit, WriterFails
  <2>2. QED BY <2>1, <1>2 DEF Idle
<1>7. ASSUME NEW w \in Writers, NEW a \in Actions, Schedule(w, a) PROVE PlannerKnowsCase'
  <2>1. writer[w].case \in Cases /\ row[writer[w].case].exists
    BY <1>7 DEF Schedule, PlannerKnowsCase
  <2>2. writer'[w].case = writer[w].case /\ \A v \in Writers \ {w} : writer'[v] = writer[v]
    BY <1>7 DEF IInv, TypeOK, Schedule
  <2>3. QED BY <2>1, <2>2, <1>2
<1>8. QED
  BY <1>3, <1>4, <1>5, <1>6, <1>7
     DEF Next, vars, OpenUpsert, OpenSelect, OpenInsert, OpenAppend, OpenFails, Complete, RecordDiagnosis

LEMMA StepKeepsIds ==
  ASSUME IInv, QueuedOnce, [Next]_vars
  PROVE  QueuedOnce'
<1>1. ASSUME \A d \in Cases : queue'[d] \subseteq queue[d] PROVE QueuedOnce'
  BY <1>1 DEF QueuedOnce
<1>2. ASSUME NEW d \in Cases, NEW e \in CaseEvents, NEW seq, AppendWrites(d, e, seq)
      PROVE  QueuedOnce'
  <2>1. queue' = [queue EXCEPT ![d] = QueueAfter(queue[d], Reduce(rev[d], e))]
    BY <1>2 DEF AppendWrites
  <2>2. \A b \in Cases : queue'[b] \subseteq queue[b]
    BY <2>1 DEF IInv, TypeOK, QueueAfter
  <2>3. QED BY <2>2, <1>1
<1>3. ASSUME NEW d \in Cases, OpenAppend(d) PROVE QueuedOnce'
  <2>1. Plain("case_opened") \in CaseEvents
    BY DEF CaseEvents, PlainEvents, Plain, Drives
  <2>2. QED BY <1>2, <1>3, <2>1 DEF OpenAppend
<1>4. ASSUME NEW w \in Writers, AppendCommit(w) PROVE QueuedOnce'
  <2>1. writer[w].case \in Cases /\ writer[w].todo \subseteq CaseEvents
    BY <1>4, LockedWriterType DEF IInv, AppendCommit
  <2>2. PICK e \in writer[w].todo : AppendWrites(writer[w].case, e, writer[w].seq)
    BY <1>4 DEF AppendCommit
  <2>3. QED BY <1>2, <2>1, <2>2
<1>5. ASSUME NEW c \in Cases, Complete(c) PROVE QueuedOnce'
  <2>1. \A d \in Cases : queue'[d] \subseteq queue[d]
    BY <1>5 DEF IInv, TypeOK, Complete
  <2>2. QED BY <2>1, <1>1
<1>6. ASSUME NEW w \in Writers, NEW a \in Actions, Schedule(w, a) PROVE QueuedOnce'
  <2> DEFINE new == [id |-> a, late |-> IsTerminal(row[writer[w].case].state)]
  <2>1. \A d \in Cases : queue'[d] = IF d = writer[w].case THEN queue[d] \cup {new} ELSE queue[d]
    BY <1>6 DEF IInv, TypeOK, Schedule
  <2>2. \A d \in Cases : \A q \in queue[d] : q.id # a
    BY <1>6 DEF Schedule
  <2>3. new.id = a
    OBVIOUS
  <2> HIDE DEF new
  <2> SUFFICES ASSUME NEW d \in Cases, NEW p \in queue'[d], NEW q \in queue'[d], p.id = q.id
               PROVE  p = q
    BY DEF QueuedOnce
  <2>4. (p \in queue[d] \/ p = new) /\ (q \in queue[d] \/ q = new)
    BY <2>1
  <2>5. p \in queue[d] /\ q \in queue[d] => p = q
    BY DEF QueuedOnce
  <2>6. QED BY <2>2, <2>3, <2>4, <2>5
<1>7. CASE UNCHANGED queue
  BY <1>7 DEF QueuedOnce
<1>8. QED
  BY <1>3, <1>4, <1>5, <1>6, <1>7
     DEF Next, vars, OpenUpsert, OpenSelect, OpenInsert, OpenFails, AppendLock, PlanRead,
         RecordDiagnosis, WriterFails

LEMMA PlansInvariance == Spec => [](PlannerKnowsCase /\ QueuedOnce)
<1>1. Init => PlannerKnowsCase /\ QueuedOnce
  BY DEF Init, PlannerKnowsCase, QueuedOnce, Idle
<1>2. IInv /\ PlannerKnowsCase /\ QueuedOnce /\ [Next]_vars => PlannerKnowsCase' /\ QueuedOnce'
  BY StepKeepsPlanners, StepKeepsIds
<1>3. QED BY <1>1, <1>2, Invariance, PTL DEF Spec

-----------------------------------------------------------------------------
(* Step by step, the store does what CaseRegistry allows or nothing it sees. *)
LEMMA InitRefines == Init => Promised!Init
<1> SUFFICES ASSUME Init PROVE Promised!Init
  OBVIOUS
<1>1. {c \in Cases : row[c].exists} = {} /\ {c \in Cases : row[c].closed} = {}
  BY DEF Init, NoRow
<1>2. [c \in Cases |-> rev[c].state] = [c \in Cases |-> "DETECTED"]
  BY DEF Init, InitialRevision
<1>3. [c \in Cases |-> {q.id : q \in queue[c]}] = [c \in Cases |-> {}]
  BY DEF Init
<1>4. QED BY <1>1, <1>2, <1>3 DEF Promised!Init

(* The append of one event, in a transaction of its own or of openOrAttach. *)
LEMMA AppendRefines ==
  ASSUME IInv, NEW c \in Cases, NEW e \in CaseEvents, NEW seq, AppendWrites(c, e, seq), row[c].exists
  PROVE  Promised!Next
<1> DEFINE next == Reduce(rev[c], e)
           opn == {d \in Cases : row[d].exists}
           cld == {d \in Cases : row[d].closed}
           st == [d \in Cases |-> rev[d].state]
           qd == [d \in Cases |-> {q.id : q \in queue[d]}]
<1>1. rev[c] \in Revisions /\ row[c] \in RowStates /\ TypeOK
  BY DEF IInv, TypeOK
<1>2. next \in Revisions
  BY <1>1, ReduceType
<1>3. /\ next.state = TargetState(e, rev[c].state)
      /\ next.reason = (rev[c].reason \/ e.type = "terminal_reached")
  BY DEF Reduce
<1>4. row[c].closed = rev[c].reason
  BY DEF IInv, RowAgrees
<1>5. e.type = "terminal_reached" => next.state \in TerminalStates
  <2>1. e.type = "terminal_reached" => e \in TerminalEvents
    BY DEF CaseEvents, PlainEvents, DiagnosisEvents, Drives
  <2>2. e \in TerminalEvents => e.state \in TerminalStates
    BY DEF TerminalEvents
  <2>3. QED BY <2>1, <2>2, <1>3 DEF TargetState
<1>6. CanTransition(rev[c].state, next.state)
  BY <1>3 DEF AppendWrites, Accepts
<1> HIDE DEF next
<1>7. /\ row'[c] = RowAfter(row[c], next)
      /\ rev'[c] = next
      /\ queue'[c] = QueueAfter(queue[c], next)
  BY Zenon, <1>1 DEF AppendWrites, next, TypeOK
<1>8. /\ \A d \in Cases \ {c} : row'[d] = row[d] /\ rev'[d] = rev[d] /\ queue'[d] = queue[d]
      /\ row'[c].exists = row[c].exists
      /\ row'[c].closed = (row[c].closed \/ next.reason)
  <2>1. \A d \in Cases \ {c} : row'[d] = row[d] /\ rev'[d] = rev[d] /\ queue'[d] = queue[d]
    BY <1>1 DEF AppendWrites, TypeOK
  <2>2. QED BY <2>1, <1>7 DEF RowAfter
<1>9. opn' = opn /\ c \in opn
  BY <1>8
<1>10. <<rev[c].state, next.state>> \in Moves
  BY <1>1, <1>2, <1>6 DEF Moves, Revisions
<1>11. rev[c].state \in TerminalStates => next.state = rev[c].state
  BY <1>6 DEF CanTransition, IsTerminal
<1>12. st' = [st EXCEPT ![c] = next.state]
  BY <1>7, <1>8
<1>13. cld' \in {cld} \cup (IF next.state \in TerminalStates THEN {cld \cup {c}} ELSE {})
  <2>1. CASE e.type = "terminal_reached"
    <3>1. row'[c].closed
      BY <2>1, <1>3, <1>8
    <3>2. cld' = cld \cup {c}
      BY <3>1, <1>8
    <3>3. QED BY <2>1, <3>2, <1>5
  <2>2. CASE e.type # "terminal_reached"
    <3>1. row'[c].closed <=> row[c].closed
      BY <2>2, <1>1, <1>3, <1>4, <1>8 DEF RowStates
    <3>2. cld' = cld
      BY <3>1, <1>8
    <3>3. QED BY <3>2
  <2>3. QED BY <2>1, <2>2
<1>14. qd' = IF next.state \in TerminalStates THEN [qd EXCEPT ![c] = {}] ELSE qd
  <2>1. \A d \in Cases : qd'[d] = IF next.state \in TerminalStates /\ d = c THEN {} ELSE qd[d]
    BY <1>7, <1>8 DEF QueueAfter, IsTerminal
  <2>2. qd = [d \in Cases |-> qd[d]] /\ qd' = [d \in Cases |-> qd'[d]]
    OBVIOUS
  <2> HIDE DEF qd
  <2>3. QED BY <2>1, <2>2
<1>15. st[c] = rev[c].state /\ st'[c] = next.state
  BY <1>7
<1> HIDE DEF opn, cld, st, qd
<1>16. Promised!Append(c)
  BY <1>9, <1>10, <1>11, <1>12, <1>13, <1>14, <1>15 DEF Promised!Append, opn, cld, st, qd
<1>17. QED BY <1>16 DEF Promised!Next

LEMMA NextRefines ==
  ASSUME IInv, PlannerKnowsCase, QueuedOnce, [Next]_vars
  PROVE  [Promised!Next]_Promised!vars
<1> DEFINE opn == {d \in Cases : row[d].exists}
           cld == {d \in Cases : row[d].closed}
           st == [d \in Cases |-> rev[d].state]
           qd == [d \in Cases |-> {q.id : q \in queue[d]}]
<1>1. TypeOK
  BY DEF IInv
<1>2. ASSUME UNCHANGED <<rev, queue>>,
             \A d \in Cases : row'[d].exists = row[d].exists /\ row'[d].closed = row[d].closed
      PROVE  UNCHANGED Promised!vars
  <2>1. opn' = opn /\ cld' = cld /\ st' = st /\ qd' = qd
    BY <1>2
  <2>2. QED BY <2>1 DEF Promised!vars
<1>3. ASSUME NEW c \in Cases, NEW e \in CaseEvents, NEW seq, AppendWrites(c, e, seq), row[c].exists
      PROVE  Promised!Next
  BY <1>3, AppendRefines
<1>4. ASSUME NEW c \in Cases, OpenAppend(c) PROVE Promised!Next
  <2>1. Plain("case_opened") \in CaseEvents /\ row[c].exists
    BY <1>4 DEF CaseEvents, PlainEvents, Plain, Drives, IInv, UnbornIsBlank, OpenAppend
  <2>2. QED BY <1>3, <1>4, <2>1 DEF OpenAppend
<1>5. ASSUME NEW w \in Writers, AppendCommit(w) PROVE Promised!Next
  <2>1. writer[w].case \in Cases /\ writer[w].todo \subseteq CaseEvents /\ row[writer[w].case].exists
    BY <1>5, LockedWriterType DEF IInv, AppendCommit, WriterHoldsRow
  <2>2. PICK e \in writer[w].todo : AppendWrites(writer[w].case, e, writer[w].seq)
    BY <1>5 DEF AppendCommit
  <2>3. QED BY <1>3, <2>1, <2>2
<1>6. ASSUME NEW c \in Cases, OpenInsert(c) PROVE Promised!Next
  <2>1. row[c] = NoRow /\ row'[c] = [NoRow EXCEPT !.exists = TRUE]
    BY <1>6 DEF IInv, TypeOK, UnbornIsBlank, OpenInsert
  <2>2. ~row[c].exists /\ row'[c].exists /\ ~row[c].closed /\ ~row'[c].closed
    BY <2>1 DEF NoRow
  <2>3. \A d \in Cases \ {c} : row'[d] = row[d]
    BY <1>6, <1>1 DEF OpenInsert, TypeOK
  <2>4. opn' = opn \cup {c} /\ c \notin opn /\ cld' = cld
    BY <2>2, <2>3
  <2>5. OpenCasesOf(ObligationOf[c]) = {}
    BY <1>6 DEF IInv, TriggerHoldsObligation, OpenInsert
  <2>6. \A d \in opn \ cld : ObligationOf[d] # ObligationOf[c]
    BY <2>5 DEF OpenCasesOf, Open
  <2>7. st' = st /\ qd' = qd
    BY <1>6 DEF OpenInsert
  <2> HIDE DEF opn, cld, st, qd
  <2>8. Promised!Open(c)
    BY <2>4, <2>6, <2>7 DEF Promised!Open, opn, cld, st, qd
  <2>9. QED BY <2>8 DEF Promised!Next
<1>7. ASSUME NEW w \in Writers, NEW a \in Actions, Schedule(w, a) PROVE Promised!Next
  <2> DEFINE c == writer[w].case
             new == [id |-> a, late |-> IsTerminal(row[c].state)]
  <2>1. c \in Cases /\ row[c].exists
    BY <1>7 DEF Schedule, PlannerKnowsCase
  <2>2. queue' = [queue EXCEPT ![c] = @ \cup {new}] /\ UNCHANGED <<row, rev>>
    BY <1>7 DEF Schedule
  <2>3. new.id = a
    OBVIOUS
  <2>4. \A d \in Cases : \A q \in queue[d] : q.id # a
    BY <1>7 DEF Schedule
  <2> HIDE DEF new, c
  <2>5. \A d \in Cases : queue'[d] = IF d = c THEN queue[d] \cup {new} ELSE queue[d]
    BY <2>1, <2>2, <1>1 DEF TypeOK
  <2>6. \A d \in Cases : qd'[d] = IF d = c THEN qd[d] \cup {a} ELSE qd[d]
    BY <2>3, <2>5
  <2>7. qd = [d \in Cases |-> qd[d]] /\ qd' = [d \in Cases |-> qd'[d]]
    OBVIOUS
  <2>8. \A d \in Cases : a \notin qd[d]
    BY <2>4
  <2>9. opn' = opn /\ cld' = cld /\ st' = st /\ c \in opn
    BY <2>1, <2>2
  <2> HIDE DEF opn, cld, st, qd
  <2>10. qd' = [qd EXCEPT ![c] = @ \cup {a}]
    BY <2>6, <2>7
  <2>11. Promised!Queue(c, a)
    BY <2>8, <2>9, <2>10 DEF Promised!Queue, opn, cld, st, qd
  <2>12. QED BY <2>1, <2>11 DEF Promised!Next
<1>8. ASSUME NEW c \in Cases, Complete(c) PROVE Promised!Next
  <2>1. PICK p \in queue[c] : queue' = [queue EXCEPT ![c] = @ \ {p}]
    BY <1>8 DEF Complete
  <2>2. UNCHANGED <<row, rev>> /\ p.id \in Actions
    BY <1>8, <1>1 DEF Complete, TypeOK
  <2>3. \A d \in Cases : queue'[d] = IF d = c THEN queue[d] \ {p} ELSE queue[d]
    BY <2>1, <1>1 DEF TypeOK
  <2>4. \A q \in queue[c] : q.id = p.id => q = p
    BY DEF QueuedOnce
  <2>5. \A d \in Cases : qd'[d] = IF d = c THEN qd[d] \ {p.id} ELSE qd[d]
    BY <2>3, <2>4
  <2>6. qd = [d \in Cases |-> qd[d]] /\ qd' = [d \in Cases |-> qd'[d]]
    OBVIOUS
  <2>7. opn' = opn /\ cld' = cld /\ st' = st /\ p.id \in qd[c]
    BY <2>2
  <2> HIDE DEF opn, cld, st, qd
  <2>8. qd' = [qd EXCEPT ![c] = @ \ {p.id}]
    BY <2>5, <2>6
  <2>9. Promised!Settle(c, p.id)
    BY <2>7, <2>8 DEF Promised!Settle, opn, cld, st, qd
  <2>10. QED BY <2>2, <2>9 DEF Promised!Next
<1>9. ASSUME NEW c \in Cases, NEW t \in Tiers, RecordDiagnosis(c, t) PROVE UNCHANGED Promised!vars
  <2>1. \A d \in Cases : row'[d].exists = row[d].exists /\ row'[d].closed = row[d].closed
    BY <1>9, <1>1 DEF RecordDiagnosis, TypeOK, RowStates
  <2>2. QED BY <2>1, <1>2, <1>9 DEF RecordDiagnosis
<1>10. CASE UNCHANGED <<row, rev, queue>>
  BY <1>2, <1>10
<1>11. QED
  BY <1>4, <1>5, <1>6, <1>7, <1>8, <1>9, <1>10
     DEF Next, vars, OpenUpsert, OpenSelect, OpenFails, AppendLock, PlanRead, WriterFails

(* The two transactions of openOrAttach and the lock and snapshot of       *)
(* append, with all the ways they die, implement CaseRegistry: opening is  *)
(* one step that sees no open case of the obligation, and ending a case    *)
(* takes what is queued for it along.                                      *)
THEOREM StoreKeepsPromise == Spec => ImplementsRegistry
<1>1. Init => Promised!Init
  BY InitRefines
<1>2. IInv /\ PlannerKnowsCase /\ QueuedOnce /\ [Next]_vars => [Promised!Next]_Promised!vars
  BY NextRefines
<1>3. QED
  BY <1>1, <1>2, Invariance, PlansInvariance, PTL DEF Spec, ImplementsRegistry, Promised!Spec
=============================================================================
