--------------------------- MODULE SchedulerProofs ---------------------------
(***************************************************************************)
(* Theorems about Scheduler, for any rows, cases and workers, any limit    *)
(* and lease, and any bounds.                                              *)
(***************************************************************************)
EXTENDS Scheduler, TLAPS

RowType ==
  [state : {"absent", "pending", "leased", "done", "cancelled"}, owner : Workers \cup {NoOne},
   expiry : Nat, attempts : Nat, late : BOOLEAN]

(* The strengthening.  A selected row is pending and in one tick only;     *)
(* what a worker runs has been run.  A row in a hand has been leased, and  *)
(* one in two hands has been leased twice.  A lease that has not run out   *)
(* still stands in the table, unless the row is settled, or a worker that  *)
(* held it from an earlier lease has given it back.                        *)
LockedIsPending == \A w \in Workers : \A r \in locked[w] : row[r].state = "pending"
LockedApart == \A v, w \in Workers : v # w => locked[v] \cap locked[w] = {}
BusyWasRun == \A w \in Workers : busy[w] \subseteq ran

HeldWasLeased ==
  \A w \in Workers : \A h \in hand[w] : row[h.id].attempts >= 1 /\ row[h.id].state # "absent"
SharedIsSecond ==
  \A v, w \in Workers : v # w =>
    \A g \in hand[v], h \in hand[w] : g.id = h.id => row[g.id].attempts >= 2

OnItsLease(w, h) == row[h.id].state = "leased" /\ row[h.id].owner = w /\ row[h.id].expiry = h.until
GivenBack(h) == \/ row[h.id].state = "pending" /\ row[h.id].attempts >= 2
                \/ row[h.id].attempts >= 3
HoldsItsLease ==
  \A w \in Workers : \A h \in hand[w] :
    now < h.until => OnItsLease(w, h) \/ Settled(h.id) \/ GivenBack(h)

Leases == HeldWasLeased /\ SharedIsSecond /\ HoldsItsLease /\ WorkersSplitTheDueRows
Locks == LockedIsPending /\ LockedApart
Runs == BusyWasRun /\ DoneWasRun

IInv == TypeOK /\ Locks /\ Runs /\ Leases /\ OnlyLateRowsOutliveTheirCase

LEMMA InitIsInductive == Init => IInv
<1> SUFFICES ASSUME Init PROVE IInv
  OBVIOUS
<1>1. TypeOK
  <2>1. NoRow \in RowType
    BY Zenon DEF NoRow, Row, RowType
  <2>2. row \in [Rows -> RowType]
    BY <2>1 DEF Init
  <2>3. QED BY <2>2 DEF Init, TypeOK, RowType
<1>2. Locks /\ BusyWasRun
  BY DEF Init, Locks, LockedIsPending, LockedApart, BusyWasRun
<1>3. Leases
  BY DEF Init, Leases, HeldWasLeased, SharedIsSecond, HoldsItsLease, WorkersSplitTheDueRows
<1>4. DoneWasRun /\ OnlyLateRowsOutliveTheirCase
  BY DEF Init, DoneWasRun, OnlyLateRowsOutliveTheirCase, NoRow, Row
<1>5. QED BY <1>1, <1>2, <1>3, <1>4 DEF IInv, Runs

(* A row that is no longer leased keeps its lease count and its history.   *)
LEMMA UnleasedRow ==
  ASSUME TypeOK, NEW r \in Rows, NEW s \in {"absent", "pending", "leased", "done", "cancelled"}
  PROVE  /\ Unleased(r, s) \in RowType
         /\ Unleased(r, s).state = s
         /\ Unleased(r, s).attempts = row[r].attempts
         /\ Unleased(r, s).late = row[r].late
<1>1. row[r] \in RowType
  BY DEF TypeOK, RowType
<1>2. QED BY <1>1 DEF Unleased, RowType

(* A step that leaves locks, hands and the clock alone, and of each row    *)
(* gives back no lease but ends some: what the leases promise stays.       *)
LEMMA SettlingKeepsLeases ==
  ASSUME IInv, hand' \in [Workers -> SUBSET [id : Rows, until : Nat]],
         now' \in Nat, now <= now',
         \A w \in Workers : hand'[w] \subseteq hand[w],
         \A r \in Rows : /\ row'[r].attempts = row[r].attempts
                         /\ row'[r] = row[r] \/ row'[r].state \in {"done", "cancelled"}
  PROVE  Leases'
<1>1. TypeOK
  BY DEF IInv
<1>2. \A w \in Workers : \A h \in hand'[w] : h \in hand[w] /\ h.id \in Rows /\ h.until \in Nat
  BY <1>1 DEF TypeOK
<1>3. HeldWasLeased'
  BY <1>2 DEF IInv, Leases, HeldWasLeased
<1>4. SharedIsSecond'
  BY <1>2 DEF IInv, Leases, SharedIsSecond
<1>5. HoldsItsLease'
  <2> SUFFICES ASSUME NEW w \in Workers, NEW h \in hand'[w], now' < h.until
               PROVE  (OnItsLease(w, h) \/ Settled(h.id) \/ GivenBack(h))'
    BY DEF HoldsItsLease
  <2>1. now < h.until
    BY <1>1, <1>2 DEF TypeOK
  <2>2. OnItsLease(w, h) \/ Settled(h.id) \/ GivenBack(h)
    BY <2>1, <1>2 DEF IInv, Leases, HoldsItsLease
  <2>3. CASE row'[h.id] = row[h.id]
    BY <2>2, <2>3 DEF OnItsLease, Settled, GivenBack
  <2>4. CASE row'[h.id].state \in {"done", "cancelled"}
    BY <2>4 DEF Settled
  <2>5. QED BY <2>3, <2>4, <1>2
<1>6. WorkersSplitTheDueRows'
  <2> SUFFICES ASSUME NEW v \in Workers, NEW w \in Workers, v # w,
                      NEW g \in hand'[v], NEW h \in hand'[w],
                      g.id = h.id, now' < g.until, now' < h.until
               PROVE  row'[g.id].attempts > 2
    BY DEF WorkersSplitTheDueRows
  <2>1. now < g.until /\ now < h.until
    BY <1>1, <1>2 DEF TypeOK
  <2>2. QED BY <2>1, <1>2 DEF IInv, Leases, WorkersSplitTheDueRows
<1>7. QED BY <1>3, <1>4, <1>5, <1>6 DEF Leases

-----------------------------------------------------------------------------
LEMMA ScheduleKeeps ==
  ASSUME IInv, NEW r \in Rows, Schedule(r)
  PROVE  IInv'
<1> DEFINE new == Row("pending", CaseOf[r] \in ended)
<1>1. TypeOK /\ row \in [Rows -> RowType] /\ row[r].state = "absent"
  BY DEF IInv, TypeOK, RowType, Schedule
<1>2. row' = [row EXCEPT ![r] = new]
  BY DEF Schedule
<1>3. new \in RowType
  <2>1. (CaseOf[r] \in ended) \in BOOLEAN /\ 0 \in Nat
    OBVIOUS
  <2>2. QED BY <2>1, Zenon DEF Row, RowType
<1>4. new.state = "pending" /\ (new.late <=> CaseOf[r] \in ended)
  BY DEF Row
<1> HIDE DEF new
<1>5. \A q \in Rows : row'[q] = IF q = r THEN new ELSE row[q]
  BY <1>1, <1>2
<1>6. row' \in [Rows -> RowType]
  BY <1>1, <1>2, <1>3
<1>7. TypeOK'
  BY <1>1, <1>6 DEF TypeOK, Schedule, RowType
<1>8. Locks'
  BY <1>1, <1>4, <1>5 DEF IInv, Locks, LockedIsPending, LockedApart, Schedule, TypeOK
<1>9. Runs'
  BY <1>4, <1>5 DEF IInv, Runs, BusyWasRun, DoneWasRun, Schedule
<1>10. Leases'
  <2>1. \A w \in Workers : \A h \in hand[w] : h.id \in Rows /\ row'[h.id] = row[h.id]
    BY <1>1, <1>5 DEF TypeOK, IInv, Leases, HeldWasLeased
  <2>2. HeldWasLeased' /\ SharedIsSecond' /\ WorkersSplitTheDueRows'
    BY <2>1 DEF IInv, Leases, HeldWasLeased, SharedIsSecond, WorkersSplitTheDueRows, Schedule
  <2>3. HoldsItsLease'
    BY <2>1 DEF IInv, Leases, HoldsItsLease, OnItsLease, Settled, GivenBack, Schedule
  <2>4. QED BY <2>2, <2>3 DEF Leases
<1>11. OnlyLateRowsOutliveTheirCase'
  BY <1>4, <1>5 DEF IInv, OnlyLateRowsOutliveTheirCase, Live, Schedule
<1>12. QED BY <1>7, <1>8, <1>9, <1>10, <1>11 DEF IInv

LEMMA TickSelectKeeps ==
  ASSUME IInv, NEW w \in Workers, TickSelect(w)
  PROVE  IInv'
<1>1. PICK batch \in SUBSET DueUnlocked : locked' = [locked EXCEPT ![w] = batch]
  BY DEF TickSelect, kSubset
<1>2. TypeOK
  BY DEF IInv
<1>3. batch \subseteq Rows /\ \A r \in batch : row[r].state = "pending" /\ ~IsLocked(r)
  BY <1>1 DEF DueUnlocked, Due
<1>4. TypeOK'
  BY <1>1, <1>2, <1>3 DEF TypeOK, TickSelect
<1>5. Locks'
  <2>1. \A v \in Workers : locked'[v] = IF v = w THEN batch ELSE locked[v]
    BY <1>1, <1>2 DEF TypeOK
  <2>2. LockedIsPending'
    BY <2>1, <1>3 DEF IInv, Locks, LockedIsPending, TickSelect
  <2>3. LockedApart'
    BY <2>1, <1>3 DEF IInv, Locks, LockedApart, IsLocked
  <2>4. QED BY <2>2, <2>3 DEF Locks
<1>6. Runs' /\ OnlyLateRowsOutliveTheirCase'
  BY DEF IInv, Runs, BusyWasRun, DoneWasRun, OnlyLateRowsOutliveTheirCase, Live, TickSelect
<1>7. Leases'
  BY DEF IInv, Leases, HeldWasLeased, SharedIsSecond, HoldsItsLease, WorkersSplitTheDueRows,
         OnItsLease, Settled, GivenBack, TickSelect
<1>8. QED BY <1>4, <1>5, <1>6, <1>7 DEF IInv

LEMMA TickLeaseKeeps ==
  ASSUME IInv, NEW w \in Workers, TickLease(w)
  PROVE  IInv'
<1> DEFINE given(r) == [state |-> "leased", owner |-> w, expiry |-> now + LeaseTime,
                        attempts |-> row[r].attempts + 1, late |-> row[r].late]
<1>1. TypeOK /\ locked[w] \subseteq Rows /\ now \in Nat /\ now + LeaseTime \in Nat
  BY SchedulerAssumption DEF IInv, TypeOK
<1>2. \A r \in Rows : row[r] \in RowType
  BY <1>1 DEF TypeOK, RowType
<1>3. /\ \A r \in locked[w] : row'[r] = given(r)
      /\ \A r \in Rows : r \notin locked[w] => row'[r] = row[r]
  BY <1>1 DEF TickLease
<1>4. \A r \in locked[w] : given(r) \in RowType
  BY <1>1, <1>2 DEF RowType
<1>5. \A r \in locked[w] :
         /\ given(r).state = "leased" /\ given(r).owner = w /\ given(r).expiry = now + LeaseTime
         /\ given(r).attempts = row[r].attempts + 1 /\ given(r).late = row[r].late
  OBVIOUS
<1> HIDE DEF given
<1>6. \A r \in locked[w] : row[r].state = "pending"
  BY DEF IInv, Locks, LockedIsPending
<1>7. \A v \in Workers : /\ locked'[v] = IF v = w THEN {} ELSE locked[v]
                         /\ v # w => hand'[v] = hand[v]
  BY <1>1 DEF TickLease, TypeOK
<1>8. hand'[w] = {[id |-> r, until |-> now + LeaseTime] : r \in locked[w]}
  BY <1>1 DEF TickLease, TypeOK
<1>9. TypeOK'
  <2>1. \A r \in Rows : row'[r] \in RowType
    BY <1>2, <1>3, <1>4
  <2>2. row' = [r \in Rows |-> row'[r]]
    BY DEF TickLease
  <2>3. row' \in [Rows -> RowType]
    BY <2>1, <2>2
  <2>4. {[id |-> r, until |-> now + LeaseTime] : r \in locked[w]} \subseteq [id : Rows, until : Nat]
    BY <1>1
  <2>5. QED BY <1>1, <2>3, <2>4 DEF TypeOK, TickLease, RowType
<1>10. Locks'
  <2>1. LockedIsPending'
    BY <1>1, <1>3, <1>5, <1>7 DEF IInv, Locks, LockedIsPending, LockedApart, TypeOK
  <2>2. LockedApart'
    BY <1>7 DEF IInv, Locks, LockedApart
  <2>3. QED BY <2>1, <2>2 DEF Locks
<1>11. Runs'
  BY <1>3, <1>5 DEF IInv, Runs, BusyWasRun, DoneWasRun, TickLease
<1>12. OnlyLateRowsOutliveTheirCase'
  BY <1>3, <1>5, <1>6 DEF IInv, OnlyLateRowsOutliveTheirCase, Live, TickLease
<1>13. \A v \in Workers : \A h \in hand[v] : h.id \in Rows /\ h.until \in Nat
  BY <1>1 DEF TypeOK
<1>14. \A h \in hand'[w] : h.id \in locked[w] /\ h.until = now + LeaseTime
  BY <1>8
<1>15. \A r \in Rows : row[r].attempts \in Nat
  BY <1>2 DEF RowType
<1>16. now' = now
  BY DEF TickLease
<1>17. HeldWasLeased'
  BY <1>1, <1>3, <1>5, <1>7, <1>13, <1>14, <1>15 DEF IInv, Leases, HeldWasLeased
<1>18. SharedIsSecond'
  <2> SUFFICES ASSUME NEW v \in Workers, NEW u \in Workers, v # u,
                      NEW g \in hand'[v], NEW h \in hand'[u], g.id = h.id
               PROVE  row'[g.id].attempts >= 2
    BY DEF SharedIsSecond
  <2>1. CASE v # w /\ u # w
    BY <2>1, <1>3, <1>5, <1>7, <1>13, <1>15 DEF IInv, Leases, SharedIsSecond
  <2>2. CASE v = w /\ u # w
    BY <2>2, <1>1, <1>3, <1>5, <1>7, <1>13, <1>14, <1>15 DEF IInv, Leases, HeldWasLeased
  <2>3. CASE v # w /\ u = w
    BY <2>3, <1>1, <1>3, <1>5, <1>7, <1>13, <1>14, <1>15 DEF IInv, Leases, HeldWasLeased
  <2>4. QED BY <2>1, <2>2, <2>3
(* A lease that still runs on a row that is pending again is of a row that *)
(* has been leased twice.                                                  *)
<1>19. ASSUME NEW v \in Workers, NEW g \in hand[v], now < g.until, g.id \in locked[w]
       PROVE  row[g.id].attempts >= 2
  <2>1. OnItsLease(v, g) \/ Settled(g.id) \/ GivenBack(g)
    BY <1>19 DEF IInv, Leases, HoldsItsLease
  <2>2. QED BY <2>1, <1>6, <1>13, <1>15, <1>19 DEF OnItsLease, Settled, GivenBack
<1>20. HoldsItsLease'
  <2> SUFFICES ASSUME NEW v \in Workers, NEW g \in hand'[v], now < g.until
               PROVE  (OnItsLease(v, g) \/ Settled(g.id) \/ GivenBack(g))'
    BY <1>16 DEF HoldsItsLease
  <2>1. CASE v = w
    BY <2>1, <1>1, <1>3, <1>5, <1>14 DEF OnItsLease
  <2>2. CASE v # w /\ g.id \in locked[w]
    <3>1. row[g.id].attempts >= 2 /\ g.id \in Rows
      BY <2>2, <1>7, <1>13, <1>19
    <3>2. row'[g.id].attempts >= 3
      BY <3>1, <2>2, <1>3, <1>5, <1>15
    <3>3. QED BY <3>2 DEF GivenBack
  <2>3. CASE v # w /\ g.id \notin locked[w]
    <3>1. g \in hand[v] /\ row'[g.id] = row[g.id]
      BY <2>3, <1>3, <1>5, <1>7, <1>13
    <3>2. OnItsLease(v, g) \/ Settled(g.id) \/ GivenBack(g)
      BY <3>1 DEF IInv, Leases, HoldsItsLease
    <3>3. QED BY <3>1, <3>2 DEF OnItsLease, Settled, GivenBack
  <2>4. QED BY <2>1, <2>2, <2>3
<1>21. WorkersSplitTheDueRows'
  <2> SUFFICES ASSUME NEW v \in Workers, NEW u \in Workers, v # u,
                      NEW g \in hand'[v], NEW h \in hand'[u], g.id = h.id,
                      now < g.until, now < h.until
               PROVE  row'[g.id].attempts > 2
    BY <1>16 DEF WorkersSplitTheDueRows
  <2>1. CASE v # w /\ u # w
    BY <2>1, <1>3, <1>5, <1>7, <1>13, <1>15 DEF IInv, Leases, WorkersSplitTheDueRows
  <2>2. CASE v = w /\ u # w
    <3>1. row[h.id].attempts >= 2 /\ h.id \in locked[w]
      BY <2>2, <1>7, <1>14, <1>19
    <3>2. row'[h.id].attempts = row[h.id].attempts + 1 /\ row[h.id].attempts \in Nat
      BY <3>1, <1>1, <1>3, <1>5, <1>15
    <3>3. QED BY <3>1, <3>2
  <2>3. CASE v # w /\ u = w
    <3>1. row[g.id].attempts >= 2 /\ g.id \in locked[w]
      BY <2>3, <1>7, <1>14, <1>19
    <3>2. row'[g.id].attempts = row[g.id].attempts + 1 /\ row[g.id].attempts \in Nat
      BY <3>1, <1>1, <1>3, <1>5, <1>15
    <3>3. QED BY <3>1, <3>2
  <2>4. QED BY <2>1, <2>2, <2>3
<1>22. QED
  BY <1>9, <1>10, <1>11, <1>12, <1>17, <1>18, <1>20, <1>21 DEF IInv, Leases

LEMMA RunKeeps ==
  ASSUME IInv, NEW w \in Workers, NEW r \in Rows, Run(w, r)
  PROVE  IInv'
<1>1. TypeOK
  BY DEF IInv
<1>2. TypeOK'
  BY <1>1 DEF TypeOK, Run
<1>3. Runs'
  BY <1>1 DEF IInv, Runs, BusyWasRun, DoneWasRun, Run, TypeOK
<1>4. Locks' /\ OnlyLateRowsOutliveTheirCase'
  BY DEF IInv, Locks, LockedIsPending, LockedApart, OnlyLateRowsOutliveTheirCase, Live, Run
<1>5. Leases'
  BY DEF IInv, Leases, HeldWasLeased, SharedIsSecond, HoldsItsLease, WorkersSplitTheDueRows,
         OnItsLease, Settled, GivenBack, Run
<1>6. QED BY <1>2, <1>3, <1>4, <1>5 DEF IInv

(* Complete, with or without a run: at most a leased row becomes done, and *)
(* the hand forgets it.                                                    *)
LEMMA DoneKeeps ==
  ASSUME IInv, NEW w \in Workers, NEW r \in Rows, SetDone(r), Drop(w, r),
         r \in ran \/ CaseOf[r] \in ended,
         UNCHANGED <<locked, ran, ended, now>>
  PROVE  /\ row' \in [Rows -> RowType]
         /\ hand' \in [Workers -> SUBSET [id : Rows, until : Nat]]
         /\ Locks' /\ DoneWasRun' /\ Leases' /\ OnlyLateRowsOutliveTheirCase'
<1>1. TypeOK
  BY DEF IInv
<1>2. row \in [Rows -> RowType]
  BY <1>1 DEF TypeOK, RowType
<1>3. Unleased(r, "done") \in RowType /\ Unleased(r, "done").state = "done"
        /\ Unleased(r, "done").attempts = row[r].attempts
  BY <1>1, UnleasedRow
<1>4. \A q \in Rows : row'[q] = IF q = r /\ row[r].state = "leased" THEN Unleased(r, "done") ELSE row[q]
  BY <1>2 DEF SetDone
<1>5. row' \in [Rows -> RowType]
  BY <1>2, <1>3 DEF SetDone
<1>6. /\ hand' \in [Workers -> SUBSET [id : Rows, until : Nat]]
      /\ \A v \in Workers : hand'[v] \subseteq hand[v]
  BY <1>1 DEF Drop, TypeOK
<1>7. Locks'
  BY <1>1, <1>4 DEF IInv, Locks, LockedIsPending, LockedApart, TypeOK
<1>8. DoneWasRun'
  BY <1>4 DEF IInv, Runs, DoneWasRun
<1>9. Leases'
  <2>1. now' \in Nat /\ now <= now'
    BY <1>1 DEF TypeOK
  <2>2. \A q \in Rows : /\ row'[q].attempts = row[q].attempts
                        /\ row'[q] = row[q] \/ row'[q].state \in {"done", "cancelled"}
    BY <1>3, <1>4
  <2>3. QED BY <2>1, <2>2, <1>6, SettlingKeepsLeases
<1>10. OnlyLateRowsOutliveTheirCase'
  BY <1>3, <1>4 DEF IInv, OnlyLateRowsOutliveTheirCase, Live
<1>11. QED BY <1>5, <1>6, <1>7, <1>8, <1>9, <1>10

LEMMA CompleteKeeps ==
  ASSUME IInv, NEW w \in Workers, NEW r \in Rows, Complete(w, r)
  PROVE  IInv'
<1>1. TypeOK /\ r \in ran
  BY DEF IInv, Runs, BusyWasRun, Complete
<1>2. /\ row' \in [Rows -> RowType]
      /\ hand' \in [Workers -> SUBSET [id : Rows, until : Nat]]
      /\ Locks' /\ DoneWasRun' /\ Leases' /\ OnlyLateRowsOutliveTheirCase'
  BY <1>1, DoneKeeps DEF Complete
<1>3. TypeOK'
  BY <1>1, <1>2 DEF TypeOK, RowType, Complete
<1>4. BusyWasRun'
  BY <1>1 DEF IInv, Runs, BusyWasRun, Complete, TypeOK
<1>5. QED BY <1>2, <1>3, <1>4 DEF IInv, Runs

LEMMA CompleteUnrunKeeps ==
  ASSUME IInv, NEW w \in Workers, NEW r \in Rows, CompleteUnrun(w, r)
  PROVE  IInv'
<1>1. TypeOK /\ CaseOf[r] \in ended
  BY DEF IInv, CompleteUnrun
<1>2. /\ row' \in [Rows -> RowType]
      /\ hand' \in [Workers -> SUBSET [id : Rows, until : Nat]]
      /\ Locks' /\ DoneWasRun' /\ Leases' /\ OnlyLateRowsOutliveTheirCase'
  BY <1>1, DoneKeeps DEF CompleteUnrun
<1>3. TypeOK'
  BY <1>1, <1>2 DEF TypeOK, RowType, CompleteUnrun
<1>4. BusyWasRun'
  BY DEF IInv, Runs, BusyWasRun, CompleteUnrun
<1>5. QED BY <1>2, <1>3, <1>4 DEF IInv, Runs

LEMMA ReleaseKeeps ==
  ASSUME IInv, NEW w \in Workers, NEW r \in Rows, Release(w, r)
  PROVE  IInv'
<1>1. TypeOK
  BY DEF IInv
<1>2. row \in [Rows -> RowType] /\ \A q \in Rows : row[q].attempts \in Nat
  BY <1>1 DEF TypeOK, RowType
<1>3. /\ Unleased(r, "pending") \in RowType
      /\ Unleased(r, "pending").state = "pending"
      /\ Unleased(r, "pending").attempts = row[r].attempts
      /\ Unleased(r, "pending").late = row[r].late
  BY <1>1, UnleasedRow
<1>4. \A q \in Rows : row'[q] = IF q = r /\ row[r].state = "leased" THEN Unleased(r, "pending") ELSE row[q]
  BY <1>2 DEF Release
<1>5. row' \in [Rows -> RowType]
  BY <1>2, <1>3 DEF Release
<1>6. /\ hand' \in [Workers -> SUBSET [id : Rows, until : Nat]]
      /\ \A v \in Workers : hand'[v] \subseteq hand[v]
      /\ \A h \in hand'[w] : h.id # r
  BY <1>1 DEF Release, Drop, TypeOK
<1>7. TypeOK'
  BY <1>1, <1>5, <1>6 DEF TypeOK, RowType, Release
<1>8. Locks'
  BY <1>1, <1>4 DEF IInv, Locks, LockedIsPending, LockedApart, TypeOK, Release
<1>9. Runs'
  BY <1>3, <1>4 DEF IInv, Runs, BusyWasRun, DoneWasRun, Release
<1>10. OnlyLateRowsOutliveTheirCase'
  BY <1>3, <1>4 DEF IInv, OnlyLateRowsOutliveTheirCase, Live, Release
<1>11. \A v \in Workers : \A g \in hand'[v] : g \in hand[v] /\ g.id \in Rows
  BY <1>6
<1>12. \A q \in Rows : /\ row'[q].attempts = row[q].attempts
                       /\ row'[q].state = "absent" => row[q].state = "absent"
  BY <1>3, <1>4
<1>13. now' = now
  BY DEF Release
<1>14. HeldWasLeased' /\ SharedIsSecond' /\ WorkersSplitTheDueRows'
  BY <1>11, <1>12, <1>13 DEF IInv, Leases, HeldWasLeased, SharedIsSecond, WorkersSplitTheDueRows
<1>15. HoldsItsLease'
  <2> SUFFICES ASSUME NEW v \in Workers, NEW g \in hand'[v], now < g.until
               PROVE  (OnItsLease(v, g) \/ Settled(g.id) \/ GivenBack(g))'
    BY <1>13 DEF HoldsItsLease
  <2>1. OnItsLease(v, g) \/ Settled(g.id) \/ GivenBack(g)
    BY <1>11 DEF IInv, Leases, HoldsItsLease
  <2>2. CASE g.id = r /\ row[r].state = "leased"
    <3>1. v # w
      BY <2>2, <1>6
    <3>2. PICK h \in hand[w] : h.id = r
      BY DEF Release, Held
    <3>3. row[r].attempts >= 2
      BY <3>1, <3>2, <2>2, <1>11 DEF IInv, Leases, SharedIsSecond
    <3>4. QED BY <3>3, <2>2, <1>3, <1>4 DEF GivenBack
  <2>3. CASE ~(g.id = r /\ row[r].state = "leased")
    <3>1. row'[g.id] = row[g.id]
      BY <2>3, <1>4, <1>11
    <3>2. QED BY <2>1, <3>1 DEF OnItsLease, Settled, GivenBack
  <2>4. QED BY <2>2, <2>3
<1>16. QED BY <1>7, <1>8, <1>9, <1>10, <1>14, <1>15 DEF IInv, Leases

LEMMA ReclaimKeeps == IInv /\ ReclaimExpiredLeases => IInv'
<1> SUFFICES ASSUME IInv, ReclaimExpiredLeases PROVE IInv'
  OBVIOUS
<1>1. TypeOK
  BY DEF IInv
<1>2. row \in [Rows -> RowType] /\ \A q \in Rows : row[q].attempts \in Nat /\ row[q].expiry \in Nat
  BY <1>1 DEF TypeOK, RowType
<1>3. \A r \in Rows : /\ Unleased(r, "pending") \in RowType
                      /\ Unleased(r, "pending").state = "pending"
                      /\ Unleased(r, "pending").attempts = row[r].attempts
                      /\ Unleased(r, "pending").late = row[r].late
  BY <1>1, UnleasedRow
<1>4. \A r \in Rows : row'[r] = IF r \in Expired THEN Unleased(r, "pending") ELSE row[r]
  BY DEF ReclaimExpiredLeases
<1>5. row' \in [Rows -> RowType]
  <2>1. row' = [r \in Rows |-> row'[r]]
    BY DEF ReclaimExpiredLeases
  <2>2. \A r \in Rows : row'[r] \in RowType
    BY <1>2, <1>3, <1>4
  <2>3. QED BY <2>1, <2>2
<1>6. TypeOK'
  BY <1>1, <1>5 DEF TypeOK, RowType, ReclaimExpiredLeases
<1>7. \A r \in Expired : r \in Rows /\ row[r].state = "leased" /\ row[r].expiry <= now
  BY DEF Expired
<1>8. Locks'
  BY <1>1, <1>4, <1>7 DEF IInv, Locks, LockedIsPending, LockedApart, TypeOK, ReclaimExpiredLeases
<1>9. Runs'
  BY <1>3, <1>4, <1>7 DEF IInv, Runs, BusyWasRun, DoneWasRun, ReclaimExpiredLeases
<1>10. OnlyLateRowsOutliveTheirCase'
  BY <1>3, <1>4, <1>7 DEF IInv, OnlyLateRowsOutliveTheirCase, Live, ReclaimExpiredLeases
<1>11. \A v \in Workers : \A g \in hand[v] : g.id \in Rows /\ g.until \in Nat
  BY <1>1 DEF TypeOK
<1>12. \A q \in Rows : /\ row'[q].attempts = row[q].attempts
                       /\ row'[q].state = "absent" => row[q].state = "absent"
  BY <1>3, <1>4
<1>13. HeldWasLeased' /\ SharedIsSecond' /\ WorkersSplitTheDueRows'
  BY <1>11, <1>12 DEF IInv, Leases, HeldWasLeased, SharedIsSecond, WorkersSplitTheDueRows,
                      ReclaimExpiredLeases
<1>14. HoldsItsLease'
  <2> SUFFICES ASSUME NEW v \in Workers, NEW g \in hand[v], now < g.until
               PROVE  (OnItsLease(v, g) \/ Settled(g.id) \/ GivenBack(g))'
    BY DEF HoldsItsLease, ReclaimExpiredLeases
  <2>1. OnItsLease(v, g) \/ Settled(g.id) \/ GivenBack(g)
    BY DEF IInv, Leases, HoldsItsLease
  <2>2. CASE g.id \notin Expired
    <3>1. row'[g.id] = row[g.id]
      BY <2>2, <1>4, <1>11
    <3>2. QED BY <2>1, <3>1 DEF OnItsLease, Settled, GivenBack
  <2>3. CASE g.id \in Expired
    <3>1. now \in Nat
      BY <1>1 DEF TypeOK
    <3>2. GivenBack(g)
      BY <2>1, <2>3, <3>1, <1>2, <1>7, <1>11 DEF OnItsLease, Settled
    <3>3. QED BY <2>3, <3>2, <1>7, <1>12 DEF GivenBack
  <2>4. QED BY <2>2, <2>3
<1>15. QED BY <1>6, <1>8, <1>9, <1>10, <1>13, <1>14 DEF IInv, Leases

LEMMA TerminalWriteKeeps ==
  ASSUME IInv, NEW c \in Cases, TerminalWrite(c)
  PROVE  IInv'
<1>1. TypeOK
  BY DEF IInv
<1>2. row \in [Rows -> RowType]
  BY <1>1 DEF TypeOK, RowType
<1>3. \A r \in Rows : /\ Unleased(r, "cancelled") \in RowType
                      /\ Unleased(r, "cancelled").state = "cancelled"
                      /\ Unleased(r, "cancelled").attempts = row[r].attempts
  BY <1>1, UnleasedRow
<1>4. \A r \in Rows : row'[r] = IF r \in Cancellable(c) THEN Unleased(r, "cancelled") ELSE row[r]
  BY DEF TerminalWrite, Cancelled
<1>5. row' \in [Rows -> RowType]
  <2>1. row' = [r \in Rows |-> row'[r]]
    BY DEF TerminalWrite, Cancelled
  <2>2. \A r \in Rows : row'[r] \in RowType
    BY <1>2, <1>3, <1>4
  <2>3. QED BY <2>1, <2>2
<1>6. TypeOK'
  BY <1>1, <1>5 DEF TypeOK, RowType, TerminalWrite
<1>7. Locks'
  <2>1. \A w \in Workers : \A r \in locked[w] : r \in Rows /\ row'[r] = row[r]
    BY <1>1, <1>4 DEF TerminalWrite, IsLocked, TypeOK
  <2>2. QED BY <2>1 DEF IInv, Locks, LockedIsPending, LockedApart, TerminalWrite
<1>8. Runs'
  BY <1>3, <1>4 DEF IInv, Runs, BusyWasRun, DoneWasRun, TerminalWrite
<1>9. Leases'
  <2>1. /\ now' \in Nat /\ now <= now'
        /\ hand' \in [Workers -> SUBSET [id : Rows, until : Nat]]
        /\ \A w \in Workers : hand'[w] \subseteq hand[w]
    BY <1>1 DEF TerminalWrite, TypeOK
  <2>2. \A r \in Rows : /\ row'[r].attempts = row[r].attempts
                        /\ row'[r] = row[r] \/ row'[r].state \in {"done", "cancelled"}
    BY <1>3, <1>4
  <2>3. QED BY <2>1, <2>2, SettlingKeepsLeases
<1>10. OnlyLateRowsOutliveTheirCase'
  BY <1>3, <1>4 DEF IInv, OnlyLateRowsOutliveTheirCase, Live, Cancellable, TerminalWrite
<1>11. QED BY <1>6, <1>7, <1>8, <1>9, <1>10 DEF IInv

LEMMA CrashKeeps ==
  ASSUME IInv, NEW w \in Workers, Crash(w)
  PROVE  IInv'
<1>1. TypeOK
  BY DEF IInv
<1>2. TypeOK'
  BY <1>1 DEF TypeOK, Crash
<1>3. \A v \in Workers : /\ locked'[v] \subseteq locked[v]
                         /\ hand'[v] \subseteq hand[v]
                         /\ busy'[v] \subseteq busy[v]
  BY <1>1 DEF Crash, TypeOK
<1>4. Locks' /\ Runs' /\ OnlyLateRowsOutliveTheirCase'
  BY <1>3 DEF IInv, Locks, LockedIsPending, LockedApart, Runs, BusyWasRun, DoneWasRun,
              OnlyLateRowsOutliveTheirCase, Live, Crash
<1>5. Leases'
  <2>1. now' \in Nat /\ now <= now' /\ hand' \in [Workers -> SUBSET [id : Rows, until : Nat]]
    BY <1>1, <1>2 DEF Crash, TypeOK
  <2>2. row' = row
    BY DEF Crash
  <2>3. QED BY <2>1, <2>2, <1>3, SettlingKeepsLeases
<1>6. QED BY <1>2, <1>4, <1>5 DEF IInv

LEMMA ClockKeeps == IInv /\ Tick => IInv'
<1> SUFFICES ASSUME IInv, Tick PROVE IInv'
  OBVIOUS
<1>1. TypeOK /\ now \in Nat
  BY DEF IInv, TypeOK
<1>2. TypeOK'
  BY <1>1 DEF TypeOK, Tick
<1>3. Locks' /\ Runs' /\ OnlyLateRowsOutliveTheirCase'
  BY DEF IInv, Locks, LockedIsPending, LockedApart, Runs, BusyWasRun, DoneWasRun,
         OnlyLateRowsOutliveTheirCase, Live, Tick
<1>4. Leases'
  <2>1. /\ now' \in Nat /\ now <= now'
        /\ hand' \in [Workers -> SUBSET [id : Rows, until : Nat]]
        /\ hand' = hand /\ row' = row
    BY <1>1 DEF Tick, TypeOK
  <2>2. QED BY <2>1, SettlingKeepsLeases
<1>5. QED BY <1>2, <1>3, <1>4 DEF IInv

-----------------------------------------------------------------------------
LEMMA StepKeeps == IInv /\ [Next]_vars => IInv'
<1> SUFFICES ASSUME IInv, [Next]_vars PROVE IInv'
  OBVIOUS
<1>1. CASE \E r \in Rows : Schedule(r)
  BY <1>1, ScheduleKeeps
<1>2. CASE \E w \in Workers : Work(w)
  BY <1>2, TickSelectKeeps, TickLeaseKeeps, RunKeeps, CompleteKeeps, CompleteUnrunKeeps DEF Work
<1>3. CASE \E w \in Workers : Crash(w) \/ \E r \in Rows : Release(w, r)
  BY <1>3, CrashKeeps, ReleaseKeeps
<1>4. CASE \E c \in Cases : TerminalWrite(c)
  BY <1>4, TerminalWriteKeeps
<1>5. CASE ReclaimExpiredLeases \/ Tick
  BY <1>5, ReclaimKeeps, ClockKeeps
<1>6. CASE UNCHANGED vars
  BY <1>6 DEF vars, IInv, TypeOK, Locks, LockedIsPending, LockedApart, Runs, BusyWasRun, DoneWasRun,
              Leases, HeldWasLeased, SharedIsSecond, HoldsItsLease, WorkersSplitTheDueRows,
              OnItsLease, Settled, GivenBack, OnlyLateRowsOutliveTheirCase, Live
<1>7. QED BY <1>1, <1>2, <1>3, <1>4, <1>5, <1>6 DEF Next

(* Every reachable state satisfies the strengthening.                      *)
THEOREM Invariance == Spec => []IInv
<1>1. Init => IInv
  BY InitIsInductive
<1>2. IInv /\ [Next]_vars => IInv'
  BY StepKeeps
<1>3. QED BY <1>1, <1>2, PTL DEF Spec

(* The types of the table, of the workers' hands and of the clock.         *)
THEOREM TypeCorrect == Spec => []TypeOK
BY Invariance, PTL DEF IInv

(* tick gives a row to one worker at a time: two hold it within their      *)
(* leases only after a third lease, however many workers hang or die.      *)
THEOREM WorkersSplit == Spec => []WorkersSplitTheDueRows
BY Invariance, PTL DEF IInv, Leases

(* A row is done only when it was run or its case has ended.               *)
THEOREM NothingIsSkipped == Spec => []DoneWasRun
BY Invariance, PTL DEF IInv, Runs

(* The cancellation misses only rows that were scheduled after it.         *)
THEOREM CancellationIsComplete == Spec => []OnlyLateRowsOutliveTheirCase
BY Invariance, PTL DEF IInv
-----------------------------------------------------------------------------
(* What a tick has selected, and what a worker has in hand, is due, however *)
(* long the worker has hung: the clock only advances.                      *)
HeldIsDue ==
  /\ \A w \in Workers : \A r \in locked[w] : FireAt[r] <= now
  /\ \A w \in Workers : \A h \in hand[w] : FireAt[h.id] <= now

LEMMA FewerAreDue ==
  ASSUME TypeOK, HeldIsDue, now' \in Nat, now <= now',
         \A w \in Workers : locked'[w] \subseteq locked[w] /\ hand'[w] \subseteq hand[w]
  PROVE  HeldIsDue'
<1>1. /\ \A w \in Workers : \A r \in locked'[w] : r \in locked[w] /\ FireAt[r] \in Nat
      /\ \A w \in Workers : \A h \in hand'[w] : h \in hand[w] /\ FireAt[h.id] \in Nat
  BY SchedulerAssumption DEF TypeOK
<1>2. now \in Nat
  BY DEF TypeOK
<1>3. \A w \in Workers : \A r \in locked'[w] : FireAt[r] <= now'
  BY <1>1, <1>2 DEF HeldIsDue
<1>4. \A w \in Workers : \A h \in hand'[w] : FireAt[h.id] <= now'
  BY <1>1, <1>2 DEF HeldIsDue
<1>5. QED BY <1>3, <1>4 DEF HeldIsDue

LEMMA StepKeepsDue ==
  ASSUME TypeOK, HeldIsDue, [Next]_vars
  PROVE  HeldIsDue'
<1>1. now \in Nat /\ FireAt \in [Rows -> Nat]
  BY SchedulerAssumption DEF TypeOK
<1>2. ASSUME NEW w \in Workers, TickSelect(w)
      PROVE  HeldIsDue'
  <2>1. PICK batch \in SUBSET DueUnlocked : locked' = [locked EXCEPT ![w] = batch]
    BY <1>2 DEF TickSelect, kSubset
  <2>2. \A r \in batch : FireAt[r] <= now
    BY <2>1 DEF DueUnlocked, Due
  <2>3. \A v \in Workers : locked'[v] = IF v = w THEN batch ELSE locked[v]
    BY <2>1 DEF TypeOK
  <2>4. hand' = hand /\ now' = now
    BY <1>2 DEF TickSelect
  <2>5. QED BY <2>2, <2>3, <2>4 DEF HeldIsDue
<1>3. ASSUME NEW w \in Workers, TickLease(w)
      PROVE  HeldIsDue'
  <2>1. \A v \in Workers : /\ locked'[v] = IF v = w THEN {} ELSE locked[v]
                           /\ v # w => hand'[v] = hand[v]
    BY <1>3 DEF TickLease, TypeOK
  <2>2. hand'[w] = {[id |-> r, until |-> now + LeaseTime] : r \in locked[w]} /\ now' = now
    BY <1>3 DEF TickLease, TypeOK
  <2>3. \A h \in hand'[w] : h.id \in locked[w]
    BY <2>2
  <2>4. QED BY <2>1, <2>2, <2>3 DEF HeldIsDue
<1>4. ASSUME NEW w \in Workers, NEW r \in Rows,
             Complete(w, r) \/ CompleteUnrun(w, r) \/ Release(w, r)
      PROVE  HeldIsDue'
  <2>1. Drop(w, r) /\ locked' = locked /\ now' = now
    BY <1>4 DEF Complete, CompleteUnrun, Release
  <2>2. \A v \in Workers : hand'[v] \subseteq hand[v]
    BY <2>1 DEF Drop, TypeOK
  <2>3. QED BY <1>1, <2>1, <2>2, FewerAreDue
<1>5. ASSUME NEW w \in Workers, Crash(w)
      PROVE  HeldIsDue'
  <2>1. \A v \in Workers : locked'[v] \subseteq locked[v] /\ hand'[v] \subseteq hand[v]
    BY <1>5 DEF Crash, TypeOK
  <2>2. now' = now
    BY <1>5 DEF Crash
  <2>3. QED BY <1>1, <2>1, <2>2, FewerAreDue
<1>6. ASSUME Tick
      PROVE  HeldIsDue'
  <2>1. now' = now + 1 /\ locked' = locked /\ hand' = hand
    BY <1>6 DEF Tick
  <2>2. QED BY <1>1, <2>1, FewerAreDue
<1>7. ASSUME UNCHANGED <<locked, hand, now>>
      PROVE  HeldIsDue'
  BY <1>7 DEF HeldIsDue
<1>8. CASE \E w \in Workers : Work(w)
  <2>1. PICK w \in Workers : Work(w)
    BY <1>8
  <2>2. CASE \E r \in Rows : Run(w, r)
    BY <2>2, <1>7 DEF Run
  <2>3. QED BY <2>1, <2>2, <1>2, <1>3, <1>4 DEF Work
<1>9. CASE \E w \in Workers : Crash(w) \/ \E r \in Rows : Release(w, r)
  BY <1>9, <1>4, <1>5
<1>10. CASE (\E r \in Rows : Schedule(r)) \/ (\E c \in Cases : TerminalWrite(c)) \/ ReclaimExpiredLeases
  BY <1>10, <1>7 DEF Schedule, TerminalWrite, ReclaimExpiredLeases
<1>11. CASE UNCHANGED vars
  BY <1>11, <1>7 DEF vars
<1>12. QED BY <1>6, <1>8, <1>9, <1>10, <1>11 DEF Next

LEMMA DueInvariance == Spec => []HeldIsDue
<1>1. Init => HeldIsDue
  BY DEF Init, HeldIsDue
<1>2. TypeOK /\ HeldIsDue /\ [Next]_vars => HeldIsDue'
  BY StepKeepsDue
<1>3. QED BY <1>1, <1>2, TypeCorrect, PTL DEF Spec

-----------------------------------------------------------------------------
(* Step by step, the scheduler does what Agenda allows or nothing it sees. *)
LEMMA InitRefines == Init => Promised!Init
<1> SUFFICES ASSUME Init PROVE Promised!Init
  OBVIOUS
<1>1. NoRow.state = "absent"
  BY DEF NoRow, Row
<1>2. [r \in Rows |-> Abstract(row[r].state)] = [r \in Rows |-> "absent"]
  BY <1>1 DEF Init, Abstract
<1>3. QED BY <1>2 DEF Init, Promised!Init

LEMMA NextRefines ==
  ASSUME IInv, HeldIsDue, [Next]_vars
  PROVE  [Promised!Next]_Promised!vars
<1> DEFINE ent == [r \in Rows |-> Abstract(row[r].state)]
<1>1. row \in [Rows -> RowType] /\ TypeOK
  BY DEF IInv, TypeOK, RowType
<1>2. ASSUME UNCHANGED <<ran, ended, now>>, \A r \in Rows : Abstract(row'[r].state) = Abstract(row[r].state)
      PROVE  UNCHANGED Promised!vars
  <2>1. ent' = ent
    BY <1>2
  <2>2. QED BY <1>2, <2>1 DEF Promised!vars
<1>3. /\ \A r \in Rows : ent[r] = Abstract(row[r].state)
      /\ \A r \in Rows : ent'[r] = Abstract(row'[r].state)
      /\ ent = [r \in Rows |-> ent[r]] /\ ent' = [r \in Rows |-> ent'[r]]
  OBVIOUS
<1>4. ASSUME NEW r \in Rows, NEW s,
             Abstract(row'[r].state) = s, \A q \in Rows \ {r} : row'[q].state = row[q].state
      PROVE  ent' = [ent EXCEPT ![r] = s]
  <2>1. \A q \in Rows : ent'[q] = [ent EXCEPT ![r] = s][q]
    BY <1>4, <1>3
  <2>2. QED BY <2>1, <1>3
<1>5. ASSUME NEW r \in Rows, Schedule(r)
      PROVE  Promised!Next
  <2>1. Row("pending", CaseOf[r] \in ended).state = "pending"
    BY DEF Row
  <2>2. \A q \in Rows : row'[q] = IF q = r THEN Row("pending", CaseOf[r] \in ended) ELSE row[q]
    BY <1>1, <1>5 DEF Schedule
  <2>3. Abstract(row'[r].state) = "open" /\ \A q \in Rows \ {r} : row'[q].state = row[q].state
    BY <2>1, <2>2 DEF Abstract
  <2>4. ent' = [ent EXCEPT ![r] = "open"]
    BY <2>3, <1>4
  <2>5. ent[r] = "absent" /\ UNCHANGED <<ran, ended, now>>
    BY <1>3, <1>5 DEF Schedule, Abstract
  <2> HIDE DEF ent
  <2>6. Promised!Enter(r)
    BY <2>4, <2>5 DEF Promised!Enter, ent
  <2>7. QED BY <2>6 DEF Promised!Next
<1>6. ASSUME NEW w \in Workers, NEW r \in Rows, Run(w, r)
      PROVE  Promised!Next
  <2>1. PICK h \in hand[w] : h.id = r
    BY <1>6 DEF Run, Held
  <2>2. row[r].state # "absent" /\ FireAt[r] <= now
    BY <2>1 DEF IInv, Leases, HeldWasLeased, HeldIsDue
  <2>3. ent[r] # "absent"
    BY <2>2, <1>3 DEF Abstract
  <2>4. ent' = ent /\ ran' = ran \cup {r} /\ UNCHANGED <<ended, now>>
    BY <1>6 DEF Run
  <2> HIDE DEF ent
  <2>5. Promised!Attempt(r)
    BY <2>2, <2>3, <2>4 DEF Promised!Attempt, ent
  <2>6. QED BY <2>5 DEF Promised!Next
<1>7. ASSUME NEW r \in Rows, SetDone(r), r \in ran \/ CaseOf[r] \in ended, UNCHANGED <<ran, ended, now>>
      PROVE  [Promised!Next]_Promised!vars
  <2>1. CASE row[r].state # "leased"
    <3>1. row' = row
      BY <2>1, <1>7 DEF SetDone
    <3>2. QED BY <3>1, <1>2, <1>7
  <2>2. CASE row[r].state = "leased"
    <3>1. Unleased(r, "done").state = "done"
      BY <1>1, UnleasedRow
    <3>2. \A q \in Rows : row'[q] = IF q = r THEN Unleased(r, "done") ELSE row[q]
      BY <1>1, <1>7, <2>2 DEF SetDone
    <3>3. Abstract(row'[r].state) = "done" /\ \A q \in Rows \ {r} : row'[q].state = row[q].state
      BY <3>1, <3>2 DEF Abstract
    <3>4. ent' = [ent EXCEPT ![r] = "done"]
      BY <3>3, <1>4
    <3>5. ent[r] = "open"
      BY <1>3, <2>2 DEF Abstract
    <3> HIDE DEF ent
    <3>6. Promised!Finish(r)
      BY <3>4, <3>5, <1>7 DEF Promised!Finish, ent
    <3>7. QED BY <3>6 DEF Promised!Next
  <2>3. QED BY <2>1, <2>2
<1>8. ASSUME NEW w \in Workers, TickSelect(w)
      PROVE  UNCHANGED Promised!vars
  BY <1>2, <1>8 DEF TickSelect
<1>9. ASSUME NEW w \in Workers, TickLease(w)
      PROVE  UNCHANGED Promised!vars
  <2>1. locked[w] \subseteq Rows /\ \A r \in locked[w] : row[r].state = "pending"
    BY <1>1 DEF IInv, Locks, LockedIsPending, TypeOK
  <2>2. \A r \in Rows : /\ r \in locked[w] => row'[r].state = "leased"
                        /\ r \notin locked[w] => row'[r] = row[r]
    BY <1>9 DEF TickLease
  <2>3. \A r \in Rows : Abstract(row'[r].state) = Abstract(row[r].state)
    BY <2>1, <2>2 DEF Abstract
  <2>4. UNCHANGED <<ran, ended, now>>
    BY <1>9 DEF TickLease
  <2>5. QED BY <2>3, <2>4, <1>2
<1>10. ASSUME NEW w \in Workers, NEW r \in Rows, Release(w, r)
       PROVE  UNCHANGED Promised!vars
  <2>1. Unleased(r, "pending").state = "pending"
    BY <1>1, UnleasedRow
  <2>2. \A q \in Rows : row'[q] = IF q = r /\ row[r].state = "leased" THEN Unleased(r, "pending") ELSE row[q]
    BY <1>1, <1>10 DEF Release
  <2>3. \A q \in Rows : Abstract(row'[q].state) = Abstract(row[q].state)
    BY <2>1, <2>2 DEF Abstract
  <2>4. UNCHANGED <<ran, ended, now>>
    BY <1>10 DEF Release
  <2>5. QED BY <2>3, <2>4, <1>2
<1>11. ASSUME ReclaimExpiredLeases
       PROVE  UNCHANGED Promised!vars
  <2>1. \A r \in Rows : Unleased(r, "pending").state = "pending"
    BY <1>1, UnleasedRow
  <2>2. \A q \in Rows : row'[q] = IF q \in Expired THEN Unleased(q, "pending") ELSE row[q]
    BY <1>11 DEF ReclaimExpiredLeases
  <2>3. \A q \in Expired : row[q].state = "leased"
    BY DEF Expired
  <2>4. \A q \in Rows : Abstract(row'[q].state) = Abstract(row[q].state)
    BY <2>1, <2>2, <2>3 DEF Abstract
  <2>5. UNCHANGED <<ran, ended, now>>
    BY <1>11 DEF ReclaimExpiredLeases
  <2>6. QED BY <2>4, <2>5, <1>2
<1>12. ASSUME NEW c \in Cases, TerminalWrite(c)
       PROVE  Promised!Next
  <2>1. \A r \in Rows : Unleased(r, "cancelled").state = "cancelled"
    BY <1>1, UnleasedRow
  <2>2. \A r \in Rows : row'[r] = IF r \in Cancellable(c) THEN Unleased(r, "cancelled") ELSE row[r]
    BY <1>12 DEF TerminalWrite, Cancelled
  <2>3. \A r \in Rows : r \in Cancellable(c) <=> CaseOf[r] = c /\ ent[r] = "open"
    <3>1. \A r \in Rows : Live(r) <=> Abstract(row[r].state) = "open"
      <4> SUFFICES ASSUME NEW r \in Rows PROVE Live(r) <=> Abstract(row[r].state) = "open"
        OBVIOUS
      <4>1. row[r].state \in {"absent", "pending", "leased", "done", "cancelled"}
        BY <1>1 DEF RowType
      <4>2. QED BY <4>1 DEF Live, Abstract
    <3>2. QED BY <3>1, <1>3 DEF Cancellable
  <2>4. \A r \in Rows : ent'[r] = IF CaseOf[r] = c /\ ent[r] = "open" THEN "cancelled" ELSE ent[r]
    <3> SUFFICES ASSUME NEW r \in Rows
                 PROVE  ent'[r] = IF CaseOf[r] = c /\ ent[r] = "open" THEN "cancelled" ELSE ent[r]
      OBVIOUS
    <3>1. CASE r \in Cancellable(c)
      <4>1. row'[r].state = "cancelled"
        BY <3>1, <2>1, <2>2
      <4>2. QED BY <4>1, <3>1, <2>3, <1>3 DEF Abstract
    <3>2. CASE r \notin Cancellable(c)
      <4>1. row'[r] = row[r]
        BY <3>2, <2>2
      <4>2. QED BY <4>1, <3>2, <2>3, <1>3
    <3>3. QED BY <3>1, <3>2
  <2>5. ent' = [r \in Rows |-> IF CaseOf[r] = c /\ ent[r] = "open" THEN "cancelled" ELSE ent[r]]
    BY <2>4, <1>3
  <2>6. c \notin ended /\ ended' = ended \cup {c} /\ UNCHANGED <<ran, now>>
    BY <1>12 DEF TerminalWrite
  <2> HIDE DEF ent
  <2>7. Promised!End(c)
    BY <2>5, <2>6 DEF Promised!End, ent
  <2>8. QED BY <2>7 DEF Promised!Next
<1>13. ASSUME NEW w \in Workers, Crash(w)
       PROVE  UNCHANGED Promised!vars
  BY <1>2, <1>13 DEF Crash
<1>14. ASSUME Tick
       PROVE  Promised!Next
  <2>1. Promised!Pass
    BY <1>14 DEF Tick, Promised!Pass
  <2>2. QED BY <2>1 DEF Promised!Next
<1>15. CASE UNCHANGED vars
  BY <1>2, <1>15 DEF vars
<1>16. CASE \E w \in Workers : Work(w)
  <2>1. PICK w \in Workers : Work(w)
    BY <1>16
  <2>2. ASSUME NEW r \in Rows, Complete(w, r)
        PROVE  [Promised!Next]_Promised!vars
    <3>1. r \in ran
      BY <2>2 DEF IInv, Runs, BusyWasRun, Complete
    <3>2. SetDone(r) /\ UNCHANGED <<ran, ended, now>>
      BY <2>2 DEF Complete
    <3>3. QED BY <3>1, <3>2, <1>7
  <2>3. ASSUME NEW r \in Rows, CompleteUnrun(w, r)
        PROVE  [Promised!Next]_Promised!vars
    BY <2>3, <1>7 DEF CompleteUnrun
  <2>4. QED BY <2>1, <2>2, <2>3, <1>6, <1>8, <1>9 DEF Work
<1>17. QED BY <1>5, <1>10, <1>11, <1>12, <1>13, <1>14, <1>15, <1>16 DEF Next

(* The workers with their ticks, leases, hangs and deaths implement        *)
(* Agenda: whatever is run is due, whatever is done was run or outlived    *)
(* its case, and a terminal write settles all that is outstanding.         *)
THEOREM SchedulerKeepsPromise == Spec => ImplementsAgenda
<1>1. Init => Promised!Init
  BY InitRefines
<1>2. IInv /\ HeldIsDue /\ [Next]_vars => [Promised!Next]_Promised!vars
  BY NextRefines
<1>3. QED BY <1>1, <1>2, Invariance, DueInvariance, PTL DEF Spec, ImplementsAgenda, Promised!Spec
=============================================================================
