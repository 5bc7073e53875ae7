-------------------------- MODULE SettlementProofs --------------------------
(***************************************************************************)
(* Theorems about Settlement, for any obligations, deliveries and reports, *)
(* any amounts, and any bound on crashes and repetitions.                  *)
(***************************************************************************)
EXTENDS Settlement, FiniteSetTheorems, TLAPS

Past == {"matched", "recorded", "summing", "covered", "marked"}
Labels == {"sent", "verifying", "logging", "answered", "lost", "refused"} \cup Past

(* What reaches the verifier reports money; a webhook's also has a key.    *)
PaysIn(d) == Report[d].paid /\ (Report[d].channel = "webhook" => Report[d].through # Nothing)

(* A match by key stands: matching again, with whatever key, comes to it.  *)
Stands(d, o) == Report[d].through # Nothing => o = ByKey(d)

PaidLogged(d) == \E entry \in received : entry.entity = Report[d].entity /\ entry.paid

(* The redelivery of d will be a duplicate, or may soon be one.            *)
Doomed(d) ==
  /\ Report[d].channel = "webhook"
  /\ \/ PaidLogged(d)
     \/ \E e \in Deliveries : SameWebhook(d, e) /\ Report[e].paid /\ at[e] = "logging"

(* The handling of d will still come to close the case of o, unless it was *)
(* matched to another obligation on its redelivery.                        *)
Active(d, o) ==
  /\ PaysIn(d) /\ Reported(d, o) /\ ~Doomed(d)
  /\ at[d] # "logging"
  /\ at[d] = "answered" => Strays(d, o)

Ignored(d, o) == Reported(d, o) /\ FailureLogged(d)

-----------------------------------------------------------------------------
(* The strengthening, in the order of the handling.                        *)
VerifiedPays == \A d \in Deliveries : at[d] \in Past \cup {"verifying"} => PaysIn(d)
LoggersAreWebhooks == \A d \in Deliveries : at[d] = "logging" => Report[d].channel = "webhook"
TargetsStand == \A d \in Deliveries : at[d] \in Past => Stands(d, target[d])
RowsStand ==
  \A d \in Deliveries : \A s \in settlements :
    Report[d].paid /\ s.id = Report[d].id => Stands(d, s.ob)
CountedFirst ==
  \A d \in Deliveries :
    SettlesIfPaid(d) /\ at[d] \in (Past \ {"matched"}) \cup {"logging"} => Known(d)
LoggedIsCounted ==
  \A d \in Deliveries :
    Report[d].channel = "webhook" /\ SettlesIfPaid(d) /\ PaidLogged(d) => Known(d)
LastPartIsActive ==
  \A o \in Obligations : Covered(o) /\ Open(o) =>
    \E d \in Deliveries : Active(d, o) \/ Ignored(d, o)

Handling == VerifiedPays /\ LoggersAreWebhooks /\ TargetsStand
Books == RowsStand /\ CountedFirst /\ LoggedIsCounted /\ CapturedIsCounted

IInv == TypeOK /\ Handling /\ Books /\ LastPartIsActive

LEMMA InitIsInductive == Init => IInv
<1> SUFFICES ASSUME Init PROVE IInv
  OBVIOUS
<1>1. TypeOK
  <2>1. Observed \in Revisions
    <3>1. 0 \in Tiers /\ "DETECTED" \in CaseStates /\ "OBSERVING" \in CaseStates
      BY DEF Tiers, CaseStates, LiveStates
    <3>2. InitialRevision \in Revisions
      BY <3>1, Zenon, 0 \in Nat DEF InitialRevision, Revisions
    <3>3. QED BY <3>1, <3>2 DEF Observed, Revisions
  <2>2. QED BY <2>1, SettlementAssumption DEF Init, TypeOK
<1>2. Handling
  BY DEF Init, Handling, VerifiedPays, LoggersAreWebhooks, TargetsStand, Past
<1>3. Books
  BY DEF Init, Books, RowsStand, CountedFirst, LoggedIsCounted, CapturedIsCounted, PaidLogged, Past
<1>4. LastPartIsActive
  BY DEF Init, LastPartIsActive, Covered, RowsOf
<1>5. QED BY <1>1, <1>2, <1>3, <1>4 DEF IInv

-----------------------------------------------------------------------------
(* Facts about matching.                                                   *)

LEMMA Keys ==
  ASSUME NEW d \in Deliveries
  PROVE  /\ Report[d].through = Nothing => ByKey(d) = Nothing
         /\ Report[d].through # Nothing => ByKey(d) \in Obligations /\ ByKey(d) # Nothing
BY SettlementAssumption DEF ByKey, Reports

LEMMA MatchStands ==
  ASSUME NEW d \in Deliveries, NEW o \in MatchOf(d)
  PROVE  Stands(d, o)
BY DEF Stands, MatchOf

(* Reports of money under one id are matched by the keys of one obligation.*)
LEMMA OneIdStands ==
  ASSUME NEW d \in Deliveries, NEW e \in Deliveries, Report[d].paid, Report[e].paid,
         Report[d].id = Report[e].id, NEW o, Stands(d, o)
  PROVE  Stands(e, o)
<1>1. ByKey(d) = ByKey(e)
  BY SettlementAssumption
<1>2. QED BY <1>1, Keys DEF Stands

(* Webhooks of one entity that report money are about one settlement.      *)
LEMMA WebhooksOfOneEntity ==
  ASSUME NEW d \in Deliveries, NEW e \in Deliveries, SameWebhook(d, e),
         Report[d].paid, Report[e].paid
  PROVE  /\ Report[d].id = Report[e].id
         /\ ByKey(d) = ByKey(e)
         /\ Report[d].through = Nothing <=> Report[e].through = Nothing
<1>1. Report[d].id = Report[e].id /\ ByKey(d) = ByKey(e)
  BY SettlementAssumption
<1>2. QED BY <1>1, Keys

-----------------------------------------------------------------------------
(* A step that moves the handling of one delivery, and may match it, close *)
(* its case or settle its obligation; and one that besides writes neither  *)
(* a settlement nor a ledger entry.                                        *)
Moves(d, l) ==
  /\ at' = [at EXCEPT ![d] = l]
  /\ \A e \in Deliveries : e # d => target'[e] = target[e]
  /\ \A o \in Obligations : Open(o)' => Open(o)

MovesTo(d, l) == Moves(d, l) /\ UNCHANGED <<settlements, received>>

LEMMA MoveKeepsHandling ==
  ASSUME IInv, NEW d \in Deliveries, NEW l \in Labels, Moves(d, l),
         l \in Past \cup {"verifying"} => PaysIn(d),
         l = "logging" => Report[d].channel = "webhook",
         l \in Past => Stands(d, target'[d])
  PROVE  Handling'
<1>1. \A e \in Deliveries : at'[e] = IF e = d THEN l ELSE at[e]
  BY DEF Moves, IInv, TypeOK
<1>2. VerifiedPays' /\ LoggersAreWebhooks'
  BY <1>1 DEF IInv, Handling, VerifiedPays, LoggersAreWebhooks, PaysIn
<1>3. TargetsStand'
  BY <1>1 DEF IInv, Handling, TargetsStand, Moves, Stands, ByKey
<1>4. QED BY <1>2, <1>3 DEF Handling

LEMMA MoveKeepsBooks ==
  ASSUME IInv, NEW d \in Deliveries, NEW l \in Labels, MovesTo(d, l),
         SettlesIfPaid(d) /\ l \in (Past \ {"matched"}) \cup {"logging"} => Known(d),
         Report[d].channel = "webhook" /\ SettlesIfPaid(d) /\ l = "answered"
           => Known(d) \/ FailureLogged(d)
  PROVE  Books'
<1>1. \A e \in Deliveries : at'[e] = IF e = d THEN l ELSE at[e]
  BY DEF MovesTo, Moves, IInv, TypeOK
<1>2. RowsStand'
  BY DEF IInv, Books, RowsStand, MovesTo, Stands, ByKey
<1>3. CountedFirst' /\ LoggedIsCounted' /\ CapturedIsCounted'
  BY <1>1 DEF IInv, Books, CountedFirst, LoggedIsCounted, CapturedIsCounted, MovesTo, Moves, Known,
     SettlesIfPaid, PaidLogged, FailureLogged
<1>4. QED BY <1>2, <1>3 DEF Books

LEMMA MoveKeepsLastPart ==
  ASSUME IInv, NEW d \in Deliveries, NEW l \in Labels, MovesTo(d, l),
         \A o \in Obligations : Active(d, o) /\ Covered(o) /\ Open(o)' =>
            \/ Ignored(d, o)
            \/ l # "logging" /\ (l = "answered" => Strays(d, o)'),
         \A o \in Obligations : \A e \in Deliveries :
            l = "logging" /\ Report[d].paid /\ Active(e, o) /\ SameWebhook(e, d) /\ Covered(o)
              => ~Open(o)'
  PROVE  LastPartIsActive'
<1>1. \A e \in Deliveries : at'[e] = IF e = d THEN l ELSE at[e]
  BY DEF MovesTo, Moves, IInv, TypeOK
<1> SUFFICES ASSUME NEW o \in Obligations, Covered(o)', Open(o)'
             PROVE  \E e \in Deliveries : Active(e, o)' \/ Ignored(e, o)'
  BY DEF LastPartIsActive
<1>2. Covered(o) /\ Open(o)
  BY DEF Covered, RowsOf, MovesTo, Moves
<1>3. \A e \in Deliveries : Reported(e, o)' = Reported(e, o)
  BY DEF Reported, RowsOf, MovesTo, Moves
<1>4. PICK e \in Deliveries : Active(e, o) \/ Ignored(e, o)
  BY <1>2 DEF IInv, LastPartIsActive
<1>5. CASE Ignored(e, o) \/ (e = d /\ Ignored(d, o))
  <2>1. Ignored(e, o)'
    BY <1>3, <1>5 DEF Ignored, FailureLogged, MovesTo
  <2>2. QED BY <2>1
<1>6. CASE Active(e, o) /\ ~Ignored(e, o)
  <2>1. ~Doomed(e)'
    <3>1. PaidLogged(e)' = PaidLogged(e)
      BY DEF PaidLogged, MovesTo, Moves
    <3>2. ASSUME NEW f \in Deliveries, SameWebhook(e, f), Report[f].paid, at'[f] = "logging"
          PROVE  FALSE
      BY <1>1, <1>2, <1>6, <3>2 DEF Active, Doomed, SameWebhook
    <3>3. QED BY <3>1, <3>2, <1>6 DEF Active, Doomed
  <2>2. CASE e = d
    <3>1. at'[e] # "logging" /\ (at'[e] = "answered" => Strays(e, o)')
      BY <1>1, <1>2, <1>6, <2>2
    <3>2. Active(e, o)'
      BY <1>3, <1>6, <2>1, <3>1 DEF Active, PaysIn
    <3>3. QED BY <3>2
  <2>3. CASE e # d
    <3>1. at'[e] = at[e] /\ target'[e] = target[e]
      BY <1>1, <2>3 DEF MovesTo, Moves
    <3>2. Active(e, o)'
      BY <1>3, <1>6, <2>1, <3>1 DEF Active, PaysIn, Strays
    <3>3. QED BY <3>2
  <2>4. QED BY <2>2, <2>3
<1>7. QED BY <1>4, <1>5, <1>6

(* Money recorded under the settlement id of a report is where a match of  *)
(* the report stands.                                                      *)
LEMMA ReportedStands ==
  ASSUME IInv, NEW d \in Deliveries, Report[d].paid
  PROVE  \A o \in Obligations : Reported(d, o) => Stands(d, o) /\ Known(d)
BY DEF IInv, Books, RowsStand, Reported, RowsOf, Known

(* Two webhooks of one entity: the case of the one that is being handled   *)
(* is the case the other would close.                                      *)
LEMMA WebhooksOfOneCase ==
  ASSUME IInv, NEW d \in Deliveries, Report[d].paid, NEW o \in Obligations,
         NEW e \in Deliveries, Active(e, o), SameWebhook(e, d)
  PROVE  /\ SettlesIfPaid(d)
         /\ at[d] \in Past => target[d] = o
<1>1. Stands(e, o) /\ Report[e].paid /\ Report[e].through # Nothing
  BY ReportedStands DEF Active, PaysIn, SameWebhook
<1>2. ByKey(d) = ByKey(e) /\ Report[d].through # Nothing
  BY <1>1, WebhooksOfOneEntity
<1>3. at[d] \in Past => target[d] = ByKey(d)
  BY <1>2 DEF IInv, Handling, TargetsStand, Stands
<1>4. QED BY <1>1, <1>2, <1>3 DEF SettlesIfPaid, Stands

Safe == Handling /\ Books /\ LastPartIsActive

LEMMA ReceiveKeeps ==
  ASSUME IInv, NEW d \in Deliveries, Receive(d)
  PROVE  Safe'
<1> DEFINE l == AfterReceipt(d)
<1>1. l \in {"verifying", "logging", "answered"}
  BY DEF AfterReceipt
<1>2. l \in Labels /\ l \notin Past
  BY <1>1 DEF Labels, Past
<1>3. MovesTo(d, l)
  BY DEF Receive, Goto, MovesTo, Moves, Open
<1>4. Report[d] \in Reports /\ (Report[d].channel # "webhook" => Report[d].paid)
  BY SettlementAssumption
<1>5. l = "verifying" => PaysIn(d)
  BY <1>4 DEF AfterReceipt, SettlesIfPaid, PaysIn
<1>6. l = "logging" => Report[d].channel = "webhook" /\ ~SettlesIfPaid(d)
  BY DEF AfterReceipt
<1>7. Report[d].channel = "webhook" /\ l = "answered" => PaidLogged(d) \/ FailureLogged(d)
  BY DEF AfterReceipt, Duplicate, PaidLogged, FailureLogged
<1>8. ASSUME NEW o \in Obligations, Active(d, o), Open(o)
      PROVE  Ignored(d, o) \/ l \notin {"answered", "logging"}
  <2>1. CASE Report[d].channel = "webhook"
    <3>1. l # "logging"
      BY <1>6, <1>8, <2>1 DEF Active, PaysIn, SettlesIfPaid
    <3>2. l = "answered" => FailureLogged(d)
      BY <1>7, <1>8, <2>1 DEF Active, Doomed
    <3>3. QED BY <3>1, <3>2, <1>8 DEF Active, Ignored
  <2>2. CASE Report[d].channel = "pull"
    <3>1. Report[d].through # Nothing
      BY <2>2, SettlementAssumption
    <3>2. o = ByKey(d)
      BY <1>8, <3>1, ReportedStands DEF Active, PaysIn, Stands
    <3>3. QED BY <1>8, <2>2, <3>2 DEF AfterReceipt, AsksAbout
  <2>3. CASE Report[d].channel \notin {"webhook", "pull"}
    BY <2>3 DEF AfterReceipt
  <2>4. QED BY <2>1, <2>2, <2>3
<1>9. \A o \in Obligations : Open(o)' = Open(o)
  BY DEF Receive, Open
<1> HIDE DEF l
<1>10. Handling'
  BY <1>1, <1>2, <1>3, <1>5, <1>6, MoveKeepsHandling DEF MovesTo
<1>11. Books'
  BY <1>1, <1>2, <1>3, <1>6, <1>7, MoveKeepsBooks DEF IInv, Books, LoggedIsCounted
<1>12. LastPartIsActive'
  BY <1>1, <1>2, <1>3, <1>6, <1>8, <1>9, MoveKeepsLastPart, WebhooksOfOneCase
<1>13. QED BY <1>10, <1>11, <1>12 DEF Safe

(* A match may be another one than before: what goes astray is said so.    *)
LEMMA MatchKeeps ==
  ASSUME IInv, NEW d \in Deliveries, Match(d)
  PROVE  Safe'
<1>1. PICK t \in MatchOf(d) : target' = [target EXCEPT ![d] = t]
  BY DEF Match
<1>2. target'[d] = t /\ \A e \in Deliveries : e # d => target'[e] = target[e]
  BY <1>1 DEF IInv, TypeOK
<1>3. MovesTo(d, "matched")
  BY <1>2 DEF Match, Goto, MovesTo, Moves, Open
<1>4. "matched" \in Labels /\ "matched" \in Past
  BY DEF Labels, Past
<1>5. PaysIn(d)
  BY DEF IInv, Handling, VerifiedPays, Match
<1>6. Stands(d, target'[d])
  BY <1>2, MatchStands
<1>7. Handling'
  BY <1>3, <1>4, <1>5, <1>6, MoveKeepsHandling DEF MovesTo
<1>8. Books'
  BY <1>3, <1>4, MoveKeepsBooks
<1>9. LastPartIsActive'
  BY <1>3, <1>4, MoveKeepsLastPart
<1>10. QED BY <1>7, <1>8, <1>9 DEF Safe

-----------------------------------------------------------------------------
(* The end of onSettlement: what is left is the ledger entry of a webhook. *)
LEMMA ReturnKeeps ==
  ASSUME IInv, NEW d \in Deliveries, MovesTo(d, AfterVerifier(d)), UNCHANGED target,
         at[d] \in Past,
         \A o \in Obligations : target[d] = o /\ Covered(o) => ~Open(o)',
         SettlesIfPaid(d) => Known(d)
  PROVE  Safe'
<1> DEFINE l == AfterVerifier(d)
<1>1. l \in Labels /\ l \notin Past /\ l \in {"answered", "logging"}
  BY DEF AfterVerifier, Labels, Past
<1>2. l = "logging" <=> Report[d].channel = "webhook"
  BY DEF AfterVerifier
<1>3. PaysIn(d)
  BY DEF IInv, Handling, VerifiedPays
<1> HIDE DEF l
<1>4. Handling'
  BY <1>1, <1>2, MoveKeepsHandling DEF MovesTo, l
<1>5. Books'
  BY <1>1, <1>2, MoveKeepsBooks DEF l
<1>6. LastPartIsActive'
  <2>1. MovesTo(d, l)
    BY DEF l
  <2>2. ASSUME NEW o \in Obligations, Active(d, o), Covered(o), Open(o)'
        PROVE  l # "logging" /\ Strays(d, o)'
    <3>1. target[d] # o
      BY <2>2
    <3>2. Report[d].through = Nothing
      BY <2>2, <3>1, <1>3, ReportedStands DEF IInv, Handling, TargetsStand, Stands, Active, PaysIn
    <3>3. Report[d].channel # "webhook"
      BY <1>3, <3>2 DEF PaysIn
    <3>4. QED BY <1>2, <3>1, <3>2, <3>3 DEF Strays
  <2>3. \A o \in Obligations : \A e \in Deliveries :
          Report[d].paid /\ Active(e, o) /\ SameWebhook(e, d) /\ Covered(o) => ~Open(o)'
    BY WebhooksOfOneCase
  <2>4. QED BY <1>1, <2>1, <2>2, <2>3, MoveKeepsLastPart
<1>7. QED BY <1>4, <1>5, <1>6 DEF Safe

-----------------------------------------------------------------------------
(* record, when the settlement is not yet on the books.                    *)
LEMMA NewRowKeeps ==
  ASSUME IInv, NEW d \in Deliveries, Record(d), ~Known(d)
  PROVE  Safe'
<1> DEFINE l == AfterRecord(d)
<1>1. at[d] = "matched" /\ settlements' = settlements \cup {Row(d)}
  BY DEF Record
<1>2. PaysIn(d) /\ Stands(d, target[d])
  BY <1>1 DEF IInv, Handling, VerifiedPays, TargetsStand, Past
<1>3. Report[d].channel = "webhook" => target[d] # Nothing
  BY <1>2, Keys DEF PaysIn, Stands
<1>4. l \in Labels /\ (target[d] # Nothing => l = "recorded")
      /\ (target[d] = Nothing => l = "answered")
  BY <1>3 DEF AfterRecord, AfterVerifier, Labels, Past
<1>5. l # "logging" /\ (l \in Past => target[d] # Nothing)
  BY <1>4 DEF Past
<1>6. Moves(d, l) /\ UNCHANGED <<target, received>>
  BY DEF Record, Goto, Moves, Open
<1>7. Known(d)' /\ \A e \in Deliveries : Known(e) => Known(e)'
  <2>1. Row(d) \in settlements' /\ Row(d).id = Report[d].id
    BY <1>1 DEF Row
  <2>2. QED BY <1>1, <2>1 DEF Known
<1> HIDE DEF l
<1>8. \A e \in Deliveries : at'[e] = IF e = d THEN l ELSE at[e]
  BY <1>6 DEF Moves, IInv, TypeOK
<1>9. Handling'
  BY <1>2, <1>4, <1>5, <1>6, MoveKeepsHandling
<1>10. RowsStand'
  <2> SUFFICES ASSUME NEW e \in Deliveries, NEW s \in settlements', Report[e].paid,
                      s.id = Report[e].id
               PROVE  Stands(e, s.ob)
    BY DEF RowsStand, Stands, ByKey
  <2>1. CASE s \in settlements
    BY <2>1 DEF IInv, Books, RowsStand
  <2>2. CASE s = Row(d)
    <3>1. s.ob = target[d] /\ s.id = Report[d].id
      BY <2>2 DEF Row
    <3>2. QED BY <1>2, <3>1, OneIdStands DEF PaysIn
  <2>3. QED BY <1>1, <2>1, <2>2
<1>11. CountedFirst' /\ LoggedIsCounted' /\ CapturedIsCounted'
  BY <1>6, <1>7, <1>8 DEF IInv, Books, CountedFirst, LoggedIsCounted, CapturedIsCounted,
     SettlesIfPaid, PaidLogged, FailureLogged
<1>12. LastPartIsActive'
  <2> SUFFICES ASSUME NEW o \in Obligations, Covered(o)', Open(o)'
               PROVE  \E e \in Deliveries : Active(e, o)' \/ Ignored(e, o)'
    BY DEF LastPartIsActive
  <2>1. \A e \in Deliveries : PaidLogged(e)' = PaidLogged(e)
    BY <1>6 DEF PaidLogged
  <2>2. CASE target[d] = o
    <3>1. Reported(d, o)'
      <4>1. Row(d) \in settlements' /\ Row(d).id = Report[d].id /\ Row(d).ob = o
        BY <1>1, <2>2 DEF Row
      <4>2. QED BY <4>1 DEF Reported, RowsOf
    <3>2. ASSUME Report[d].channel = "webhook", PaidLogged(d)
          PROVE  FALSE
      BY <1>2, <3>2 DEF IInv, Books, LoggedIsCounted, PaysIn, SettlesIfPaid
    <3>3. ASSUME NEW e \in Deliveries, SameWebhook(d, e), Report[e].paid, at'[e] = "logging"
          PROVE  FALSE
      <4>1. /\ Report[d].id = Report[e].id
            /\ Report[d].through = Nothing <=> Report[e].through = Nothing
        BY <1>2, <3>3, WebhooksOfOneEntity DEF PaysIn
      <4>2. SettlesIfPaid(e) /\ at[e] = "logging"
        BY <1>2, <1>5, <1>8, <3>3, <4>1 DEF PaysIn, SettlesIfPaid, SameWebhook
      <4>3. QED BY <4>1, <4>2 DEF IInv, Books, CountedFirst, Known
    <3>4. ~Doomed(d)'
      BY <2>1, <3>2, <3>3 DEF Doomed
    <3>5. at'[d] = "recorded" /\ target'[d] = o
      BY <1>4, <1>6, <1>8, <2>2, SettlementAssumption
    <3>6. QED BY <1>2, <3>1, <3>4, <3>5 DEF Active, PaysIn
  <2>3. CASE target[d] # o
    <3>1. RowsOf(o)' = RowsOf(o)
      BY <1>1, <2>3 DEF RowsOf, Row
    <3>2. Covered(o) /\ Open(o)
      BY <3>1, <1>6 DEF Covered, Moves
    <3>3. \A e \in Deliveries : Reported(e, o)' = Reported(e, o)
      BY <3>1 DEF Reported
    <3>4. \A e \in Deliveries : Ignored(e, o) => Ignored(e, o)'
      BY <3>3, <1>6 DEF Ignored, FailureLogged
    <3>5. ASSUME NEW e \in Deliveries, Active(e, o)
          PROVE  Active(e, o)'
      <4>1. e # d
        BY <3>5 DEF Active, Reported, RowsOf, Known
      <4>2. ~Doomed(e)'
        BY <1>5, <1>8, <2>1, <3>5 DEF Active, Doomed
      <4>3. QED BY <1>6, <1>8, <3>3, <3>5, <4>1, <4>2 DEF Active, PaysIn, Strays
    <3>6. QED BY <3>2, <3>4, <3>5 DEF IInv, LastPartIsActive
  <2>4. QED BY <2>2, <2>3
<1>13. QED BY <1>9, <1>10, <1>11, <1>12 DEF Safe, Books

LEMMA RecordKeeps ==
  ASSUME IInv, NEW d \in Deliveries, Record(d)
  PROVE  Safe'
<1>1. CASE ~Known(d)
  BY <1>1, NewRowKeeps
<1>2. CASE Known(d)
  <2>1. at[d] \in Past /\ "recorded" \in Labels /\ "recorded" \in Past
    BY DEF Record, Past, Labels
  <2>2. MovesTo(d, AfterRecord(d)) /\ UNCHANGED target
    BY <1>2 DEF Record, Goto, MovesTo, Moves, Open
  <2>3. CASE target[d] = Nothing
    BY <1>2, <2>1, <2>2, <2>3, ReturnKeeps, SettlementAssumption DEF AfterRecord
  <2>4. CASE target[d] # Nothing
    <3>1. MovesTo(d, "recorded")
      BY <2>2, <2>4 DEF AfterRecord
    <3>2. PaysIn(d) /\ Stands(d, target'[d])
      BY <2>1, <2>2 DEF IInv, Handling, VerifiedPays, TargetsStand
    <3>3. Handling'
      BY <2>1, <3>1, <3>2, MoveKeepsHandling DEF MovesTo
    <3>4. Books'
      BY <1>2, <2>1, <3>1, MoveKeepsBooks
    <3>5. LastPartIsActive'
      BY <2>1, <3>1, MoveKeepsLastPart
    <3>6. QED BY <3>3, <3>4, <3>5 DEF Safe
  <2>5. QED BY <2>3, <2>4
<1>3. QED BY <1>1, <1>2

(* The other steps of onSettlement.                                        *)
LEMMA RecordThrowsKeeps ==
  ASSUME IInv, NEW d \in Deliveries, RecordThrows(d)
  PROVE  Safe'
<1>1. MovesTo(d, "refused") /\ "refused" \in Labels /\ "refused" \notin Past
  BY DEF RecordThrows, Goto, MovesTo, Moves, Open, Labels, Past
<1>2. Handling'
  BY <1>1, MoveKeepsHandling DEF MovesTo
<1>3. Books'
  BY <1>1, MoveKeepsBooks
<1>4. LastPartIsActive'
  BY <1>1, MoveKeepsLastPart
<1>5. QED BY <1>2, <1>3, <1>4 DEF Safe

(* From one of the queries of onSettlement to the next.                    *)
LEMMA GoOnKeeps ==
  ASSUME IInv, NEW d \in Deliveries, NEW l \in Past, MovesTo(d, l), UNCHANGED target,
         at[d] \in Past \ {"matched"}
  PROVE  Safe'
<1>1. l \in Labels /\ l \notin {"answered", "logging"} /\ at[d] \in Past
  BY DEF Labels, Past
<1>2. PaysIn(d) /\ Stands(d, target'[d])
  BY <1>1 DEF IInv, Handling, VerifiedPays, TargetsStand
<1>3. SettlesIfPaid(d) => Known(d)
  BY DEF IInv, Books, CountedFirst
<1>4. Handling'
  BY <1>1, <1>2, MoveKeepsHandling DEF MovesTo
<1>5. Books'
  BY <1>1, <1>3, MoveKeepsBooks
<1>6. LastPartIsActive'
  BY <1>1, MoveKeepsLastPart
<1>7. QED BY <1>4, <1>5, <1>6 DEF Safe

LEMMA FindCaseKeeps ==
  ASSUME IInv, NEW d \in Deliveries, FindCase(d)
  PROVE  Safe'
<1>1. at[d] \in Past \ {"matched"} /\ at[d] \in Past /\ "summing" \in Past
  BY DEF FindCase, Past
<1>2. \A l : at' = [at EXCEPT ![d] = l] => MovesTo(d, l)
  BY DEF FindCase, MovesTo, Moves, Open
<1>3. CASE Open(target[d])
  BY <1>1, <1>2, <1>3, GoOnKeeps DEF FindCase, Goto
<1>4. CASE ~Open(target[d])
  <2>1. SettlesIfPaid(d) => Known(d)
    BY <1>1 DEF IInv, Books, CountedFirst
  <2>2. ~Open(target[d])'
    BY <1>4 DEF Open, FindCase
  <2>3. MovesTo(d, AfterVerifier(d)) /\ UNCHANGED target
    BY <1>2, <1>4 DEF FindCase, Goto
  <2>4. \A o \in Obligations : target[d] = o => ~Open(o)'
    BY <2>2 DEF Open, FindCase
  <2>5. QED BY <1>1, <2>1, <2>3, <2>4, ReturnKeeps
<1>5. QED BY <1>3, <1>4

LEMMA SumKeeps ==
  ASSUME IInv, NEW d \in Deliveries, Sum(d)
  PROVE  Safe'
<1>1. at[d] \in Past \ {"matched"} /\ at[d] \in Past /\ "covered" \in Past
  BY DEF Sum, Past
<1>2. \A l : at' = [at EXCEPT ![d] = l] => MovesTo(d, l)
  BY DEF Sum, MovesTo, Moves, Open
<1>3. CASE ~(SettledAmount(d) < Owed[target[d]])
  BY <1>1, <1>2, <1>3, GoOnKeeps DEF Sum, Goto
<1>4. CASE SettledAmount(d) < Owed[target[d]]
  <2>1. SettlesIfPaid(d) => Known(d)
    BY <1>1 DEF IInv, Books, CountedFirst
  <2>2. ~Covered(target[d])
    BY <1>4 DEF Covered, SettledAmount
  <2>3. MovesTo(d, AfterVerifier(d)) /\ UNCHANGED target
    BY <1>2, <1>4 DEF Sum, Goto
  <2>4. QED BY <1>1, <2>1, <2>2, <2>3, ReturnKeeps
<1>5. QED BY <1>3, <1>4

LEMMA MarkKeeps ==
  ASSUME IInv, NEW d \in Deliveries, Mark(d)
  PROVE  Safe'
<1>1. at[d] \in Past \ {"matched"} /\ "marked" \in Past
  BY DEF Mark, Past
<1>2. MovesTo(d, "marked")
  BY DEF Mark, Goto, MovesTo, Moves, Open
<1>3. QED BY <1>1, <1>2, GoOnKeeps DEF Mark

(* A terminal event closes the case, whatever its revision.                *)
LEMMA EndedIsClosed ==
  ASSUME NEW rev, NEW s
  PROVE  Ended(rev, Terminal(s)).reason
BY DEF Ended, Reduce, Terminal

LEMMA CloseKeeps ==
  ASSUME IInv, NEW d \in Deliveries, Close(d)
  PROVE  Safe'
<1>1. at[d] \in Past \ {"matched"} /\ at[d] \in Past
  BY DEF Close, Past
<1>2. CASE Accepts(case[target[d]], Recovered)
  <2>1. \A o \in Obligations : Open(o)' => Open(o) /\ o # target[d]
    BY <1>2, EndedIsClosed DEF Close, Open, Recovered, IInv, TypeOK
  <2>2. MovesTo(d, AfterVerifier(d)) /\ UNCHANGED target
    BY <1>2, <2>1 DEF Close, Goto, MovesTo, Moves
  <2>3. SettlesIfPaid(d) => Known(d)
    BY <1>1 DEF IInv, Books, CountedFirst
  <2>4. QED BY <1>1, <2>1, <2>2, <2>3, ReturnKeeps
<1>3. CASE ~Accepts(case[target[d]], Recovered)
  <2>1. MovesTo(d, "refused") /\ "refused" \in Labels /\ "refused" \notin Past
    BY <1>3 DEF Close, Goto, MovesTo, Moves, Open, Labels, Past
  <2>2. Handling'
    BY <2>1, MoveKeepsHandling DEF MovesTo
  <2>3. Books'
    BY <2>1, MoveKeepsBooks
  <2>4. LastPartIsActive'
    BY <2>1, MoveKeepsLastPart
  <2>5. QED BY <2>2, <2>3, <2>4 DEF Safe
<1>4. QED BY <1>2, <1>3

(* What the deliveries themselves do: die, and come again.                 *)
LEMMA ComesAgainKeeps ==
  ASSUME IInv, NEW d \in Deliveries, Crash(d) \/ Retry(d) \/ Repeat(d)
  PROVE  Safe'
<1>1. PICK l \in {"lost", "sent"} : at' = [at EXCEPT ![d] = l]
  BY DEF Crash, Retry, Repeat, Goto
<1>2. l \in Labels /\ l \notin Past
  BY DEF Labels, Past
<1>3. MovesTo(d, l)
  BY <1>1 DEF Crash, Retry, Repeat, MovesTo, Moves, Open
<1>4. Handling'
  BY <1>2, <1>3, MoveKeepsHandling DEF MovesTo
<1>5. Books'
  BY <1>2, <1>3, MoveKeepsBooks
<1>6. LastPartIsActive'
  BY <1>2, <1>3, MoveKeepsLastPart
<1>7. QED BY <1>4, <1>5, <1>6 DEF Safe

(* The ledger entry of a webhook, after which its redelivery is none.      *)
LEMMA LogKeeps ==
  ASSUME IInv, NEW d \in Deliveries, Log(d)
  PROVE  Safe'
<1>1. at[d] = "logging" /\ Report[d].channel = "webhook"
  BY DEF Log, IInv, Handling, LoggersAreWebhooks
<1>2. Moves(d, "answered") /\ UNCHANGED <<settlements, obState, case, target>>
  BY DEF Log, Goto, Moves, Open
<1>3. "answered" \in Labels /\ "answered" \notin Past
  BY DEF Labels, Past
<1>4. \A e \in Deliveries : at'[e] = IF e = d THEN "answered" ELSE at[e]
  BY <1>2 DEF Moves, IInv, TypeOK
<1>5. received' = received \cup {Entry(d)}
  BY DEF Log
<1>6. Handling'
  BY <1>2, <1>3, MoveKeepsHandling
<1>7. RowsStand'
  BY <1>2 DEF IInv, Books, RowsStand, Stands, ByKey
<1>8. CountedFirst'
  BY <1>2, <1>4, <1>3 DEF IInv, Books, CountedFirst, Known
<1>9. ASSUME NEW e \in Deliveries, Report[e].channel = "webhook", PaidLogged(e)', ~PaidLogged(e)
      PROVE  SameWebhook(e, d) /\ Report[d].paid
  BY <1>1, <1>5, <1>9 DEF PaidLogged, Entry, SameWebhook
<1>10. LoggedIsCounted'
  <2> SUFFICES ASSUME NEW e \in Deliveries, Report[e].channel = "webhook", SettlesIfPaid(e),
                      PaidLogged(e)', ~PaidLogged(e)
               PROVE  Known(e)
    BY <1>2 DEF IInv, Books, LoggedIsCounted, Known, SettlesIfPaid
  <2>1. SettlesIfPaid(d) /\ Report[e].id = Report[d].id
    BY <1>9, WebhooksOfOneEntity DEF SettlesIfPaid
  <2>2. QED BY <1>1, <2>1 DEF IInv, Books, CountedFirst, Known
<1>11. CapturedIsCounted'
  <2>1. \A e \in Deliveries : FailureLogged(e) => FailureLogged(e)'
    BY <1>5 DEF FailureLogged
  <2>2. SettlesIfPaid(d) => Known(d)
    BY <1>1 DEF IInv, Books, CountedFirst
  <2>3. QED BY <1>2, <1>4, <2>1, <2>2 DEF IInv, Books, CapturedIsCounted, Known, SettlesIfPaid
<1>12. LastPartIsActive'
  <2> SUFFICES ASSUME NEW o \in Obligations, Covered(o)', Open(o)'
               PROVE  \E e \in Deliveries : Active(e, o)' \/ Ignored(e, o)'
    BY DEF LastPartIsActive
  <2>1. Covered(o) /\ Open(o) /\ \A e \in Deliveries : Reported(e, o)' = Reported(e, o)
    BY <1>2 DEF Covered, RowsOf, Open, Reported
  <2>2. \A e \in Deliveries : Ignored(e, o) => Ignored(e, o)'
    BY <1>5, <2>1 DEF Ignored, FailureLogged
  <2>3. ASSUME NEW e \in Deliveries, Active(e, o)
        PROVE  Active(e, o)'
    <3>1. e # d
      BY <1>1, <2>3 DEF Active
    <3>2. ~(Report[e].channel = "webhook" /\ PaidLogged(e)')
      BY <1>1, <1>9, <2>3 DEF Active, Doomed
    <3>3. ~Doomed(e)'
      BY <1>4, <2>3, <3>2 DEF Active, Doomed
    <3>4. QED BY <1>2, <1>4, <2>1, <2>3, <3>1, <3>3 DEF Active, PaysIn, Strays
  <2>4. QED BY <2>1, <2>2, <2>3 DEF IInv, LastPartIsActive
<1>13. QED BY <1>6, <1>7, <1>8, <1>10, <1>11, <1>12 DEF Safe, Books

(* What leaves the tables and the handlers alone, and opens no case.       *)
LEMMA ElsewhereKeeps ==
  ASSUME IInv, UNCHANGED <<settlements, received, at, target>>,
         \A o \in Obligations : Open(o)' => Open(o)
  PROVE  Safe'
<1>1. Handling'
  BY DEF IInv, Handling, VerifiedPays, LoggersAreWebhooks, TargetsStand, PaysIn, Stands, ByKey
<1>2. Books'
  BY DEF IInv, Books, RowsStand, CountedFirst, LoggedIsCounted, CapturedIsCounted, Stands, ByKey,
     Known, PaidLogged, FailureLogged, SettlesIfPaid
<1>3. LastPartIsActive'
  BY DEF IInv, LastPartIsActive, Covered, RowsOf, Reported, Ignored, FailureLogged, Active, PaysIn,
     Strays, Doomed, PaidLogged
<1>4. QED BY <1>1, <1>2, <1>3 DEF Safe

LEMMA CloseOtherwiseKeeps ==
  ASSUME IInv, NEW p \in Obligations, CloseOtherwise(p)
  PROVE  Safe'
<1>1. \A o \in Obligations : Open(o)' => Open(o)
  BY EndedIsClosed DEF CloseOtherwise, Open, IInv, TypeOK
<1>2. QED BY <1>1, ElsewhereKeeps DEF CloseOtherwise

-----------------------------------------------------------------------------
(* Types.                                                                  *)
LEMMA EndedType ==
  ASSUME NEW rev \in Revisions, NEW s \in TerminalStates
  PROVE  Ended(rev, Terminal(s)) \in Revisions
<1> DEFINE e == Terminal(s)
<1>1. TargetState(e, rev.state) \in CaseStates
  BY DEF TargetState, Terminal, CaseStates
<1>2. (IF e.type = "diagnosis_started" THEN e.tier ELSE rev.tier) \in Tiers
  BY DEF Terminal, Revisions
<1>3. rev.revision + 1 \in Nat
  BY DEF Revisions
<1>4. /\ ((rev.incident \/ e.type = "incident_attached") /\ e.type # "incident_released") \in BOOLEAN
      /\ (rev.reason \/ e.type = "terminal_reached") \in BOOLEAN
  OBVIOUS
<1> HIDE DEF e
<1>5. Reduce(rev, e) \in Revisions
  BY <1>1, <1>2, <1>3, <1>4, Zenon DEF Reduce, Revisions
<1>6. QED BY <1>5 DEF Ended, Revisions, e

LEMMA TypesKeep == IInv /\ [Next]_vars => TypeOK'
<1> SUFFICES ASSUME IInv, [Next]_vars PROVE TypeOK'
  OBVIOUS
<1> USE DEF TypeOK, IInv
<1>1. ASSUME NEW d \in Deliveries, NEW l, at' = [at EXCEPT ![d] = l], l \in Labels
      PROVE  at' \in [Deliveries -> Labels]
  BY <1>1 DEF Labels, Past
<1>2. \A d \in Deliveries : AfterVerifier(d) \in Labels
  BY DEF AfterVerifier, Labels
<1>3. ASSUME NEW d \in Deliveries, Receive(d)
      PROVE  TypeOK'
  <2>1. AfterReceipt(d) \in Labels
    BY DEF AfterReceipt, Labels
  <2>2. QED BY <1>1, <1>3, <2>1 DEF Receive, Goto, Labels, Past
<1>4. ASSUME NEW d \in Deliveries, Match(d)
      PROVE  TypeOK'
  <2>1. MatchOf(d) \subseteq Obligations \cup {Nothing}
    <3>1. /\ Report[d].byAccount \subseteq Obligations
          /\ Report[d].byReference \in Obligations \cup {Nothing}
      BY SettlementAssumption DEF Reports
    <3>2. QED BY <3>1, Keys DEF MatchOf, Earliest, Unsettled
  <2>2. KeyOf(d) \subseteq Attempts \cup {Nothing}
    BY SettlementAssumption DEF KeyOf, Newest, Candidates, Reports
  <2>3. PICK k \in KeyOf(d), o \in MatchOf(d) :
          key' = [key EXCEPT ![d] = k] /\ target' = [target EXCEPT ![d] = o]
    BY <1>4 DEF Match
  <2>4. key' \in [Deliveries -> Attempts \cup {Nothing}]
        /\ target' \in [Deliveries -> Obligations \cup {Nothing}]
    BY <2>1, <2>2, <2>3
  <2>5. QED BY <1>4, <2>4 DEF Match, Goto
<1>5. ASSUME NEW d \in Deliveries, Record(d)
      PROVE  TypeOK'
  <2>1. AfterRecord(d) \in Labels
    BY <1>2 DEF AfterRecord, Labels, Past
  <2>2. Row(d) \in [id : STRING, ob : Obligations \cup {Nothing}, amount : Nat,
                     key : Attempts \cup {Nothing}, payment : STRING]
    <3>1. Report[d] \in Reports /\ target[d] \in Obligations \cup {Nothing}
      BY SettlementAssumption
    <3>2. QED BY <3>1 DEF Row, Reports
  <2>3. QED BY <1>1, <1>5, <2>1, <2>2 DEF Record, Goto, Labels, Past
<1>6. ASSUME NEW d \in Deliveries, RecordThrows(d) \/ Mark(d)
      PROVE  TypeOK'
  BY <1>6 DEF RecordThrows, Mark, Goto
<1>7. ASSUME NEW d \in Deliveries, FindCase(d) \/ Sum(d)
      PROVE  TypeOK'
  <2>1. PICK l \in {AfterVerifier(d), "summing", "covered"} : at' = [at EXCEPT ![d] = l]
    BY <1>7 DEF FindCase, Sum, Goto
  <2>2. l \in Labels
    BY <1>2 DEF Labels, Past
  <2>3. at' \in [Deliveries -> Labels]
    BY <1>1, <2>1, <2>2
  <2>4. QED BY <1>7, <2>3 DEF FindCase, Sum, Labels, Past
<1>8. ASSUME NEW d \in Deliveries, Close(d)
      PROVE  TypeOK'
  <2>1. case' \in [Obligations -> Revisions]
    <3>1. \A o \in Obligations : Ended(case[o], Recovered) \in Revisions
      BY EndedType DEF Recovered, TerminalStates
    <3>2. QED BY <1>8, <3>1 DEF Close
  <2>2. PICK l \in {AfterVerifier(d), "refused"} : at' = [at EXCEPT ![d] = l]
    BY <1>8 DEF Close, Goto
  <2>3. at' \in [Deliveries -> Labels]
    BY <1>1, <1>2, <2>2 DEF Labels
  <2>4. QED BY <1>8, <2>1, <2>3 DEF Close, Labels, Past
<1>9. ASSUME NEW d \in Deliveries, Log(d)
      PROVE  TypeOK'
  BY <1>9 DEF Log, Goto
<1>10. ASSUME NEW d \in Deliveries, Crash(d) \/ Retry(d) \/ Repeat(d)
       PROVE  TypeOK'
  BY <1>10, SettlementAssumption DEF Crash, Retry, Repeat, Goto
<1>11. ASSUME NEW o \in Obligations, CloseOtherwise(o)
       PROVE  TypeOK'
  <2>1. \A s \in OtherEnds : Ended(case[o], Terminal(s)) \in Revisions
    BY EndedType, SettlementAssumption
  <2>2. case' \in [Obligations -> Revisions]
    BY <1>11, <2>1 DEF CloseOtherwise
  <2>3. QED BY <1>11, <2>2 DEF CloseOtherwise
<1>12. ASSUME NEW a \in Attempts, Attempt(a)
       PROVE  TypeOK'
  BY <1>12 DEF Attempt
<1>13. CASE UNCHANGED vars
  BY <1>13 DEF vars
<1>14. QED
  BY <1>3, <1>4, <1>5, <1>6, <1>7, <1>8, <1>9, <1>10, <1>11, <1>12, <1>13 DEF Next, Handle

LEMMA StepKeeps == IInv /\ [Next]_vars => IInv'
<1> SUFFICES ASSUME IInv, [Next]_vars PROVE IInv'
  OBVIOUS
<1>1. TypeOK'
  BY TypesKeep
<1>2. Safe'
  <2>1. ASSUME NEW d \in Deliveries, Handle(d) PROVE Safe'
    BY <2>1, ReceiveKeeps, MatchKeeps, RecordKeeps, RecordThrowsKeeps, FindCaseKeeps, SumKeeps,
       MarkKeeps, CloseKeeps, LogKeeps DEF Handle
  <2>2. ASSUME NEW d \in Deliveries, Crash(d) \/ Retry(d) \/ Repeat(d) PROVE Safe'
    BY <2>2, ComesAgainKeeps
  <2>3. ASSUME NEW o \in Obligations, CloseOtherwise(o) PROVE Safe'
    BY <2>3, CloseOtherwiseKeeps
  <2>4. CASE UNCHANGED vars \/ \E a \in Attempts : Attempt(a)
    BY <2>4, ElsewhereKeeps DEF vars, Attempt, Open
  <2>5. QED BY <2>1, <2>2, <2>3, <2>4 DEF Next
<1>3. QED BY <1>1, <1>2 DEF IInv, Safe

-----------------------------------------------------------------------------
THEOREM Invariance == Spec => []IInv
<1>1. Init => IInv
  BY InitIsInductive
<1>2. IInv /\ [Next]_vars => IInv'
  BY StepKeeps
<1>3. QED BY <1>1, <1>2, PTL DEF Spec

(* The types of the tables and of the handlers' program counters.          *)
THEOREM TypeCorrect == Spec => []TypeOK
BY Invariance, PTL DEF IInv

(* A webhook that says a known attempt was captured is not acknowledged    *)
(* before its settlement is on the books, however often it or another      *)
(* event of its payment comes and wherever a handler dies, unless a        *)
(* failure of the payment was logged first.                                *)
THEOREM AcknowledgedIsCounted == Spec => []CapturedIsCounted
<1>1. IInv => CapturedIsCounted
  BY DEF IInv, Books
<1>2. QED BY <1>1, Invariance, PTL

(* Whichever of the parts of an obligation is recorded last, some handler  *)
(* of a part still comes to close the case, or will be run again, or the   *)
(* report of a part is forgotten on its redelivery.                        *)
THEOREM SomeoneCloses == Spec => []LastPartCloses
<1>1. IInv => LastPartCloses
  BY DEF IInv, LastPartIsActive, LastPartCloses, Active, Ignored, Forgotten, Strayed
<1>2. QED BY <1>1, Invariance, PTL

(* record writes no settlement twice and moves none: ON CONFLICT (id) DO   *)
(* NOTHING keeps the first match.                                          *)
THEOREM BooksOnlyGrow == Spec => MoneyStaysWhereItWasMatched
<1>1. Next => settlements \subseteq settlements'
  BY DEF Next, Handle, Receive, Match, Record, RecordThrows, FindCase, Sum, Mark, Close, Log,
     Crash, Retry, Repeat, CloseOtherwise, Attempt
<1>2. [Next]_vars => [settlements \subseteq settlements']_vars
  BY <1>1
<1>3. QED BY <1>2, PTL DEF Spec, MoneyStaysWhereItWasMatched

-----------------------------------------------------------------------------
(* Sums of amounts.  Total goes through the subsets of a set, always with  *)
(* the element that CHOOSE gives; what a sum comes to does not depend on   *)
(* it.                                                                     *)
Picked(s) == CHOOSE y \in s : TRUE

IsSum(f, S) ==
  f = [s \in SUBSET S |-> IF s = {} THEN 0 ELSE Picked(s).amount + f[s \ {Picked(s)}]]

SumsTo(S, r) ==
  /\ \E f : IsSum(f, S)
  /\ \A f : IsSum(f, S) => f[S] = r

LEMMA TotalIs ==
  ASSUME NEW S, NEW r, SumsTo(S, r)
  PROVE  Total(S) = r
<1> DEFINE g == CHOOSE f : IsSum(f, S)
<1>1. IsSum(g, S)
  BY Zenon DEF SumsTo
<1>2. Total(S) = g[S]
  BY Zenon DEF Total, MapThenSumSet, MapThenFoldSet, IsSum, Picked
<1>3. QED BY <1>1, <1>2 DEF SumsTo

LEMMA PickedIsIn ==
  ASSUME NEW s, s # {}
  PROVE  Picked(s) \in s
BY DEF Picked

LEMMA SumAt ==
  ASSUME NEW f, NEW S, IsSum(f, S), NEW s \in SUBSET S
  PROVE  f[s] = IF s = {} THEN 0 ELSE Picked(s).amount + f[s \ {Picked(s)}]
BY DEF IsSum

LEMMA SumBuilds ==
  ASSUME NEW S, NEW f, f = [s \in SUBSET S |-> f[s]],
         \A s \in SUBSET S : f[s] = IF s = {} THEN 0 ELSE Picked(s).amount + f[s \ {Picked(s)}]
  PROVE  IsSum(f, S)
<1>1. [s \in SUBSET S |-> f[s]]
        = [s \in SUBSET S |-> IF s = {} THEN 0 ELSE Picked(s).amount + f[s \ {Picked(s)}]]
  BY Zenon
<1>2. QED BY <1>1, Zenon DEF IsSum

LEMMA SumRestricts ==
  ASSUME NEW f, NEW S, IsSum(f, S), NEW T \in SUBSET S
  PROVE  \E g : IsSum(g, T) /\ \A s \in SUBSET T : g[s] = f[s]
<1> DEFINE g == [s \in SUBSET T |-> f[s]]
<1>1. \A s \in SUBSET T : g[s] = f[s] /\ s \ {Picked(s)} \in SUBSET T /\ s \in SUBSET S
  OBVIOUS
<1>2. g = [s \in SUBSET T |-> g[s]]
  OBVIOUS
<1> HIDE DEF g
<1>3. ASSUME NEW s \in SUBSET T
      PROVE  g[s] = IF s = {} THEN 0 ELSE Picked(s).amount + g[s \ {Picked(s)}]
  <2>1. /\ g[s] = f[s] /\ g[s \ {Picked(s)}] = f[s \ {Picked(s)}]
        /\ s \in SUBSET S
    BY <1>1
  <2>2. QED BY <2>1, SumAt
<1>4. IsSum(g, T)
  BY <1>2, <1>3, SumBuilds
<1>5. QED BY <1>1, <1>4

LEMMA SumOfNone == SumsTo({}, 0)
<1> DEFINE f == [s \in SUBSET {} |-> 0]
<1>1. \A s \in SUBSET {} : s = {} /\ f[s] = 0
  OBVIOUS
<1>2. f = [s \in SUBSET {} |-> f[s]]
  OBVIOUS
<1> HIDE DEF f
<1>3. IsSum(f, {})
  BY <1>1, <1>2, SumBuilds
<1>4. {} \in SUBSET {}
  OBVIOUS
<1>5. \A g : IsSum(g, {}) => g[{}] = 0
  BY <1>4, SumAt
<1>6. QED BY <1>3, <1>5 DEF SumsTo

LEMMA SumIsOne ==
  ASSUME NEW S, NEW q, NEW r, SumsTo(S, q), SumsTo(S, r)
  PROVE  q = r
BY DEF SumsTo

(* What the sum of a set is of those of its parts.                         *)
LEMMA SumOfParts ==
  ASSUME NEW S, NEW T \in SUBSET S, NEW f, IsSum(f, S), NEW r, SumsTo(T, r)
  PROVE  f[T] = r
<1>1. PICK g : IsSum(g, T) /\ \A s \in SUBSET T : g[s] = f[s]
  BY SumRestricts
<1>2. QED BY <1>1 DEF SumsTo

LEMMA SumOfMore ==
  ASSUME NEW S, S # {}, NEW q, SumsTo(S \ {Picked(S)}, q),
         \A T \in SUBSET S : T # S => \E r : SumsTo(T, r)
  PROVE  SumsTo(S, Picked(S).amount + q)
<1> DEFINE value(T) == CHOOSE r : SumsTo(T, r)
           f == [T \in SUBSET S |-> IF T = S THEN Picked(S).amount + q ELSE value(T)]
<1>1. \A T \in SUBSET S : T # S => SumsTo(T, value(T))
  BY Zenon
<1> HIDE DEF value
<1>2. \A T \in SUBSET S : f[T] = IF T = S THEN Picked(S).amount + q ELSE value(T)
  OBVIOUS
<1>3. f = [T \in SUBSET S |-> f[T]]
  OBVIOUS
<1> HIDE DEF f
<1>4. ASSUME NEW T \in SUBSET S
      PROVE  f[T] = IF T = {} THEN 0 ELSE Picked(T).amount + f[T \ {Picked(T)}]
  <2> DEFINE part == T \ {Picked(T)}
  <2>1. T # {} => Picked(T) \in T
    BY PickedIsIn
  <2>2. T # {} => part \in SUBSET T /\ part \in SUBSET S /\ part # S
    BY <2>1
  <2>3. T # {} => f[part] = value(part) /\ SumsTo(part, value(part))
    BY <1>1, <1>2, <2>2
  <2>4. CASE T = {}
    BY <1>1, <1>2, <2>4, SumOfNone, SumIsOne
  <2>5. CASE T = S
    <3>1. value(part) = q
      BY <2>3, <2>5, SumIsOne
    <3>2. QED BY <1>2, <2>3, <2>5, <3>1
  <2>6. CASE T # {} /\ T # S
    <3>1. SumsTo(T, value(T)) /\ f[T] = value(T)
      BY <1>1, <1>2, <2>6
    <3>2. PICK g : IsSum(g, T)
      BY <3>1 DEF SumsTo
    <3>3. g[T] = value(T)
      BY <3>1, <3>2 DEF SumsTo
    <3>4. g[part] = value(part)
      BY <2>2, <2>3, <2>6, <3>2, SumOfParts
    <3>5. T \in SUBSET T
      OBVIOUS
    <3>6. g[T] = IF T = {} THEN 0 ELSE Picked(T).amount + g[part]
      BY <3>2, <3>5, SumAt
    <3>7. QED BY <2>3, <2>6, <3>1, <3>3, <3>4, <3>6
  <2>7. QED BY <2>4, <2>5, <2>6
<1>5. IsSum(f, S)
  BY <1>3, <1>4, SumBuilds
<1>6. ASSUME NEW g, IsSum(g, S) PROVE g[S] = Picked(S).amount + q
  <2>1. S \in SUBSET S /\ S \ {Picked(S)} \in SUBSET S
    OBVIOUS
  <2>2. g[S \ {Picked(S)}] = q
    BY <1>6, <2>1, SumOfParts
  <2>3. g[S] = IF S = {} THEN 0 ELSE Picked(S).amount + g[S \ {Picked(S)}]
    BY <1>6, <2>1, SumAt
  <2>4. QED BY <2>2, <2>3
<1>7. QED BY <1>5, <1>6 DEF SumsTo

(* Any element may be taken out last.                                      *)
Adds(S) ==
  /\ \E r \in Nat : SumsTo(S, r)
  /\ \A y \in S : \A q : SumsTo(S \ {y}, q) => SumsTo(S, q + y.amount)

LEMMA MoreAdds ==
  ASSUME NEW S, S # {}, \A s \in S : s.amount \in Nat,
         \A T \in SUBSET S : T # S => Adds(T)
  PROVE  Adds(S)
<1> DEFINE x == Picked(S)
<1>1. x \in S /\ x.amount \in Nat
  BY PickedIsIn
<1>2. \A T \in SUBSET S : T # S => \E r \in Nat : SumsTo(T, r)
  BY DEF Adds
<1>3. PICK p \in Nat : SumsTo(S \ {x}, p)
  <2>1. S \ {x} \in SUBSET S /\ S \ {x} # S
    BY <1>1
  <2>2. QED BY <1>2, <2>1
<1>4. SumsTo(S, x.amount + p)
  BY <1>2, <1>3, SumOfMore
<1> HIDE DEF x
<1>5. ASSUME NEW y \in S, NEW q, SumsTo(S \ {y}, q)
      PROVE  SumsTo(S, q + y.amount)
  <2>1. CASE y = x
    <3>1. p = q
      BY <1>3, <1>5, <2>1, SumIsOne
    <3>2. x.amount + p = q + y.amount
      BY <1>1, <2>1, <3>1
    <3>3. QED BY <1>4, <3>2
  <2>2. CASE y # x
    <3> DEFINE A == S \ {x}
               B == S \ {y}
               C == (S \ {x}) \ {y}
    <3>1. /\ A \in SUBSET S /\ A # S /\ B \in SUBSET S /\ B # S
          /\ C \in SUBSET S /\ C # S
          /\ y \in A /\ x \in B /\ A \ {y} = C /\ B \ {x} = C
      BY <1>1, <2>2
    <3> HIDE DEF A, B, C
    <3>2. Adds(A) /\ Adds(B)
      BY <3>1
    <3>3. PICK r \in Nat : SumsTo(C, r)
      BY <1>2, <3>1
    <3>4. SumsTo(A, r + y.amount) /\ SumsTo(B, r + x.amount)
      BY <3>1, <3>2, <3>3 DEF Adds
    <3>5. p = r + y.amount
      BY <1>3, <3>4, SumIsOne DEF A
    <3>6. q = r + x.amount
      BY <1>5, <3>4, SumIsOne DEF B
    <3>7. x.amount + p = q + y.amount
      BY <1>1, <3>5, <3>6, y.amount \in Nat
    <3>8. QED BY <1>4, <3>7
  <2>3. QED BY <2>1, <2>2
<1>6. x.amount + p \in Nat
  BY <1>1
<1>7. QED BY <1>4, <1>5, <1>6 DEF Adds

LEMMA FiniteAdds ==
  ASSUME NEW S, IsFiniteSet(S), \A s \in S : s.amount \in Nat
  PROVE  Adds(S)
<1> DEFINE Bad == {T \in FiniteSubsetsOf(S) : ~Adds(T)}
<1>1. IsWellFoundedOn(StrictSubsetOrdering(S), FiniteSubsetsOf(S))
  BY FS_StrictSubsetOrderingWellFounded
<1>2. ASSUME Bad # {} PROVE FALSE
  <2>1. Bad \subseteq FiniteSubsetsOf(S)
    OBVIOUS
  <2>2. PICK T \in Bad : \A U \in Bad : <<U, T>> \notin StrictSubsetOrdering(S)
    BY <1>1, <1>2, <2>1, WFMin
  <2>3. T \in SUBSET S /\ IsFiniteSet(T) /\ ~Adds(T)
    BY DEF FiniteSubsetsOf
  <2>4. ASSUME NEW U \in SUBSET T, U # T PROVE Adds(U)
    <3>1. IsFiniteSet(U)
      BY <2>3, FS_Subset
    <3>2. U \in FiniteSubsetsOf(S)
      BY <2>3, <3>1 DEF FiniteSubsetsOf
    <3>3. <<U, T>> \in StrictSubsetOrdering(S)
      BY <2>3, <2>4 DEF StrictSubsetOrdering
    <3>4. QED BY <2>2, <3>2, <3>3
  <2>5. CASE T = {}
    <3>1. Adds({})
      BY SumOfNone DEF Adds
    <3>2. QED BY <2>3, <2>5, <3>1
  <2>6. CASE T # {}
    <3>1. \A s \in T : s.amount \in Nat
      BY <2>3
    <3>2. QED BY <2>3, <2>4, <2>6, <3>1, MoreAdds
  <2>7. QED BY <2>5, <2>6
<1>3. S \in FiniteSubsetsOf(S)
  BY DEF FiniteSubsetsOf
<1>4. QED BY <1>2, <1>3

LEMMA TotalAdds ==
  ASSUME NEW S, IsFiniteSet(S), NEW x, x \notin S, x.amount \in Nat,
         \A s \in S : s.amount \in Nat
  PROVE  Total(S) \in Nat /\ Total(S \cup {x}) = Total(S) + x.amount
<1>1. Adds(S)
  BY FiniteAdds
<1>2. PICK r \in Nat : SumsTo(S, r)
  BY <1>1 DEF Adds
<1>3. IsFiniteSet(S \cup {x})
  BY FS_AddElement
<1>4. Adds(S \cup {x})
  BY <1>3, FiniteAdds
<1>5. (S \cup {x}) \ {x} = S
  OBVIOUS
<1>6. SumsTo(S \cup {x}, r + x.amount)
  BY <1>2, <1>4, <1>5 DEF Adds
<1>7. QED BY <1>2, <1>6, TotalIs

-----------------------------------------------------------------------------
(* Money that is counted once.  A row is a report of money; no two rows    *)
(* have one id or one key, so that a payment is in two of them only under  *)
(* two keys; and what closes a case as recovered has seen a sum that       *)
(* covers what is owed, which no later row makes smaller.                  *)
KeysHeld ==
  \A d \in Deliveries :
    at[d] = "matched" => (key[d] # Nothing <=> Report[d].through # Nothing)

RowsAreReports ==
  \A s \in settlements : \E d \in Deliveries :
    /\ Report[d].paid
    /\ s.id = Report[d].id /\ s.payment = Report[d].payment
    /\ s.key # Nothing <=> Report[d].through # Nothing

CountedOnce ==
  \A o \in Obligations :
    /\ IsFiniteSet(RowsOf(o)) /\ IsFiniteSet(Payments(o))
    /\ ~CountedTwice(o) => Received(o) = Total(RowsOf(o))

Closing(o) ==
  \/ obState[o] = "settled" \/ case[o].state = "RECOVERED"
  \/ \E d \in Deliveries : at[d] \in {"covered", "marked"} /\ target[d] = o

ClosingIsPaid == \A o \in Obligations : Closing(o) => Total(RowsOf(o)) >= Owed[o]

Counting == RowsAreReports /\ CountedOnce /\ ClosingIsPaid

Paying == KeysHeld /\ Counting

LEMMA InitPaying == Init => Paying
<1> SUFFICES ASSUME Init PROVE Paying
  OBVIOUS
<1>1. RowsAreReports
  BY DEF Init, RowsAreReports
<1>2. CountedOnce
  <2>1. \A o \in Obligations : RowsOf(o) = {} /\ Payments(o) = {}
    BY DEF Init, RowsOf, Payments
  <2>2. IsFiniteSet({})
    BY FS_EmptySet
  <2>3. QED BY <2>1, <2>2 DEF CountedOnce, Received
<1>3. ClosingIsPaid
  BY DEF Init, ClosingIsPaid, Closing, Observed, InitialRevision
<1>4. KeysHeld
  BY DEF Init, KeysHeld
<1>5. QED BY <1>1, <1>2, <1>3, <1>4 DEF Paying, Counting

LEMMA KeysKept == IInv /\ KeysHeld /\ [Next]_vars => KeysHeld'
<1> SUFFICES ASSUME IInv, KeysHeld, [Next]_vars PROVE KeysHeld'
  OBVIOUS
<1>1. ASSUME NEW d \in Deliveries, Match(d) PROVE KeysHeld'
  <2>1. PICK k \in KeyOf(d) : key' = [key EXCEPT ![d] = k]
    BY <1>1 DEF Match
  <2>2. Report[d].channel = "webhook" => Report[d].through # Nothing
    BY <1>1 DEF IInv, Handling, VerifiedPays, PaysIn, Match
  <2>3. k # Nothing <=> Report[d].through # Nothing
    <3>1. sent \subseteq Attempts /\ Nothing \notin Attempts
      BY SettlementAssumption DEF IInv, TypeOK
    <3>2. QED BY <2>1, <2>2, <3>1 DEF KeyOf, Newest, Candidates
  <2>4. \A e \in Deliveries : e # d => at'[e] = at[e] /\ key'[e] = key[e]
    BY <1>1, <2>1 DEF Match, Goto, IInv, TypeOK
  <2>5. key'[d] = k
    BY <2>1 DEF IInv, TypeOK
  <2>6. QED BY <2>3, <2>4, <2>5 DEF KeysHeld
<1>2. ASSUME NEW d \in Deliveries, NEW l, l # "matched",
             at' = [at EXCEPT ![d] = l],
             key' = key \/ key' = [key EXCEPT ![d] = Nothing]
      PROVE  KeysHeld'
  BY <1>2 DEF KeysHeld, IInv, TypeOK
<1>3. ASSUME NEW d \in Deliveries,
             \/ Receive(d) \/ Record(d) \/ RecordThrows(d) \/ FindCase(d) \/ Sum(d) \/ Mark(d)
             \/ Close(d) \/ Log(d) \/ Crash(d) \/ Retry(d) \/ Repeat(d)
      PROVE  KeysHeld'
  <2> DEFINE Elsewhere == {"sent", "verifying", "recorded", "summing", "covered", "marked",
                           "logging", "answered", "lost", "refused"}
  <2>1. PICK l \in Elsewhere : at' = [at EXCEPT ![d] = l]
    BY <1>3 DEF Receive, AfterReceipt, Record, AfterRecord, RecordThrows, FindCase, Sum, Mark, Close,
                AfterVerifier, Log, Crash, Retry, Repeat, Goto
  <2>2. key' = key \/ key' = [key EXCEPT ![d] = Nothing]
    BY <1>3 DEF Receive, Record, RecordThrows, FindCase, Sum, Mark, Close, Log, Crash, Retry, Repeat
  <2>3. l # "matched"
    OBVIOUS
  <2>4. QED BY <2>1, <2>2, <2>3, <1>2
<1>4. CASE \/ UNCHANGED vars \/ \E o \in Obligations : CloseOtherwise(o)
           \/ \E a \in Attempts : Attempt(a)
  BY <1>4 DEF vars, CloseOtherwise, Attempt, KeysHeld
<1>5. QED BY <1>1, <1>3, <1>4 DEF Next, Handle

LEMMA RowAmounts ==
  ASSUME TypeOK
  PROVE  /\ \A o \in Obligations : \A s \in RowsOf(o) : s.amount \in Nat
         /\ \A o \in Obligations : \A p \in Payments(o) : p.amount \in Nat
<1>1. \A s \in settlements : s.amount \in Nat
  BY DEF TypeOK
<1>2. QED BY <1>1 DEF RowsOf, Payments

LEMMA TotalIsNat ==
  ASSUME NEW S, IsFiniteSet(S), \A s \in S : s.amount \in Nat
  PROVE  Total(S) \in Nat
<1>1. Adds(S)
  BY FiniteAdds
<1>2. QED BY <1>1, TotalIs DEF Adds

LEMMA RowTotals ==
  ASSUME TypeOK, CountedOnce, NEW o \in Obligations
  PROVE  Total(RowsOf(o)) \in Nat
<1>1. IsFiniteSet(RowsOf(o)) /\ \A s \in RowsOf(o) : s.amount \in Nat
  BY RowAmounts DEF CountedOnce
<1>2. QED BY <1>1, TotalIsNat

(* A new row is of a payment that no row of its key is of.                 *)
LEMMA NewRowCounts ==
  ASSUME IInv, Paying, NEW d \in Deliveries, at[d] = "matched", ~Known(d), ~KeyTaken(d),
         settlements' = settlements \cup {Row(d)}
  PROVE  /\ RowsAreReports' /\ CountedOnce'
         /\ \A o \in Obligations :
              Total(RowsOf(o)) \in Nat /\ Total(RowsOf(o))' \in Nat
              /\ Total(RowsOf(o))' >= Total(RowsOf(o))
<1> DEFINE r == Row(d)
           p == [payment |-> r.payment, amount |-> r.amount]
<1>1. /\ Report[d] \in Reports /\ Report[d].paid
      /\ r.id = Report[d].id /\ r.key = key[d] /\ r.payment = Report[d].payment
      /\ r.amount \in Nat /\ r.ob = target[d]
      /\ r.key # Nothing <=> Report[d].through # Nothing
  <2>1. Report[d] \in Reports /\ Report[d].paid
    BY SettlementAssumption DEF IInv, Handling, VerifiedPays, PaysIn, Past
  <2>2. key[d] # Nothing <=> Report[d].through # Nothing
    BY DEF Paying, KeysHeld
  <2>3. QED BY <2>1, <2>2 DEF Row, Reports
<1>2. RowsAreReports'
  BY <1>1 DEF Paying, Counting, RowsAreReports
<1>3. ASSUME NEW s \in settlements PROVE s # r /\ (s.payment = r.payment => s.key # r.key)
  <2>1. PICK e \in Deliveries : /\ Report[e].paid
                                /\ s.id = Report[e].id /\ s.payment = Report[e].payment
                                /\ s.key # Nothing <=> Report[e].through # Nothing
    BY DEF Paying, Counting, RowsAreReports
  <2>2. s.id # r.id /\ (r.key # Nothing => s.key # r.key)
    BY <1>1 DEF Known, KeyTaken
  <2>3. Report[e].payment = Report[d].payment
          /\ Report[e].through = Nothing /\ Report[d].through = Nothing
        => Report[e].id = Report[d].id
    BY <1>1, <2>1, SettlementAssumption
  <2>4. s # r
    BY <2>2
  <2>5. ASSUME s.payment = r.payment, r.key = Nothing PROVE s.key # r.key
    BY <1>1, <2>1, <2>2, <2>3, <2>5
  <2>6. QED BY <2>2, <2>4, <2>5
<1> HIDE DEF r
<1>4. settlements' = settlements \cup {r}
  BY DEF r
<1>5. ASSUME NEW o \in Obligations
      PROVE  /\ Total(RowsOf(o)) \in Nat
             /\ Total(RowsOf(o))' \in Nat /\ Total(RowsOf(o))' >= Total(RowsOf(o))
             /\ IsFiniteSet(RowsOf(o))' /\ IsFiniteSet(Payments(o))'
             /\ ~CountedTwice(o)' => Received(o)' = Total(RowsOf(o))'
  <2>1. /\ IsFiniteSet(RowsOf(o)) /\ IsFiniteSet(Payments(o))
        /\ ~CountedTwice(o) => Received(o) = Total(RowsOf(o))
    BY DEF Paying, Counting, CountedOnce
  <2>2. /\ \A s \in RowsOf(o) : s.amount \in Nat
        /\ \A q \in Payments(o) : q.amount \in Nat
    BY RowAmounts DEF IInv
  <2>3. r \notin RowsOf(o) /\ p.amount = r.amount /\ p.payment = r.payment
    BY <1>3 DEF RowsOf
  <2>4. /\ Total(RowsOf(o)) \in Nat
        /\ Total(RowsOf(o) \cup {r}) = Total(RowsOf(o)) + r.amount
    BY <1>1, <2>1, <2>2, <2>3, TotalAdds
  <2>5. ASSUME p \notin Payments(o)
        PROVE  Total(Payments(o) \cup {p}) = Total(Payments(o)) + r.amount
    <3>1. p.amount \in Nat
      BY <1>1, <2>3
    <3> HIDE DEF p
    <3>2. QED BY <2>1, <2>2, <2>3, <2>5, <3>1, TotalAdds
  <2>6. CASE r.ob = o
    <3>1. RowsOf(o)' = RowsOf(o) \cup {r}
      BY <1>4, <2>6 DEF RowsOf
    <3>2. Payments(o)' = Payments(o) \cup {p}
      BY <3>1 DEF Payments
    <3>3. IsFiniteSet(RowsOf(o) \cup {r}) /\ IsFiniteSet(Payments(o) \cup {p})
      BY <2>1, FS_AddElement
    <3>4. ~CountedTwice(o)' => ~CountedTwice(o) /\ p \notin Payments(o)
      <4>1. CountedTwice(o) => CountedTwice(o)'
        BY <3>1 DEF CountedTwice
      <4>2. ASSUME p \in Payments(o) PROVE CountedTwice(o)'
        <5>1. PICK s \in RowsOf(o) : p = [payment |-> s.payment, amount |-> s.amount]
          BY <4>2 DEF Payments
        <5>2. s.payment = r.payment /\ s \in settlements
          BY <2>3, <5>1 DEF RowsOf
        <5>3. s.key # r.key
          BY <1>3, <5>2
        <5>4. s \in RowsOf(o)' /\ r \in RowsOf(o)'
          BY <3>1
        <5>5. QED BY <5>2, <5>3, <5>4 DEF CountedTwice
      <4>3. QED BY <4>1, <4>2
    <3> HIDE DEF p
    <3>5. Total(RowsOf(o))' = Total(RowsOf(o)) + r.amount
      BY <2>4, <3>1
    <3>6. ASSUME ~CountedTwice(o)' PROVE Received(o)' = Total(RowsOf(o))'
      <4>1. Received(o)' = Total(Payments(o)) + r.amount
        BY <2>5, <3>2, <3>4, <3>6 DEF Received
      <4>2. Total(Payments(o)) = Total(RowsOf(o))
        BY <2>1, <3>4, <3>6 DEF Received
      <4>3. QED BY <3>5, <4>1, <4>2
    <3>7. IsFiniteSet(RowsOf(o))' /\ IsFiniteSet(Payments(o))'
      BY <3>1, <3>2, <3>3
    <3>8. Total(RowsOf(o))' \in Nat /\ Total(RowsOf(o))' >= Total(RowsOf(o))
      BY <1>1, <2>4, <3>5
    <3>9. QED BY <2>4, <3>6, <3>7, <3>8
  <2>7. CASE r.ob # o
    <3>1. RowsOf(o)' = RowsOf(o)
      BY <1>4, <2>7 DEF RowsOf
    <3>2. Payments(o)' = Payments(o)
      BY <3>1 DEF Payments
    <3>3. CountedTwice(o)' = CountedTwice(o)
      BY <3>1 DEF CountedTwice
    <3>4. QED BY <2>1, <2>4, <3>1, <3>2, <3>3 DEF Received
  <2>8. QED BY <2>6, <2>7
<1>6. QED BY <1>2, <1>5 DEF CountedOnce

(* A step that records nothing closes only what is covered.                *)
LEMMA SameRowsPay ==
  ASSUME IInv, Paying, settlements' = settlements,
         \A o \in Obligations : Closing(o)' => Closing(o) \/ Total(RowsOf(o)) >= Owed[o]
  PROVE  Counting'
<1>1. \A o : RowsOf(o)' = RowsOf(o) /\ Payments(o)' = Payments(o)
  BY DEF RowsOf, Payments
<1>2. RowsAreReports'
  BY DEF Paying, Counting, RowsAreReports
<1>3. CountedOnce'
  BY <1>1 DEF Paying, Counting, CountedOnce, CountedTwice, Received
<1>4. ClosingIsPaid'
  BY <1>1 DEF Paying, Counting, ClosingIsPaid
<1>5. QED BY <1>2, <1>3, <1>4 DEF Counting

LEMMA RecordPays ==
  ASSUME IInv, Paying, NEW d \in Deliveries, Record(d)
  PROVE  Counting'
<1>1. /\ at[d] = "matched" /\ (Known(d) \/ ~KeyTaken(d))
      /\ settlements' = IF Known(d) THEN settlements ELSE settlements \cup {Row(d)}
      /\ UNCHANGED <<obState, case, target>>
      /\ at' = [at EXCEPT ![d] = AfterRecord(d)]
  BY DEF Record, Goto
<1>2. \A o \in Obligations : Closing(o)' => Closing(o)
  <2>1. AfterRecord(d) \notin {"covered", "marked"}
    BY DEF AfterRecord, AfterVerifier
  <2>2. \A e \in Deliveries : at'[e] \in {"covered", "marked"} => at[e] = at'[e]
    BY <1>1, <2>1 DEF IInv, TypeOK
  <2>3. QED BY <1>1, <2>2 DEF Closing
<1>3. CASE Known(d)
  BY <1>1, <1>2, <1>3, SameRowsPay
<1>4. CASE ~Known(d)
  <2>1. /\ RowsAreReports' /\ CountedOnce'
        /\ \A o \in Obligations :
             /\ Total(RowsOf(o)) \in Nat /\ Total(RowsOf(o))' \in Nat
             /\ Total(RowsOf(o))' >= Total(RowsOf(o))
    BY <1>1, <1>4, NewRowCounts
  <2>2. ASSUME NEW o \in Obligations, Closing(o)' PROVE Total(RowsOf(o))' >= Owed[o]
    <3>1. Total(RowsOf(o)) >= Owed[o] /\ Owed[o] \in Nat
      BY <1>2, <2>2, SettlementAssumption DEF Paying, Counting, ClosingIsPaid
    <3>2. QED BY <2>1, <3>1
  <2>3. ClosingIsPaid'
    BY <2>2 DEF ClosingIsPaid
  <2>4. QED BY <2>1, <2>3 DEF Counting
<1>5. QED BY <1>3, <1>4

LEMMA ClosePays ==
  ASSUME IInv, Paying, NEW d \in Deliveries, Close(d)
  PROVE  Counting'
<1>1. /\ at[d] = "marked" /\ UNCHANGED <<settlements, obState, target>>
      /\ \A o \in Obligations : case'[o] = case[o] \/ o = target[d]
      /\ \A e \in Deliveries : at'[e] \in {"covered", "marked"} => at[e] = at'[e]
  <2>1. AfterVerifier(d) \notin {"covered", "marked"}
    BY DEF AfterVerifier
  <2>2. QED BY <2>1 DEF Close, Goto, IInv, TypeOK
<1>2. \A o \in Obligations : Closing(o)' => Closing(o)
  BY <1>1 DEF Closing
<1>3. QED BY <1>1, <1>2, SameRowsPay

LEMMA SumPays ==
  ASSUME IInv, Paying, NEW d \in Deliveries, Sum(d)
  PROVE  Counting'
<1>1. /\ UNCHANGED <<settlements, obState, case, target>>
      /\ at' = [at EXCEPT ![d] = IF SettledAmount(d) < Owed[target[d]]
                                 THEN AfterVerifier(d) ELSE "covered"]
  BY DEF Sum, Goto
<1>2. AfterVerifier(d) \notin {"covered", "marked"}
  BY DEF AfterVerifier
<1>3. ASSUME NEW o \in Obligations, Closing(o)', ~Closing(o)
      PROVE  Total(RowsOf(o)) >= Owed[o]
  <2>1. PICK e \in Deliveries : at'[e] \in {"covered", "marked"} /\ target'[e] = o
    BY <1>1, <1>3 DEF Closing
  <2>2. e = d /\ target[d] = o
    BY <1>1, <1>3, <2>1 DEF Closing, IInv, TypeOK
  <2>3. ~(Total(RowsOf(o)) < Owed[o])
    BY <1>1, <1>2, <2>1, <2>2 DEF SettledAmount, IInv, TypeOK
  <2>4. Total(RowsOf(o)) \in Nat /\ Owed[o] \in Nat
    BY RowTotals, SettlementAssumption DEF IInv, Paying, Counting
  <2>5. QED BY <2>3, <2>4
<1>4. QED BY <1>1, <1>3, SameRowsPay

LEMMA StepCounts == IInv /\ Paying /\ [Next]_vars => Counting'
<1> SUFFICES ASSUME IInv, Paying, [Next]_vars PROVE Counting'
  OBVIOUS
<1>1. ASSUME NEW d \in Deliveries,
             \/ Receive(d) \/ Match(d) \/ RecordThrows(d) \/ FindCase(d) \/ Mark(d) \/ Log(d)
             \/ Crash(d) \/ Retry(d) \/ Repeat(d)
      PROVE  Counting'
  <2>1. settlements' = settlements /\ case' = case
    BY <1>1 DEF Receive, Match, RecordThrows, FindCase, Mark, Log, Crash, Retry, Repeat
  <2>2. CASE Mark(d)
    <3>1. /\ at[d] = "covered" /\ at' = [at EXCEPT ![d] = "marked"] /\ target' = target
          /\ \A o \in Obligations : obState'[o] = obState[o] \/ o = target[d]
      BY <2>2 DEF Mark, Goto, IInv, TypeOK
    <3>2. \A e \in Deliveries : at'[e] \in {"covered", "marked"} => at[e] \in {"covered", "marked"}
      BY <3>1 DEF IInv, TypeOK
    <3>3. \A o \in Obligations : Closing(o)' => Closing(o)
      BY <2>1, <3>1, <3>2 DEF Closing
    <3>4. QED BY <2>1, <3>3, SameRowsPay
  <2>3. CASE ~Mark(d)
    <3> DEFINE Elsewhere == {"sent", "verifying", "matched", "recorded", "summing", "logging",
                             "answered", "lost", "refused"}
    <3>1. /\ obState' = obState
          /\ \A e \in Deliveries \ {d} : at'[e] = at[e] /\ target'[e] = target[e]
          /\ at'[d] \in Elsewhere
      BY <1>1, <2>3
         DEF Receive, AfterReceipt, Match, RecordThrows, FindCase, AfterVerifier, Log, Crash, Retry,
             Repeat, Goto, IInv, TypeOK
    <3>2. \A o \in Obligations : Closing(o)' => Closing(o)
      BY <2>1, <3>1 DEF Closing
    <3>3. QED BY <2>1, <3>2, SameRowsPay
  <2>4. QED BY <2>2, <2>3
<1>2. ASSUME NEW o \in Obligations, CloseOtherwise(o) PROVE Counting'
  <2>1. PICK s \in OtherEnds : case' = [case EXCEPT ![o] = Ended(case[o], Terminal(s))]
    BY <1>2 DEF CloseOtherwise
  <2>2. Ended(case[o], Terminal(s)).state = s /\ s # "RECOVERED"
    <3>1. Reduce(case[o], Terminal(s)).state = s
      BY DEF Reduce, TargetState, Terminal
    <3>2. QED BY <3>1, SettlementAssumption DEF Ended, Reduce
  <2>3. \A p \in Obligations : case'[p].state = "RECOVERED" => case[p].state = "RECOVERED"
    BY <2>1, <2>2 DEF IInv, TypeOK
  <2>4. UNCHANGED <<settlements, obState, at, target>>
    BY <1>2 DEF CloseOtherwise
  <2>5. \A p \in Obligations : Closing(p)' => Closing(p)
    BY <2>3, <2>4 DEF Closing
  <2>6. QED BY <2>4, <2>5, SameRowsPay
<1>3. CASE UNCHANGED vars \/ \E a \in Attempts : Attempt(a)
  <2>1. settlements' = settlements /\ \A o \in Obligations : Closing(o)' => Closing(o)
    BY <1>3 DEF vars, Attempt, Closing
  <2>2. QED BY <2>1, SameRowsPay
<1>4. QED BY <1>1, <1>2, <1>3, RecordPays, ClosePays, SumPays DEF Next, Handle

(* What holds of the rule of verifier.ts: a case closes as recovered, and  *)
(* its obligation is marked settled, only when the payments matched to it  *)
(* cover what is owed, each counted once however many channels report it,  *)
(* unless one of them was recorded under two keys.                         *)
THEOREM RecoveryIsPaidFor == Spec => []RecoveredIsPaidUnderOneKey
<1>1. IInv /\ Paying => RecoveredIsPaidUnderOneKey
  BY DEF Paying, Counting, CountedOnce, ClosingIsPaid, Closing, RecoveredIsPaidUnderOneKey,
     TakenForPaid, Paid
<1>2. IInv /\ Paying /\ [Next]_vars => Paying'
  BY KeysKept, StepCounts DEF Paying
<1>3. QED BY <1>1, <1>2, Invariance, InitPaying, PTL DEF Spec
=============================================================================
