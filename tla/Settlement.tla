----------------------------- MODULE Settlement -----------------------------
(***************************************************************************)
(* Money arriving (packages/engine/src/reconciler.ts and verifier.ts), and *)
(* two of the ways it is reported: the webhook route                       *)
(* (packages/console/src/webhook-route.ts) and the pull script             *)
(* (scripts/settle-live.ts); the runner reports directly.  One report is a *)
(* delivery: it may be sent again, several are handled at once, and each   *)
(* query of its handling is a step at which it may die.                    *)
(*                                                                         *)
(* An attempt is on record before any money comes back through it          *)
(* (Execution says so), and later ones are put on record while reports are *)
(* handled; an attempt stands for its idempotency key.  Each obligation    *)
(* has one case, open at the start and past its first action.  Ledger      *)
(* entries are left out, except those the webhook route reads back.        *)
(***************************************************************************)
EXTENDS CaseLifecycle, FiniteSets

CONSTANTS
  Obligations,
  Owed,          \* what each obligation owes
  DueAt,         \* when each is due
  Attempts,
  ObligationOf,  \* the obligation of each attempt
  SentAt,        \* when each is sent; those of time 0 are on record at the start
  Deliveries,
  Report,        \* what each delivery says, a record of Reports
  OtherEnds,     \* how a case may close without its money
  Nothing,       \* a field of a report that is not there
  MaxSetbacks    \* bound on the handlers that die and the reports sent again for nothing

(* channel: who reports; entity: the provider's id of what a webhook is    *)
(* about; paid: whether its event reports money; id: the settlement id the *)
(* channel makes; payment: the payment the report is in truth about;       *)
(* through: the attempt of ours that was paid, if one was; noted: whether  *)
(* the report names the obligation of that attempt, as the notes of a link *)
(* do, and not the attempt alone; byAccount and byReference: the           *)
(* obligations those strategies of #match have to choose from.             *)
Reports ==
  [channel : {"webhook", "pull", "direct"}, entity : STRING, paid : BOOLEAN,
   id : STRING, payment : STRING, amount : Nat, through : Attempts \cup {Nothing},
   noted : BOOLEAN, byAccount : SUBSET Obligations,
   byReference : Obligations \cup {Nothing}]

(* The obligation that every attempt a report may be matched by belongs to.*)
ByKey(d) == IF Report[d].through = Nothing THEN Nothing ELSE ObligationOf[Report[d].through]

SameWebhook(d, e) ==
  /\ Report[d].channel = "webhook" /\ Report[e].channel = "webhook"
  /\ Report[d].entity = Report[e].entity

(* settle-live polls attempts.  A settlement id is made from the entity of *)
(* a webhook, or from an attempt: reports of money under one id are about  *)
(* one obligation's attempts or about none, webhooks of one entity have    *)
(* one id, and a payment reported without any attempt has one id.          *)
ASSUME SettlementAssumption ==
  /\ Nothing \notin Obligations \cup Attempts
  /\ Owed \in [Obligations -> Nat]
  /\ DueAt \in [Obligations -> Nat]
  /\ ObligationOf \in [Attempts -> Obligations]
  /\ SentAt \in [Attempts -> Nat]
  /\ DOMAIN Report = Deliveries
  /\ \A d \in Deliveries :
       /\ Report[d] \in Reports
       /\ Report[d].channel = "pull" => Report[d].through # Nothing
       /\ Report[d].channel # "webhook" => Report[d].paid
  /\ \A d, e \in Deliveries : Report[d].paid /\ Report[e].paid =>
       /\ Report[d].id = Report[e].id => ByKey(d) = ByKey(e)
       /\ SameWebhook(d, e) => Report[d].id = Report[e].id
       /\ /\ Report[d].payment = Report[e].payment
          /\ Report[d].through = Nothing /\ Report[e].through = Nothing
          => Report[d].id = Report[e].id
  /\ OtherEnds \subseteq TerminalStates \ {"RECOVERED"}
  /\ MaxSetbacks \in Nat

VARIABLES
  sent,         \* the action_attempts table
  settlements,  \* the settlements table
  obState,      \* the state column of obligations
  case,         \* the latest revision of each obligation's case
  received,     \* ledger: the webhook_received entries
  at,           \* where the handling of each delivery stands
  target,       \* the obligation it has been matched to
  key,          \* the attempt whose key its settlement is recorded with
  setbacks

vars == <<sent, settlements, obState, case, received, at, target, key, setbacks>>

Open(o) == ~case[o].reason

Observed == [InitialRevision EXCEPT !.state = "OBSERVING"]

Init ==
  /\ sent = {a \in Attempts : SentAt[a] = 0}
  /\ settlements = {}
  /\ obState = [o \in Obligations |-> "due"]
  /\ case = [o \in Obligations |-> Observed]
  /\ received = {}
  /\ at = [d \in Deliveries |-> "sent"]
  /\ target = [d \in Deliveries |-> Nothing]
  /\ key = [d \in Deliveries |-> Nothing]
  /\ setbacks = 0

Goto(d, l) == at' = [at EXCEPT ![d] = l]

(* A webhook still has its ledger entry to write before it answers 200.    *)
AfterVerifier(d) == IF Report[d].channel = "webhook" THEN "logging" ELSE "answered"

-----------------------------------------------------------------------------
(* The channels.  A webhook about an entity already in the ledger is a     *)
(* duplicate, whatever its event; one that reports no money, or money of   *)
(* no known attempt, is only logged.  settle-live asks about open cases.   *)
Entry(d) == [entity |-> Report[d].entity, paid |-> Report[d].paid]

Duplicate(d) == \E entry \in received : entry.entity = Report[d].entity

SettlesIfPaid(d) == Report[d].paid /\ Report[d].through # Nothing

AsksAbout(d) == Open(ByKey(d))

(* Nobody pays, or asks about, what has not been sent.                     *)
Made(d) == Report[d].through \in sent \cup {Nothing}

AfterReceipt(d) ==
  CASE Report[d].channel = "webhook" -> IF Duplicate(d) THEN "answered"
                                        ELSE IF SettlesIfPaid(d) THEN "verifying" ELSE "logging"
    [] Report[d].channel = "pull" -> IF AsksAbout(d) THEN "verifying" ELSE "answered"
    [] OTHER -> "verifying"

ReceiveMarking(d) ==
  /\ at[d] = "sent" /\ Made(d)
  /\ received' = IF Report[d].channel = "webhook" /\ ~Duplicate(d)
                   THEN received \cup {Entry(d)} ELSE received
  /\ Goto(d, AfterReceipt(d))
  /\ UNCHANGED <<sent, settlements, obState, case, target, key, setbacks>>

Receive(d) ==
  /\ at[d] = "sent" /\ Made(d)
  /\ Goto(d, AfterReceipt(d))
  /\ UNCHANGED <<sent, settlements, obState, case, received, target, key, setbacks>>

(* The key: the webhook route looks up, at each delivery, the newest of    *)
(* the attempts its event may mean; the others hold the key they report.   *)
(* Of two attempts sent at one time ORDER BY sent_at takes either.         *)
Candidates(d) ==
  {a \in sent : \/ a = Report[d].through
                \/ Report[d].noted /\ ObligationOf[a] = ByKey(d)}

Newest(S) == {a \in S : \A b \in S : SentAt[b] <= SentAt[a]}

KeyOf(d) ==
  IF Report[d].channel = "webhook" THEN Newest(Candidates(d)) ELSE {Report[d].through}

(* #match: the attempt's obligation; else the first obligation of the      *)
(* virtual account that is not settled; else the reference's.  ORDER BY    *)
(* due_at takes either of two that fall due at one time.                   *)
Unsettled(d) == {o \in Report[d].byAccount : obState[o] # "settled"}

Earliest(S) == {o \in S : \A p \in S : DueAt[o] <= DueAt[p]}

MatchOf(d) ==
  CASE Report[d].through # Nothing -> {ByKey(d)}
    [] Report[d].through = Nothing /\ Unsettled(d) # {} -> Earliest(Unsettled(d))
    [] OTHER -> {Report[d].byReference}

Match(d) ==
  /\ at[d] = "verifying"
  /\ \E k \in KeyOf(d) : key' = [key EXCEPT ![d] = k]
  /\ \E o \in MatchOf(d) : target' = [target EXCEPT ![d] = o]
  /\ Goto(d, "matched")
  /\ UNCHANGED <<sent, settlements, obState, case, received, setbacks>>

-----------------------------------------------------------------------------
(* record: INSERT ... ON CONFLICT (id) DO NOTHING.  The payment is kept    *)
(* for the properties.  The same key under another id breaks the unique    *)
(* index on idem_key, which ON CONFLICT (id) does not cover: that throws.  *)
Row(d) ==
  [id |-> Report[d].id, ob |-> target[d], amount |-> Report[d].amount, key |-> key[d],
   payment |-> Report[d].payment]

Known(d) == \E s \in settlements : s.id = Report[d].id

KeyNeverTaken(d) == FALSE

KeyTaken(d) ==
  /\ key[d] # Nothing
  /\ \E s \in settlements : s.key = key[d]

AfterRecord(d) == IF target[d] = Nothing THEN AfterVerifier(d) ELSE "recorded"

RecordMoving(d) ==
  /\ at[d] = "matched"
  /\ Known(d) \/ ~KeyTaken(d)
  /\ settlements' = {s \in settlements : s.id # Report[d].id} \cup {Row(d)}
  /\ Goto(d, AfterRecord(d))
  /\ key' = [key EXCEPT ![d] = Nothing]
  /\ UNCHANGED <<sent, obState, case, received, target, setbacks>>

Record(d) ==
  /\ at[d] = "matched"
  /\ Known(d) \/ ~KeyTaken(d)
  /\ settlements' = IF Known(d) THEN settlements ELSE settlements \cup {Row(d)}
  /\ Goto(d, AfterRecord(d))
  /\ key' = [key EXCEPT ![d] = Nothing]
  /\ UNCHANGED <<sent, obState, case, received, target, setbacks>>

RecordThrows(d) ==
  /\ at[d] = "matched"
  /\ ~Known(d) /\ KeyTaken(d)
  /\ Goto(d, "refused")
  /\ key' = [key EXCEPT ![d] = Nothing]
  /\ UNCHANGED <<sent, settlements, obState, case, received, target, setbacks>>

(* onSettlement: no open case, nothing to do ...                           *)
FindCase(d) ==
  /\ at[d] = "recorded"
  /\ Goto(d, IF Open(target[d]) THEN "summing" ELSE AfterVerifier(d))
  /\ UNCHANGED <<sent, settlements, obState, case, received, target, key, setbacks>>

(* ... a sum that does not cover what is owed is a part ...                *)
RowsOf(o) == {s \in settlements : s.ob = o}

SettledAmountOfThisOne(d) == Report[d].amount

Total(rows) == MapThenSumSet(LAMBDA s : s.amount, rows)

SettledAmount(d) == Total(RowsOf(target[d]))

Sum(d) ==
  /\ at[d] = "summing"
  /\ Goto(d, IF SettledAmount(d) < Owed[target[d]] THEN AfterVerifier(d) ELSE "covered")
  /\ UNCHANGED <<sent, settlements, obState, case, received, target, key, setbacks>>

(* ... and one that does settles the obligation ...                        *)
Mark(d) ==
  /\ at[d] = "covered"
  /\ obState' = [obState EXCEPT ![target[d]] = "settled"]
  /\ Goto(d, "marked")
  /\ UNCHANGED <<sent, settlements, case, received, target, key, setbacks>>

(* ... and closes the case.  One that closed as RECOVERED meanwhile takes  *)
(* the event again; one that closed otherwise refuses it, and that throws. *)
Recovered == Terminal("RECOVERED")

(* The revision number of a closed case is not kept: it would only grow.   *)
Ended(rev, e) == [Reduce(rev, e) EXCEPT !.revision = 0]

Close(d) ==
  /\ at[d] = "marked"
  /\ IF Accepts(case[target[d]], Recovered)
       THEN /\ case' = [case EXCEPT ![target[d]] = Ended(@, Recovered)]
            /\ Goto(d, AfterVerifier(d))
       ELSE /\ case' = case
            /\ Goto(d, "refused")
  /\ UNCHANGED <<sent, settlements, obState, received, target, key, setbacks>>

(* The webhook_received entry, and 200.                                    *)
Log(d) ==
  /\ at[d] = "logging"
  /\ received' = received \cup {Entry(d)}
  /\ Goto(d, "answered")
  /\ UNCHANGED <<sent, settlements, obState, case, target, key, setbacks>>

-----------------------------------------------------------------------------
(* The next step of the plan makes another attempt (Execution).            *)
Attempt(a) ==
  /\ a \notin sent
  /\ \A b \in sent : SentAt[b] <= SentAt[a]
  /\ sent' = sent \cup {a}
  /\ UNCHANGED <<settlements, obState, case, received, at, target, key, setbacks>>

(* What else closes a case: a customer's opt-out or dispute, a human, the  *)
(* end of the window.                                                      *)
CloseOtherwise(o) ==
  /\ Open(o)
  /\ \E s \in OtherEnds :
       case' = [case EXCEPT ![o] = Ended(@, Terminal(s))]
  /\ UNCHANGED <<sent, settlements, obState, received, at, target, key, setbacks>>

AtWork(d) ==
  at[d] \in {"verifying", "matched", "recorded", "summing", "covered", "marked", "logging"}

Crash(d) ==
  /\ AtWork(d) /\ setbacks < MaxSetbacks
  /\ setbacks' = setbacks + 1
  /\ Goto(d, "lost")
  /\ key' = [key EXCEPT ![d] = Nothing]
  /\ UNCHANGED <<sent, settlements, obState, case, received, target>>

(* What was not answered is sent again: the provider retries on any        *)
(* non-2xx, the script and the batch are run again.                        *)
Retry(d) ==
  /\ at[d] \in {"lost", "refused"}
  /\ Goto(d, "sent")
  /\ UNCHANGED <<sent, settlements, obState, case, received, target, key, setbacks>>

(* What was answered may be sent again too.                                *)
Repeat(d) ==
  /\ at[d] = "answered" /\ setbacks < MaxSetbacks
  /\ setbacks' = setbacks + 1
  /\ Goto(d, "sent")
  /\ UNCHANGED <<sent, settlements, obState, case, received, target, key>>

-----------------------------------------------------------------------------
Handle(d) ==
  \/ Receive(d) \/ Match(d) \/ Record(d) \/ RecordThrows(d) \/ FindCase(d) \/ Sum(d)
  \/ Mark(d) \/ Close(d) \/ Log(d)

Next ==
  \/ \E d \in Deliveries : Handle(d) \/ Crash(d) \/ Retry(d) \/ Repeat(d)
  \/ \E o \in Obligations : CloseOtherwise(o)
  \/ \E a \in Attempts : Attempt(a)

(* Handlers run, and what was not answered is retried; nobody has to       *)
(* repeat what was, and the report of a failure may never come.            *)
Fairness == \A d \in Deliveries : Report[d].paid => WF_vars(Handle(d)) /\ WF_vars(Retry(d))

Spec == Init /\ [][Next]_vars /\ Fairness

-----------------------------------------------------------------------------
(* The types of the tables and of the handlers' program counters.          *)
TypeOK ==
  /\ sent \subseteq Attempts
  /\ settlements \subseteq [id : STRING, ob : Obligations \cup {Nothing}, amount : Nat,
                           key : Attempts \cup {Nothing}, payment : STRING]
  /\ obState \in [Obligations -> {"due", "settled"}]
  /\ case \in [Obligations -> Revisions]
  /\ received \subseteq {Entry(d) : d \in Deliveries}
  /\ at \in [Deliveries -> {"sent", "verifying", "matched", "recorded", "summing", "covered",
                            "marked", "logging", "answered", "lost", "refused"}]
  /\ target \in [Deliveries -> Obligations \cup {Nothing}]
  /\ key \in [Deliveries -> Attempts \cup {Nothing}]
  /\ setbacks \in 0..MaxSetbacks

(* What has really been received for an obligation: each payment once,     *)
(* however many channels have reported it.                                 *)
Payments(o) == {[payment |-> s.payment, amount |-> s.amount] : s \in RowsOf(o)}

Received(o) == Total(Payments(o))

Paid(o) == Received(o) >= Owed[o]

TakenForPaid(o) == case[o].state = "RECOVERED" \/ obState[o] = "settled"

(* verifier.ts, "The rule the whole product rests on", with the promise of *)
(* webhook-route.ts that a payment reported by push and by pull is not     *)
(* counted twice: a case is RECOVERED (and its obligation settled) only    *)
(* when payments matched to it cover what was owed, each of them counted   *)
(* once.  It is not so: the two may report it under different keys.        *)
RecoveredIsPaid == \A o \in Obligations : TakenForPaid(o) => Paid(o)

(* A payment on the books under two keys: of the attempt that was paid,    *)
(* and of one of its obligation that was newer when a webhook came.        *)
CountedTwice(o) == \E s, t \in RowsOf(o) : s.payment = t.payment /\ s.key # t.key

(* What holds of that rule: only a payment recorded under two keys makes a *)
(* case RECOVERED without its money.  However many reports of a payment    *)
(* come, by whichever channel and in whichever order, under one key it is  *)
(* counted once.                                                           *)
RecoveredIsPaidUnderOneKey ==
  \A o \in Obligations : TakenForPaid(o) => Paid(o) \/ CountedTwice(o)

Covered(o) == RowsOf(o) # {} /\ ~(Total(RowsOf(o)) < Owed[o])

(* The two ways a report can be lost on its redelivery.  A transfer whose  *)
(* handler died is matched anew, to another obligation when the first is   *)
(* marked settled by now or falls due at the same time, and is answered    *)
(* for that one; a webhook is a duplicate as soon as the ledger holds an   *)
(* event of its entity, one that reported no money too.                    *)
Reported(d, o) == \E s \in RowsOf(o) : s.id = Report[d].id

Strays(d, o) ==
  Report[d].channel # "webhook" /\ Report[d].through = Nothing /\ target[d] # o

Strayed(d, o) == at[d] = "answered" /\ Strays(d, o)

FailureLogged(d) ==
  /\ Report[d].channel = "webhook"
  /\ \E entry \in received : entry.entity = Report[d].entity /\ ~entry.paid

Forgotten(o) ==
  \E d \in Deliveries : Reported(d, o) /\ (Strayed(d, o) \/ FailureLogged(d))

(* Money is written before it is summed, so that whichever of two parts is *)
(* recorded last sees both: an obligation that is covered has its case     *)
(* closed, or a handler that has recorded some of the money and not yet    *)
(* finished or was lost on the way, or a report of it that is forgotten.   *)
LastPartCloses ==
  \A o \in Obligations :
    Covered(o) /\ Open(o) =>
      \/ Forgotten(o)
      \/ \E d \in Deliveries : Reported(d, o) /\ at[d] \notin {"answered", "logging"}

(* A webhook that reports money of a known attempt and is acknowledged has *)
(* its settlement on the books, through any crash and any redelivery,      *)
(* unless a failure of the same payment was logged before it.              *)
CapturedIsCounted ==
  \A d \in Deliveries :
    /\ Report[d].channel = "webhook" /\ SettlesIfPaid(d)
    /\ at[d] = "answered" /\ ~FailureLogged(d)
    => Known(d)

(* A recorded settlement stays with the obligation it was first matched    *)
(* to, although matching a redelivery anew may come to another one.        *)
MoneyStaysWhereItWasMatched == [][settlements \subseteq settlements']_vars

(* A case whose obligation is covered is eventually closed, through any    *)
(* crash of the handlers and any repetition of the reports, unless one of  *)
(* the reports that covered it was forgotten on its redelivery.            *)
CoveredIsClosed ==
  \A o \in Obligations : Covered(o) ~> ~Open(o) \/ Forgotten(o)
=============================================================================
