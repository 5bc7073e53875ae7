------------------------------ MODULE Execution ------------------------------
(***************************************************************************)
(* Executing one action against the provider: admission, the obligation    *)
(* lease, the nonce, the attempt record, the call, and reconciliation of   *)
(* what a crash left behind (packages/engine/src/executor.ts,              *)
(* obligation-lease.ts, token-burn.ts; verify of core/src/capability.ts).  *)
(* Each await of execute is a step; calls for one obligation, from one or  *)
(* several cases, interleave there, and any of them may die there.         *)
(*                                                                         *)
(* The provider is external: it takes a call or does not, answers yes or   *)
(* no or not at all, and can be asked about a key it has taken.  Admission *)
(* of a well-formed token is reduced to its expiry: signature, action and  *)
(* parameters are what the policy engine minted it with.                   *)
(***************************************************************************)
EXTENDS Naturals, FiniteSets

CONSTANTS
  Requests,     \* the calls of execute
  Cases,
  Obligations,
  Keys,         \* idempotency keys: case, action, attempt number and parameters
  Tokens,       \* capability tokens, named by their nonce
  CaseOf, ObligationOf, KeyOf, TokenOf,  \* what each request carries
  NotAfter,     \* the expiry of each token
  TTL,          \* how long a lease lasts
  MaxTime,      \* bound of the clock
  NoOne         \* the holder of no lease

ASSUME ExecutionAssumption ==
  /\ CaseOf \in [Requests -> Cases]
  /\ ObligationOf \in [Requests -> Obligations]
  /\ KeyOf \in [Requests -> Keys]
  /\ TokenOf \in [Requests -> Tokens]
  /\ NotAfter \in [Tokens -> Nat]
  /\ TTL \in Nat \ {0} /\ MaxTime \in Nat
  /\ NoOne \notin Cases

VARIABLES
  pc,       \* where each call of execute stands
  until,    \* history: when the lease each request took last runs out
  lock,     \* obligation_locks
  burned,   \* token_burns
  attempt,  \* action_attempts: the state of each key's row
  calls,    \* the provider: the requests it has taken
  found,    \* reconcile: the key whose answer it holds
  now       \* the clock

vars == <<pc, until, lock, burned, attempt, calls, found, now>>

Unlocked == [holder |-> NoOne, expiry |-> 0]

Init ==
  /\ pc = [r \in Requests |-> "new"]
  /\ until = [r \in Requests |-> 0]
  /\ lock = [o \in Obligations |-> Unlocked]
  /\ burned = {}
  /\ attempt = [k \in Keys |-> "absent"]
  /\ calls = {}
  /\ found = {}
  /\ now = 0

Goto(r, l) == pc' = [pc EXCEPT ![r] = l]

-----------------------------------------------------------------------------
(* minter.verify and then tryAcquire, one upsert at the same reading of the *)
(* clock.  A lease is free when there is no row, when it has expired, and  *)
(* to its own holder, which is the case and not the call.                  *)
LeaseFreeToAnyone(r) == TRUE

LeaseFree(r) ==
  LET l == lock[ObligationOf[r]] IN
  l.holder = NoOne \/ l.expiry <= now \/ l.holder = CaseOf[r]

Admit(r) ==
  /\ pc[r] = "new"
  /\ now <= NotAfter[TokenOf[r]]
  /\ LeaseFree(r)
  /\ lock' = [lock EXCEPT ![ObligationOf[r]] = [holder |-> CaseOf[r], expiry |-> now + TTL]]
  /\ until' = [until EXCEPT ![r] = now + TTL]
  /\ Goto(r, "leased")
  /\ UNCHANGED <<burned, attempt, calls, found, now>>

(* TokenRejectedError or LeaseUnavailableError.                            *)
Refuse(r) ==
  /\ pc[r] = "new"
  /\ now > NotAfter[TokenOf[r]] \/ ~LeaseFree(r)
  /\ Goto(r, "done")
  /\ UNCHANGED <<until, lock, burned, attempt, calls, found, now>>

(* burn: the unique nonce is the replay detection.                         *)
BurnReplayed(r) ==
  /\ pc[r] = "leased"
  /\ Goto(r, "burned")
  /\ burned' = burned \cup {TokenOf[r]}
  /\ UNCHANGED <<until, lock, attempt, calls, found, now>>

Burn(r) ==
  /\ pc[r] = "leased"
  /\ Goto(r, IF TokenOf[r] \in burned THEN "releasing" ELSE "burned")
  /\ burned' = burned \cup {TokenOf[r]}
  /\ UNCHANGED <<until, lock, attempt, calls, found, now>>

(* INSERT INTO action_attempts: the unique key is the idempotency guard.   *)
RecordAgain(r) ==
  /\ pc[r] = "burned"
  /\ attempt' = [attempt EXCEPT ![KeyOf[r]] = "in_flight"]
  /\ Goto(r, "recorded")
  /\ UNCHANGED <<until, lock, burned, calls, found, now>>

RecordAttempt(r) ==
  /\ pc[r] = "burned"
  /\ IF attempt[KeyOf[r]] = "absent"
       THEN /\ attempt' = [attempt EXCEPT ![KeyOf[r]] = "in_flight"]
            /\ Goto(r, "recorded")
       ELSE /\ Goto(r, "releasing")     \* DuplicateAttemptError
            /\ UNCHANGED attempt
  /\ UNCHANGED <<until, lock, burned, calls, found, now>>

(* invoke: the call reaches the provider, or fails before it does.         *)
ProviderTakesEarly(r) ==
  /\ pc[r] \in {"burned", "recorded"}
  /\ calls' = calls \cup {r}
  /\ Goto(r, "called")
  /\ UNCHANGED <<until, lock, burned, attempt, found, now>>

ProviderTakes(r) ==
  /\ pc[r] = "recorded"
  /\ calls' = calls \cup {r}
  /\ Goto(r, "called")
  /\ UNCHANGED <<until, lock, burned, attempt, found, now>>

(* The call throws: before the provider took it, or after.  Either way the *)
(* row stays in_flight.                                                    *)
CallThrows(r) ==
  /\ pc[r] \in {"recorded", "called"}
  /\ Goto(r, "releasing")
  /\ UNCHANGED <<until, lock, burned, attempt, calls, found, now>>

(* The provider answers and #settle writes the row, whatever it says now.  *)
Settle(r) ==
  /\ pc[r] = "called"
  /\ \E state \in {"succeeded", "failed"} :
       attempt' = [attempt EXCEPT ![KeyOf[r]] = state]
  /\ Goto(r, "releasing")
  /\ UNCHANGED <<until, lock, burned, calls, found, now>>

(* The finally of withLease: delete the row if it names this case.         *)
Release(r) ==
  LET o == ObligationOf[r] IN
  /\ pc[r] = "releasing"
  /\ lock' = [lock EXCEPT ![o] = IF @.holder = CaseOf[r] THEN Unlocked ELSE @]
  /\ Goto(r, "done")
  /\ UNCHANGED <<until, burned, attempt, calls, found, now>>

(* The process dies: no finally runs, only what is in the database stays.  *)
Crash(r) ==
  /\ pc[r] \notin {"new", "done", "dead"}
  /\ Goto(r, "dead")
  /\ UNCHANGED <<until, lock, burned, attempt, calls, found, now>>

-----------------------------------------------------------------------------
(* reconcile: take a row in flight and ask the provider about its key; one *)
(* it has not seen is left as it is.  The rows are selected together and   *)
(* asked about one by one: a row settled between the two meets the same    *)
(* write as one settled between the question and the write.                *)
Seen(k) == \E r \in calls : KeyOf[r] = k

ReconcileAskTrusting(k) ==
  /\ attempt[k] = "in_flight"
  /\ found = {}
  /\ found' = {k}
  /\ UNCHANGED <<pc, until, lock, burned, attempt, calls, now>>

ReconcileAsk(k) ==
  /\ attempt[k] = "in_flight"
  /\ found = {}
  /\ Seen(k)
  /\ found' = {k}
  /\ UNCHANGED <<pc, until, lock, burned, attempt, calls, now>>

(* ... and write what it answered, with no look at what the row says now.  *)
ReconcileWrite(k) ==
  /\ k \in found
  /\ attempt' = [attempt EXCEPT ![k] = "reconciled"]
  /\ found' = {}
  /\ UNCHANGED <<pc, until, lock, burned, calls, now>>

(* The reconciling process dies with the rest of its pass.                 *)
ReconcileCrash ==
  /\ found # {}
  /\ found' = {}
  /\ UNCHANGED <<pc, until, lock, burned, attempt, calls, now>>

Tick ==
  /\ now < MaxTime
  /\ now' = now + 1
  /\ UNCHANGED <<pc, until, lock, burned, attempt, calls, found>>

-----------------------------------------------------------------------------
Next ==
  \/ \E r \in Requests :
       \/ Admit(r) \/ Refuse(r) \/ Burn(r) \/ RecordAttempt(r)
       \/ ProviderTakes(r) \/ CallThrows(r) \/ Settle(r) \/ Release(r)
       \/ Crash(r)
  \/ \E k \in Keys : ReconcileAsk(k) \/ ReconcileWrite(k)
  \/ ReconcileCrash
  \/ Tick

Spec == Init /\ [][Next]_vars

-----------------------------------------------------------------------------
Labels ==
  {"new", "leased", "burned", "recorded", "called", "releasing", "done", "dead"}

AttemptStates == {"absent", "in_flight", "succeeded", "failed", "reconciled"}

(* The types of the tables, the provider, and the program counters.        *)
TypeOK ==
  /\ pc \in [Requests -> Labels]
  /\ until \in [Requests -> Nat]
  /\ lock \in [Obligations -> [holder : Cases \cup {NoOne}, expiry : Nat]]
  /\ burned \in SUBSET Tokens
  /\ attempt \in [Keys -> AttemptStates]
  /\ calls \in SUBSET Requests
  /\ found \in SUBSET Keys
  /\ now \in Nat

(* executor.ts, "never by re-issuing": whatever crashes, races or is       *)
(* retried, no idempotency key reaches the provider twice.                 *)
NeverChargedTwice ==
  \A r, s \in calls : KeyOf[r] = KeyOf[s] => r = s

(* token-burn.ts: "the same token cannot drive two calls", whatever keys   *)
(* the two calls would have used.                                          *)
TokenDrivesOneCall ==
  \A r, s \in calls : TokenOf[r] = TokenOf[s] => r = s

(* executor.ts, the class comment: there is no call without a row, and a   *)
(* row leaves in_flight only when the provider has seen its key; so a      *)
(* crash between the call and its answer is always found by reconcile.     *)
EveryCallOnRecord ==
  /\ \A r \in calls : attempt[KeyOf[r]] # "absent"
  /\ \A k \in Keys : attempt[k] \in {"succeeded", "failed", "reconciled"} => Seen(k)

(* Inside withLease.                                                       *)
Acting(r) == pc[r] \in {"leased", "burned", "recorded", "called", "releasing"}

Overlap(r, s) ==
  /\ ObligationOf[r] = ObligationOf[s]
  /\ CaseOf[r] # CaseOf[s]
  /\ Acting(r) /\ Acting(s)

(* obligation-lease.ts says that "several cases and an incident may all    *)
(* reference one obligation, and exactly one may act".  That is more than  *)
(* the lease gives: without a timeout, two cases still overlap, but only   *)
(* after a third request, of one of the two cases, has gone through the    *)
(* lease its sibling was holding.                                          *)
OverlapNeedsSibling ==
  \A r, s \in Requests :
    Overlap(r, s) =>
      \/ until[r] <= now \/ until[s] <= now
      \/ \E q \in Requests \ {r, s} :
           /\ CaseOf[q] \in {CaseOf[r], CaseOf[s]}
           /\ ObligationOf[q] = ObligationOf[r]
           /\ until[q] > 0 /\ pc[q] = "done"

-----------------------------------------------------------------------------
(* The executor implements ConnectorCalls: a row in flight is an open      *)
(* record and a row in any later state is a closed one.                    *)
Abstract(state) ==
  CASE state = "absent"    -> "absent"
    [] state = "in_flight" -> "open"
    [] OTHER               -> "closed"

Promised == INSTANCE ConnectorCalls
              WITH record <- [k \in Keys |-> Abstract(attempt[k])]

ImplementsConnectorCalls == Promised!Spec
=============================================================================
