--------------------------- MODULE ExecutionProofs ---------------------------
(***************************************************************************)
(* Theorems about Execution, for every set of requests and any sharing of  *)
(* keys, tokens, cases and obligations among them.                         *)
(***************************************************************************)
EXTENDS Execution, TLAPS

(* The strengthening.  A request between its record and its call owns an   *)
(* open row whose key the provider has not seen; a request between its     *)
(* nonce and its call owns a token the provider has not seen.              *)
KeyIsOwned ==
  \A r \in Requests :
    pc[r] = "recorded" =>
      /\ attempt[KeyOf[r]] = "in_flight"
      /\ \A s \in calls : KeyOf[s] # KeyOf[r]
      /\ \A s \in Requests \ {r} : pc[s] = "recorded" => KeyOf[s] # KeyOf[r]

BeforeCall(r) == pc[r] \in {"burned", "recorded"}

TokenIsOwned ==
  \A r \in Requests :
    BeforeCall(r) =>
      /\ TokenOf[r] \in burned
      /\ \A s \in calls : TokenOf[s] # TokenOf[r]
      /\ \A s \in Requests \ {r} : BeforeCall(s) => TokenOf[s] # TokenOf[r]

CallsAreTraced ==
  /\ \A r \in calls : TokenOf[r] \in burned
  /\ \A r \in Requests : pc[r] = "called" => r \in calls
  /\ \A k \in found : Seen(k)

IInv ==
  /\ TypeOK
  /\ KeyIsOwned
  /\ TokenIsOwned
  /\ CallsAreTraced
  /\ NeverChargedTwice
  /\ TokenDrivesOneCall
  /\ EveryCallOnRecord

USE ExecutionAssumption

LEMMA InitEstablishes == Init => IInv
<1> SUFFICES ASSUME Init PROVE IInv
  OBVIOUS
<1>1. TypeOK
  BY DEF Init, TypeOK, Labels, AttemptStates, Unlocked
<1>2. KeyIsOwned /\ TokenIsOwned /\ CallsAreTraced
  BY DEF Init, KeyIsOwned, TokenIsOwned, BeforeCall, CallsAreTraced
<1>3. NeverChargedTwice /\ TokenDrivesOneCall /\ EveryCallOnRecord
  BY DEF Init, NeverChargedTwice, TokenDrivesOneCall, EveryCallOnRecord
<1>4. QED BY <1>1, <1>2, <1>3 DEF IInv

(* A step that leaves the provider, the rows and the nonces alone, and     *)
(* moves no request up to its record or its call, keeps IInv.              *)
LEMMA QuietKeeps ==
  ASSUME IInv, TypeOK', UNCHANGED <<burned, attempt, calls>>,
         \A r \in Requests :
           pc'[r] \in {"burned", "recorded", "called"} => pc'[r] = pc[r],
         \A k \in found' : Seen(k)
  PROVE  IInv'
<1>1. KeyIsOwned'
  BY DEF IInv, KeyIsOwned
<1>2. TokenIsOwned'
  BY DEF IInv, TokenIsOwned, BeforeCall
<1>3. CallsAreTraced'
  BY DEF IInv, CallsAreTraced, Seen
<1>4. NeverChargedTwice' /\ TokenDrivesOneCall' /\ EveryCallOnRecord'
  BY DEF IInv, NeverChargedTwice, TokenDrivesOneCall, EveryCallOnRecord, Seen
<1>5. QED BY <1>1, <1>2, <1>3, <1>4 DEF IInv

LEMMA QuietSteps ==
  ASSUME IInv, NEW r \in Requests,
         Admit(r) \/ Refuse(r) \/ CallThrows(r) \/ Release(r) \/ Crash(r)
  PROVE  IInv'
<1>1. TypeOK'
  <2>1. CASE Admit(r)
    BY <2>1 DEF IInv, TypeOK, Admit, Goto, Labels
  <2>2. CASE Refuse(r)
    BY <2>2 DEF IInv, TypeOK, Refuse, Goto, Labels
  <2>3. CASE CallThrows(r)
    BY <2>3 DEF IInv, TypeOK, CallThrows, Goto, Labels
  <2>4. CASE Release(r)
    BY <2>4 DEF IInv, TypeOK, Release, Goto, Labels, Unlocked
  <2>5. CASE Crash(r)
    BY <2>5 DEF IInv, TypeOK, Crash, Goto, Labels
  <2>6. QED BY <2>1, <2>2, <2>3, <2>4, <2>5
<1>2. UNCHANGED <<burned, attempt, calls, found>>
  BY DEF Admit, Refuse, CallThrows, Release, Crash
<1>3. \A s \in Requests : pc'[s] \in {"burned", "recorded", "called"} => pc'[s] = pc[s]
  BY DEF IInv, TypeOK, Admit, Refuse, CallThrows, Release, Crash, Goto
<1>4. QED BY <1>1, <1>2, <1>3, QuietKeeps DEF IInv, CallsAreTraced

LEMMA BurnKeeps ==
  ASSUME IInv, NEW r \in Requests, Burn(r)
  PROVE  IInv'
<1>1. TypeOK'
  BY DEF IInv, TypeOK, Burn, Goto, Labels
<1>2. KeyIsOwned'
  BY DEF IInv, TypeOK, KeyIsOwned, Burn, Goto
<1>3. TokenIsOwned'
  <2>1. CASE TokenOf[r] \in burned
    BY <2>1 DEF IInv, TypeOK, TokenIsOwned, BeforeCall, Burn, Goto
  <2>2. CASE TokenOf[r] \notin burned
    BY <2>2 DEF IInv, TypeOK, TokenIsOwned, BeforeCall, CallsAreTraced, Burn, Goto
  <2>3. QED BY <2>1, <2>2
<1>4. CallsAreTraced'
  BY DEF IInv, TypeOK, CallsAreTraced, Seen, Burn, Goto
<1>5. NeverChargedTwice' /\ TokenDrivesOneCall' /\ EveryCallOnRecord'
  BY DEF IInv, Burn, NeverChargedTwice, TokenDrivesOneCall, EveryCallOnRecord, Seen
<1>6. QED BY <1>1, <1>2, <1>3, <1>4, <1>5 DEF IInv

LEMMA RecordAttemptKeeps ==
  ASSUME IInv, NEW r \in Requests, RecordAttempt(r)
  PROVE  IInv'
<1>1. CASE attempt[KeyOf[r]] = "absent"
  <2>1. /\ attempt' = [attempt EXCEPT ![KeyOf[r]] = "in_flight"]
        /\ pc' = [pc EXCEPT ![r] = "recorded"] /\ pc[r] = "burned"
        /\ UNCHANGED <<until, lock, burned, calls, found, now>>
    BY <1>1 DEF RecordAttempt, Goto
  <2>2. TypeOK'
    BY <2>1 DEF IInv, TypeOK, Labels, AttemptStates
  <2>3. KeyIsOwned'
    BY <2>1, <1>1 DEF IInv, TypeOK, KeyIsOwned, EveryCallOnRecord
  <2>4. TokenIsOwned'
    BY <2>1 DEF IInv, TypeOK, TokenIsOwned, BeforeCall
  <2>5. CallsAreTraced'
    BY <2>1 DEF IInv, TypeOK, CallsAreTraced, Seen
  <2>6. NeverChargedTwice' /\ TokenDrivesOneCall' /\ EveryCallOnRecord'
    BY <2>1 DEF IInv, TypeOK, NeverChargedTwice, TokenDrivesOneCall, EveryCallOnRecord, Seen
  <2>7. QED BY <2>2, <2>3, <2>4, <2>5, <2>6 DEF IInv
<1>2. CASE attempt[KeyOf[r]] # "absent"
  <2>1. /\ pc' = [pc EXCEPT ![r] = "releasing"]
        /\ UNCHANGED <<until, lock, burned, attempt, calls, found, now>>
    BY <1>2 DEF RecordAttempt, Goto
  <2>2. TypeOK'
    BY <2>1 DEF IInv, TypeOK, Labels
  <2>3. \A s \in Requests : pc'[s] \in {"burned", "recorded", "called"} => pc'[s] = pc[s]
    BY <2>1 DEF IInv, TypeOK
  <2>4. QED BY <2>1, <2>2, <2>3, QuietKeeps DEF IInv, CallsAreTraced
<1>3. QED BY <1>1, <1>2

LEMMA ProviderTakesKeeps ==
  ASSUME IInv, NEW r \in Requests, ProviderTakes(r)
  PROVE  IInv'
<1>1. /\ pc[r] = "recorded" /\ pc' = [pc EXCEPT ![r] = "called"] /\ calls' = calls \cup {r}
      /\ UNCHANGED <<until, lock, burned, attempt, found, now>>
  BY DEF ProviderTakes, Goto
<1>2. /\ attempt[KeyOf[r]] = "in_flight" /\ TokenOf[r] \in burned
      /\ \A s \in calls : KeyOf[s] # KeyOf[r] /\ TokenOf[s] # TokenOf[r]
  BY <1>1 DEF IInv, KeyIsOwned, TokenIsOwned, BeforeCall
<1>3. TypeOK'
  BY <1>1 DEF IInv, TypeOK, Labels
<1>4. KeyIsOwned'
  BY <1>1 DEF IInv, TypeOK, KeyIsOwned
<1>5. TokenIsOwned'
  BY <1>1 DEF IInv, TypeOK, TokenIsOwned, BeforeCall
<1>6. CallsAreTraced'
  BY <1>1, <1>2 DEF IInv, TypeOK, CallsAreTraced, Seen
<1>7. NeverChargedTwice' /\ TokenDrivesOneCall'
  BY <1>1, <1>2 DEF IInv, NeverChargedTwice, TokenDrivesOneCall
<1>8. EveryCallOnRecord'
  BY <1>1, <1>2 DEF IInv, EveryCallOnRecord, Seen
<1>9. QED BY <1>3, <1>4, <1>5, <1>6, <1>7, <1>8 DEF IInv

(* The two writes that close a row: both of a key the provider has seen.   *)
LEMMA CloseKeeps ==
  ASSUME IInv, NEW k \in Keys, Seen(k),
         NEW state \in {"succeeded", "failed", "reconciled"},
         attempt' = [attempt EXCEPT ![k] = state],
         TypeOK', UNCHANGED <<burned, calls>>, found' \subseteq found,
         \A r \in Requests :
           pc'[r] \in {"burned", "recorded", "called"} => pc'[r] = pc[r]
  PROVE  IInv'
<1>1. KeyIsOwned'
  BY DEF IInv, TypeOK, KeyIsOwned, Seen
<1>2. TokenIsOwned'
  BY DEF IInv, TokenIsOwned, BeforeCall
<1>3. CallsAreTraced'
  BY DEF IInv, CallsAreTraced, Seen
<1>4. NeverChargedTwice' /\ TokenDrivesOneCall'
  BY DEF IInv, NeverChargedTwice, TokenDrivesOneCall
<1>5. EveryCallOnRecord'
  BY DEF IInv, TypeOK, EveryCallOnRecord, Seen
<1>6. QED BY <1>1, <1>2, <1>3, <1>4, <1>5 DEF IInv

LEMMA SettleKeeps ==
  ASSUME IInv, NEW r \in Requests, Settle(r)
  PROVE  IInv'
<1>1. PICK state \in {"succeeded", "failed"} : attempt' = [attempt EXCEPT ![KeyOf[r]] = state]
  BY DEF Settle
<1>2. pc[r] = "called" /\ pc' = [pc EXCEPT ![r] = "releasing"]
      /\ UNCHANGED <<until, lock, burned, calls, found, now>>
  BY DEF Settle, Goto
<1>3. Seen(KeyOf[r])
  BY <1>2 DEF IInv, CallsAreTraced, Seen
<1>4. TypeOK'
  BY <1>1, <1>2 DEF IInv, TypeOK, Labels, AttemptStates
<1>5. \A s \in Requests : pc'[s] \in {"burned", "recorded", "called"} => pc'[s] = pc[s]
  BY <1>2 DEF IInv, TypeOK
<1>6. KeyOf[r] \in Keys /\ state \in {"succeeded", "failed", "reconciled"}
  OBVIOUS
<1>7. QED BY <1>1, <1>2, <1>3, <1>4, <1>5, <1>6, CloseKeeps

LEMMA ReconcileKeeps ==
  ASSUME IInv, NEW k \in Keys, ReconcileAsk(k) \/ ReconcileWrite(k)
  PROVE  IInv'
<1>1. CASE ReconcileAsk(k)
  <2>1. found' = {k} /\ Seen(k) /\ UNCHANGED <<pc, until, lock, burned, attempt, calls, now>>
    BY <1>1 DEF ReconcileAsk
  <2>2. TypeOK'
    BY <2>1 DEF IInv, TypeOK
  <2>3. QED BY <2>1, <2>2, QuietKeeps
<1>2. CASE ReconcileWrite(k)
  <2>1. /\ k \in found /\ found' = {} /\ attempt' = [attempt EXCEPT ![k] = "reconciled"]
        /\ UNCHANGED <<pc, until, lock, burned, calls, now>>
    BY <1>2 DEF ReconcileWrite
  <2>2. TypeOK'
    BY <2>1 DEF IInv, TypeOK, AttemptStates
  <2>3. Seen(k)
    BY <2>1 DEF IInv, CallsAreTraced
  <2>4. QED BY <2>1, <2>2, <2>3, CloseKeeps
<1>3. QED BY <1>1, <1>2

LEMMA ClockKeeps ==
  ASSUME IInv, ReconcileCrash \/ Tick \/ UNCHANGED vars
  PROVE  IInv'
<1>1. UNCHANGED <<pc, burned, attempt, calls>> /\ found' \subseteq found
  BY DEF ReconcileCrash, Tick, vars
<1>2. TypeOK'
  BY DEF IInv, TypeOK, ReconcileCrash, Tick, vars
<1>3. \A k \in found' : Seen(k)
  BY <1>1 DEF IInv, CallsAreTraced
<1>4. QED BY <1>1, <1>2, <1>3, QuietKeeps

LEMMA NextKeeps == IInv /\ [Next]_vars => IInv'
<1> SUFFICES ASSUME IInv, [Next]_vars PROVE IInv'
  OBVIOUS
<1>1. ASSUME NEW r \in Requests,
             Admit(r) \/ Refuse(r) \/ CallThrows(r) \/ Release(r) \/ Crash(r)
      PROVE IInv'
  BY <1>1, QuietSteps
<1>2. ASSUME NEW r \in Requests, Burn(r) PROVE IInv'
  BY <1>2, BurnKeeps
<1>3. ASSUME NEW r \in Requests, RecordAttempt(r) PROVE IInv'
  BY <1>3, RecordAttemptKeeps
<1>4. ASSUME NEW r \in Requests, ProviderTakes(r) PROVE IInv'
  BY <1>4, ProviderTakesKeeps
<1>5. ASSUME NEW r \in Requests, Settle(r) PROVE IInv'
  BY <1>5, SettleKeeps
<1>6. ASSUME NEW k \in Keys, ReconcileAsk(k) \/ ReconcileWrite(k) PROVE IInv'
  BY <1>6, ReconcileKeeps
<1>7. CASE ReconcileCrash \/ Tick \/ UNCHANGED vars
  BY <1>7, ClockKeeps
<1>8. QED BY <1>1, <1>2, <1>3, <1>4, <1>5, <1>6, <1>7 DEF Next

(* IInv is an invariant of the executor.                                   *)
THEOREM Invariance == Spec => []IInv
BY InitEstablishes, NextKeeps, PTL DEF Spec

(* The tables, the provider and the program counters keep their types.     *)
THEOREM TypeCorrect == Spec => []TypeOK
<1>1. IInv => TypeOK
  BY DEF IInv
<1>2. QED BY <1>1, Invariance, PTL

(* No idempotency key reaches the provider twice, for any number of        *)
(* concurrent, crashed and repeated requests and any lease overlap.        *)
THEOREM AtMostOneCharge == Spec => []NeverChargedTwice
<1>1. IInv => NeverChargedTwice
  BY DEF IInv
<1>2. QED BY <1>1, Invariance, PTL

(* No capability token drives two calls, even for two different keys.      *)
THEOREM TokenIsSingleUse == Spec => []TokenDrivesOneCall
<1>1. IInv => TokenDrivesOneCall
  BY DEF IInv
<1>2. QED BY <1>1, Invariance, PTL

(* Every call is on record, and no row is closed on a guess.               *)
THEOREM CallsAreOnRecord == Spec => []EveryCallOnRecord
<1>1. IInv => EveryCallOnRecord
  BY DEF IInv
<1>2. QED BY <1>1, Invariance, PTL

-----------------------------------------------------------------------------
(* What the lease gives.  A request inside its lease finds the row naming  *)
(* its case, and not expiring before the request does, unless a sibling    *)
(* that went through the lease of the same case has deleted the row.       *)
SiblingPassed(r) ==
  \E q \in Requests \ {r} :
    /\ CaseOf[q] = CaseOf[r] /\ ObligationOf[q] = ObligationOf[r]
    /\ until[q] > 0 /\ pc[q] = "done"

HoldsRow(r) ==
  /\ lock[ObligationOf[r]].holder = CaseOf[r]
  /\ lock[ObligationOf[r]].expiry >= until[r]

LeaseIsHeld ==
  \A r \in Requests :
    Acting(r) =>
      /\ until[r] > 0 /\ until[r] <= now + TTL
      /\ until[r] > now => HoldsRow(r) \/ SiblingPassed(r)

LeaseInv == TypeOK /\ LeaseIsHeld

(* A call that is over stays over, and its lease is not taken again: once  *)
(* a sibling has passed it has passed.                                     *)
LEMMA DoneIsFinal ==
  ASSUME TypeOK, [Next]_vars, NEW q \in Requests, pc[q] = "done"
  PROVE  pc'[q] = "done" /\ until'[q] = until[q]
<1>1. ASSUME NEW r \in Requests,
             \/ Admit(r) \/ Refuse(r) \/ Burn(r) \/ RecordAttempt(r) \/ ProviderTakes(r)
             \/ CallThrows(r) \/ Settle(r) \/ Release(r) \/ Crash(r)
      PROVE  pc'[q] = "done" /\ until'[q] = until[q]
  BY <1>1 DEF TypeOK, Admit, Refuse, Burn, RecordAttempt, ProviderTakes, CallThrows, Settle,
              Release, Crash, Goto
<1>2. ASSUME UNCHANGED <<pc, until>>
      PROVE  pc'[q] = "done" /\ until'[q] = until[q]
  BY <1>2
<1>3. QED
  BY <1>1, <1>2 DEF Next, vars, ReconcileAsk, ReconcileWrite, ReconcileCrash, Tick

LEMMA PassedIsFinal ==
  ASSUME TypeOK, [Next]_vars, NEW r \in Requests, SiblingPassed(r)
  PROVE  SiblingPassed(r)'
<1>1. PICK q \in Requests \ {r} :
        /\ CaseOf[q] = CaseOf[r] /\ ObligationOf[q] = ObligationOf[r]
        /\ until[q] > 0 /\ pc[q] = "done"
  BY DEF SiblingPassed
<1>2. pc'[q] = "done" /\ until'[q] = until[q]
  BY <1>1, DoneIsFinal
<1>3. QED BY <1>1, <1>2 DEF SiblingPassed

(* A step that neither takes nor deletes a lease keeps every one of them.  *)
LEMMA LeaseUntouched ==
  ASSUME LeaseInv, [Next]_vars, UNCHANGED <<until, lock>>,
         now' \in Nat, now' >= now,
         \A r \in Requests : Acting(r)' => Acting(r)
  PROVE  LeaseIsHeld'
<1> SUFFICES ASSUME NEW r \in Requests, Acting(r)'
             PROVE  /\ until[r] > 0 /\ until[r] <= now' + TTL
                    /\ until[r] > now' => HoldsRow(r)' \/ SiblingPassed(r)'
  BY DEF LeaseIsHeld
<1>1. /\ until[r] > 0 /\ until[r] <= now + TTL
      /\ until[r] > now => HoldsRow(r) \/ SiblingPassed(r)
  BY DEF LeaseInv, LeaseIsHeld
<1>2. until[r] \in Nat /\ now \in Nat /\ TTL \in Nat
  BY DEF LeaseInv, TypeOK
<1>3. SiblingPassed(r) => SiblingPassed(r)'
  BY PassedIsFinal DEF LeaseInv
<1>4. HoldsRow(r) => HoldsRow(r)'
  BY DEF HoldsRow
<1>5. QED BY <1>1, <1>2, <1>3, <1>4

LEMMA AdmitHoldsLease ==
  ASSUME LeaseInv, [Next]_vars, NEW q \in Requests, Admit(q)
  PROVE  LeaseIsHeld'
<1> DEFINE o == ObligationOf[q]
<1>1. /\ LeaseFree(q) /\ pc' = [pc EXCEPT ![q] = "leased"] /\ pc[q] = "new"
      /\ until' = [until EXCEPT ![q] = now + TTL] /\ UNCHANGED now
      /\ lock' = [lock EXCEPT ![o] = [holder |-> CaseOf[q], expiry |-> now + TTL]]
  BY DEF Admit, Goto
<1>2. /\ o \in Obligations /\ now \in Nat /\ TTL \in Nat \ {0} /\ CaseOf[q] \in Cases
      /\ pc \in [Requests -> Labels] /\ until \in [Requests -> Nat]
      /\ lock \in [Obligations -> [holder : Cases \cup {NoOne}, expiry : Nat]]
  BY DEF LeaseInv, TypeOK
<1>3. lock'[o].holder = CaseOf[q] /\ lock'[o].expiry = now + TTL
  BY <1>1, <1>2
<1> SUFFICES ASSUME NEW r \in Requests, Acting(r)'
             PROVE  /\ until'[r] > 0 /\ until'[r] <= now' + TTL
                    /\ until'[r] > now' => HoldsRow(r)' \/ SiblingPassed(r)'
  BY DEF LeaseIsHeld
<1>4. CASE r = q
  <2>1. until'[r] = now + TTL
    BY <1>1, <1>2, <1>4
  <2>2. HoldsRow(r)'
    BY <1>2, <1>3, <1>4, <2>1 DEF HoldsRow
  <2>3. QED BY <1>1, <1>2, <2>1, <2>2
<1>5. CASE r # q
  <2>1. until'[r] = until[r] /\ Acting(r) /\ until[r] \in Nat
    BY <1>1, <1>2, <1>5 DEF Acting
  <2>2. /\ until[r] > 0 /\ until[r] <= now + TTL
        /\ until[r] > now => HoldsRow(r) \/ SiblingPassed(r)
    BY <2>1 DEF LeaseInv, LeaseIsHeld
  <2>3. SiblingPassed(r) => SiblingPassed(r)'
    BY PassedIsFinal DEF LeaseInv
  <2>4. ASSUME until[r] > now, HoldsRow(r) PROVE HoldsRow(r)'
    <3>1. CASE ObligationOf[r] = o
      <4>1. lock[o].holder = CaseOf[r] /\ lock[o].expiry >= until[r] /\ lock[o].expiry \in Nat
        BY <1>2, <2>4, <3>1 DEF HoldsRow
      <4>2. CaseOf[r] # NoOne /\ ~(lock[o].expiry <= now)
        BY <1>2, <2>1, <2>4, <4>1
      <4>3. CaseOf[r] = CaseOf[q]
        BY <1>1, <4>1, <4>2 DEF LeaseFree
      <4>4. QED BY <1>1, <1>3, <2>1, <2>2, <3>1, <4>3 DEF HoldsRow
    <3>2. CASE ObligationOf[r] # o
      <4>1. lock'[ObligationOf[r]] = lock[ObligationOf[r]]
        BY <1>1, <1>2, <3>2
      <4>2. QED BY <2>1, <2>4, <4>1 DEF HoldsRow
    <3>3. QED BY <3>1, <3>2
  <2>5. QED BY <1>1, <1>2, <2>1, <2>2, <2>3, <2>4
<1>6. QED BY <1>4, <1>5

(* Release deletes the row of its own case only, and then it has passed    *)
(* through the lease of every sibling that is still inside.                *)
LEMMA ReleaseHoldsLease ==
  ASSUME LeaseInv, [Next]_vars, NEW q \in Requests, Release(q)
  PROVE  LeaseIsHeld'
<1> DEFINE o == ObligationOf[q]
<1>1. /\ pc[q] = "releasing" /\ pc' = [pc EXCEPT ![q] = "done"]
      /\ UNCHANGED <<until, now>>
      /\ lock' = [lock EXCEPT ![o] = IF @.holder = CaseOf[q] THEN Unlocked ELSE @]
  BY DEF Release, Goto
<1>2. /\ o \in Obligations /\ now \in Nat /\ TTL \in Nat
      /\ pc \in [Requests -> Labels] /\ until \in [Requests -> Nat]
      /\ lock \in [Obligations -> [holder : Cases \cup {NoOne}, expiry : Nat]]
  BY DEF LeaseInv, TypeOK
<1>3. until[q] > 0
  BY <1>1 DEF LeaseInv, LeaseIsHeld, Acting
<1> SUFFICES ASSUME NEW r \in Requests, Acting(r)'
             PROVE  /\ until[r] > 0 /\ until[r] <= now + TTL
                    /\ until[r] > now => HoldsRow(r)' \/ SiblingPassed(r)'
  BY <1>1 DEF LeaseIsHeld
<1>4. Acting(r) /\ r # q
  BY <1>1, <1>2 DEF Acting
<1>5. /\ until[r] > 0 /\ until[r] <= now + TTL
      /\ until[r] > now => HoldsRow(r) \/ SiblingPassed(r)
  BY <1>4 DEF LeaseInv, LeaseIsHeld
<1>6. SiblingPassed(r) => SiblingPassed(r)'
  BY PassedIsFinal DEF LeaseInv
<1>7. ASSUME HoldsRow(r) PROVE HoldsRow(r)' \/ SiblingPassed(r)'
  <2>1. CASE ObligationOf[r] = o /\ CaseOf[r] = CaseOf[q]
    <3>1. until'[q] > 0 /\ pc'[q] = "done" /\ q \in Requests \ {r}
      BY <1>1, <1>2, <1>3, <1>4
    <3>2. QED BY <2>1, <3>1 DEF SiblingPassed
  <2>2. CASE ObligationOf[r] # o \/ CaseOf[r] # CaseOf[q]
    <3>1. lock'[ObligationOf[r]] = lock[ObligationOf[r]]
      BY <1>1, <1>2, <1>7, <2>2 DEF HoldsRow
    <3>2. QED BY <1>1, <1>7, <3>1 DEF HoldsRow
  <2>3. QED BY <2>1, <2>2
<1>8. QED BY <1>5, <1>6, <1>7

LEMMA LeaseSteps == IInv /\ LeaseIsHeld /\ [Next]_vars => LeaseIsHeld'
<1> SUFFICES ASSUME IInv, LeaseIsHeld, [Next]_vars PROVE LeaseIsHeld'
  OBVIOUS
<1>1. LeaseInv
  BY DEF IInv, LeaseInv
<1>2. now \in Nat /\ pc \in [Requests -> Labels]
  BY DEF IInv, TypeOK
<1>3. ASSUME NEW r \in Requests,
             \/ Refuse(r) \/ Burn(r) \/ RecordAttempt(r) \/ ProviderTakes(r)
             \/ CallThrows(r) \/ Settle(r) \/ Crash(r)
      PROVE  LeaseIsHeld'
  <2>1. UNCHANGED <<until, lock, now>>
    BY <1>3 DEF Refuse, Burn, RecordAttempt, ProviderTakes, CallThrows, Settle, Crash
  <2>2. \A s \in Requests : Acting(s)' => Acting(s)
    BY <1>2, <1>3
       DEF Refuse, Burn, RecordAttempt, ProviderTakes, CallThrows, Settle, Crash, Goto, Acting
  <2>3. now' \in Nat /\ now' >= now
    BY <1>2, <2>1
  <2>4. QED BY <1>1, <2>1, <2>2, <2>3, LeaseUntouched
<1>4. ASSUME UNCHANGED <<pc, until, lock>>, now' \in {now, now + 1}
      PROVE  LeaseIsHeld'
  <2>1. now' \in Nat /\ now' >= now
    BY <1>2, <1>4
  <2>2. \A s \in Requests : Acting(s)' => Acting(s)
    BY <1>4 DEF Acting
  <2>3. QED BY <1>1, <1>4, <2>1, <2>2, LeaseUntouched
<1>5. ASSUME NEW r \in Requests, Admit(r) PROVE LeaseIsHeld'
  BY <1>1, <1>5, AdmitHoldsLease
<1>6. ASSUME NEW r \in Requests, Release(r) PROVE LeaseIsHeld'
  BY <1>1, <1>6, ReleaseHoldsLease
<1>7. QED
  BY <1>3, <1>4, <1>5, <1>6 DEF Next, vars, ReconcileAsk, ReconcileWrite, ReconcileCrash, Tick

(* Two requests that are both inside a lease that has not run out cannot   *)
(* both find their row.                                                    *)
LEMMA HeldApart == LeaseInv => OverlapNeedsSibling
<1> SUFFICES ASSUME LeaseInv, NEW r \in Requests, NEW s \in Requests, Overlap(r, s),
                    ~(until[r] <= now), ~(until[s] <= now)
             PROVE  \E q \in Requests \ {r, s} :
                      /\ CaseOf[q] \in {CaseOf[r], CaseOf[s]}
                      /\ ObligationOf[q] = ObligationOf[r]
                      /\ until[q] > 0 /\ pc[q] = "done"
  BY DEF OverlapNeedsSibling
<1>1. /\ until[r] > now /\ until[s] > now /\ Acting(r) /\ Acting(s)
      /\ ObligationOf[r] = ObligationOf[s] /\ CaseOf[r] # CaseOf[s]
  BY DEF Overlap, LeaseInv, TypeOK
<1>2. HoldsRow(r) \/ SiblingPassed(r)
  BY <1>1 DEF LeaseInv, LeaseIsHeld
<1>3. HoldsRow(s) \/ SiblingPassed(s)
  BY <1>1 DEF LeaseInv, LeaseIsHeld
<1>4. SiblingPassed(r) \/ SiblingPassed(s)
  BY <1>1, <1>2, <1>3 DEF HoldsRow
<1>5. pc[r] # "done" /\ pc[s] # "done"
  BY <1>1 DEF Acting
<1>6. QED BY <1>1, <1>4, <1>5 DEF SiblingPassed

(* Without a timeout two cases act on one obligation together only after   *)
(* a sibling has deleted the row of a lease that was not its own, for any  *)
(* number of cases and requests, and any crashes among them.               *)
THEOREM OverlapsNeedSibling == Spec => []OverlapNeedsSibling
<1>1. Init => LeaseIsHeld
  BY DEF Init, LeaseIsHeld, Acting
<1>2. IInv /\ LeaseIsHeld => OverlapNeedsSibling
  BY HeldApart DEF IInv, LeaseInv
<1>3. QED BY <1>1, <1>2, LeaseSteps, Invariance, PTL DEF Spec

-----------------------------------------------------------------------------
(* The refinement, step by step.                                           *)
LEMMA InitRefines == Init => Promised!Init
<1> SUFFICES ASSUME Init PROVE Promised!Init
  OBVIOUS
<1>1. \A k \in Keys : Abstract(attempt[k]) = "absent"
  BY DEF Init, Abstract
<1>2. QED BY <1>1 DEF Init, Promised!Init

LEMMA AbstractOf ==
  /\ Abstract("absent") = "absent"
  /\ Abstract("in_flight") = "open"
  /\ \A state \in {"succeeded", "failed", "reconciled"} : Abstract(state) = "closed"
BY DEF Abstract

(* Writing a later state closes an open record, or leaves a closed one.    *)
LEMMA CloseRefines ==
  ASSUME IInv, NEW k \in Keys, Seen(k),
         NEW state \in {"succeeded", "failed", "reconciled"},
         attempt' = [attempt EXCEPT ![k] = state], UNCHANGED calls
  PROVE  [Promised!Next]_(Promised!vars)
<1> DEFINE rec == [j \in Keys |-> Abstract(attempt[j])]
<1>1. rec' = [rec EXCEPT ![k] = "closed"]
  BY AbstractOf DEF IInv, TypeOK
<1>2. attempt[k] # "absent"
  BY DEF IInv, EveryCallOnRecord, Seen
<1>3. CASE attempt[k] = "in_flight"
  <2>1. rec[k] = "open" /\ \E r \in calls : KeyOf[r] = k
    BY <1>3, AbstractOf DEF Seen
  <2>2. Promised!Close(k)
    BY <1>1, <2>1 DEF Promised!Close
  <2>3. QED BY <2>2 DEF Promised!Next
<1>4. CASE attempt[k] # "in_flight"
  <2>1. attempt[k] \in {"succeeded", "failed", "reconciled"}
    BY <1>2, <1>4 DEF IInv, TypeOK, AttemptStates
  <2>2. rec[k] = "closed"
    BY <2>1, AbstractOf
  <2>3. rec' = rec
    BY <1>1, <2>2
  <2>4. QED BY <2>3 DEF Promised!vars
<1>5. QED BY <1>3, <1>4

LEMMA NextRefines == IInv /\ [Next]_vars => [Promised!Next]_(Promised!vars)
<1> SUFFICES ASSUME IInv, [Next]_vars PROVE [Promised!Next]_(Promised!vars)
  OBVIOUS
<1> DEFINE rec == [j \in Keys |-> Abstract(attempt[j])]
<1>1. ASSUME UNCHANGED <<attempt, calls>> PROVE [Promised!Next]_(Promised!vars)
  BY <1>1 DEF Promised!vars
<1>2. ASSUME NEW r \in Requests, RecordAttempt(r) PROVE [Promised!Next]_(Promised!vars)
  <2>1. CASE attempt[KeyOf[r]] = "absent"
    <3>1. attempt' = [attempt EXCEPT ![KeyOf[r]] = "in_flight"] /\ UNCHANGED calls
      BY <1>2, <2>1 DEF RecordAttempt
    <3>2. rec' = [rec EXCEPT ![KeyOf[r]] = "open"] /\ rec[KeyOf[r]] = "absent"
      BY <2>1, <3>1, AbstractOf DEF IInv, TypeOK
    <3>3. Promised!Record(KeyOf[r])
      BY <3>1, <3>2 DEF Promised!Record
    <3>4. QED BY <3>3 DEF Promised!Next
  <2>2. CASE attempt[KeyOf[r]] # "absent"
    BY <1>1, <1>2, <2>2 DEF RecordAttempt
  <2>3. QED BY <2>1, <2>2
<1>3. ASSUME NEW r \in Requests, ProviderTakes(r) PROVE [Promised!Next]_(Promised!vars)
  <2>1. /\ attempt[KeyOf[r]] = "in_flight"
        /\ \A s \in calls : KeyOf[s] # KeyOf[r] /\ TokenOf[s] # TokenOf[r]
    BY <1>3 DEF IInv, KeyIsOwned, TokenIsOwned, BeforeCall, ProviderTakes
  <2>2. rec[KeyOf[r]] = "open" /\ rec' = rec /\ calls' = calls \cup {r}
    BY <1>3, <2>1, AbstractOf DEF ProviderTakes
  <2>3. Promised!Call(r)
    BY <2>1, <2>2 DEF Promised!Call
  <2>4. QED BY <2>3 DEF Promised!Next
<1>4. ASSUME NEW r \in Requests, Settle(r) PROVE [Promised!Next]_(Promised!vars)
  <2>1. Seen(KeyOf[r])
    BY <1>4 DEF IInv, CallsAreTraced, Seen, Settle
  <2>2. QED BY <1>4, <2>1, CloseRefines DEF Settle
<1>5. ASSUME NEW k \in Keys, ReconcileWrite(k) PROVE [Promised!Next]_(Promised!vars)
  <2>1. Seen(k)
    BY <1>5 DEF IInv, CallsAreTraced, ReconcileWrite
  <2>2. QED BY <1>5, <2>1, CloseRefines DEF ReconcileWrite
<1>6. QED
  BY <1>1, <1>2, <1>3, <1>4, <1>5
     DEF Next, vars, Admit, Refuse, Burn, CallThrows, Release, Crash, ReconcileAsk,
         ReconcileCrash, Tick

(* The executor, with its leases, crashes and retries, keeps the promise   *)
(* of ConnectorCalls.                                                      *)
THEOREM ExecutorKeepsPromise == Spec => ImplementsConnectorCalls
BY InitRefines, NextRefines, Invariance, PTL
   DEF Spec, ImplementsConnectorCalls, Promised!Spec
=============================================================================
