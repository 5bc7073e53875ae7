---------------------------- MODULE ContactPolicy ----------------------------
(***************************************************************************)
(* The policy engine around the execution of a step: authorize reads the   *)
(* policy and the contact budgets and mints a token, runStep presents the  *)
(* token to the executor, and the budget is spent after the call           *)
(* (packages/engine/src/policy-engine.ts, packages/core/src/policy.ts,     *)
(* capability.ts, and runStep in packages/sim/src/runner.ts).              *)
(*                                                                         *)
(* The steps belong to cases of one customer.  The batch runs them one     *)
(* after another; they overlap as soon as a second worker drains the       *)
(* queue, which the scheduler's leases are written for, or a live script   *)
(* executes a step beside it, and the model lets them.  Time is coarse:    *)
(* authorize, and a call once it is admitted, take none of it; a worker    *)
(* may wait at any other point, or never go on.                            *)
(***************************************************************************)
EXTENDS Integers, FiniteSets, FiniteSetsExt

CONSTANTS
  Requests,      \* the steps that run
  Variants,       \* what each may be: records of case, rail, action, channel, attempt, amount
  Contact,       \* the actions that spend contact budget and keep quiet hours
  Capped,        \* the actions whose amount is passed on
  Allowed,       \* allowedActions, by rail
  MaxAttempts,   \* maxAttemptsPerCase
  ApprovalAbove, \* requireApprovalAbovePaise
  Caps,          \* contactCaps, by channel: records of window and max
  Endings,       \* how a case may end
  Day, QuietStart, QuietEnd,
  Lifetime,      \* ttlMs of a token
  MaxTime        \* bound of the clock

Every == "*"

ASSUME ContactAssumption ==
  /\ IsFiniteSet(Requests)
  /\ \A k \in DOMAIN Caps : Caps[k] \in [window : Nat \ {0}, max : Nat]
  /\ Day \in Nat \ {0} /\ {QuietStart, QuietEnd} \subseteq 0..(Day - 1)
  /\ {Lifetime, MaxTime, MaxAttempts, ApprovalAbove} \subseteq Nat

VARIABLES
  step,  \* what each request turned out to be
  req,   \* pc, the token's notAfter (until), and histories: the windows its
         \* budget was read in (read), when the provider contacted the customer
         \* (at), the windows it was counted in (spent), whether the customer
         \* had opted out before it was evaluated (late)
  used,  \* contact_budgets, by channel and window
  ended, \* how each case has ended
  now,   \* the clock
  peak   \* history: how many were between reading and spending at once

vars == <<step, req, used, ended, now, peak>>

Cases == {s.case : s \in UNION {Variants[r] : r \in Requests}}
Never == MaxTime + 1
NoWindow == -1

-----------------------------------------------------------------------------
(* inQuietHours: the union of two ranges when the hours wrap midnight.     *)
InQuietHours(t) ==
  IF QuietStart > QuietEnd
  THEN t % Day >= QuietStart \/ t % Day < QuietEnd
  ELSE t % Day >= QuietStart /\ t % Day < QuietEnd

WindowOf(k, t) == t \div Caps[k].window
CapsFor(channel) == {channel, Every} \cap DOMAIN Caps

(* #evaluate up to the budgets, in its order.  runStep passes no optedOut, *)
(* and an amount only for a capped action.                                 *)
Blocks(s) ==
  \/ s.action \notin Allowed[s.rail]
  \/ s.attempt >= MaxAttempts
  \/ s.action \in Contact /\ InQuietHours(now)
NeedsApproval(s) == s.action \in Capped /\ s.amount > ApprovalAbove

-----------------------------------------------------------------------------
Start == [pc |-> "ready", until |-> 0, read |-> [k \in DOMAIN Caps |-> NoWindow],
          at |-> Never, spent |-> [k \in DOMAIN Caps |-> NoWindow], late |-> FALSE]

Init ==
  /\ step \in {f \in [Requests -> UNION {Variants[r] : r \in Requests}] :
                 \A r \in Requests : f[r] \in Variants[r]}
  /\ req = [r \in Requests |-> Start]
  /\ used = [kw \in (DOMAIN Caps) \X (0..MaxTime) |-> 0]
  /\ ended = [c \in Cases |-> "no"]
  /\ now = 0 /\ peak = 0

At(r, pc) == req[r].pc = pc
GoTo(r, pc) == req' = [req EXCEPT ![r].pc = pc]
OptedOut == \E c \in Cases : ended[c] = "opted_out"

(* #budgetExhausted: the channel's cap, then the global one; a cap the     *)
(* policy does not set does not limit.                                     *)
Room(k) == k \notin DOMAIN Caps \/ used[<<k, WindowOf(k, now)>>] < Caps[k].max
Read(r, k) == [q \in DOMAIN Caps |-> IF q = k THEN WindowOf(k, now) ELSE req[r].read[q]]
Stopped(r, pc) == req' = [req EXCEPT ![r] = [Start EXCEPT !.pc = pc]]

(* authorize: what needs no budget is decided at once, and otherwise the   *)
(* channel is read first.                                                  *)
Evaluate(r) ==
  /\ At(r, "ready")
  /\ IF Blocks(step[r]) \/ (step[r].action \in Contact /\ ~Room(step[r].channel))
     THEN Stopped(r, "blocked")
     ELSE req' = [req EXCEPT ![r].late = OptedOut, ![r].read = Read(r, step[r].channel),
                             ![r].pc = IF step[r].action \in Contact THEN "global" ELSE "mint"]
  /\ UNCHANGED <<step, used, ended, now>>

(* mint: a token is good for its lifetime from the reading of the clock.   *)
NotAfter == now + Lifetime

Mint(r) ==
  /\ At(r, "global") \/ At(r, "mint")
  /\ IF (At(r, "global") /\ ~Room(Every)) \/ NeedsApproval(step[r])
     THEN Stopped(r, "blocked")
     ELSE req' = [req EXCEPT ![r].pc = "token", ![r].until = NotAfter,
                             ![r].read = Read(r, Every)]
  /\ UNCHANGED <<step, used, ended, now>>

(* runStep reads the state of the case, and the executor checks the token. *)
Live(r) == ended[step[r].case] = "no"
AdmitsExpired(r) == Live(r)
Admits(r) == Live(r) /\ now <= req[r].until

Admit(r) ==
  /\ At(r, "token")
  /\ IF Admits(r)
     THEN req' = [req EXCEPT ![r].pc = "calling", ![r].until = 0]
     ELSE Stopped(r, "failed")
  /\ UNCHANGED <<step, used, ended, now>>

(* The provider takes the call or refuses it; its answer may get lost, and *)
(* then the executor throws.                                               *)
Refuse(r) ==
  /\ At(r, "calling") /\ Stopped(r, "failed")
  /\ UNCHANGED <<step, used, ended, now>>

Call(r) ==
  /\ At(r, "calling")
  /\ \E pc \in {"made", "failed"} : req' = [req EXCEPT ![r].pc = pc, ![r].at = now]
  /\ UNCHANGED <<step, used, ended, now>>

(* action_executed: a case that has ended in between refuses it, and the   *)
(* exception passes by the line that spends the budget.                    *)
Note(r) ==
  /\ At(r, "made")
  /\ GoTo(r, IF ~Live(r) THEN "failed" ELSE IF step[r].action \in Contact THEN "told" ELSE "done")
  /\ UNCHANGED <<step, used, ended, now>>

(* consumeContactBudget: both counters in one transaction, in the windows  *)
(* of this moment.                                                         *)
ConsumeChannel(r) ==
  /\ At(r, "told")
  /\ LET caps == CapsFor(step[r].channel)
     IN  /\ used' = [kw \in DOMAIN used |->
                       IF kw[1] = step[r].channel /\ kw[2] = WindowOf(kw[1], now) THEN used[kw] + 1 ELSE used[kw]]
         /\ req' = [req EXCEPT ![r].pc = "done",
                               ![r].spent = [k \in DOMAIN Caps |->
                                  IF k \in caps THEN WindowOf(k, now) ELSE NoWindow]]
  /\ UNCHANGED <<step, ended, now>>

Consume(r) ==
  /\ At(r, "told")
  /\ LET caps == CapsFor(step[r].channel)
     IN  /\ used' = [kw \in DOMAIN used |->
                       IF kw[1] \in caps /\ kw[2] = WindowOf(kw[1], now) THEN used[kw] + 1 ELSE used[kw]]
         /\ req' = [req EXCEPT ![r].pc = "done",
                               ![r].spent = [k \in DOMAIN Caps |->
                                  IF k \in caps THEN WindowOf(k, now) ELSE NoWindow]]
  /\ UNCHANGED <<step, ended, now>>

Run(r) ==
  \/ Evaluate(r) \/ Mint(r) \/ Admit(r)
  \/ Refuse(r) \/ Call(r) \/ Note(r) \/ Consume(r)

End(c) ==
  /\ ended[c] = "no"
  /\ \E how \in Endings : ended' = [ended EXCEPT ![c] = how]
  /\ UNCHANGED <<step, req, used, now>>

Pass ==
  /\ now < MaxTime
  /\ \A r \in Requests : req[r].pc \notin {"global", "mint", "calling"}
  /\ now' = now + 1
  /\ UNCHANGED <<step, req, used, ended>>

Between == {r \in Requests : req[r].pc \in {"global", "mint", "token", "calling", "made", "told"}
                             /\ step[r].action \in Contact}

Next ==
  /\ (\E r \in Requests : Run(r)) \/ (\E c \in Cases : End(c)) \/ Pass
  /\ peak' = Max({peak, Cardinality(Between')})

Spec == Init /\ [][Next]_vars

-----------------------------------------------------------------------------
Pcs == {"ready", "global", "mint", "token", "calling", "made", "told",
        "done", "blocked", "failed"}

TypeOK ==
  /\ \A r \in Requests : step[r] \in Variants[r]
  /\ req \in [Requests ->
                [pc : Pcs, until : 0..(MaxTime + Lifetime), at : 0..Never, late : BOOLEAN,
                 read : [DOMAIN Caps -> NoWindow..MaxTime], spent : [DOMAIN Caps -> NoWindow..MaxTime]]]
  /\ used \in [(DOMAIN Caps) \X (0..MaxTime) -> 0..Cardinality(Requests)]
  /\ ended \in [Cases -> Endings \cup {"no"}]
  /\ now \in 0..MaxTime /\ peak \in 0..Cardinality(Requests)

(* The contacts under a cap, the window of each, and the strays: budgets   *)
(* read in another window than the contact's, or counted in another, or    *)
(* not counted because the call threw or the case ended first.             *)
Contacted(k) ==
  {r \in Requests : step[r].action \in Contact /\ req[r].at # Never /\ k \in {step[r].channel, Every}}
In(k, w) == {r \in Contacted(k) : WindowOf(k, req[r].at) = w}
Stray(r, k) ==
  \/ req[r].read[k] # WindowOf(k, req[r].at)
  \/ req[r].pc \in {"done", "failed"} /\ req[r].spent[k] # WindowOf(k, req[r].at)
Strays(k, w) == {r \in In(k, w) : Stray(r, k)}

(* A cap is exceeded in a window by no more than the strays and the steps  *)
(* that were authorized beside each other: the budget is read when a step  *)
(* is authorized and spent after it has run.  The windows are tumbling: a  *)
(* period of that length that is none of them may hold two allowances.     *)
CapsBoundContacts ==
  \A k \in DOMAIN Caps, w \in 0..MaxTime :
    Cardinality(In(k, w)) <= Caps[k].max + Cardinality(Strays(k, w)) + Max({peak - 1, 0})

(* A customer is contacted in quiet hours only within the lifetime of a    *)
(* token that was minted before they began.                                *)
Quiet(t) == (t + Day - QuietStart) % Day < (QuietEnd + Day - QuietStart) % Day
QuietSlipIsBounded ==
  \A r \in Contacted(Every) :
    Quiet(req[r].at) =>
      \E t \in 0..req[r].at : req[r].at - t <= Lifetime /\ ~Quiet(t)

(* The customer who has opted out is not contacted by a step evaluated     *)
(* afterwards, on any of their cases (tests/policy.test.ts: "blocks        *)
(* contact to an opted-out customer").                                     *)
OptedOutIsLeftAlone == \A r \in Contacted(Every) : ~req[r].late
=============================================================================
