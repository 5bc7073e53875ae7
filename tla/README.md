# A formal model of the revenue recovery agent

TLA+ modules, TLC runs and TLAPS proofs for the code under `packages/`. The
modules are read beside the source: `PROJECT.json` ("map") names, for every
definition, the lines it stands for.

## The system

A batch runner, a webhook route and a few scripts share one PostgreSQL database.
What coordinates them is that database: row locks, unique indexes, conditional
updates and two kinds of leases. There is no other lock, no queue and no message
bus, so a step of a model is one statement, or the rest of a transaction after
its last lock, and whatever stands between two statements may be interleaved
with anything, or be the end of the process.

| Component | Source | State | Operations | Talks to |
|---|---|---|---|---|
| State machine, reducer | `core/src/state-machine.ts`, `events.ts` | none (pure) | `canTransition`, `reduce`, `reduceAll` | everything that appends |
| Case event store | `db/src/case-events.ts` | `cases`, `case_events`, `case_revisions` | `append`, `replay` | cancels `scheduled_actions` on a terminal event |
| Case manager | `engine/src/case-manager.ts` | `obligations`, `cases` | `openOrAttach` | event store |
| Scheduler | `engine/src/scheduler.ts` | `scheduled_actions` | `schedule`, `tick`, `complete`, `release`, `reclaimExpiredLeases`, `cancelForCase` | workers |
| Executor | `engine/src/executor.ts`, `obligation-lease.ts`, `token-burn.ts`, `core/src/capability.ts` | `action_attempts`, `obligation_locks`, `token_burns` | `execute`, `reconcile` | the provider, through an adapter |
| Reconciler, verifier | `engine/src/reconciler.ts`, `verifier.ts` | `settlements`, `obligations.state` | `record`, `onSettlement`, `onOutcome`, `exhaust` | event store |
| Webhook route, settle-live | `console/src/webhook-route.ts`, `scripts/settle-live.ts` | `ledger` entries it reads back | `handleWebhook` | verifier |
| Batch runner | `sim/src/runner.ts` | `closed`, `remainingSteps`, `attemptNos`, pending replies and settlements, in memory | `startPlan`, `advancePlan`, `runStep`, the tick loop | all of the above |
| Intent router | `engine/src/intent-router.ts` | `promises_to_pay` | `route`, `reconcilePromises` | verifier, runner |
| Incidents, staged release | `engine/src/incident.ts`, `release-controller.ts` | `incidents`, `incident_members`, the slice in flight (memory) | `open`, `attachAndSuppress`, `release`, `repark`, `step` | event store, scheduler |
| Policy engine | `engine/src/policy-engine.ts` | `contact_budgets`, `policy_decisions` | `authorize`, `consumeContactBudget` | runner |
| Detector | `engine/src/detector.ts`, `core/src/stats.ts` | dwell counters (memory) | `evaluate`, `reset` | incidents |
| Blackboard, work router | `engine/src/blackboard.ts`, `work-router.ts` | `evidence`, `claims` | `addEvidence`, `writeClaim`, `route` | agents |
| Tier 0, mandate sequencer, optimizer, tables | `engine/src/tier0.ts`, `mandate-sequencer.ts`, `core/src/taxonomy.ts`, `playbooks.ts`, `actions.ts`, `agents/src/optimizer.ts` | none (pure) | `resolve`, `sequence`, `valueActions`, `rank` | runner |
| Agent runtime, reducer, providers | `agents/src/runtime.ts`, `specialists.ts`, `reducer.ts`, `cached-provider.ts` | `claim_cache` | `run`, `reduce`, `complete` | the model provider, runner |
| Ledger | `db/src/ledger.ts` | `ledger` | `append` | the views, the webhook route |
| Event stream, terminal view | `console/src/stream.ts`, `tui/src/tui.ts` | a cursor each | `readSince`, `sse`, the terminal's loop | ledger |
| World, cohort, scenario, replay | `sim/src/*` | none | the environment of a batch | runner |
| Attribution, console screens | `attribution/src/*`, `console/src/*` | none | statistics and pages over what is there | |

What makes each one correct, and what is hard about it:

- *Event store and case manager.* One open case per obligation; a gapless log that
  replays to the row; a closed case stays closed with nothing queued. Hard:
  concurrent triggers and writers, failures between the two transactions of
  `openOrAttach`, planners that act on what they read before the case closed.
- *Executor.* No idempotency key and no token reaches the provider twice; a call
  always leaves a record that reconciliation can find. Hard: a death between the
  call and its answer, retries, lease expiry during a slow call.
- *Scheduler.* Workers split the due rows, nothing is done that was not run,
  nothing settled is revived. Hard: workers that overrun a lease and then use
  updates that do not name the owner; a cancellation during a tick.
- *Settlement.* RECOVERED only on money matched to the obligation, each payment
  once, and never a covered case that stays open. Hard: parts handled at once,
  reports of one payment on two channels, each with its own look-up of the attempt,
  attempts made meanwhile, redeliveries after a death.
- *Detector and incidents.* One incident for one failure; a parked case does not act
  until it is released, and it is released. Hard: two transactions per case, two
  openers, failures in the middle of a slice, a segment with no traffic left to show
  that it has recovered.
- *Recovery loop.* A case always moves on, to its next step or to an end. Hard:
  promises, quiet hours, parking and re-planning in any order.
- *Contact policy.* Caps, quiet hours and opt-outs hold per customer over several
  cases. Hard: what is checked when a step is authorized is spent, or has changed,
  when it has run.
- *Planning.* Every case is decided, by the tables where they can, and never from half
  a judgement; batches of one cohort repeat each other. Hard: calls that outlive the
  role that made them, a cache that outlives the batch, claims that a reply makes stale.
- *Stream.* Every line once and in order. Hard: ids that are not committed in order.

The hazards behind these, each at its line, are in `PROJECT.json` ("hazards").

## The modules

| Module | Models | Used by |
|---|---|---|
| `CaseLifecycle` | state machine and reducer, as operators | `CaseStore`, `Settlement`, `RecoveryLoop` |
| `CaseRegistry` | what opening a case and appending to it promise, with no log, lock or failure | `CaseStore` (INSTANCE) |
| `CaseStore` | `openOrAttach` and `append`, statement by statement | `MCCaseStore`, `CaseStoreProofs` |
| `ConnectorCalls` | what the executor promises, with no lease, clock or crash | `Execution` (INSTANCE) |
| `Execution` | `execute`, the lease, the nonce, `reconcile` | `MCExecution`, `ExecutionProofs` |
| `Agenda` | what the scheduler promises about an action, with no tick, lease or death | `Scheduler` (INSTANCE) |
| `Scheduler` | the scheduler and its workers | `MCScheduler`, `SchedulerProofs` |
| `Settlement` | `onSettlement` behind its three channels | `MCSettlement`, `SettlementProofs` |
| `RecoveryLoop` | one case in the batch runner's tick loop, with promises and incidents | `MCRecoveryLoop`, `RecoveryLoopProofs` |
| `Detector` | the statistics and the hysteresis of the detector, as operators | `Incident` |
| `Incident` | detector windows, parking and staged release of several cases | `MCIncident`, `IncidentProofs` |
| `ContactPolicy` | `authorize`, the token and the contact budget around a step | `MCContactPolicy`, `ContactAndStreamProofs` |
| `Planning` | the tables, Tier 0, the mandate sequencer, the optimizer, as operators | `Deliberation` |
| `Deliberation` | the planning phase: workers, roles, cache, claims, batch after batch | `MCDeliberation`, `DeliberationProofs` |
| `Stream` | the ledger and the views that follow it | `MCStream`, `ContactAndStreamProofs` |

**CaseStore.** `row`, `rev`, `log` and `queue` are the tables; `obLock` and `rowLock`
are the two row locks that matter. `OpenUpsert`, `OpenSelect`, `OpenInsert` are the
statements of the first transaction of `openOrAttach` and `OpenAppend` is the
second; `AppendLock` and `AppendCommit` are the two halves of `append`.
`PlanRead`, `Schedule` and a later `AppendLock` are the planner's read, insert and
event (`startPlan`, `advancePlan`). A throw or a death at any point is `OpenFails`
or `WriterFails`: the open transaction rolls back and committed work stays.
`append` folds the whole log again; the model takes one `Reduce` of the latest
revision, and `ReplayReproducesRow` says the two agree. The abstract specification is
`CaseRegistry`: a case opens where its obligation has none open, moves along the
transitions, takes its queue along when it ends, and ends once, each in one step. The mapping reads
the registry off the tables: which case rows exist and have `closed_at`, the state of the
latest revision, and the ids that are queued. `OpenInsert` is then `Open`, an append of
either kind `Append`, and the locks, the SELECTs, the failures and the planner's read are
stutters.

**Execution.** One request is one call of `execute`; `pc` stands at its awaits.
Token verification and the lease upsert are one step (nothing else reads or writes
between them but the clock), and so are the SELECT and the question of `reconcile`
for one key. Settling and releasing are separate steps; `Crash` leaves whatever
the database holds. The provider takes a call or not, and may or may not answer.

**Scheduler.** `TickSelect` and `TickLease` are the two statements of `tick`;
`locked` is FOR UPDATE SKIP LOCKED. `hand` is what a worker believes it holds,
which the table may no longer say. The clock does not move while a tick
transaction is open: the lease runs from the reading at its start.
`TerminalWrite` waits for the locks of an open tick, as the UPDATE would. The abstract
specification is `Agenda`, in which an entry is absent, open, done or cancelled, and
nobody has it: the mapping (`Abstract`) takes a pending and a leased row for an open
entry, so that leasing, releasing, reclaiming, hanging and dying are stutters. `Run` is
`Attempt`, which asks that the entry be due and lets it be run again by a worker that
has lost it; `SetDone` is `Finish` and the terminal write with its cancellation `End`.

**Settlement.** A delivery is one report of one payment; `at` stands at its queries.
`Receive` is the duplicate check of its channel, `Match` and `Record` are
`Reconciler.record`, `FindCase` to `Close` are `onSettlement`, `Log` the ledger
entry the webhook route reads back. A report may also say that the payment failed,
and the entry it leaves makes the report of its later capture a duplicate: the route
deduplicates by entity, and the event's own id is not looked at. `sent` is the
`action_attempts` table and `Attempt` a later step of the plan that adds to it; an
attempt stands for its key. `Made` keeps money from coming back through an attempt that
is not on record (`EveryCallOnRecord`). `key` is what the handler holds between the look-up
and the insert: the pull script has the key of the attempt it polls, and the webhook route
that of the newest attempt its event may mean (`Candidates`, `Newest`), looked up at each
delivery. All those attempts are of one obligation, so the obligation a key leads to
(`ByKey`) does not change, but the key may. Two attempts sent at one time, and two
obligations due at one time, are a choice: `ORDER BY ... LIMIT 1` takes either. The
other ledger entries (`partial_settlement`, `recovered`) are left out.

**RecoveryLoop.** The batch runs its handlers one after the other, so a handler of
`runBatch` is one step and `phase` says where the loop of a tick stands. `case` is
one case: the row and its scheduled actions, and what the runner keeps of it in
memory (`remainingSteps`, `attemptNos`, `closed`). `Post`, `Advance` and `StartPlan`
are `append`, `advancePlan` and `startPlan` as functions of that record, because
the handlers compose them; an append that breaks the state machine outside the
`try` of `runStep` sets `died`, and a batch that has died takes no further step.
`RunStep` is split by what policy and executor answer. Of an incident only what
it does to this case is kept: a step of its release either has the case in its
slice, or other cases, or pulls the slice back, or completes; which of these it
is, is left open, since ramp and health depend on the other cases.

**Detector and Incident.** `Incident` supplies what `RecoveryLoop` leaves open: several
cases, a segment and its parent, the counts of each window, the slices and the
breaker. The batch is one process, so `loop` says at which await of the detector
part of `runBatch` it stands: `OpenSelect` and `OpenInsert` are the two statements of
`IncidentManager.open`; `Attach`, `AttachSuppress` and `AttachCancel` the three of
`attachAndSuppress` for one case; `StepReleases`, `Wake`, `WakeEnds`, `Resume` are
`step`, `release` and what the runner does with the slice; `Repark` to `ReparkEnds`
pull a slice back. The drain of a tick (`Lease` to `Announce`) comes before them in the
same process. The webhook server is another process: it closes cases (`Close`) and, in
`DoorSelect` and `DoorInsert`, opens incidents through `openFromDowntime`, which in the
repository only the tests call. `Throws` is an append the state machine refuses; a
crash needs no action, because the state it leaves is the state it happens in. The
test of the detector is computed, not assumed: z squared in tenths, over counts.
Two simplifications: a resumed plan has one action, and an observation's baseline
is part of what a window counted, not accumulated over the windows.

**ContactPolicy.** `Evaluate` and `Mint` are `authorize` before and after its second
budget query; `Admit` is the check of the case's state and of the token's `notAfter`;
`Call`, `Note` and `Consume` are the provider, the event and the budget. The batch runs
steps one after another; the model lets them overlap, as they do once a second worker
drains the queue or a live script runs beside it. Time does not pass inside
`authorize` or while a call is out.

**Planning and Deliberation.** `Planning` holds what is computed from the tables.
`Deliberation` runs it: `ResolveTier0`, `FallBack` and `FanOut` are the three ways a
worker takes a case in phase A of `runBatch`, `Settle` is the end of `AgentRuntime.run`
with the reducer, `Look`, `Answered`, `Store` and `Fail` are the awaits of
`CachedProvider.complete`, `TimeOut` is `withTimeout`, which ends a role and not its
call. `Reply` and `Route` are the event of a customer's reply and the router's
invalidation. `Start` is the next batch of the same cohort, after `reset` has
truncated everything but `claim_cache`. Only the diagnosis and the reducer ever reach
a provider; the other roles are functions of inputs that do not change here.

**Stream.** An entry gets its id when it is inserted and is visible when it commits;
`Rows` is the page a poll reads and `Lines` what it shows of it. `Reopen` is a view
started again from an id it has seen.

## The runs

| Run | Instance | States | Shows |
|---|---|---|---|
| `case_store` | two triggers, one obligation, two writers, one action, 5 events | 1.05 M | one open case; no sequence collision; replay; cancellation; refinement of `CaseRegistry` |
| `execution` | two cases, four requests (a repeated attempt, a replayed token), TTL 1, time 0..1 | 1.2 M | at most one call per key and token; record before call; refinement of `ConnectorCalls` |
| `scheduler` | two workers, two rows due at 0 and 1 of two cases, limit 2, lease 1, time 0..2, 3 leases per row | 178 k | splitting, at-least-once, cancellation, progress; refinement of `Agenda` |
| `settlement` | two obligations due at one time, two attempts on one of them, push and pull of a payment through the older that may have failed first, one transfer, one crash or repetition | 429 k | money counted once per key; captured money is counted; last part closes; covered is eventually closed |
| `settlement_twice` | the same, no crash, no repetition | | *violation*: a payment recorded under two keys closes the case with half the money |
| `recovery_loop` | five plans, two incidents, ticks 0..5, one quiet tick, cap 2, one reply at once | 52 k | memory and table agree; parked means idle and held; one plan at a time; what may go wrong and after what; every case ends |
| `recovery_loop_stranded` | one incident | | *violation*: a refused duplicate leaves the case in EXECUTING |
| `incident` | three cases, a segment and its parent, two incidents, windows of two ticks, a ramp of two stages | 412 k | parked means idle and owned; two incidents of a segment were raced; parent and child apart; released in the end |
| `contact` | three steps of two cases, days of four hours, windows of two, caps of 1 and 2 | 1.6 M | by how much caps and quiet hours can be overrun |
| `contact_opt_out` | the same | | *violation*: a customer who opted out is contacted on another case |
| `stream` | two views, pages of two, four entries | 146 k | no line twice; which lines are missed; every other line is shown |
| `deliberation` | two cases of seven kinds, two workers, three batches | 78 k | batches repeat; an outage plans nothing; notice before action; no stale claim; every case is decided |

Bounds and why they are enough. *case_store*: a race needs two of each actor, and
five events are enough to open, park, release, re-plan and close a case, with a
second case after it. `Symmetric` permutes the writers, which are interchangeable
and appear in no liveness property. *execution*: one request per way two calls can
collide (same key, same token, same obligation from another case), and one tick
past a lease of one unit is every expiry. *scheduler*: two workers and a third
lease are the first instance in which one worker gives back another's row
(`WorkersSplitTheDueRows` says from which lease on); the tick limit equals the
number of rows, so the limit itself is not what separates the workers.
*settlement*: two parts are the least that can miss each other, two channels the
least that can disagree on an id, two attempts the least that can disagree on a key,
and two obligations on one account that are due together the least that a transfer can
be torn between; the payment is half of what is owed, so that counting it twice closes
the case; one crash or one repetition is the least that makes a redelivery, and
`MaxSetbacks` counts both. *recovery_loop*: three detector windows let a case be parked, released, parked
again by the same or another incident and released once more; a grace of two ticks
puts a promise's date inside the second parking; the plans have a wait between,
at the end and not at all, more actions than the cap, and an action the rail
forbids; a tick stands for as many hours as it takes for 2 of them to be a wait.
`MaxReplies` bounds the replies on their way. *incident*: two incidents are the least
that can be of one segment, or of a segment and its parent; three cases let a slice be
smaller than what is parked, and one of them be parked by both; in the readings the
segment is good and its child has no traffic, both fail deeply, or the child's failure
shows in the segment just so much that it passes as the second of two tests; a detector that dwells on two windows, and two ticks to a window, leave time
for a drain before and after. `Payers` and `Incidents` are its bounds. *contact*: two
messages are the least that can share a budget and a third the least that separates
the channel's cap from the global one; quiet hours that wrap midnight take both ranges
of `inQuietHours`; a token lives for one hour, which is enough to reach them.
*deliberation*: a call that outlives its batch is still out in the next, and what it
stored is read in the third; the inputs take a code the table knows, one it knows
too weakly, one it does not know, one too small to be worth an action, and a mandate
that is active or revoked. `Batches` is its bound. *stream*: a page of two and a row behind it are
the least that can stall, and overtaking needs two.
`MaxEvents`, `MaxTime`, `MaxLeases`, `MaxCrashes`, `MaxId` and
`MaxSetbacks` are the other bounds and appear as guards. Deadlock is checked in
`case_store`; the other systems stop when their clock, requests or reports run out,
and a batch also when an exception ends it (`EveryCaseEnds` then says that a case
is closed by the time it stops).

## Fairness

`CaseStore` and `Execution` state safety only. `Scheduler`: a live worker keeps
ticking and working (the loop of `runBatch` does nothing else) and the clock
reaches its horizon (`for (elapsed ...)`); there is no fairness for
`ReclaimExpiredLeases`, `Release` or `Schedule`, because nothing in the source
calls the first two on its own, and so a row whose owner died may stay leased:
`EveryRowSettles` says exactly that. `Settlement`: a handler that has not died runs
on, and a report that was not acknowledged is sent again (Razorpay retries any
non-2xx, `webhook-route.ts`; the script is run again); nothing obliges anyone to
repeat an acknowledged one. `RecoveryLoop`: the batch is one sequential program that
goes on until it ends or throws; no event of the world is fair. `Incident`: the same
process and the same fairness; nobody has to pay, and nobody to report an outage.
`ContactPolicy` states safety only. `Deliberation`: the planning workers go on, the
timers of the roles fire (`setTimeout` in `withTimeout`), and a call of the batch that
is running ends, because `openrouter-provider.ts` aborts it after its own timeout; a
call that a batch has left behind owes nothing. `Stream`: a view keeps polling, which
both loops do also after an error.

## What is proved

`CaseStoreProofs`, `ExecutionProofs`, `SchedulerProofs`, `SettlementProofs`,
`ContactAndStreamProofs`, `RecoveryLoopProofs`, `IncidentProofs` and `DeliberationProofs`
hold the theorems: every invariant and every action property that a passing run checks, the
three refinements, the types of every module, and two statements that the runs check only
as part of a refinement (`TerminalIsFinal`, `DoneWasRun`). Each is proved for every value of
the constants that satisfies the assumption its module names (`CaseStoreAssumption` and so
on: the types of the constants, and that the "no one" value is no one; what goes beyond
that is named below). Of those of `RecoveryLoop` only
`OnePlanUnlessPromised` and `TypeOK` need an assumption.

- *Case store.* `OneOpenCasePerObligation`, `SeqNeverCollides`,
  `OnlyLateActionsOnClosedCases`, `ReplayReproducesRow`, `TypeOK` and the action property
  `TerminalIsFinal`. None is inductive alone. `TriggerHoldsObligation` carries the
  first: a trigger that has looked and found no open case still holds the
  obligation's lock, so nobody has inserted one since. `WriterHoldsRow` carries the
  second: the sequence number a writer has read is still the row's. `RowAgrees` ties
  `next_seq`, state and closing of the row to the latest revision and the length
  of the log, and `UnbornIsBlank` says that a case that does not exist has no log,
  no queue and no lock. The conjunction of these with the type invariant is
  inductive (`IInv`). `ReplayReproducesRow` is about a fold over the whole log, and the
  proof makes no induction over it: `Replayed` says of every log that there is a function
  that folds it and that every such function ends in the stored revision (`FoldsTo`), and
  each append keeps that (`AppendReplays`), because a fold of the longer log is one of the
  shorter with a value added.
  That `CaseStore` implements `CaseRegistry` (`StoreKeepsPromise`) rests on the same
  invariant and three facts of its own. `RowsStay`: no step deletes a case row.
  `PlannerKnowsCase`: who schedules for a case has seen it. `QueuedOnce`: an id is in a
  queue once, so that completing an action leaves the others. `InitRefines` and
  `NextRefines` then go through the actions one by one; `AppendRefines` is both appends.
- *Execution.* `NeverChargedTwice`, `TokenDrivesOneCall`, `EveryCallOnRecord`,
  `OverlapNeedsSibling`, `TypeOK`, and that `Execution` implements `ConnectorCalls`. The
  lease is not used in the argument for single charges, and need not be: the two unique
  inserts alone carry it.
  `KeyIsOwned` says that requests past the attempt insert have different keys,
  `TokenIsOwned` the same of nonces past the burn, and `CallsAreTraced` that every
  call was made by a request that went through both. The refinement maps a row in
  flight to an open record and any later state to a closed one; every step is then
  a step of `ConnectorCalls` or a stutter. What the lease does give is
  `LeaseIsHeld`: a request inside its lease finds the row naming its case and not
  expiring before it, unless a sibling of its case has passed and deleted the row. Two
  cases cannot both be named, so an overlap needs the sibling.
- *Scheduler.* `WorkersSplitTheDueRows`, `DoneWasRun`, `OnlyLateRowsOutliveTheirCase`
  and `TypeOK`. The last three need only `Locks` (a selected row is pending, and in one
  tick) and `BusyWasRun`. The first needs the history of a lease. `HoldsItsLease`: as
  long as a lease in a worker's hand has not run out, the table still says so, or the
  row is settled, or it has been given back by a worker whose lease was an earlier one
  (`GivenBack`, which counts leases). `SharedIsSecond`: a row in two hands has been
  leased twice. Two leases of one row that both stand are then of a row that was given
  back and leased again, the third time at least.
  That `Scheduler` implements `Agenda` (`SchedulerKeepsPromise`) needs `HeldIsDue`: what a
  tick has selected and what a worker holds is due, however long the worker has hung,
  because the clock only advances. That a row is done only after it was run, or after its
  case had ended, is `DoneWasRun` once more, now as a guard of each step (`Finish`).
- *Settlement.* `LastPartCloses`, `RecoveredIsPaidUnderOneKey`, `CapturedIsCounted`,
  `MoneyStaysWhereItWasMatched` and `TypeOK`. `SettlementAssumption` says only how a settlement
  id comes about: from the entity of a webhook or from an attempt, so that reports of money
  with one id are about the attempts of one obligation or about none, webhooks of one entity
  have one id, and a payment reported without any attempt has one id. Keys and due times are
  free: two channels may report one payment under two keys, and any obligations may be due at
  one time. `TargetsStand` and `RowsStand` say that a match by key, and a row recorded by one,
  is what matching anew would come to, whichever attempt is the newest by then; a transfer has
  no such fact, and what becomes of it is in `Strays`. `CountedFirst` and
  `LoggedIsCounted` order the books before the ledger. `LastPartIsActive` is
  `LastPartCloses` with a narrower witness: a handler that is not about to be taken for
  a duplicate (`Doomed`) and that, once it has matched, has matched this obligation.
  The argument for these never adds amounts up: whoever finds a sum too small, or a case
  closed, or a row refused, proves that no other delivery was counting on it.
  `RecoveredIsPaidUnderOneKey` needs sums. `RowsAreReports` says that every row on the
  books is a report's, `CountedOnce` that without a payment under two keys the rows add up
  to what was received, and `ClosingIsPaid` that a handler about to close has seen a sum
  that covers what is owed, and rows only grow after that.
  That a sum over a set has a value, one that does not depend on the order of adding and
  grows with the set, is `Adds` and `MoreAdds`, by the well-founded ordering of the subsets
  of a finite set.
- *Stream.* `SkippedWereOvertaken`, the action property `FollowsInOrder` and `StreamTypeOK`.
  `ShownIsBehind` is the strengthening: what a view has shown lies up to its cursor. The
  argument is that a page is a prefix of what lies behind the cursor (`PageIsAPrefix`),
  so that a poll that moves the cursor shows every line it moves it past.
- *Recovery loop.* `ClosedIsQuiet`, `SuppressedIsHeld`, `TroubleNeedsRepeat` and the
  action property `WokenOnlyByReleaseOrPromise`, whatever the plans, the policy's
  answers, the clock and the number of incidents: the argument never looks into a
  row, only at whether there is one. `RestsUnlessRepeated` is the strengthening of
  the third: until an attempt is refused as a duplicate, a handler finds and leaves
  the case in a state from which everything the runner appends is legal
  (`AdvanceReschedules`, `StartingPlans`, `ApprovalExecutes`). `DetectedIsBlank`
  carries the release: a case that no plan was started for is in no incident, so a
  release never finds it in DETECTED, where it would throw. `OnePlanUnlessPromised` does
  look at the row. `OneAtATime` says that until a promise is made no promise is open, and
  the queue is empty or holds one action, of a plan that the runner remembers: a plan is
  started only where there is none, and advanced only once its row has fired. That `advancePlan` queues an action
  and not a wait is a fact about `LeadingWaits` (`WaitsLead`), and needs the
  types of the plans; so does telling "no plan" from a plan.
  `TypeOK` says that of `c.no`, of every row and of every used key the attempt number is
  at most the cap, which only the policy's refusal makes sure of (`ExecutedShaped`), that
  plans and queues have no holes however they are cut and put back (`Shaped`), and that a
  row is due at a tick. For the last, the sum of a plan's leading waits has to be a number:
  `SumExists` and `DelayTyped` take the least position at which it would not be one.
  `Counted` are the types of the rest.
- *Contact policy.* `CapsBoundContacts`, `QuietSlipIsBounded` and `TypeOK`, for any finite
  set of steps. `UsedCounts`: a budget is the number of steps counted in it. `ReadersFit`:
  the steps that have read a budget in a window, and may yet spend it there or have, are no
  more than the cap and those that stood beside the last one to read it. A step becomes a
  reader only while the budget has room, that is, when those that have spent it are fewer
  than the cap; the others are between reading and spending at this very moment, and `peak`
  has counted them. Every contact of a window is such a reader or a stray. `Covered`: what
  is on its way to a customer was minted outside quiet hours a lifetime ago at the most;
  the rest is arithmetic modulo the day (`QuietHoursAreOneStretch`: the two ranges of
  `inQuietHours`, before and around midnight, are one). `ContactAssumption` asks for
  finitely many steps, and for windows and a day that are not empty.
- *Incidents.* `SuppressedIsOwned`, `QuietWhileParked`, `TwinsWereRaced`, `FlaggedApart`,
  `TypeOK`, and `FollowedIsLive`, which no run spends a property on: what
  `openIncidents` names is an incident of that segment that is open. `LoopFollows` and
  `RoomLeft` say where the loop stands with it, `OpenersLooked` that an opener which is
  about to insert has found nothing live or is counted in `raced`. A suppressed case is
  followed through the statements that park, release and repark it: each step either
  keeps the holder (`KeepsHold`) or hands the case on to the slice in hand, and the
  drain is over when the loop works (`DrainedOutside`), so that no action starts between
  an event and its cancellation. `FlaggedApart` holds for any test of a drop and any
  counts: of a segment and a part of it that have both dwelled, `evaluate` always takes
  one for the explanation of the other. `IncidentAssumption` asks for finitely many incidents and segments
  and for a ramp that ends at 100 %, as the source's does.
- *Deliberation.* `SecondAnswerNeedsLateCall`, `OutageMakesNoPlan`, `NoticeBeforeAction`,
  `ContextIsCurrent` and `TypeOK`. `CallsTended` carries the first: a call whose input is not late is of
  this batch and somebody waits for it, and no second call is made for an input that has
  one. `OneAnswer` then says that such an input was acted on only with what is in the
  cache, which the table's first writer fixed. `Sourced` carries the second: past the
  roles, a case that the tables do not know has a diagnosis of the provider's or a failed
  one. `RoutedAreCleared` carries the third: the revision a reply brings about
  invalidates both claims that depend on it, and nothing draws them again.
  `NoticeBeforeAction` is about plans of any length. `Tabled` says that a case the tables
  resolve waits or has started with what Tier 0 makes of one of their plans; `Permitting`
  what the policy leaves of a list of steps, `FirstWaitCounts` that the hours of a list of
  waits are no fewer than its first one's. Both are about recursive functions, which
  `RunExists` shows to exist by `Climbs`, the induction up to a bound with a set in place
  of a predicate.
  `DeliberationAssumption` types the tables and keeps `None` apart from answers and cases.
  `MandateAssumption`, which only this property uses, is what `actions/library.yaml`,
  `policies/acme-subscriptions.yaml` and `cohort.ts` say: the sequencer's two steps are of
  kind `schedule`, the policy allows one of them and the payment update on each rail with
  mandates, and a mandate is active, paused or revoked. The code does not check it: under a
  policy that allowed neither wait, `usable` would be empty and the playbook would run
  without its notice.

Only model-checked: the liveness properties (`EveryRowSettles`, `CoveredIsClosed`,
`EveryCaseEnds`, `SuppressedIsReleased`, `EveryCaseIsDecided`, `EveryLineIsShown`), which
rest on fairness and are out of the prover's reach. The runs do not spend a property on
types, since those of every module are proved.

## What the violations say

Each is a sentence of the source that the code does not keep, and each run stops
at a shortest trace.

1. `RecoveredIsPaid`: "a case reaches RECOVERED only when a settlement is matched to its
   obligation and covers what was owed", and of push and pull "whichever arrives second is
   deduplicated on the settlement id rather than counted twice". The customer pays through
   the first of two links; the script records the payment with that link's key, the
   webhook with the newer one's, and neither id nor key is a conflict. The sum then counts
   the payment twice. `RecoveredIsPaidUnderOneKey` is what does hold.
2. `NotStranded`: every re-plan numbers its attempts from 0, so the second re-plan
   repeats the key of the first, and the refusal comes after the case has moved to
   EXECUTING. With a promise in between, a later release finds it there, throws, and
   ends the whole batch; `TroubleNeedsRepeat` says that nothing else does.
3. `OptedOutIsLeftAlone`: rule R-401 refuses contact to a customer who has opted out,
   and no caller of `authorize` says who has. The opt-out closes the case it came on;
   another case of the same customer goes on and contacts them.

What the passing runs leave room for, and the properties say so:

- The lease on an obligation belongs to the case, is re-entrant and is deleted by whichever
  call of the case ends first: a second case can then act beside one that is still within
  its lease, though `obligation-lease.ts:14` wants "exactly one" to act
  (`OverlapNeedsSibling`).
- When the attempt that was paid is the newest, push and pull carry one key and two
  settlement ids: the second is refused by the unique index on the key with an exception,
  and is not deduplicated as `webhook-route.ts:112` says. So is the webhook of another
  payment of the same obligation that comes to the same newest attempt. A webhook that is
  refused is retried in vain until a newer attempt gives it another key.
- A payment whose failure was logged and which is captured later is dropped as a
  duplicate: this is the exception in `CapturedIsCounted`.
- A transfer whose handler died is matched anew when it comes again. If its obligation is
  marked settled by now, or another one of the account is due at the same time, it may
  be matched to the other and answered for it; its row stays where it was, and the covered
  case stays open (`Strayed`, which `LastPartCloses` and `CoveredIsClosed` except).
- A broken promise re-plans a parked case, and so does the release of one incident
  while another holds it, although `incident.ts:18` gives resumption to the incident:
  `WokenOnlyByReleaseOrPromise` says that these are all.
- The cap on attempts is on the attempt number, which a re-plan resets.
- A promise leaves the row that is already scheduled, which fires during the pause and,
  if it is late enough, beside the plan the broken promise starts
  (`OnePlanUnlessPromised`).
- If the process ends between the event and the cancellation, a parked case keeps a
  queued action; if it ends, or an append throws, within a slice, the rest of the slice
  is suppressed and no incident holds it (`QuietWhileParked`, `SuppressedIsOwned`).
- A case whose adjudication fails is escalated in name only: the reducer's escalation
  has no plan and the runner drops the case, though `runner.ts:789` wants none dropped
  (`OutageMakesNoPlan` allows both).
- `NoticeBeforeAction` goes by the state of the mandate and not by the decline that was
  reported: a decline of MANDATE_PAUSED on a mandate that is active is not in its branch
  for mandates on which no debit can succeed.
- The cache's key contains the case's evidence references, so it never serves two cases
  with the same evidence, as `cached-provider.ts:19` means it to.
- Ledger ids are not committed in order, so the stream can pass a line by
  (`SkippedWereOvertaken`), and a page full of rows without a kind stops it for good
  (`Stalled` in `EveryLineIsShown`).

## Not modelled

Signatures, HTTP and parsing, prompts, schemas and redaction (pure functions over
strings; an answer of a provider is taken to fit its schema, which the providers do
not validate). Attribution: floating-point statistics and seeded random numbers over a
finished batch. The cohort, the scenario files and the reports. The checkout watcher,
which only its tests call. `NO_CLAIM_CACHE`, the setting that turns the claim cache off. Console screens, which only read. How the runner counts a
window: `Incident` takes what was counted as input, so that the baseline also absorbs
windows the detector did not find anomalous, or had no volume to test, is outside it.
The environment of the batch (payments, opt-outs, disputes) is in every module as
steps that may happen at any time.

## Plan

Done: `CaseLifecycle`, `CaseRegistry`, `CaseStore`, `ConnectorCalls`, `Execution`,
`Agenda`, `Scheduler`, `Settlement`, `RecoveryLoop`, `Detector`, `Incident`,
`ContactPolicy`, `Planning`, `Deliberation`, `Stream`, and the proofs listed above. What is left:

1. A composition of `Incident` and `ContactPolicy` with `Scheduler`'s workers, once the
   source runs more than one of them.
2. Baselines accumulated over windows in `Incident`.
