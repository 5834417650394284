# Verification of the agent runtime

This directory holds TLA+ modules, TLC configurations and TLAPS proofs about the
parts of the workspace on which everything an agent does rests: the durable
outbox of effects, the claims under which a host executes them, and the
settlement of their outcomes into an append-only log from which the agent loop
computes what comes next; the channel through which agents and people reach each
other, with its deliveries, its method calls and the responses on which clients
read it; and the missions that start agents on a schedule.

- [1. The system](#1-the-system)
- [2. Modules](#2-modules)
- [3. How state and actions correspond to the code](#3-how-state-and-actions-correspond-to-the-code)
- [4. Runs](#4-runs)
- [5. Fairness](#5-fairness)
- [6. Proofs](#6-proofs)
- [7. Findings](#7-findings)
- [8. What is not modelled](#8-what-is-not-modelled)
- [9. Plan](#9-plan)

Run a model with `tlc -workers 2 -config X.cfg M` and check a proof module with
`tlapm M.tla`. `PROJECT.json` lists the components, the runs, the lines of code
behind every definition (`map`), the hazards and the theorems; the mutants in it
are faults that make each property fail.

## 1. The system

The repository is a workspace of TypeScript packages, workers (durable
objects), extensions, apps and panels around conversational agents that share
channels and a versioned store. The components with state of their own that
others depend on, and what makes each of them correct:

| Component | State | Operations | Correct when |
|---|---|---|---|
| Effect outbox (`packages/agentic-do/src/effect-outbox.ts`) | one SQL row per pending effect: disposition, lease owner and generation, attempts, next attempt, creation time | insert, delete, claimReady, recordFailure, nudges, deferral | calls of a turn start in model source order; only parallel calls overlap; one claim per lease |
| Agent loop driver (`packages/agentic-do/src/agent-loop-driver.ts`) | loops (in-memory folds), runs of this activation, a mutex per channel, closed admission | dispatch, applyOutcome, handleIncoming, wake, reconcile, failEffect, interrupt | an effect's outcome enters the log once; every open turn that does not wait for input has a path forward; outbox and log agree |
| Agent vessel (`packages/agentic-do/src/agent-vessel.ts`) | adopted worker, wake queue with turn-recovery rows, executors | claimReadyWork, execute, settleReadyWork, failReadyWork, adoption, deliveries | leases end or are handed to the next worker generation, wakes are not lost, deliveries are repeated until acknowledged |
| Agent loop (`packages/agent-loop/src`) | none: `fold` and `step` are pure | step of an event or a command; derivePendingEffects | one model call at a time; a turn closes or parks only when nothing is open |
| Append log (`workers/workspace-source/GadWorkspaceDO.ts`) | the events of a log head | appendLogEvent with an expected head | retries are idempotent; two writers never interleave inside one batch |
| Pubsub channel (`workers/pubsub-channel`) | relationships, delivery mailbox, the cursor of their projection, pending calls and claims | publish, join, leave, detach, claim, settle, fail, callMethod, submit, cancel, timeout, reconcile | what a participant is owed is delivered, in order, across detachments and restarts; a call ends once |
| Pubsub client (`packages/pubsub`) | generations of responses, replay cursor, buffers of live events, roster | subscribe, replay, gap repair, recovery | the cursor passes nothing the client was not handed; a replacement brings what was missed; a lost response is replaced |
| Missions (`workers/missions/MissionsDO.ts`) | mission, occurrence ledger (`mission_runs`), effects owed, alarm | launch, edit, runNow, pause, resume, retire, finishRun, alarm | one run at a time; an end is final; authority and receipts are closed behind it |
| Workspace source and VCS engine (`workers/workspace-source`, `packages/vcs-engine`) | content-addressed trees, repository heads, provenance | commit, merge, recall | a merge keeps both sides' net effect |
| Everything else (extensions, apps, panels, service workers, UI packages, skills) | local tables or UI state | request handlers | mostly sequential; listed in `PROJECT.json` with the reason they are left out |

**Interaction.** A user's message reaches the vessel as a channel delivery. The
driver steps it under the channel's mutex: `step` returns events to append and
effects to insert. The append goes to the workspace source (a remote call), the
rows to the outbox (local SQL). A host process outside this repository polls
`claimReadyWork` as a numbered worker generation, executes claims by calling the
vessel back, and reports `settleReadyWork` or `failReadyWork`. An executor's
outcome, or a push for a deferred effect, is appended as a terminal event;
its cascade is the next step. A turn-recovery row written in the same
transaction that deletes the effect's row makes a crash between the two
recoverable.

A channel appends messages, facts about its participants and the starts and ends
of method calls to a log of its own and projects them into tables: a mailbox with
a row for each delivery it owes, which the same host claims and hands to the
recipients, and the pending calls with their deadlines. Panels and people read the
channel on responses: a subscribe call is answered with a stream that starts with
the events since the client's cursor and goes on with the live ones; the client
opens another when it ends, and reads from the log what the live events skip. A
mission, on its alarm
or on request, inserts a run into its ledger, asks the host for a context, an
executor and an authority session, dispatches the run to an agent, and closes the
session when the agent reports.

**Hard behaviours.** The host's workers are replaced while runs go on;
activations die at any instruction; appends race other writers and are retried;
pushes, polls and wakes race each other; users steer and interrupt in the
middle; approvals insert effects late. A Durable Object runs one request at a
time only until it awaits: then others run, and answers come back in any order,
to a request that decided on what it read before. Participants detach with
deliveries outstanding and come back; call starts are retried while their results
arrive. `PROJECT.json` lists the hazards at their lines with the properties that
cover them.

## 2. Modules

| Module | What it is |
|---|---|
| `EffectOutbox` | the table of one channel and every statement on it, as operators |
| `EffectClaims` | the processes on that table: intentions, host workers, runs, wakes, interrupts, restarts |
| `EffectClaimsProofs` | theorems about `EffectClaims` |
| `AppendLog` | the log head: which batches it accepts, refuses or replays, and what the driver gets back |
| `Batches` | what is kept of a batch of records: a selection by position, as a recursive function that can be proved about |
| `AgentTurn` | one turn of the pure agent loop: fold, derived effects, outputs of `step` |
| `TurnLifecycle` | abstract specification: what the log promises about a turn |
| `EffectSettlement` | the driver's jobs over `AgentTurn` and `AppendLog`; implements `TurnLifecycle` |
| `EffectSettlementProofs` | theorems about `EffectSettlement` |
| `TurnLifecycleProofs` | `EffectSettlement` implements `TurnLifecycle` |
| `ChannelProjection` | the channel's log, relationships and mailbox, and how an event changes them; what a participant is owed |
| `ChannelRequests` | the requests that append to the log and fold it, in steps between awaits, several at a time |
| `ChannelLanes` | the host's claims on the mailbox beside joins, revisions, detachments, redeliveries |
| `ChannelRequestsProofs` | theorems about `ChannelRequests` |
| `ChannelLanesProofs` | theorems about `ChannelLanes` |
| `ChannelCalls` | method calls: journalled starts, pending rows, provider claims, results, deadlines, reconciliation |
| `ChannelCallsProofs` | theorems about `ChannelCalls` |
| `ChannelSubscription` | a client and the responses on which it reads the channel |
| `ChannelSubscriptionProofs` | theorems about `ChannelSubscription` |
| `Missions` | one mission: its requests, its alarm, its ledger, and what host and executors retain |
| `MissionsProofs` | theorems about `Missions` |
| `MC...` | instances for TLC |

`EffectClaims` and `EffectSettlement` are two views of the driver. The first has
the table in full (lanes, leases, attempts, generations) and journals an outcome
in one step. The second opens that step into the protocol that implements it
(append, commit, fold, cascade, settle, clear, with a crash after any of them),
and keeps of a row only whether it is absent, ready, leased or idle. Their
product would be far too large for TLC, and the code separates the two the same
way: dispatch never looks at the log, settlement never at lanes.

Mutants, operators that differ from the code the way a plausible bug would,
stand before the definition they replace and are used nowhere in the
specification.

## 3. How state and actions correspond to the code

### EffectOutbox

`row[e]` is an outbox row or `NoRow`. `next` is `next_attempt_at` compared with
the present (`null`, `due`, `later`); `attempts` saturates at `AttemptCap`;
`born` is `created_at`, one value per insertion batch; `ordered` tells whether
the descriptor carries the invocation's order. Everything else in a descriptor
is a constant of the effect (`Kind`, `Turn`, `Position`, `Parallel`, ...).

`DispatchOrders` is the sort of `claimReady`. Its comparator orders two calls of
a turn by log position and everything else by insertion, which is not transitive
once a call is inserted late. ECMAScript leaves such a sort to the engine, so
the operator then yields every arrangement whose neighbours are in order.
`InWave` is the prefix loop: the head, or the parallel calls of one turn at the
head. `Claimable` adds the independent rows (receipts, transport calls without
an order). The other channels' share of the claim limit is a free choice
(`Slices`).

### EffectClaims

| Variable | Code |
|---|---|
| `journal[e]` | what the log says of the intention: absent, gated (approval pending), pending, settled |
| `worker` | the worker generation that `DurableWorkReadiness` adopted |
| `claims` | claims the host holds; `phase` is where the host is with each |
| `running[e]` | `currentDispatchByRow`: the generation that was dispatched, and what its executor read of the authority |
| `admission` | `closedEffectAdmission` through the stages of `interruptChannel` |
| `released` | `activationReleased`: lifecycle has fenced this activation |
| `authority`, `hinted` | the outside grant and its notification on the way |

Each action is a handler or the stretch of one between two awaits: `ClaimReady`
is `claimReadyWork` with the release of the previous worker's leases;
`StartRun`/`RefuseRun` the checks of `executeClaimedEffect` and `dispatchRow`;
`DropRun`, `CompleteRun`, `DeferRun`, `FailRun`, `RetryRun`, `RederiveRun` what
`dispatchRowInner` does when the executor has settled; `SettleClaim` and
`FailClaim` the host's reports. A worker that has been replaced keeps its
claims, may still execute and report them, and must find them stale.

`ReleaseActivation` is `releaseActivation` of the driver, which lifecycle calls
before it replaces an activation. From then on a claim is not executed, a run is
discarded without its outcome whatever its executor does (`OwnsRow`, `DropRun`),
and `settleReadyWork` answers "stale" for a row that is still leased: "A
lifecycle-released activation deliberately leaves claimed rows leased. The next
host generation adopts them" (agent-loop-driver.ts:2678-2679). Such a claim is
over for the host; the model keeps it with the phase `left`, which is history and
enables nothing, so that a lease left on purpose can be told from one that is
lost. `Restart` brings up the replacement, which is not released; only
`ClaimReady` by another worker generation ends a lease that was left.

### AppendLog and AgentTurn

The log is a sequence of events `[kind, of, how, upTo]`. `kind` and `of` stand
for the deterministic envelope id, the rest for the content, so an id collision
is two events with equal `kind` and `of` and different content. A fold is the
sequence of events it has applied; the operators of `AgentTurn` compute from it
what `fold.ts` keeps incrementally (the model call in flight, pending
invocations and approvals, the steering queue, the failure count). `Refusal`
follows the order of checks in `appendLogEvent`; `Envelopes` is what the
driver's `append` returns, the events beyond the fold. `EventStep`, `Wake`,
`Steer` and `EffectFailed` are the branches of `step`.

The first completed answer of the turn carries the tool calls `Calls`; every
later answer carries none. A model outcome is completed, failed (recoverable) or
fatal. An invocation's four kinds of terminal are one kind here; `how` tells what
a result asks of the turn (`TurnControls`): `suspended` parks it with
`turn.waiting`, `terminated` closes it if every result of the batch asks so,
`stopped` is an infrastructure failure whose recovery action is to stop, and any
other lets the next model call begin. `AfterBatch` has these in the order of
`step.ts`: suspension, termination, stop, model call.

A parked turn leaves two traces in the fold, and the code reads both. `Parked` is
`waitingAtSeq`, which a model call clears; `hasFreshInput` asks it. `HasWaited` is
`waitingCount > 0`, which nothing clears; `isOpenTurnStranded` asks that
(`Stranded`). Section 7 shows what their difference does.

### EffectSettlement

The durable state is `log`, `rows`, `wakes` (turn-recovery rows) and `steered`
(acknowledged deliveries); `cached` (the loop in `this.loops`), `executing`,
`recovered` and `job` die with the activation. `channelMutationChains`
serializes jobs per channel, so `job` is the one that runs and its `at` the next
step between awaits. `job.frames` is the stack of `runStep` activations: each
has its loop object, the events it still has to feed to `step`, and its retries.
After a refused append the code reloads the loop and recurses, while the outer
frames keep the old object; that is `live = FALSE` (`Retired`).

`StepAccepted` joins append, fold and insertion of one step, because the code
awaits nothing between the append's answer and the insertion.
`CrashAfterAppend` is the death of the activation before that answer;
`AppendOutcome` and `CommitOutcome` are separate for the same reason. A crash
releases claimed wakes at once, since the host redelivers them; leased rows wait
for `FreeLease`.

### ChannelProjection, ChannelRequests, ChannelLanes

| Variable | Code |
|---|---|
| `log`, `cursor` | the channel log, kept by another object; the last event `foldEvent` applied |
| `relationship[p]` | the row of `channel_relationships`; `after`, `through` the range a participant that came back recovers |
| `mailbox` | `channel_delivery_mailbox` by event, participant and revision, the parts of a delivery id |
| `answered` | history: what each recipient has answered |
| `request[q]` | `ChannelRequests`: what a request slot awaits and what it read before |
| `held`, `server`, `worker` | `ChannelLanes`: claims of the host, the server that runs, the generation the channel adopted |

`Fold` is `delivery-projection.ts`: a relationship fact that is not the next
revision is skipped as poison, a message inserts a row for each attached
participant it is for, and a participant that reattaches gets a range to recover
that starts at its oldest outstanding row (`Boundary`). In `ChannelRequests` every
request first catches up with the log in pages (`PageReply`), each answered with
the log as it was at some moment since it was asked; a relationship request then
appends the fact that its view calls for, and the log refuses a fact whose
revision is taken. In `ChannelLanes` an append and its fold are one step, because
the interleavings between them are the subject of the other module; what the host
does is in full: leasing the head of each lane, reports that settle, fail or come
too late, redelivery of call starts, adoption by a new server.

The two modules share `ChannelProjection` and its properties (`NoDebtIsLost`,
`InOrder`): a debt is a message for a participant that was attached, or detached
and came back, at the message; it is kept while a row or a range remembers it; it
is forgiven when the relationship ends.

### ChannelCalls

The log holds a start and at most one terminal per call; `rows` is `pending_calls`
and `claim` is `provider_call_claims`. `caller[c]` is where the caller is with the
call: callers repeat a request that failed, never one that was answered. `running`
are direct invocations that the activation awaits, `working` the claims of mailbox
providers. A request goes through the steps of `journalCallStart`, `settleCall`,
`cancelMethodCall`, `redeliverPendingCallsTo` or `reconcilePendingCalls`, one per
await; `PassBarrier` is `awaitInFlightStart`. The fence of `submitMethodResult`
applies to mailbox targets only.

### ChannelSubscription

| Variable | Code |
|---|---|
| `listed`, `streams` | the participant's row in `participants`; its entries of `subscriptionStreams` |
| `call[g]`, `mark[g]` | where subscribe call `g` is between its awaits; the last event of the replay it read |
| `pipe[g]`, `link[g]` | a response: records on their way; open, ended by the channel, or broken |
| `owed` | events whose publishers have appended them and not yet broadcast them |
| `active`, `previous`, `acknowledged`, `aborted` | `activeSubscription`, what each generation replaces, acknowledged and aborted generations |
| `wanted`, `recovering`, `offline` | `recoveryRequested`, `recovering`; a failure that is left to the host's coordinator |
| `lastSeen`, `complete`, `liveBuffer`, `repairing`, `gapBuffer` | `lastSeenSeq`, `replayComplete`, `replayLiveBuffer`, `repairingGap`, `gapBuffer` |
| `reader[g]` | what the reader of a response awaits: the next replayed, live, repaired or held-back event |
| `shown`, `leapt` | history: events handed to the client; events that a flush of held-back ones passed over |

A step of the client is what runs between two awaits; every event costs one, since
its stored values are fetched (`hydrateStoredTransportValue`), and the readers of
other responses run meanwhile. `TakeAck` is the acknowledgment with
`resetReplayProjectionForRecovery` and the start of `ingestReplayEnvelope`, `Ingest`
its continuation. `TakeLive` moves the cursor before the fetch, as the code does;
`DetectGap`, `ShowRepaired`, `ShowTrigger` are the gap repair. `ShowBuffered` hands
out held-back events without a look at the cursor. On the channel's side
`Admit`, `ReadReplay` and `Register` are the stretches of `subscribe`; `Cancel` is
the stream's `cancel`, which arrives any time after the client is gone. An event
that is published is broadcast to the responses that exist then. A replay covers
the log up to `mark` (histories longer than the replay limit are left out).

### Missions

| Variable | Code |
|---|---|
| `mission` | the row of `missions`; `next` is `next_run_at`, `editing` an edit of `mission_edits` that is not yet active |
| `run` | `mission_runs`, by run id: the subject (the digest of charter and policy, hence the charter) and the command key or the instant |
| `effects` | `mission_effects` |
| `wake` | the alarm: whether work is unfinished, and the next instant |
| `thread[t]` | a request, or the alarm: its await, the run it works on, and the mission as it read it |
| `session`, `executor`, `retired` | external: what the host knows of each admission, what each executor retains of its run, the subjects whose authority was retired |

A thread whose `pc` is in `Local` is the one that runs; nothing else moves until
it awaits. `AdvanceRun` is the body of `advanceRun` up to its first await;
`Prepared`, `Admitted`, `Readmitted`, `Dispatched` and `Described` are the
stretches behind each await, which write the row only if it is still in the phase
they found it in, or has not ended, as their SQL does. `Closing`, `Closed` and
`Terminalize` are `closeAdmission` and `terminalizeRun`, which four callers share;
`Reconcile` is `reconcileEffects`. `Fail` is an awaited call that throws, with or
without its effect: by its place the error ends the request, leaves an effect in
the outbox, or reaches the `catch` of `advanceRun`, which either retries later or
fails the run (`Caught`). `Crash` loses the threads and keeps the tables.

## 4. Runs

Passing runs:

| Run | Instance | Properties and what they say |
|---|---|---|
| `lanes` | calls read, write (settle mode), read of one turn and a prompt preparation; 2 workers, 2 claims at once; 619 k states | `LaneExclusion`: rows leased together are independent or one parallel wave. `SourceOrder`: a call starts only after every earlier call it may not overlap with is settled |
| `claims` | a model call and a gated deferred eval; 2 workers; 192 k states | `TypeOK`; `ExclusiveClaim`: one live claim per row; `LeaseHasClaim`: a lease is the adopted worker's, and that worker holds its claim or a released activation answered the claim "stale"; `NoStrandedDeferral`: an authority wake is not lost; `LeaseEnds`: every lease ends unless a released activation leaves it |
| `settlement` | one gated call whose result may park, terminate or stop the turn, one crash or foreign append; 339 k states | `TypeOK`; `FoldIsPrefix`; `OpenTurnHasPath`: an open turn that was never parked has a row or a wake; `OutboxIsDerived`: with nothing left to recover, rows are exactly the unanswered intentions; `TurnCloses`: the turn closes in the end unless a tool parks it; `ImplementsLifecycle`: every append is a step of `TurnLifecycle` |
| `steers` | one ungated call with the same results, whose budget may run out, one steer; 104 k states | `NoSteerIsDropped`: a turn never completes over a steer the log has by then; `ImplementsLifecycle` |
| `channel_requests` | one participant, two requests at a time, pages of one event, a log of four, a server restart and an eviction; 1.08 M states | `TypeOK`; `RelationshipFollowsLog`: no relationship fact that reached the log is skipped; `NoDebtIsLost`: an owed message is answered, or a row or a range remembers it |
| `channel_lanes` | one participant, both routes, a log of four, a restart, two claims of a row; 377 k states | `TypeOK`; `LeasedRowsAreHeld`: a lease is in the host's hands; `ClaimsAreNew`: claims of a row stay distinguishable; `InOrder`: answers come in log order; `DebtsAreSettled`: what an attached participant is owed is answered in the end |
| `channel_calls` | one call with a deadline, two requests at a time, two processes of its target, three disturbances (crash, repetition, move of the target); 438 k states | `TypeOK`; `NoCallIsForgotten`: a pending call has its row; `FenceHolds`: one claim's result is accepted; `SettlementsEndCalls`: no row goes while its call is pending; `CallsEnd` |
| `channel_subscription` | a client, one replacement of its response, a log of three events; 57 k states | `TypeOK`; `CursorIsSound`: what the cursor has passed was handed out or is in hand; `ReplacementCatchesUp`: a kept response brings all its replay covers, through any later failure; `LiveEventsReveal`: an event that reaches the client brings everything before it; `Reconnects` |
| `missions` | a request at a time beside the alarm, a charter on demand and one with a schedule, two revisions, one failed call or restart; 627 k states | `TypeOK`; `OneActiveRun`; `RecordedSessionsClose`: a run that ended has its recorded admission closed; `ReceiptOutlivesRun`: an executor forgets a run after the ledger has its end; `InterruptionsAreOwed`: only an edit or a retirement interrupts; `OutcomeIsFinal`; `LedgerSettles`: time and again no run is open and no effect is owed |

**Bounds.** `GenerationLimit` 2 and two workers give a first claim, a takeover
and a stale report; `ClockLimit` 2 separates the turn's calls from one insertion
before or after them (3 in `MCGatedLanes.cfg`, where the granted call is a third);
`AttemptCap` 3 exceeds no budget that matters to a guard (the budgets are 1 and
3; in `claims` the eval's third failure is its exhaustion, and a cap of 2
suffices because the guard reads `attempts + 1`). `FailureLimit` is 1 in place of
the code's 3: the count is only compared with it, and a larger limit repeats the
same failed model call. `ModelLimit` 6 exceeds the model calls any instance
reaches (TLC would report an effect outside `Effects`). `HeadConflictRetries` is
1 in place of 3; one foreign append can use one. `AppendRetries` is the code's
1. `FaultLimit` 1 is one crash or one foreign append, at any step. Deadlock
checking is off because a closed turn, like a bounded instance, really stops.

In the channel, a log of four events holds a join, a message, a detachment and a
return, the shortest history in which something is recovered; five would add a
second one. `PageLimit` 1 stands for the code's 500: it makes every range longer
than a page. `NoDebtIsLost` holds on the instance of `channel_requests`, and
`MCLatePage.cfg` refutes it for a longer log (section 7): within one page, which is
what the code nearly always has, it is safe. `MaxServers` 2 and `MaxEvictions` 1
are one restart and one lost activation; `MaxClaims` 2 is a failed claim and
another; `MaxRejoins` 1 a join that changes nothing. `MaxDisturbances` counts
crashes, unasked repetitions and moves of the target together.

In `channel_subscription`, the log starts with the event that announces the client;
two more are what a gap needs. `MaxOpens` 2 is a response and its replacement.
Connections, the channel and reads fail only while a call is left, because the last
one could never be replaced; only a refusal meets it, and the liveness properties
except a client whose last response has ended (`Exhausted`). Nothing is assumed of
`LiveReadsFail` beyond the run, which sets it to `FALSE`: `MCLostRead.cfg` shows what
happens otherwise. The properties except events that a flush of held-back ones passed
over (`leapt`): that takes five events or three calls (`MCLeaptEvent.cfg`).

In `missions`, `MaxTime` 1 gives an instant that is due and one ahead; `MaxRuns` 1
lets one run use the mission up; `Until` 2 is after the last instant, so that the
schedule ends by time as well as by count; `MaxRevisions` 2 is one edit.
`MaxDisturbances` 1 is one failed call or one restart, anywhere.

Deadlock checking is off in the runs of the channel, where a bounded log is full
and the calls of a client are used up in the end, and on in those of the missions.

A turn that a tool has parked waits for input from outside, so nothing can be
promised of it without assuming a steer: `OpenTurnHasPath` and `TurnCloses` except
it, as the comment at agent-loop-driver.ts:958-968 does ("an open, non-waiting
turn"). They except more than that comment, namely every turn that was parked once;
what the comment says, with a turn that was resumed, is `ResumedTurnHasPath`, and
is violated (section 7).

Larger instances were checked once: two ungated calls of one answer with a crash and
all three turn controls (2.0 M states: `ImplementsLifecycle`, `OpenTurnHasPath`,
`FoldIsPrefix`, `OutboxIsDerived`); one ungated call with a steer and a crash, and two
calls of which one is gated, both without turn controls; two participants on a log of
four (2.1 M); both routes with a restart (3.1 M); two method calls without a crash
(4.5 M); a mission scheduled from the start, with an edit (8.2 M), with two runs
(5.0 M), with two requests beside the alarm (2.0 M); a client on a log of five
(4.3 M); with the safety properties of
the runs above except where section 7 or the hazards say otherwise.

**Violated properties** are in section 7.

## 5. Fairness

`EffectClaims!FairSpec`: the adopted worker follows up on every claim it was
handed, an executor settles (each has its own timeout or is aborted), and the
two awaited stages of an interrupt go on. Nothing is assumed of a replaced
worker, of wakes, pushes, grants, time, or of a new claim. Hence `LeaseEnds` excepts a
lease that a released activation leaves: it ends when the next worker generation
claims, and that one need not come.

`EffectSettlement!FairSpec`:
- the job that holds the mutex goes on: `[]<>Free \/ []<><<JobStep>>_vars`.
  `serializeByKey` runs a job to its end; this is weak fairness of `JobStep`,
  which is enabled whenever a job runs, stated without `ENABLED`, which is costly
  for TLC on this action;
- weak fairness of claiming rows and, taken together, of freeing leases,
  discarding stale runs and claiming wakes: the host polls;
- strong fairness of adoption and wake jobs: the mutex is a FIFO chain, so a job
  that waits for it runs although the channel is busy in between;
- strong fairness of answers: an effect that is executed again and again is in
  the end answered. Without it a tool that always parks keeps the turn open
  forever, which the code allows. Nothing is assumed of steers: a turn that a tool
  has parked may stay parked.

`ChannelLanes!FairSpec`: a join that has started goes on, a due alarm fires, a new
server adopts the channel, the host claims while it knows of ready work, and
recipients answer or fail. Nothing is assumed of publishes, joins and departures.

`ChannelCalls!FairSpec`: the log answers, a deadline that has passed fires, and a
caller whose request failed repeats it.

`ChannelSubscription!FairSpec`: publishers broadcast what they have appended, the
channel goes on with a subscribe call and learns of a response that nobody reads,
what is on its way reaches the client, whose readers go on, and a recovery that was
asked for is started. The host is assumed to recover a client that is `offline`:
`connectViaRpc` registers `recoverSubscription` with its recovery coordinator, which is
outside this repository, and leaves to it the failures of the transport and of
replacements before their acknowledgment. Weak fairness suffices, since nothing
disables these steps for good but what replaces them.

`Missions!FairSpec`: strong fairness of every thread, because a thread that awaits
can go on only between the local stretches of others, and of the alarm for
unfinished work, which the host fires and which cannot start while it runs; weak
fairness of executors, which finish what they run, and of `Read`, someone who looks
at the ledger. What has begun settles without the alarm for an instant of the
schedule; `PunctualSpec` adds its weak fairness. `Read` is needed: after a
restart or a failed request the alarm is the one of earlier work, or none, until
the next request ends well (`nextAlarmAfterRequest`). Nothing is assumed of the
owner's other requests or of the executor's report; that failures are bounded is
the assumption that a call is answered in the end.

## 6. Proofs

`EffectClaims` is proved about for every set of effects and workers and every
bound, under the assumptions `OutboxAssumption` and `ClaimsAssumption`: workers
are positive numbers, log positions are distinct, only invocations have a turn.

| Theorem | Argument |
|---|---|
| `TypeCorrect` | `TypeOK` is inductive: one lemma per statement on the table, then one step per action |
| `LeasesAreBacked` | `TypeOK /\ LeaseHasClaim` is inductive. The point is `ClaimReady`: a new worker releases exactly the leases of the adopted one, so what stays leased after it is what it claims; and `SettleClaim`: a claim whose row is leased under it does not go, but fails, or is left by a released activation |
| `ClaimsAreExclusive` | needs a strengthening, `ClaimsDistinct`: two claims of the same insertion with the same generation are one, no claim has a generation beyond the row's, none was made for an insertion in the future. A new lease advances the generation, a new row advances the insertion |
| `WakesAreKept` | an invariant of each effect (`WakesOK`). `NotStranded` is not inductive: a run that was denied may defer its row after the grant. What saves it is on the row: the run owns its row, and an announcement in between has made that row due (`WakeIsRecorded`); and a run whose row is not its own defers nothing (`RunFollowsRow`: it never outlives its row into another insertion, nor has a generation its row has still to reach). One lemma covers every step that leaves a row in its place, deletes, releases or wakes it |
| `LanesExclude` | for `Gated = {}`. `LaneInv` adds to exclusion that a leased semantic row stands at the head of the dispatch order or in the parallel wave there, and that rows of a turn were inserted together, which makes the comparator a strict order (`LaneConsistent`) so that insertions only ever go behind a lease |
| `CallsStartInSourceOrder` | for `Gated = {}` and `Rerouted = {}`. From `LaneInv` and the fact that unsettled calls of a begun turn have a row: a run starts from a lease, a lease is at the head, so an earlier call that may not overlap has no row any more and is settled |

The assumptions on `Gated` and `Rerouted` are needed: without them
`MCGatedLanes.cfg` shows a counterexample.

`ChannelLanes` is proved about for all participants, routes and bounds
(`RoutesAssumption`, `LanesAssumption`):

| Theorem | Argument |
|---|---|
| `LeasesAreHeld`, `LeasesAreNew` | `LaneInv` adds to `LeasedRowsAreHeld` that a claim is the current one of its row or its row is closed for good (`ClaimsOK`). A redelivery starts a row's generations from zero, but only of a row of the present revision that is closed, and such a row was closed by the report that gave its claim up |
| `DebtsAreKept` | `DebtInv` compares the log with the tables: revisions in the log count up (`LogOK`), the table is the last fact (`Follows`), rows and ranges stand for messages of the log (`RowsOK`, `RangesOK`). A detachment retires rows, so the oldest of them must be where the range of the next return starts: least and greatest elements come from well-founded induction on the naturals |
| `AnswersAreInOrder` | from `DebtInv` with `ClaimsInOrder`: what is claimed comes after everything else its participant is owed |
| `ClaimsAreBounded` | with `CountsOK`: a row's generation is worn by the claims the host may make beside those that adoptions take from it |

That an append and its fold are one step, and that a range is recovered in one
piece, is how `ChannelLanes` is built; `MCLatePage.cfg` shows that the second matters.

`ChannelRequests` is proved about for all participants, request slots, page sizes
and bounds (`RoutesAssumption`, `RequestsAssumption`, which asks for finitely many
participants: the recoveries of a request are a sequence of them):

| Theorem | Argument |
|---|---|
| `RelationshipsFollowTheLog` | a fact is decided on the tables, appended after an await, and folded after another, so between any two of these steps other requests append, fold or are lost. `RequestsInv` says what survives that: every fact of the log follows from the facts before it (`LogIsLegal`); the revisions of a participant have no gap, and each new fact is a new one (`RevisionsAreDense`); a fact on its way is still applicable at the end of the log, or its revision is taken, and then the append is answered with the fact that took it (`Due`). The fold at any position is therefore the next legal one, and the table is the last fact behind the cursor (`Follows`) |
| `RequestTypes` | from the same invariant: a request's page lies ahead of what it has folded and inside the log (`InStep`), a range starts where the detachment was set and ends behind the cursor (`RangeOK`) |

A request whose step leaves the tables alone keeps what it knows (`OthersKept`), and
so does every other request when one folds or appends: one lemma for each step of the
tables, one for each action.

`ChannelCalls` is proved about for all calls, requests, providers and bounds
(`CallsAssumption`):

| Theorem | Argument |
|---|---|
| `SettlementsEnd` | a settlement stops where its read says that the call never started or has ended, so what counts is what a read can have missed. `CallsInv` says it: rows, dispatches, claims and terminals are of calls that have started (`TablesOK`); a settlement of a call that may not have started is a cancellation whose caller waits for it alone, or which still waits for the start (`SoundCancel`), because at most one request carries a call and its caller is still at it (`CallersOK`); so the page that decides on a missing row is read after the start, or there is none (`SoundPage`) |
| `CallTypes` | part of `CallsInv` |
| `LoneCallIsNotForgotten`, `LoneCallIsFenced` | for `Alone`, all calls are one. `AloneInv` adds that a pending call whose caller has been answered has its row (`Kept`), and that until it ends nobody works under a claim beyond the present one, nor beside its holder under that one (`Present`), so that the next claim is of a generation nobody has. Claims go only with rows, and rows only of calls that have ended: but for `PageReply` this needs no assumption |

`Alone` is used at one step, `PageReply`: a reconciliation replaces the rows of every
call of its target by what its pages say, and may be older than the row of
a call it was not asked for. With two calls TLC refutes both statements
(`MCStaleReconcile.cfg` the first). `SettlementsEnd` does not need it.

`ChannelSubscription` is proved about for all bounds under its assumption and
`LiveReadsFail = FALSE`, an assumption of the two theorems: without it
`MCLostRead.cfg` refutes both statements' common part, `CursorIsSound`.

| Theorem | Argument |
|---|---|
| `CursorsAreSound` | the invariant adds where the readers of the responses stand against the cursor: a replay or a repair at most one event ahead, a live event in hand behind it (`JobsOK`); that what was shown, and every cursor that was sent, lies behind it (`BehindCursor`); and that a replay holds at least the event that announces the client (`ReplaysHoldAnEvent`). Events that a flush passes over go to `leapt`, which the statement excepts and `MCLeaptEvent.cfg` shows to be needed |
| `SubscriptionTypes` | from the same invariant |

`Missions` is proved about for all charters, keys, requests and bounds. The first two
theorems need no assumption, the others `MissionsAssumption` (bounds are numbers):

| Theorem | Argument |
|---|---|
| `OneRunAtATime` | `LedgerInv` adds to `OneActiveRun` that rows have the fields of a row. Every step rewrites rows of runs that have not ended, or inserts one row, and one that has not ended only when there is none (`LedgerStep`); whatever else a thread read before its awaits does not matter |
| `EndsAreFinal` | from the same classification of steps |
| `SessionsAreClosed` | `MissionInv` says what a thread knows when it comes back from an await (`Carries`, `Stands`), and that no step of another takes it away: one about to record an end finds that the admission on record, if there is one, is closed |
| `ReceiptsAreKept` | an acknowledgement, among the effects of the ledger or in the hands of a thread, is owed only for a run that has ended (`AcksEnd`), and an end stays |
| `OnlyOwedInterruptions` | a thread that interrupts has seen the run `Owed`: of an earlier revision, or of a retired mission; revisions only grow, and a retired mission comes back only with a new one |
| `MissionTypes` | part of `MissionInv` |

`EffectSettlement` is proved about for all calls, gates, steers, limits, retries and
faults (`TurnAssumption`, `SettlementAssumption`):

| Theorem | Argument |
|---|---|
| `FoldsArePrefixes` | a fold grows by what an append returns, and an append that is refused, replayed or answered after a crash must not make it skip or repeat an event. `SettlementInv` says of the log that ids are unique and that events of other writers are numbered in order (`LogOK`). The loop in use lacks at most events of other writers (`Current`); of the nested activations of `runStep` only the innermost works on it, and the others have only events left that `step` answers with nothing (`FramesOK`). So a batch that is accepted is either in the log as a whole, and brings the fold nothing, or it starts where the fold ends, and what comes back is what the log has gained (`AcceptedBatch`). For that the outputs of `step` and of outcomes are gone through one by one: ids of one batch differ, and after its first event nothing makes `step` write again (`Suits`) |
| `SettlementTypes` | part of `SettlementInv`; it also bounds the nested activations, each of which has used up one retry |
| `LogKeepsTurn` (`ImplementsLifecycle`) | for `"prep" \notin ExhaustKinds`. What a step writes is decided on a fold, for an event that may have waited through appends, crashes and recoveries. `LifeInv` says what is still true of it then. Of the log (`TurnInv`): a model call begins when the earlier ones are answered, and while one is in flight nothing else is open; a gated call ends behind its decision; a call whose approval is decided and that is pending follows the last answer, so a stranded turn that is recovered has only calls to run. Of the rows (`RowsIntended`): what is executed is intended by the log. Of the job (`JobIntended`, `HeadsOK`): the outcome it appends answers a logged intention; the event its innermost activation handles next is still in the log's interest: a decided approval is logged, and an answer without calls finds the turn idle. Then every output of `step` is `Legal` (one lemma per kind of event), what the append keeps of it still is, and a legal batch is one step of `TurnLifecycle`; everything else stutters |
| `SteersAreHeard` (`NoSteerIsDropped`) | the turn is closed by an event that `step` decides on a fold while steers are journalled by others. The close is only ever the first thing a batch says, decided by an activation that has just applied its event, on a fold without a queued steer (`Completes`); what is accepted starts where that fold ends (`AcceptedMeets`), so the log before the close is the fold; and every event but the close leaves the statement as it was (`OthersClose`) |
| `NothingIsForgotten`, `OutboxFollowsLog` (`OutboxIsDerived`) | the first for `"prep" \notin ExhaustKinds`, the second for `ExhaustKinds = {}`. The outbox and the log are written in different steps, so they differ most of the time; `OutboxInv` says when they agree, and from what the job still has to do, when they will. A settlement reconciles the rows with a log that only other writers have moved since it was read (`ReconciledAgrees`); a throw leaves a job before it has changed either, or leaves a job, a row or a recovery behind that forbids calling it settled (`StillToRecover`); a foreign append intends nothing; and a commit deletes the row of an outcome that is in the log (`CommitKnows`). What an exhausted delivery leaves is one row too many (`FailureOK`), which is all the first theorem allows. The effects of the model have a bound on model calls, so for the second, `Numbered` says that these are numbered without gaps: a log with no more of them than the bound derives no effect beyond it |
| `OpenTurnGoesOn` (`OpenTurnHasPath`) | for `ExhaustKinds = {}`, logs in which no approval is denied and turns that were never parked. With nothing left to recover, `OutboxInv` gives a row to every intention without an outcome, so what has to be shown is that an open turn has one. A turn between an outcome and its cascade has none, and a crash or a refusal may come between them. `PathInv` says that this is the only moment (`NeverIdle`): the job then stands before the commit, and the outcome it has logged is `Fresh`, so that its cascade begins something or closes the turn (`Cascades`, `StepBegins`). A second settlement of an effect would find its outcome logged and end without a cascade; `NoReplay` says that no row of a recovered activation asks for one. An answer with calls is handled before any of its calls has ended, or its cascade would begin nothing (`FirstAnswer`) |

The assumption of `LogKeepsTurn` is needed: `MCFailedPreparation.cfg` shows a turn in
which a preparation that is given up starts a model call beside a pending tool call.
The code gives up preparations, so the theorem says that this is the only way.

What is kept of a batch (`Batches`) is a recursive function of its length; the lemmas
about it go by induction over positions, as a least counterexample (`Induct`).

Only model-checked:
- everything under fairness (`LeaseEnds`, `TurnCloses`, `DebtsAreSettled`, `CallsEnd`,
  `LedgerSettles`, `Reconnects`): liveness and `ENABLED` are beyond the prover;
- of `EffectSettlement`, `OpenTurnHasPath` with denials and with effects that may be
  given up, which its run has, of turns that were never parked (of the others it is
  refuted, `resumed_turn` in section 7). It does not hold for every value of the constants: it
  breaks when a denial dies before its cascade while a sibling call is pending, and
  when a call is given up beside a foreign append; `OpenTurnGoesOn` says that
  without either nothing breaks it. The same goes for `OutboxIsDerived` with effects
  that may be given up: the row of an effect whose failure cannot
  be appended (section 8) refutes it in general, and `NothingIsForgotten` is what is left;
- of `ChannelSubscription`, `ReplacementCatchesUp` and `LiveEventsReveal`, which are
  promises about the future under fairness.

## 7. Findings

Each is a run in which TLC violates what a comment or a document of the
repository says. Quotations with their lines are in `PROJECT.json`.

| Run | Property | What happens |
|---|---|---|
| `resumed_turn` | `ResumedTurnHasPath` | a tool parks the turn, a steer resumes it, and the activation dies between the append of the answer and its commit: the recovery takes the turn for a waiting one, because `waitingCount` is never reset, and leaves it open with no row and no wake until new input arrives |
| `deaf_response` | `RespondersAreListed` | the old response of a client is cancelled while the replacement waits between its row and its registration: the row goes with what looks like the last response, and the new one is open, acknowledged, and never written to |
| `retire_is_permanent` | `RetireIsPermanent` | an edit that compiles its policy while the mission is retired commits afterwards: the mission is active again |

Further configurations that TLC refutes, run by hand
(`tlc -config X.cfg M`, with the module the name suggests):

| Configuration | Property | What happens |
|---|---|---|
| `MCGatedLanes` (`MCEffectLanes`) | `SequentialRunsAlone` | a gated sequential call, granted late, runs beside a later call of its turn |
| `MCSettleBudget` (`MCEffectLanes`) | `RunsWithinBudget` | a settle-mode tool with a budget of one attempt runs again after its host call failed, because `failReadyWork` asks no budget |
| `MCWorkerHandover` (`MCEffectClaims`) | `NoClaimMeetsItsRun` | a new worker's claim meets the old worker's run of the same effect, which an assertion calls impossible |
| `MCReplayedOutcome` (`MCEffectSettlement`) | `RecoveryOutlivesNeed` | an outcome that replays after a crash runs no cascade, yet withdraws the recovery row of the stranded turn; only the adoption by the next activation continues it (which is why `OpenTurnHasPath` speaks of recovered activations, and why `TurnCloses` still holds) |
| `MCSteerBeforeTools` (`MCEffectSettlement`) | `ToolsBeforeNextModel` | after a crash between answer and cascade, a steer starts the next model call before the answer's tool calls exist (the comment at agent-loop-driver.ts:931 says never) |
| `MCFailedPreparation` (`MCEffectSettlement`) | `ModelCallsStartAlone` | the diagnostic of a failed prompt preparation, treated as an answer, starts a model call beside a pending tool call |
| `MCLatePage` (`MCChannelRequests`) | `NoDebtIsLost` | a request recovers a range in pages; its participant detaches and returns twice while a page is awaited; the late page advances the new range past events it has not derived (delivery-projection.ts:536-538 says never). Needs a range longer than a page (500 events) |
| `MCOneClaimPerLane` (`ChannelLanes`) | `OneClaimPerLane` | a call start redelivered under a new revision has two live rows with one sequence, and one pass claims both in one lane (channel-do.ts:1086-1089 says at most one) |
| `MCLateLeave` (`MCChannelRequests`) | `LeaveEndsRelationship` | a leave whose revision a racing join or detachment took is answered, and the participant stays |
| `MCUnfoldedTail` (`MCChannelRequests`) | `ProjectionCatchesUp` | an append whose activation is lost before the fold stays unfolded until the next request; no alarm remembers it |
| `MCTimeoutAnswered` (`ChannelCalls`) | `TimeoutSparesAnswered` | a deadline tells the target that a call timed out which it has answered: the cancellation settles whatever terminal it finds |
| `MCStaleReconcile` (`ChannelCalls`) | `NoCallIsForgotten` | a reconciliation that read its pages before another call started deletes that call's row (two calls, a crash) |
| `MCLostRead` (`ChannelSubscription`) | `CursorIsSound` | the values of a live event cannot be fetched; the cursor has moved, so the replacement resumes behind the event, which is lost (the comment at rpc-client.ts:1027-1029 names this danger for replayed events) |
| `MCLeaptEvent` (`ChannelSubscription`) | `NothingIsLeapt` | a gap repair outlasts its response, whose replacement delivers meanwhile; the events held back for it are handed out although one before them is missing, which no repair and no replay brings then |
| `MCUnheardEvent` (`ChannelSubscription`) | `EverythingArrives` | an event is broadcast between the read of a replay and the registration of its response: it is on neither, and without a later event the client never learns of it |
| `MCPausedAdmission` (`Missions`) | `PauseStopsAdmission` | a run is admitted after the pause, on the mission as it was before an await (skills/automations/SKILL.md:150) |
| `MCRunsBeyondMax` (`Missions`) | `RunsWithinMax` | two admissions read the same count: more runs than `maxRuns` (SKILL.md:146) |
| `MCRetireFirst` (`Missions`) | `RetireAfterClose` | authority is retired while an admission is open that was granted and not yet on record (SKILL.md:154) |
| `MCRenamedMission` (`Missions`) | `LiveSubjectKeepsAuthority` | an edit that only renames keeps charter and policy, hence the subject, and then retires that subject's authority (SKILL.md:153 says that an edit creates a new subject) |
| `MCLateDispatch` (`Missions`) | `WorkBelongsToLiveRuns` | a run that ended while its admission was awaited is dispatched all the same |
| `MCMissionEnds` (`Missions`) | `MissionEnds` | a mission whose `untilAt` has passed stays active: the alarm asks for it, `nextWakeAt` does not (under `PunctualSpec`, in which an alarm set for an instant fires too) |

In the model, `ImplementsLifecycle` is violated by an exhausted preparation, as in
`MCFailedPreparation`, and by nothing else (section 6).

## 8. What is not modelled

Of the components modelled in part: in the driver and the loop, the next turn
and deferred prompts, interrupts in settlement (they are in `EffectClaims`),
credential and scheduled-resume waits, compaction, provider fallback, ask-user
siblings, streaming, the persisted fold cache, and the branches after a tool result
that are named below; in the log, blobs, projections, the hash chain and the intents other writers use; in the vessel, everything
outside the durable-work handlers. In the channel, session endpoints and
presence, receipts, forks, the windows of replays, progress of calls, the sweep of
pending calls on demand, `settleMissingCall` (a start that the log has lost), and
the fast path of a resident recipient. In the client, resident delivery, the replay
modes, signals, roster, the ready promise, the retained window of events, the bound
on remembered replay keys, close. In the missions, `launch` and its retry,
seeded missions, several missions side by side (they share the alarm and the
effects), method and eval executions, continuing conversations, notifications,
backoff times, the views. `RederiveRun` stands for a credential
suspension that found a stale log; the successful one ends a run like
`CompleteRun`.

Of what follows the last tool result of a batch (step.ts:1722-1825), the model leaves
out:
- turns of direct invocations, which close after their one invocation
  (`completion: "after-invocation"`, step.ts:1722-1733);
- the deferred prompt that is promoted in place of parking the turn (1739-1751);
- the third infrastructure failure in a row, which stops the turn although its
  recovery action does not say so (1788-1790): a result of the model that is
  `stopped` stands for the explicit action only;
- the diagnostic that precedes the close of a stopped turn.

A failed model call with a reset time parks the turn too, and a scheduled row
resumes it (step.ts:1691-1701, `hasScheduledModelResumeForTurn` at
agent-loop-driver.ts:997); a credential suspension parks it as well (line 2301).
Neither is modelled. Both raise `waitingCount`, so that `Stranded` is false of such a turn for
the rest of its life, as it is of one that a tool has parked.

Two consequences of the turn controls that the properties do not speak of:
- the control is read off the event when its cascade runs, and is not derived from
  the log again. A crash between a suspending result and its cascade loses it: the
  wake of adoption finds a tool result, no `turn.waiting` behind it, and starts a
  model call, although the comment at step.ts:924-926 says that the result of
  `suspend_turn` "must not stimulate its own recovery wake";
- parking and `tool_terminated` do not look at the steering queue. A steer that is
  queued by then waits for other input or an adoption when the turn parks, and is
  promoted to a turn of its own when it closes (step.ts:1667); `NoSteerIsDropped` is
  about turns that close as completed.

Smaller differences, on which no property depends: `InsertRows` gives each insertion a
new `born`, while two in one millisecond tie and are then ordered by id
(effect-outbox.ts:182-184); `ClaimReadyWork` leaves out rows that break the terminal
integrity check (channel-do.ts:1108-1119); `DetectGap` decides which event comes first
before the page is fetched, the client after it (rpc-client.ts:1846-1849), and receipt
snapshots that move the cursor are left out (rpc-client.ts:1036-1041); `Reedit` starts
at once, while a repeated edit with a charter compiles its policy first and runs beside
another (MissionsDO.ts:617-619).

A failed `failEffect` leaves a row whose budget is spent. This breaks
`OutboxIsDerived` as soon as other writers use up the append's retries: one foreign
append without a retry, two with the code's one retry. `NothingIsForgotten` shows that
it is the only way, and that no intention ever lacks its row.

`EffectSettlement` follows one turn. A steer that reaches the log after the turn's
close is not part of it: in the code it opens a turn of its own
(`promoteSteersAsTurn`), which is why `NoSteerIsDropped` speaks of the steers the log
has when the turn closes.

The host is not in the repository. What is assumed of it: it claims under
increasing worker generations, reports each claim once, and calls a claim's
execution at most once.

All other components are listed in `PROJECT.json` with their reasons.

## 9. Plan

1. *(done)* `EffectOutbox`, `EffectClaims` and their proofs.
2. *(done)* `AppendLog`, `AgentTurn`, `TurnLifecycle`, `EffectSettlement`.
3. *(done)* `ChannelProjection`, `ChannelRequests`, `ChannelLanes` with its
   proofs, `ChannelCalls`.
4. *(done)* `Missions` and its proofs of the ledger.
5. *(done)* Proofs of the wakes of `EffectClaims`, of `ChannelRequests`, of
   `ChannelCalls`, of sessions, receipts and interruptions in `Missions`.
6. *(done)* `ChannelSubscription` and its proofs. Resident delivery, composed with
   `ChannelLanes`.
   Proofs for settlement: `FoldIsPrefix`, the refinement of `TurnLifecycle`, steers,
   the outbox as the derivation of the log, the path of an open turn *(done)*.
7. Settlement extended: executions as history (an effect that is executed after
   its outcome is journalled), interrupts, credential waits, the next turn, the
   fold cache; the vessel's wake rows on their own.
8. Missions extended: launch, several missions, method executions.
9. `NetEffect`: the semantic merge of `packages/vcs-engine` as functions, against
   a reference definition over small trees.
