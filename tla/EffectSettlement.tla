------------------------- MODULE EffectSettlement -------------------------
(***************************************************************************)
(* How the driver settles effects and recovers an open turn                *)
(* (packages/agentic-do/src/agent-loop-driver.ts): applyOutcome, the wake, *)
(* handleIncoming for a steer or an exhausted effect, runStep with its     *)
(* cascades, reconcile, and the turn-recovery rows that agent-vessel.ts    *)
(* keeps beside the outbox.  One channel, one turn, one log head.          *)
(*                                                                         *)
(* Jobs of a channel are serialized (channelMutationChains): `job` is the  *)
(* one that runs, and between two of its steps an executor may answer, the *)
(* host may claim, another writer may append, or the activation may die.   *)
(* The lanes and leases of claims are the subject of EffectClaims.         *)
(***************************************************************************)
EXTENDS AgentTurn, AppendLog

CONSTANTS
    HeadConflictRetries,  \* of an outcome's append
    AppendRetries,        \* of a step: 1 in the code, at most one reload
    ExhaustKinds,         \* the effect kinds whose retry budget may run out
    Faults,               \* of "crash" and "foreign": what may interfere
    FaultLimit            \* bound: deaths of the activation and appends of
                          \* other writers, together

ASSUME SettlementAssumption ==
    /\ HeadConflictRetries \in Nat /\ AppendRetries \in Nat
    /\ ExhaustKinds \subseteq {"prep", "call", "form"}
    /\ Faults \subseteq {"crash", "foreign"} /\ FaultLimit \in Nat

VARIABLES
    cached,      \* this.loops: the fold of the loop in use, <<>> if none
    rows,        \* effect -> disposition of its outbox row, or "none"
    executing,   \* effects whose executor runs in this activation
    wakes,       \* effect -> disposition of its turn-recovery row, or "none"
    steered,     \* steers whose delivery is acknowledged
    recovered,   \* _durableWorkActivationRecovered
    job,         \* the job that holds the channel
    crashes

durable == <<log, rows, wakes, steered>>
volatile == <<cached, executing, recovered, job>>
vars == <<durable, volatile, crashes>>

NoEffect == <<"none", "none">>
NoJob == [op |-> "none", at |-> "free", effect |-> NoEffect, how |-> "none",
          tries |-> 0, due |-> FALSE, frames |-> <<>>]

Free == job.at = "free"

Phases == {"free", "append", "commit", "run", "settle", "clear", "drop",
           "reload", "recover", "refeed", "resettle", "giveup", "giveupsettle"}

Dispositions == {"none", "ready", "leased", "idle"}

TypeOK ==
    /\ \A i \in DOMAIN log : log[i].upTo \in 0 .. i - 1
    /\ rows \in [Effects -> Dispositions]
    /\ executing \subseteq Effects
    /\ wakes \in [Effects -> {"none", "ready", "leased"}]
    /\ steered \subseteq Steers
    /\ recovered \in BOOLEAN
    /\ job.op \in {"none", "outcome", "push", "wake", "adoption", "steer", "failed"}
    /\ job.at \in Phases
    /\ job.tries \in 0 .. HeadConflictRetries
    /\ Len(job.frames) <= AppendRetries + 1
    /\ crashes \in 0 .. FaultLimit

\* The first model call of the turn is journalled and queued.
Init ==
    /\ log = <<Ev("message.started", 1, "request")>>
    /\ cached = log
    /\ rows = [e \in Effects |-> IF e = Model(1) THEN "ready" ELSE "none"]
    /\ executing = {}
    /\ wakes = [e \in Effects |-> "none"]
    /\ steered = {}
    /\ recovered = TRUE
    /\ job = NoJob
    /\ crashes = 0

---------------------------------------------------------------------------
(* Helpers of the job steps.                                               *)

\* this.loop(): the loop in use, or a fold of the whole log.
Loop == IF cached = <<>> THEN log ELSE cached

Inserted(table, effects) ==
    [e \in Effects |-> IF e \in effects /\ table[e] = "none" THEN "ready"
                       ELSE table[e]]

Deleted(table, e) == [table EXCEPT ![e] = "none"]

\* Mutant: rows without a derived effect are kept.
Refilled(L, table) == Inserted(table, Derived(L))

\* Mutant: a derived effect without a row gets none.
Pruned(L, table) ==
    [e \in Effects |-> IF e \in Derived(L) THEN table[e] ELSE "none"]

\* reconcile: the rows are the derived effects.
Reconciled(L, table) ==
    [e \in Effects |-> IF e \in Derived(L) THEN Inserted(table, {e})[e]
                       ELSE "none"]

\* Mutant: a turn with an unanswered invocation does not count as stranded.
StrandedIdle(L, table) ==
    /\ Open(L) /\ ~HasWaited(L)
    /\ InFlight(L) = {} /\ Derived(L) = {} /\ PendingInvocations(L) = {}
    /\ \A e \in Effects : table[e] = "none"

\* isOpenTurnStranded: a turn that was ever parked never is.
Stranded(L, table) ==
    /\ Open(L) /\ ~HasWaited(L)
    /\ InFlight(L) = {} /\ Derived(L) = {}
    /\ \A e \in Effects : table[e] = "none"

CascadeKinds ==
    {"message.terminal", "diagnostic", "invocation.terminal", "approval.resolved"}

\* latestCascadeEnvelopeForOpenTurn.
LatestCascade(L) ==
    IF At(L, CascadeKinds) = {} THEN <<>> ELSE <<L[LastAt(L, CascadeKinds)]>>

\* One runStep activation: a loop object, the incomings it still has to step,
\* and the retries they have left.  live: the object is the one in this.loops.
Frame(fold, todo, tries, live) ==
    [fold |-> fold, todo |-> todo, tries |-> tries, live |-> live]

\* Frames that have nothing left to step return.
Returned(frames) == Kept(frames, {i \in DOMAIN frames : frames[i].todo # <<>>})

\* A reload replaces the loop in use under the activations, and the last of them
\* hands its event to the retry.
Retired(frames) ==
    [i \in DOMAIN frames |->
        [frames[i] EXCEPT !.live = FALSE,
                          !.todo = IF i = Len(frames) THEN Tail(@) ELSE @]]

Goto(phase) == job' = [job EXCEPT !.at = phase, !.frames = <<>>]

RunAt(phase, fold, todo) ==
    job' = [job EXCEPT !.at = phase,
                       !.frames = <<Frame(fold, todo, AppendRetries, TRUE)>>]

\* The run of an executor ends with the job that settles its answer.
RunEnded == IF job.op \in {"outcome", "failed"} THEN executing \ {job.effect}
            ELSE executing

\* How the owner of the job sees its end.
JobDone ==
    /\ job' = NoJob
    /\ executing' = RunEnded
    /\ wakes' = IF job.op = "wake" THEN Deleted(wakes, job.effect) ELSE wakes
    /\ steered' = IF job.op = "steer" THEN steered \cup {job.how} ELSE steered
    /\ recovered' = (recovered \/ job.op = "adoption")

\* An error that leaves the job: rows, recovery rows and deliveries stay due.
JobThrown ==
    /\ job' = NoJob
    /\ executing' = RunEnded
    /\ wakes' = IF job.op = "wake" THEN [wakes EXCEPT ![job.effect] = "ready"]
                ELSE wakes
    /\ UNCHANGED <<steered, recovered>>

Rest == UNCHANGED <<executing, wakes, steered, recovered, crashes>>

---------------------------------------------------------------------------
(* Jobs start when the channel is free.                                    *)

Begin(op, at, e, how) ==
    /\ Free
    /\ job' = [NoJob EXCEPT !.op = op, !.at = at, !.effect = e, !.how = how,
                            !.due = op \in {"steer", "failed"}]
    /\ UNCHANGED <<durable, cached, executing, recovered, crashes>>

\* applyOutcome.  A missing row was consumed by another outcome.
Settling(op, e, how) ==
    Begin(op, IF rows[e] = "none" THEN "recover" ELSE "append", e, how)

\* The executor's answer.
StartOutcome(e, how) ==
    /\ e \in executing /\ how \in Outcomes(e)
    /\ Settling("outcome", e, how)

\* deliverEffectOutcome: the push that answers a deferred effect, whatever
\* its poll is doing.
StartPush(e, how) ==
    /\ e[1] \in {"call", "form"} /\ how \in Outcomes(e)
    /\ rows[e] \in {"idle", "leased"}
    /\ Settling("push", e, how)

\* settleExhaustedEffect -> failEffect -> handleIncoming.
StartFailed(e) ==
    /\ e \in executing /\ rows[e] = "leased" /\ e[1] \in ExhaustKinds
    /\ Begin("failed", "recover", e, "failed")

\* A delivery of the channel, repeated until it is acknowledged.
StartSteer(s) ==
    /\ s \notin steered
    /\ s \notin Logged(log, "received") => Open(log)
    /\ Begin("steer", "recover", NoEffect, s)

\* executeWakeClaim of a turn-recovery row, once claimed.
StartWake(e) ==
    /\ wakes[e] = "leased"
    /\ Begin("wake", "reload", e, "wake")

\* adoptDurableWorkWorker: each activation wakes every channel once.
StartAdoption ==
    /\ ~recovered
    /\ Begin("adoption", "reload", NoEffect, "wake")

---------------------------------------------------------------------------
(* applyOutcomeSerial.                                                     *)

\* The append of the terminal event, with what each refusal leads to.
AppendOutcome ==
    /\ job.at = "append"
    /\ LET items == OutcomeEvents(job.effect, job.how)
           refusal == Refusal(items, Loop)
       IN \/ /\ refusal = "none"
             /\ log' = Appended(items)
             /\ cached' = Loop
             /\ RunAt("commit", Loop, Envelopes(items, Loop))
             /\ Rest
          \/ /\ refusal = "head-conflict" /\ job.tries < HeadConflictRetries
             /\ cached' = log
             /\ job' = [job EXCEPT !.tries = @ + 1]
             /\ UNCHANGED log /\ Rest
          \/ /\ refusal = "head-conflict" /\ job.tries = HeadConflictRetries
             /\ cached' = Loop
             /\ JobThrown
             /\ UNCHANGED <<log, crashes>>
          \/ /\ refusal \notin {"none", "head-conflict"}
             /\ cached' = log
             /\ IF job.effect \in Derived(log)
                THEN JobThrown
                ELSE /\ Goto("drop")
                     /\ UNCHANGED <<executing, wakes, steered, recovered>>
             /\ UNCHANGED <<log, crashes>>
    /\ UNCHANGED rows

\* commitTerminalOutcome in one transaction, then the fold.
CommitOutcome ==
    /\ job.at = "commit"
    /\ rows' = Deleted(rows, job.effect)
    /\ wakes' = IF wakes[job.effect] = "none"
                THEN [wakes EXCEPT ![job.effect] = "ready"] ELSE wakes
    /\ cached' = Loop \o job.frames[1].todo
    /\ job' = [job EXCEPT !.at = "run", !.frames =
                  Returned(<<Frame(cached', @[1].todo, AppendRetries, TRUE)>>)]
    /\ UNCHANGED <<log, executing, steered, recovered, crashes>>

\* A raced duplicate: the row is consumed and the journal decides.
DropOutcome ==
    /\ job.at = "drop"
    /\ rows' = Reconciled(Loop, Deleted(rows, job.effect))
    /\ cached' = Loop
    /\ Goto("recover")
    /\ UNCHANGED log /\ Rest

\* clearTerminalOutcomeRecovery: only a recovery row nobody has claimed.
ClearOutcome ==
    /\ job.at = "clear"
    /\ job' = NoJob
    /\ executing' = RunEnded
    /\ wakes' = IF wakes[job.effect] = "ready" THEN Deleted(wakes, job.effect)
                ELSE wakes
    /\ UNCHANGED <<log, rows, cached, steered, recovered, crashes>>

---------------------------------------------------------------------------
(* runStep.                                                                *)

Running == job.at \in {"run", "refeed"}

Top == job.frames[Len(job.frames)]

\* The output of the step function for an event, or for the job's command.
StepOutput(fold, ev) ==
    CASE ev.kind = "wake" -> Wake(fold)
      [] ev.kind = "steer" -> Steer(fold, ev.of)
      [] ev.kind = "effect-failed" -> EffectFailed(fold, job.effect)
      [] OTHER -> EventStep(fold, ev)

WithTop(frame) ==
    [job EXCEPT !.frames = Returned([@ EXCEPT ![Len(@)] = frame])]

\* An output that the log accepts: append, fold, insert, then the cascades of
\* the new events, depth first.
StepAccepted ==
    /\ Running /\ job.frames # <<>>
    /\ LET out == StepOutput(Top.fold, Head(Top.todo))
           envelopes == Envelopes(out.append, Top.fold)
       IN /\ Refusal(out.append, Top.fold) = "none"
          /\ log' = Appended(out.append)
          /\ rows' = Inserted(rows, out.effects)
          /\ cached' = IF Top.live THEN Top.fold \o envelopes ELSE cached
          /\ job' = WithTop([Top EXCEPT !.fold = @ \o envelopes,
                                        !.todo = envelopes \o Tail(@)])
    /\ Rest

\* A refused append: reload and run the step again while retries are left;
\* then a steer that is journalled already returns, everything else throws.
StepRefused ==
    /\ Running /\ job.frames # <<>>
    /\ LET ev == Head(Top.todo)
       IN /\ Refusal(StepOutput(Top.fold, ev).append, Top.fold) # "none"
          /\ \/ /\ Top.tries > 0
                /\ cached' = log
                /\ job' = [job EXCEPT !.frames =
                              Returned(Retired(@))
                                  \o <<Frame(log, <<ev>>, Top.tries - 1, TRUE)>>]
                /\ UNCHANGED <<executing, wakes, steered, recovered>>
             \/ /\ Top.tries = 0
                /\ UNCHANGED cached
                /\ IF ev.kind = "steer" /\ ev.of \in Logged(log, "received")
                   THEN /\ job' = WithTop([Top EXCEPT !.todo = Tail(@)])
                        /\ UNCHANGED <<executing, wakes, steered, recovered>>
                   ELSE JobThrown
    /\ UNCHANGED <<log, rows, crashes>>

RunReturns ==
    /\ Running /\ job.frames = <<>>
    /\ Goto(IF job.at = "run" THEN "settle" ELSE "resettle")
    /\ UNCHANGED <<log, rows, cached>> /\ Rest

---------------------------------------------------------------------------
(* settle, and recoverOpenTurnAfterReplay.                                 *)

Settle ==
    /\ job.at \in {"settle", "resettle", "giveupsettle"}
    /\ rows' = Reconciled(Loop, rows)
    /\ cached' = Loop
    /\ Goto(CASE job.at = "settle" /\ job.op \in {"outcome", "push"} -> "clear"
              [] job.at = "settle" /\ job.op \notin {"outcome", "push"} -> "recover"
              [] job.at = "resettle" -> "giveup"
              [] job.at = "giveupsettle" -> "recover")
    /\ UNCHANGED log /\ Rest

\* wakeSerial: the reloaded fold decides whether the wake steps at all.
ReloadForWake ==
    /\ job.at = "reload"
    /\ cached' = log
    /\ IF \E n \in InFlight(log) : rows[Model(n)] \in {"ready", "leased"}
       THEN Goto("settle")
       ELSE RunAt("run", log, <<Ev("wake", 0, "wake")>>)
    /\ UNCHANGED <<log, rows>> /\ Rest

\* The command of handleIncoming, after the recovery that precedes it.
Command ==
    IF job.op = "steer" THEN Ev("steer", job.how, "steer")
    ELSE Ev("effect-failed", 0, "failed")

\* What follows a recovery: the command, or the end of the job; failEffect
\* deletes its row last.
AfterRecovery ==
    IF job.due
    THEN /\ job' = [job EXCEPT !.at = "run", !.due = FALSE,
                        !.frames = <<Frame(log, <<Command>>, AppendRetries, TRUE)>>]
         /\ UNCHANGED <<rows, executing, wakes, steered, recovered>>
    ELSE /\ rows' = IF job.op = "failed" THEN Deleted(rows, job.effect) ELSE rows
         /\ JobDone

\* The latest cascade of a stranded turn is fed again.
Recover ==
    /\ job.at = "recover"
    /\ cached' = log
    /\ IF ~Stranded(log, rows)
       THEN AfterRecovery
       ELSE /\ IF LatestCascade(log) # <<>>
               THEN RunAt("refeed", log, LatestCascade(log))
               ELSE Goto("giveup")
            /\ UNCHANGED <<rows, executing, wakes, steered, recovered>>
    /\ UNCHANGED <<log, crashes>>

\* Still stranded: appendStrandedOpenTurnFailure (its reload after a refused
\* append is folded into this step).
GiveUp ==
    /\ job.at = "giveup"
    /\ IF Stranded(Loop, rows)
       THEN /\ log' = IF Stranded(log, rows) THEN Appended(StrandedFailure(log))
                      ELSE log
            /\ cached' = log'
            /\ Goto("giveupsettle")
            /\ UNCHANGED rows /\ Rest
       ELSE /\ cached' = Loop
            /\ AfterRecovery
            /\ UNCHANGED <<log, crashes>>

JobStep ==
    \/ AppendOutcome \/ CommitOutcome \/ DropOutcome \/ ClearOutcome
    \/ StepAccepted \/ StepRefused \/ RunReturns
    \/ Settle \/ ReloadForWake \/ Recover \/ GiveUp

---------------------------------------------------------------------------
(* Executors, the host, other writers, and the death of the activation.    *)

Claim(e) ==
    /\ rows[e] \in {"ready", "idle"} /\ e \notin executing
    /\ rows' = [rows EXCEPT ![e] = "leased"]
    /\ executing' = executing \cup {e}
    /\ UNCHANGED <<log, wakes, steered, cached, recovered, job, crashes>>

\* A deferral, or a failure with budget left.
Park(e) ==
    /\ e \in executing /\ rows[e] = "leased" /\ job.effect # e
    /\ rows' = [rows EXCEPT ![e] = "idle"]
    /\ executing' = executing \ {e}
    /\ UNCHANGED <<log, wakes, steered, cached, recovered, job, crashes>>

\* A run whose claim is gone discards its outcome.
Discard(e) ==
    /\ e \in executing /\ rows[e] # "leased" /\ job.effect # e
    /\ executing' = executing \ {e}
    /\ UNCHANGED <<durable, cached, recovered, job, crashes>>

\* A lease without a run: failReadyWork retries it, a new worker releases it.
FreeLease(e) ==
    /\ rows[e] = "leased" /\ e \notin executing
    /\ \E next \in {"ready", "idle"} : rows' = [rows EXCEPT ![e] = next]
    /\ UNCHANGED <<log, wakes, steered, volatile, crashes>>

ClaimWake(e) ==
    /\ wakes[e] = "ready"
    /\ wakes' = [wakes EXCEPT ![e] = "leased"]
    /\ UNCHANGED <<log, rows, steered, volatile, crashes>>

Foreigns == Cardinality(At(log, {"foreign"}))

Foreign ==
    /\ "foreign" \in Faults /\ crashes + Foreigns < FaultLimit
    /\ log' = Append(log, Ev("foreign", Foreigns + 1, "foreign"))
    /\ UNCHANGED <<rows, wakes, steered, volatile, crashes>>

\* Nothing in memory survives; what was leased is released or redelivered.
Die ==
    /\ "crash" \in Faults /\ crashes + Foreigns < FaultLimit
    /\ crashes' = crashes + 1
    /\ cached' = <<>>
    /\ executing' = {}
    /\ job' = NoJob
    /\ recovered' = FALSE
    /\ wakes' = [e \in Effects |-> IF wakes[e] = "leased" THEN "ready" ELSE wakes[e]]
    /\ UNCHANGED <<rows, steered>>

Crash == Die /\ UNCHANGED log

\* The kill point after-append: the log has the step's events, nobody else has.
CrashAfterAppend ==
    /\ Running /\ job.frames # <<>>
    /\ LET items == StepOutput(Top.fold, Head(Top.todo)).append
       IN /\ items # <<>> /\ Refusal(items, Top.fold) = "none"
          /\ log' = Appended(items)
    /\ Die

---------------------------------------------------------------------------

Answer(e) == \E how \in Outcomes(e) : StartOutcome(e, how)
Push(e) == \E how \in Outcomes(e) : StartPush(e, how)

EffectStep(e) ==
    \/ Claim(e) \/ Park(e) \/ Discard(e) \/ FreeLease(e)
    \/ Answer(e) \/ Push(e) \/ StartFailed(e) \/ ClaimWake(e) \/ StartWake(e)

Next ==
    \/ JobStep
    \/ \E e \in Effects : EffectStep(e)
    \/ \E s \in Steers : StartSteer(s)
    \/ StartAdoption
    \/ Foreign \/ Crash \/ CrashAfterAppend

Spec == Init /\ [][Next]_vars

\* The channel's mutex serves jobs in order, so a job that waits for it runs in
\* the end; the host redrives claims, wakes and adoption; an executor that is
\* asked again and again answers.
Fairness ==
    /\ []<>Free \/ []<><<JobStep>>_vars
    /\ WF_vars(\E e \in Effects : Claim(e))
    /\ WF_vars(\E e \in Effects : Discard(e) \/ FreeLease(e) \/ ClaimWake(e))
    /\ SF_vars(StartAdoption \/ \E e \in Effects : StartWake(e))
    /\ SF_vars(\E e \in Effects : Answer(e))

FairSpec == Spec /\ Fairness

---------------------------------------------------------------------------
(* Properties.                                                             *)

IsPrefix(s, t) ==
    Len(s) <= Len(t) /\ s = SubSeq(t, 1, Len(s))

\* Every loop object folds a prefix of the log: no retry, replay or nested
\* cascade makes it skip an event or apply one twice (applyEvent checks
\* neither the sequence number nor the previous hash).
FoldIsPrefix ==
    /\ IsPrefix(cached, log)
    /\ \A i \in DOMAIN job.frames : IsPrefix(job.frames[i].fold, log)

\* While no job runs and the activation has recovered, an open turn that was
\* never parked has a concrete path forward: a queued effect or a recovery row
\* that will wake it.
OpenTurnHasPath ==
    Free /\ recovered /\ Open(log) /\ ~HasWaited(log) =>
        \E e \in Effects : rows[e] # "none" \/ wakes[e] # "none"

\* The same of a turn that waits no longer, since a model call resumed it.
ResumedTurnHasPath ==
    Free /\ recovered /\ Open(log) /\ ~Parked(log) =>
        \E e \in Effects : rows[e] # "none" \/ wakes[e] # "none"

\* Once nothing is left to recover, an outbox row exists exactly for the
\* intentions that are logged without an outcome.
OutboxIsDerived ==
    /\ Free /\ recovered
    /\ \A e \in Effects : wakes[e] = "none"
    /\ Logged(log, "received") \subseteq steered
    => {e \in Effects : rows[e] # "none"} = Derived(log)

\* The turn of TurnLifecycle, read off the log.
Lifecycle == INSTANCE TurnLifecycle WITH
    Others <- {Call(c) : c \in Tools} \cup {Form(c) : c \in Gated},
    calls <- ModelCallCount(log),
    answered <- Cardinality(Logged(log, "message.terminal")),
    work <- {Call(c) : c \in PendingInvocations(log)}
                \cup {Form(c) : c \in PendingApprovals(log)},
    done <- {Call(c) : c \in Logged(log, "invocation.terminal")}
                \cup {Form(c) : c \in Logged(log, "approval.resolved")},
    open <- Open(log)

\* Every append of step, applyOutcome and the stranded-turn recovery is a step
\* of the abstract turn: an intention is logged once and answered once, a model
\* call never begins and the turn never closes while anything else is open.
ImplementsLifecycle == Lifecycle!Spec

\* A turn closes as completed only when every steer the log has by then was
\* taken into the context of a model call; a later one opens a turn of its own.
NoSteerIsDropped ==
    \A i \in At(log, {"turn.closed"}) :
        log[i].how = "completed" => SteeringQueue(SubSeq(log, 1, i - 1)) = {}

\* Every turn closes in the end or is parked by a tool until input arrives,
\* whatever dies on the way.
TurnCloses == <>(~Open(log) \/ HasWaited(log))

\* The recovery row of an outcome is withdrawn only from a turn that has a
\* path forward.
RecoveryOutlivesNeed ==
    [][job.at = "clear" /\ job'.at = "free" =>
          ~Stranded(log, rows) \/ \E e \in Effects : wakes'[e] # "none"]_vars

\* A model call never starts while tool calls of an earlier answer are still
\* missing their invocation.started events.
ToolsBeforeNextModel ==
    \A i \in At(log, {"message.terminal"}), j \in At(log, {"message.started"}) :
        i < j /\ log[i].how = "completed" =>
            \A k \in DOMAIN CallsOf(log, log[i].of) :
                CallsOf(log, log[i].of)[k]
                    \in Logged(SubSeq(log, 1, j), "invocation.started")

\* A model call never starts while an invocation has no outcome.
ModelCallsStartAlone ==
    \A i \in At(log, {"message.started"}) :
        PendingInvocations(SubSeq(log, 1, i)) = {}

=============================================================================
