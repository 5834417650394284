--------------------------- MODULE EffectClaims ---------------------------
(***************************************************************************)
(* The life of an outbox row between the host's work driver and the agent  *)
(* vessel: claimReadyWork, executeEffectClaim, settleReadyWork and         *)
(* failReadyWork of agent-vessel.ts, dispatchRow and dispatchRowInner of   *)
(* agent-loop-driver.ts, the wakes that race them, and interruptChannel.   *)
(*                                                                         *)
(* Here journalling an outcome and deleting its row is one step; the       *)
(* protocol that makes it look like one is the subject of                  *)
(* EffectSettlement.                                                       *)
(***************************************************************************)
EXTENDS EffectOutbox

CONSTANTS
    Gated,           \* invocations the approval-gate policy marks requiresApproval
    Rerouted,        \* invocations an interceptor rewrites to a channel call
    GenerationLimit, \* bound on lease_generation
    ClockLimit       \* bound on the number of insertions

ASSUME ClaimsAssumption ==
    /\ Gated \subseteq {e \in Effects : Turn[e] # NoTurn}
    /\ Rerouted \subseteq {e \in Effects : Kind[e] = "channel_call"}
    /\ GenerationLimit \in Nat /\ ClockLimit \in Nat

VARIABLES
    journal,    \* effect -> what the durable log says of its intention
    worker,     \* the host worker generation that DurableWorkReadiness adopted
    claims,     \* claims handed to host workers and not yet settled or failed
    running,    \* currentDispatchByRow: effect -> the run of this activation
    admission,  \* closedEffectAdmission, by how far the interrupt has come
    released,   \* activationReleased: lifecycle has fenced this activation
    authority,  \* effects whose authority has been granted outside the vessel
    hinted      \* FALSE while an onAuthorityChanged call is on its way

vars == <<row, clock, journal, worker, claims, running, admission, released,
          authority, hinted>>

\* born is history: the insertion of the row that was claimed.  So is the phase
\* "left": the claim is over for the host, answered "stale" by a released
\* activation while its row was leased.
Claim == [effect : Effects, generation : Nat, worker : Workers, born : Nat,
          phase : {"claimed", "executing", "returned", "errored", "left"}]

NoRun == [generation |-> 0, saw |-> "unread"]
Run == [generation : Nat, saw : {"unread", "denied", "granted"}]
Running(e) == running[e] # NoRun

TypeOK ==
    /\ row \in [Effects -> OutboxRow \cup {NoRow}]
    /\ clock \in Nat
    /\ journal \in [Effects -> {"absent", "gated", "pending", "settled"}]
    /\ worker \in Workers \cup {NoOwner}
    /\ claims \subseteq Claim
    /\ running \in [Effects -> Run]
    /\ admission \in {"open", "closing", "interrupted"}
    /\ released \in BOOLEAN
    /\ authority \subseteq Effects
    /\ hinted \in BOOLEAN

Init ==
    /\ row = [e \in Effects |-> NoRow]
    /\ clock = 0
    /\ journal = [e \in Effects |-> "absent"]
    /\ worker = NoOwner
    /\ claims = {}
    /\ running = [e \in Effects |-> NoRun]
    /\ admission = "open"
    /\ released = FALSE
    /\ authority = {}
    /\ hinted = TRUE

hostVars == <<worker, claims>>
gateVars == <<admission, released>>
wakeVars == <<authority, hinted>>

---------------------------------------------------------------------------
(* Intentions.  runStep appends them and inserts the rows of the step's    *)
(* effects together; a reconcile inserts what the log derives.             *)

\* An intention outside the invocations of a turn: a model call, a prompt
\* preparation, a credential wait, a read receipt, an approval form.
BeginEffect(e) ==
    /\ journal[e] = "absent" /\ Turn[e] = NoTurn
    /\ clock < ClockLimit
    /\ InsertRows({e}, {})
    /\ journal' = [journal EXCEPT ![e] = "pending"]
    /\ UNCHANGED <<hostVars, running, gateVars, wakeVars>>

\* expandToolCalls: the tool calls of one assistant message.  The approval
\* gate withholds the effects of gated calls; a rerouted call is inserted
\* with a descriptor that carries no invocation order.
BeginCalls(t) ==
    LET calls == {e \in Effects : Turn[e] = t} IN
    /\ t # NoTurn /\ calls # {}
    /\ \A e \in calls : journal[e] = "absent"
    /\ clock < ClockLimit
    /\ InsertRows(calls \ Gated, calls \ Rerouted)
    /\ journal' = [e \in Effects |->
                     IF e \in calls
                     THEN IF e \in Gated THEN "gated" ELSE "pending"
                     ELSE journal[e]]
    /\ UNCHANGED <<hostVars, running, gateVars, wakeVars>>

\* approval.resolved: a granted call becomes derivable and is inserted with
\* the order of its logged intention; a denied one gets its terminal.
ResolveApproval(e) ==
    /\ journal[e] = "gated"
    /\ \/ /\ clock < ClockLimit
          /\ InsertRows({e}, {e})
          /\ journal' = [journal EXCEPT ![e] = "pending"]
       \/ /\ journal' = [journal EXCEPT ![e] = "settled"]
          /\ UNCHANGED outboxVars
    /\ UNCHANGED <<hostVars, running, gateVars, wakeVars>>

---------------------------------------------------------------------------
(* Claims.                                                                 *)

\* claimReadyWork: a worker other than the adopted one first releases the
\* adopted one's leases.
ClaimReady(w) ==
    LET table == [e \in Effects |->
                    IF w # worker THEN ReleasedBy(worker, row[e]) ELSE row[e]]
    IN
    \E ahead \in DispatchOrders(Semantic) :
    \E picked \in Slices(Claimable(table, ahead)) :
        /\ w >= worker
        /\ picked # {} \/ w # worker
        /\ \A e \in picked : row[e].generation < GenerationLimit
        /\ row' = [e \in Effects |->
                     IF e \in picked THEN LeasedTo(w, table[e]) ELSE table[e]]
        /\ worker' = w
        /\ claims' = claims \cup
              {[effect |-> e, generation |-> row'[e].generation,
                worker |-> w, born |-> row[e].born, phase |-> "claimed"] : e \in picked}
        /\ UNCHANGED <<clock, journal, running, gateVars, wakeVars>>

MoveClaim(c, phase) == claims' = (claims \ {c}) \cup {[c EXCEPT !.phase = phase]}

\* executeClaimedEffect and the entry of dispatchRow.
StartRun(c) ==
    /\ c.phase = "claimed"
    /\ IsClaim(c.effect, c.generation)
    /\ ~released /\ admission = "open"
    /\ ~Running(c.effect)
    /\ running' = [running EXCEPT ![c.effect] =
                     [generation |-> c.generation, saw |-> "unread"]]
    /\ MoveClaim(c, "executing")
    /\ UNCHANGED <<outboxVars, journal, worker, gateVars, wakeVars>>

\* A stale claim, or an effect that this activation is already executing,
\* throws; a released activation and closed admission return without executing.
RefuseRun(c) ==
    /\ c.phase = "claimed"
    /\ \/ /\ ~IsClaim(c.effect, c.generation)
          /\ MoveClaim(c, "errored")
       \/ /\ IsClaim(c.effect, c.generation)
          /\ released \/ admission # "open"
          /\ MoveClaim(c, "returned")
       \/ /\ IsClaim(c.effect, c.generation)
          /\ ~released /\ admission = "open" /\ Running(c.effect)
          /\ MoveClaim(c, "errored")
    /\ UNCHANGED <<outboxVars, journal, worker, running, gateVars, wakeVars>>

\* Mutant: settleReadyWork accepts a row that is still leased.
SettleClaimLeased(c) ==
    /\ c.phase = "returned"
    /\ claims' = claims \ {c}
    /\ UNCHANGED <<outboxVars, journal, worker, running, gateVars, wakeVars>>

\* settleReadyWork: "duplicate", "stale" and "accepted" end the claim.  A row
\* that is still leased under it is an error the host then reports, unless the
\* activation has been released: then the answer is "stale" and the lease stays.
SettleClaim(c) ==
    /\ c.phase = "returned"
    /\ IF /\ IsClaim(c.effect, c.generation)
          /\ row[c.effect].owner = c.worker
       THEN MoveClaim(c, IF released THEN "left" ELSE "errored")
       ELSE claims' = claims \ {c}
    /\ UNCHANGED <<outboxVars, journal, worker, running, gateVars, wakeVars>>

\* failReadyWork records a failure for the exact leased claim only, and
\* consults no attempt budget.
FailClaim(c) ==
    /\ c.phase = "errored"
    /\ row' = IF /\ IsClaim(c.effect, c.generation)
                 /\ row[c.effect].owner = c.worker
              THEN [row EXCEPT ![c.effect] = Failed(@, FALSE)]
              ELSE row
    /\ claims' = claims \ {c}
    /\ UNCHANGED <<clock, journal, worker, running, gateVars, wakeVars>>

---------------------------------------------------------------------------
(* The end of a run: dispatchRowInner after its executor has settled.      *)
(* The fence of a released activation lets none of its results through.    *)

\* The run leaves currentDispatchByRow and the host's call returns.
EndRun(e) ==
    /\ running' = [running EXCEPT ![e] = NoRun]
    /\ claims' = {IF /\ c.effect = e /\ c.phase = "executing"
                     /\ c.generation = running[e].generation
                  THEN [c EXCEPT !.phase = "returned"] ELSE c : c \in claims}

\* Effects whose result arrives through deliverEffectOutcome.
OutOfBand(e) ==
    e \in DeferredEval \/ Kind[e] \in {"channel_call", "http_call", "credential_wait"}

OwnsRow(e) == ~released /\ Running(e) /\ IsClaim(e, running[e].generation)

Settled(e) ==
    /\ journal' = [journal EXCEPT ![e] = "settled"]
    /\ DeleteRows({e})

\* A run whose claim is gone, or whose activation has been released, discards
\* whatever its executor produced.
DropRun(e) ==
    /\ Running(e) /\ ~OwnsRow(e)
    /\ EndRun(e)
    /\ UNCHANGED <<outboxVars, journal, worker, gateVars, wakeVars>>

\* The executor produced an outcome: applyOutcome.
CompleteRun(e) ==
    /\ OwnsRow(e)
    /\ Settled(e)
    /\ EndRun(e)
    /\ UNCHANGED <<worker, gateVars, wakeVars>>

\* The executor acknowledged a deferral: for authority (model and http calls)
\* or for a result that arrives out of band.
DeferRun(e) ==
    /\ OwnsRow(e)
    /\ \/ Kind[e] \in {"model_call", "http_call"} /\ running[e].saw = "denied"
       \/ OutOfBand(e) /\ Kind[e] # "http_call"
    /\ row' = [row EXCEPT ![e] = Deferred(@)]
    /\ EndRun(e)
    /\ UNCHANGED <<clock, journal, worker, gateVars, wakeVars>>

\* The executor threw: recordFailure, then failEffect at the attempt budget.
FailRun(e) ==
    /\ OwnsRow(e)
    /\ IF Budget(e) # 0 /\ row[e].attempts + 1 >= Budget(e)
       THEN Settled(e)
       ELSE /\ row' = [row EXCEPT ![e] = Failed(@, FALSE)]
            /\ UNCHANGED <<clock, journal>>
    /\ EndRun(e)
    /\ UNCHANGED <<worker, gateVars, wakeVars>>

\* A recoverable provider failure: retryEffect with the provider's delay.
RetryRun(e) ==
    /\ OwnsRow(e) /\ Kind[e] = "model_call"
    /\ \E soon \in BOOLEAN : row' = [row EXCEPT ![e] = Failed(@, soon)]
    /\ EndRun(e)
    /\ UNCHANGED <<clock, journal, worker, gateVars, wakeVars>>

\* suspendOnCredential after a stale append: the row is deleted and the
\* reconcile derives the model call again, as a new row.
RederiveRun(e) ==
    /\ OwnsRow(e) /\ Kind[e] = "model_call"
    /\ clock < ClockLimit
    /\ clock' = clock + 1
    /\ row' = [row EXCEPT ![e] =
                 [disposition |-> "ready", next |-> "null", attempts |-> 0,
                  owner |-> NoOwner, generation |-> 0, born |-> clock + 1,
                  ordered |-> FALSE]]
    /\ EndRun(e)
    /\ UNCHANGED <<journal, worker, gateVars, wakeVars>>

\* __lifecycle/prepare: every executor is aborted and none is waited for; the
\* rows stay leased.
ReleaseActivation ==
    /\ ~released
    /\ released' = TRUE
    /\ UNCHANGED <<outboxVars, journal, hostVars, running, admission, wakeVars>>

\* The activation dies, or is replaced once it has been released: its runs are
\* gone and their calls fail at the host.
Restart ==
    /\ released \/ \E e \in Effects : Running(e)
    /\ running' = [e \in Effects |-> NoRun]
    /\ claims' = {IF c.phase = "executing" THEN [c EXCEPT !.phase = "errored"]
                  ELSE c : c \in claims}
    /\ admission' = "open" /\ released' = FALSE
    /\ UNCHANGED <<outboxVars, journal, worker, wakeVars>>

---------------------------------------------------------------------------
(* What races a run.                                                       *)

\* deliverEffectOutcome: a channel terminal, an eval push, a credential
\* resolution reaches the vessel, whatever the row is doing.
DeliverOutcome(e) ==
    /\ row[e] # NoRow
    /\ OutOfBand(e)
    /\ Settled(e)
    /\ UNCHANGED <<hostVars, running, gateVars, wakeVars>>

\* The executor of a model or http call asks for authority.
ReadAuthority(e) ==
    /\ Running(e) /\ running[e].saw = "unread"
    /\ Kind[e] \in {"model_call", "http_call"}
    /\ running' = [running EXCEPT ![e].saw =
                     IF e \in authority THEN "granted" ELSE "denied"]
    /\ UNCHANGED <<outboxVars, journal, hostVars, gateVars, wakeVars>>

\* Outside the vessel: authority is granted and onAuthorityChanged is sent.
GrantAuthority(e) ==
    /\ e \notin authority /\ Kind[e] \in {"model_call", "http_call"}
    /\ authority' = authority \cup {e}
    /\ hinted' = FALSE
    /\ UNCHANGED <<outboxVars, journal, hostVars, running, gateVars>>

OnAuthorityChanged ==
    /\ ~hinted
    /\ hinted' = TRUE
    /\ row' = [e \in Effects |-> AuthorityNudged(e)]
    /\ UNCHANGED <<clock, journal, hostVars, running, gateVars, authority>>

\* resumeAfterRestart re-observes every deferred eval.
ReconcileDeferredEvalRuns ==
    /\ row' = [e \in Effects |-> EvalNudged(e)]
    /\ row' # row
    /\ UNCHANGED <<clock, journal, hostVars, running, gateVars, wakeVars>>

TimePasses(e) ==
    /\ row[e] # NoRow /\ row[e].next = "later"
    /\ row' = [row EXCEPT ![e].next = "due"]
    /\ UNCHANGED <<clock, journal, hostVars, running, gateVars, wakeVars>>

---------------------------------------------------------------------------
(* interruptChannel.                                                       *)

CloseAdmission ==
    /\ admission = "open"
    /\ \E e \in Effects : journal[e] \in {"gated", "pending"}
    /\ admission' = "closing"
    /\ UNCHANGED <<outboxVars, journal, hostVars, running, released, wakeVars>>

\* Journalled once the admitted settle-mode tools are done.  Its terminals
\* cover the turn's open work; a model call that was admitted gets its own
\* aborted outcome from its run.
Interrupted(e) ==
    /\ journal[e] \in {"gated", "pending"}
    /\ \/ Kind[e] \in InvocationKinds \cup {"credential_wait"}
       \/ Kind[e] = "model_call" /\ ~Running(e)

JournalInterrupt ==
    /\ admission = "closing"
    /\ \A e \in Settle : ~Running(e)
    /\ admission' = "interrupted"
    /\ journal' = [e \in Effects |->
                     IF Interrupted(e) THEN "settled" ELSE journal[e]]
    /\ DeleteRows({e \in Effects : Interrupted(e)})
    /\ UNCHANGED <<hostVars, running, released, wakeVars>>

\* Every run admitted before the interrupt has been aborted and has ended.
ReopenAdmission ==
    /\ admission = "interrupted"
    /\ \A e \in Effects : ~Running(e)
    /\ admission' = "open"
    /\ UNCHANGED <<outboxVars, journal, hostVars, running, released, wakeVars>>

---------------------------------------------------------------------------

HostStep ==
    \/ \E w \in Workers : ClaimReady(w)
    \/ \E c \in claims : StartRun(c) \/ RefuseRun(c) \/ SettleClaim(c) \/ FailClaim(c)

RunStep(e) ==
    \/ DropRun(e) \/ CompleteRun(e) \/ DeferRun(e) \/ FailRun(e) \/ RetryRun(e)
    \/ RederiveRun(e) \/ ReadAuthority(e)

IntentionStep ==
    \/ \E e \in Effects : BeginEffect(e) \/ ResolveApproval(e)
    \/ \E t \in {Turn[e] : e \in Effects} : BeginCalls(t)

OutsideStep ==
    \/ \E e \in Effects : DeliverOutcome(e) \/ GrantAuthority(e) \/ TimePasses(e)
    \/ OnAuthorityChanged \/ ReconcileDeferredEvalRuns
    \/ ReleaseActivation \/ Restart

InterruptStep == CloseAdmission \/ JournalInterrupt \/ ReopenAdmission

Next ==
    \/ HostStep \/ IntentionStep \/ OutsideStep \/ InterruptStep
    \/ \E e \in Effects : RunStep(e)

Spec == Init /\ [][Next]_vars

\* The adopted worker follows up on every claim it was handed.
FollowUp(e) ==
    \E c \in claims :
        /\ c.effect = e /\ c.worker = worker
        /\ StartRun(c) \/ RefuseRun(c) \/ SettleClaim(c) \/ FailClaim(c)

\* An executor settles: by itself, or at its abort boundary.
RunEnds(e) == DropRun(e) \/ CompleteRun(e) \/ DeferRun(e) \/ FailRun(e) \/ RetryRun(e)

Fairness ==
    /\ \A e \in Effects : WF_vars(FollowUp(e)) /\ WF_vars(RunEnds(e))
    /\ WF_vars(JournalInterrupt) /\ WF_vars(ReopenAdmission)

FairSpec == Spec /\ Fairness

---------------------------------------------------------------------------
(* Properties.                                                             *)

\* One lane per channel: two semantic rows are leased together only inside
\* one parallel wave of one turn (claimReady's "first" and its prefix loop).
LaneExclusion ==
    \A e, f \in Effects :
        e # f /\ IsLeased(e) /\ IsLeased(f) =>
            \/ Independent(e) \/ Independent(f)
            \/ SameTurn(e, f) /\ {e, f} \subseteq Parallel

\* "sequential: this tool must execute one at a time with other tool calls":
\* of the calls of one turn only parallel ones run together.
SequentialRunsAlone ==
    \A e, f \in Effects :
        /\ e # f /\ Turn[e] # NoTurn /\ Turn[e] = Turn[f]
        /\ Running(e) /\ Running(f)
        => {e, f} \subseteq Parallel

\* Model source order: a call starts only when every earlier call of its turn
\* that it may not run in parallel with has its terminal.  "A later read must
\* not observe the pre-mutation state merely because another alarm fires."
SourceOrder ==
    [][\A e, f \in Effects :
          /\ Turn[e] # NoTurn /\ Turn[f] = Turn[e] /\ Position[f] < Position[e]
          /\ ~({e, f} \subseteq Parallel)
          /\ ~Running(e) /\ Running(e)'
          => journal[f] = "settled"]_vars

\* At most one live claim matches a row, across worker generations, deferred
\* and failed attempts and activation restarts: the generation alone
\* (executeClaimedEffect checks no worker) tells the claims of a row apart.
ExclusiveClaim ==
    \A c, d \in claims :
        /\ c.phase \in {"claimed", "executing"} /\ d.phase \in {"claimed", "executing"}
        /\ c.effect = d.effect /\ c.born = d.born
        /\ IsClaim(c.effect, c.generation) /\ IsClaim(d.effect, d.generation)
        => c = d

\* The claim under which a row is leased: the adopted worker's, of the row's
\* generation and insertion.
Holds(c, e) ==
    /\ IsLeased(e) /\ row[e].owner = worker
    /\ c.effect = e /\ c.worker = worker
    /\ c.generation = row[e].generation /\ c.born = row[e].born

\* "A lifecycle-released activation deliberately leaves claimed rows leased.
\* The next host generation adopts them."
LeftLeased(e) == \E c \in claims : Holds(c, e) /\ c.phase = "left"

\* No lease is orphaned by accident: a leased row belongs to the adopted
\* worker, and either that worker still holds the claim whose settlement or
\* failure will release it, or a released activation has answered that claim
\* "stale" and left the lease to the next worker.
LeaseHasClaim ==
    \A e \in Effects : IsLeased(e) => \E c \in claims : Holds(c, e)

\* An authority wake is not lost: a row is parked until its backstop only
\* while its authority is missing or the wake is still on its way, whether the
\* grant came before, during or after the executor's check
\* (nudgeAuthorityRedrive against deferRedrive).
NoStrandedDeferral ==
    \A e \in Rows :
        /\ Kind[e] \in {"model_call", "http_call"}
        /\ row[e].disposition = "parked" /\ row[e].next = "later"
        => e \notin authority \/ ~hinted

\* Every lease ends, through a refused run, closed admission, a dead activation
\* or a replaced worker as well, unless a released activation leaves it: only
\* the next worker generation, which need not come, ends such a lease.
LeaseEnds == \A e \in Effects : IsLeased(e) ~> ~IsLeased(e) \/ LeftLeased(e)

\* An effect is not executed again once its attempts have spent its budget: a
\* settle-mode tool, whose budget is one attempt, is not run again after one
\* that failed, and no tool is run a fourth time.  "Do not redrive it blindly".
RunsWithinBudget ==
    [][\A e \in Effects :
          /\ ~Running(e) /\ Running(e)'
          => Budget(e) = 0 \/ row[e].attempts < Budget(e)]_vars

\* "Invariant violation: effect is already executing in this activation": a
\* claim that owns its row never meets an earlier run of the same effect.
NoClaimMeetsItsRun ==
    \A c \in claims :
        c.phase = "claimed" /\ IsClaim(c.effect, c.generation) => ~Running(c.effect)

=============================================================================
