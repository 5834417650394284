----------------------------- MODULE AgentTurn -----------------------------
(***************************************************************************)
(* One turn of the pure agent loop (packages/agent-loop): what the fold of *)
(* a trajectory log knows of the turn, the effects it derives, and the     *)
(* outputs of `step`.  Every operator takes the sequence L of the events   *)
(* folded so far.                                                          *)
(*                                                                         *)
(* An event is [kind, of, how, upTo]; upTo is the context boundary of a    *)
(* model request, 0 elsewhere.  "message.terminal" stands for              *)
(* message.completed and message.failed, which share one id, and           *)
(* "invocation.terminal" for the four ends of an invocation.  "received"   *)
(* is a steer's message with its prompt.artifacts_requested (one batch),   *)
(* "diagnostic" the completed assistant message that reports a failed      *)
(* prompt setup (one id per turn), and "foreign" an event of another       *)
(* writer.  The diagnostic that precedes the close at the model retry      *)
(* limit or at a tool's stop has no effect of its own and is left out.     *)
(* The `how` of an invocation's end that controls the turn: "suspended"    *)
(* parks it, "terminated" asks to end it with its batch, "stopped" is an   *)
(* infrastructure failure whose recovery action is to stop.                *)
(***************************************************************************)
EXTENDS Batches, FiniteSets

CONSTANTS
    Calls,         \* the tool calls of the first completed answer, in order
    Gated,         \* those that ask for an approval
    Steers,        \* the steers the user sends during the turn
    TurnControls,  \* the controls of the turn that a tool's result may carry
    ModelLimit,    \* bound: the model calls a turn can reach
    FailureLimit   \* DEFAULT_MAX_CONSECUTIVE_MODEL_FAILURES

Tools == {Calls[i] : i \in DOMAIN Calls}

ASSUME TurnAssumption ==
    /\ Gated \subseteq Tools
    /\ TurnControls \subseteq {"suspended", "terminated", "stopped"}
    /\ Calls \in Seq(Tools)
    /\ \A i, j \in DOMAIN Calls : i # j => Calls[i] # Calls[j]
    /\ ModelLimit \in Nat \ {0} /\ FailureLimit \in Nat \ {0}

Ev(kind, of, how) == [kind |-> kind, of |-> of, how |-> how, upTo |-> 0]

Model(n) == <<"model", n>>
Call(c) == <<"call", c>>
Form(c) == <<"form", c>>
Prep(s) == <<"prep", s>>

Effects ==
    {Model(n) : n \in 1 .. ModelLimit} \cup {Call(c) : c \in Tools}
        \cup {Form(c) : c \in Gated} \cup {Prep(s) : s \in Steers}

---------------------------------------------------------------------------
(* The fold.                                                               *)

At(L, kinds) == {i \in DOMAIN L : L[i].kind \in kinds}

Logged(L, kind) == {L[i].of : i \in At(L, {kind})}

LastAt(L, kinds) ==
    IF At(L, kinds) = {} THEN 0
    ELSE CHOOSE i \in At(L, kinds) : \A j \in At(L, kinds) : j <= i

Open(L) == At(L, {"turn.closed"}) = {}

ModelCallCount(L) == Cardinality(At(L, {"message.started"}))

\* The model call in flight, as a set of at most one: a second start replaces
\* it, and a terminal of an older attempt is ignored.
InFlight(L) ==
    LET start == LastAt(L, {"message.started"})
    IN {n \in {L[start].of} :
          ~\E i \in At(L, {"message.terminal", "turn.closed"}) :
              i > start /\ (L[i].kind = "message.terminal" => L[i].of = n)}

PendingInvocations(L) ==
    Logged(L, "invocation.started") \ Logged(L, "invocation.terminal")

PendingApprovals(L) ==
    Logged(L, "approval.requested") \ Logged(L, "approval.resolved")

PendingPreparations(L) ==
    Logged(L, "received")
        \ (Logged(L, "artifacts.ready") \cup Logged(L, "artifacts.failed"))

Granted(L) ==
    {L[i].of : i \in {j \in At(L, {"approval.resolved"}) : L[j].how = "granted"}}

\* Every message.started takes the steers before it into its context.
SteeringQueue(L) ==
    {s \in Logged(L, "received") \ Logged(L, "artifacts.failed") :
        \E i \in At(L, {"received"}) :
            L[i].of = s /\ i > LastAt(L, {"message.started"})}

\* The fold applies the i-th event as the end of the model call in flight, or
\* as an assistant message that no call in flight shadows.
Applies(L, i) ==
    LET before == InFlight(SubSeq(L, 1, i - 1))
    IN before = (IF L[i].kind = "diagnostic" THEN {} ELSE {L[i].of})

Answers(L) ==
    {i \in At(L, {"message.terminal", "diagnostic"}) :
        Applies(L, i) /\ L[i].how = "completed"}

\* consecutiveModelFailureCount.
FailureCount(L) ==
    Cardinality({i \in At(L, {"message.terminal"}) :
                    /\ L[i].how # "completed" /\ Applies(L, i)
                    /\ \A j \in Answers(L) : j < i})

\* waitingCount > 0: the turn was parked at least once.
HasWaited(L) == At(L, {"turn.waiting"}) # {}

\* waitingAtSeq is set: no model call started since the turn was parked.
Parked(L) == LastAt(L, {"turn.waiting"}) > LastAt(L, {"message.started"})

\* The last session entry is a tool result, newer than the parking of the turn.
EndsInToolResult(L) ==
    LET last == LastAt(L, {"invocation.terminal"})
    IN /\ last > 0
       /\ Parked(L) => last > LastAt(L, {"turn.waiting"})
       /\ \A i \in Answers(L) : i < last
       /\ \A i \in At(L, {"received"}) :
             i < last \/ L[i].of \in Logged(L, "artifacts.failed")

\* The tool calls an answer carries: the first completed answer has them all.
CallsOf(L, n) ==
    LET completed == {i \in At(L, {"message.terminal"}) : L[i].how = "completed"}
        first == CHOOSE i \in completed : \A j \in completed : i <= j
    IN IF completed # {} /\ L[first].of = n THEN Calls ELSE <<>>

\* derivePendingEffects; preparations are derived one at a time.
Derived(L) ==
    {Model(n) : n \in InFlight(L)}
        \cup {Call(c) : c \in {t \in PendingInvocations(L) :
                                  t \in Gated => t \in Granted(L)}}
        \cup {Form(c) : c \in PendingApprovals(L)}
        \cup {Prep(L[i].of) :
                i \in {j \in At(L, {"received"}) :
                         /\ L[j].of \in PendingPreparations(L)
                         /\ \A k \in At(L, {"received"}) :
                               k < j => L[k].of \notin PendingPreparations(L)}}

---------------------------------------------------------------------------
(* The outputs of step: the events to append and the effects to insert.    *)

Output(append, effects) == [append |-> append, effects |-> effects]
Nothing == Output(<<>>, {})

CloseTurn(reason) == Output(<<Ev("turn.closed", 0, reason)>>, {})

\* Mutant: a pending invocation does not hold the next model call back.
GuardOnModel(L) == PendingPreparations(L) = {} /\ InFlight(L) = {}

WakeGuard(L) ==
    PendingPreparations(L) = {} /\ InFlight(L) = {} /\ PendingInvocations(L) = {}

Request(n, upTo) ==
    Output(<<[Ev("message.started", n, "request") EXCEPT !.upTo = upTo]>>,
           {Model(n)})

\* Mutant: the context boundary of a request counts the request itself.
NextModelCallPastItself(L) ==
    IF PendingPreparations(L) # {} THEN Nothing
    ELSE IF FailureCount(L) >= FailureLimit
    THEN CloseTurn("model_retry_limit_exceeded")
    ELSE Request(ModelCallCount(L) + 1, Len(L) + 1)

NextModelCall(L) ==
    IF PendingPreparations(L) # {} THEN Nothing
    ELSE IF FailureCount(L) >= FailureLimit
    THEN CloseTurn("model_retry_limit_exceeded")
    ELSE Request(ModelCallCount(L) + 1, Len(L))

\* expandToolCalls under the approval gate.
ExpandToolCalls(todo) ==
    LET intentions ==
            [k \in 1 .. 2 * Len(todo) |->
                IF k % 2 = 1 THEN Ev("invocation.started", todo[(k + 1) \div 2], "tool")
                ELSE Ev("approval.requested", todo[k \div 2], "tool")]
    IN Output(Kept(intentions, {k \in DOMAIN intentions :
                                  k % 2 = 0 => intentions[k].of \in Gated}),
              {Call(todo[i]) : i \in {j \in DOMAIN todo : todo[j] \notin Gated}})

\* Mutant: an answer without tool calls closes the turn over a queued steer.
AfterAnswerAtOnce(L, todo) ==
    IF todo # <<>> THEN ExpandToolCalls(todo) ELSE CloseTurn("completed")

AfterAnswer(L, todo) ==
    IF todo # <<>> THEN ExpandToolCalls(todo)
    ELSE IF SteeringQueue(L) # {} THEN NextModelCall(L)
    ELSE CloseTurn("completed")

\* What the last of a batch of invocations leads to, by the control it carries.
ParkTurn(L) ==
    Output(<<Ev("turn.waiting", Cardinality(At(L, {"turn.waiting"})), "suspended")>>,
           {})

\* The ends of the turn's invocations so far.
InvocationEnds(L) == {L[i].how : i \in At(L, {"invocation.terminal"})}

AfterBatch(L, how) ==
    CASE how = "suspended" -> ParkTurn(L)
      [] how = "terminated" /\ InvocationEnds(L) = {"terminated"} -> CloseTurn("tool_terminated")
      [] how # "suspended" /\ "stopped" \in InvocationEnds(L) -> CloseTurn("work_failed")
      [] OTHER -> NextModelCall(L)

AfterInvocation(L, how) ==
    IF InFlight(L) = {} /\ PendingInvocations(L) = {} /\ PendingApprovals(L) = {}
    THEN AfterBatch(L, how) ELSE Nothing

\* eventStep: the cascade of one event, on a fold that has applied it.
EventStep(L, ev) ==
    CASE ~Open(L) -> Nothing
      [] Open(L) /\ ev.kind \in {"message.terminal", "diagnostic"} ->
            CASE ev.how = "completed" ->
                    AfterAnswer(L, IF ev.kind = "diagnostic" THEN <<>>
                                   ELSE CallsOf(L, ev.of))
              [] ev.how = "fatal" -> CloseTurn("work_failed")
              [] OTHER -> IF WakeGuard(L) THEN NextModelCall(L) ELSE Nothing
      [] Open(L) /\ ev.kind = "invocation.terminal" ->
            AfterInvocation(L, ev.how)
      [] Open(L) /\ ev.kind = "approval.resolved" ->
            IF ev.of \notin PendingInvocations(L) THEN Nothing
            ELSE IF ev.how = "granted" THEN Output(<<>>, {Call(ev.of)})
            ELSE Output(<<Ev("invocation.terminal", ev.of, "denied")>>, {})
      [] Open(L) /\ ev.kind = "artifacts.ready" ->
            IF WakeGuard(L) THEN NextModelCall(L) ELSE Nothing
      [] Open(L) /\ ev.kind = "artifacts.failed" ->
            Output(<<Ev("diagnostic", 0, "completed")>>, {})
      [] OTHER -> Nothing

\* The steer command, deduplicated by the id of its message.
Steer(L, s) ==
    IF s \in Logged(L, "received") THEN Nothing
    ELSE Output(<<Ev("received", s, "steer")>>, {})

\* Mutant: the continuation of a wake forgets the end of the orphan.
WithoutOrphans(orphans, next) == next

WithOrphans(orphans, next) == Output(orphans \o next.append, next.effects)

\* The wake command: no executor is running, so a model call still in flight
\* is an orphan.
Wake(L) ==
    LET orphans == IF InFlight(L) = {} THEN <<>>
                   ELSE <<Ev("message.terminal", CHOOSE n \in InFlight(L) : TRUE,
                             "interrupted")>>
        after == L \o orphans
        answered == {i \in Answers(after) : after[i].kind = "message.terminal"}
        lastCalls == IF answered = {} THEN <<>>
                     ELSE LET last == CHOOSE i \in answered :
                                          \A j \in answered : j <= i
                          IN CallsOf(after, after[last].of)
        unprocessed ==
            Kept(lastCalls,
                 {i \in DOMAIN lastCalls :
                    lastCalls[i] \notin Logged(after, "invocation.started")})
        next == IF unprocessed # <<>> THEN ExpandToolCalls(unprocessed)
                ELSE IF /\ WakeGuard(after)
                        /\ \/ SteeringQueue(after) # {}
                           \/ EndsInToolResult(after)
                           \/ orphans # <<>>
                THEN NextModelCall(after)
                ELSE Nothing
    IN IF Open(after) THEN WithOrphans(orphans, next)
       ELSE Output(orphans, {})

\* effectFailedStep: an effect whose retry budget is exhausted.
EffectFailed(L, e) ==
    CASE e[1] = "prep" ->
            IF e[2] \in PendingPreparations(L)
            THEN Output(<<Ev("artifacts.failed", e[2], "failed")>>, {})
            ELSE Nothing
      [] e[1] = "call" ->
            IF e[2] \in PendingInvocations(L)
            THEN Output(<<Ev("invocation.terminal", e[2], "failed")>>, {})
            ELSE Nothing
      [] e[1] = "form" ->
            IF e[2] \in PendingApprovals(L)
            THEN Output(<<Ev("approval.resolved", e[2], "denied")>>, {})
            ELSE Nothing
      [] OTHER -> Nothing

\* outcomeEvents: the terminal event of an effect's outcome.
OutcomeEvents(e, how) ==
    LET kind == CASE e[1] = "model" -> "message.terminal"
                  [] e[1] = "call" -> "invocation.terminal"
                  [] e[1] = "form" -> "approval.resolved"
                  [] e[1] = "prep" -> "artifacts.ready"
    IN <<Ev(kind, e[2], how)>>

\* How an effect may end.
Outcomes(e) ==
    CASE e[1] = "model" -> {"completed", "failed", "fatal"}
      [] e[1] = "call" -> {"completed", "failed"} \cup TurnControls
      [] e[1] = "form" -> {"granted", "denied"}
      [] e[1] = "prep" -> {"ready"}

\* strandedOpenTurnCleanupItems and the close of the turn.
StrandedFailure(L) ==
    LET Items(S, kind, how) ==
            CHOOSE seq \in [1 .. Cardinality(S) -> {Ev(kind, c, how) : c \in S}] :
                {seq[i].of : i \in DOMAIN seq} = S
    IN Items(PendingInvocations(L), "invocation.terminal", "abandoned")
           \o Items(PendingApprovals(L), "approval.resolved", "denied")
           \o <<Ev("turn.closed", 0, "stranded")>>

=============================================================================
