----------------------------- MODULE ChannelCalls -----------------------------
(***************************************************************************)
(* Method calls between the participants of a channel: calls.ts of         *)
(* src/workers/pubsub-channel, and its entry points in channel-do.ts.      *)
(*                                                                         *)
(* The log is the authority: a call is pending while its start has no      *)
(* terminal.  Both are appended idempotent-by-id, so a call has one of     *)
(* each at most.  The channel caches pending calls in a table, which       *)
(* drives dispatch and deadlines, and fences providers by claims.          *)
(*                                                                         *)
(* A request runs alone until it awaits the log; a read is answered with   *)
(* the log as it was at some moment between request and answer, and        *)
(* answers keep no order.  Log and tables survive a crash.                 *)
(*                                                                         *)
(* All calls have one target.  By its route the channel invokes it, or it  *)
(* takes its calls from the mailbox and claims them.  Progress, the sweep  *)
(* on demand and settleMissingCall, for a start that the log has lost, are *)
(* left out.                                                               *)
(***************************************************************************)
EXTENDS Integers, Sequences, FiniteSets

CONSTANTS
  Calls,          \* transport call ids
  Timed,          \* the calls that have a deadline
  Providers,      \* generations of a mailbox target's process
  Requests,       \* slots for the requests served at a time
  MaxClaims,      \* bound: claims of a call in a row
  MaxDisturbances \* bound: crashes, calls repeated unasked, moves of the target

ASSUME CallsAssumption ==
  /\ Timed \subseteq Calls
  /\ {MaxClaims, MaxDisturbances} \subseteq Nat

VARIABLES
  log,            \* the starts and terminals in the channel log
  rows,           \* pending_calls
  claim,          \* provider_call_claims: generation and holder
  request,        \* what each slot is serving
  running,        \* direct invocations the activation awaits
  working,        \* claims mailbox providers hold
  caller,         \* where the caller of each call is
  present,        \* the target is in the channel
  route,          \* its invocation route, kept when it leaves
  rotted,         \* history: calls whose target was told they timed out
  disturbances    \* counter of those

tables == <<rows, claim>>
target == <<present, route>>
vars == <<log, tables, request, running, working, caller, target, rotted, disturbances>>

-----------------------------------------------------------------------------
Start(c) == [type |-> "started", call |-> c, by |-> "call"]
Terminal(c, by) == [type |-> "terminal", call |-> c, by |-> by]

\* Whether the first n events hold the start, or a terminal, of call c.
Started(c, n) == \E i \in 1..n : log[i].type = "started" /\ log[i].call = c
Ended(c, n) == \E i \in 1..n : log[i].type = "terminal" /\ log[i].call = c

StartedNow(c) == Started(c, Len(log))
EndedNow(c) == Ended(c, Len(log))

\* derivePendingCalls
Pending(n) == {c \in Calls : Started(c, n) /\ ~Ended(c, n)}

NoClaim == [generation |-> 0, holder |-> 0]

Idle == [op |-> "idle"]

\* todo holds the calls a request turns to when it is done with this one.
New(op, c, step) ==
  [op |-> op, call |-> c, step |-> step, since |-> 0, todo |-> {}]

\* The request awaits a read of the log.
Read(d, step) == [d EXCEPT !.step = step, !.since = Len(log)]

Disturb == disturbances < MaxDisturbances /\ disturbances' = disturbances + 1

Serve(q, d) == request[q] = Idle /\ request' = [request EXCEPT ![q] = d]
Goto(q, d) == request' = [request EXCEPT ![q] = d]

At(q, step) == request[q] # Idle /\ request[q].step = step

\* A request that is done with its call.
End(q) ==
  LET d == request[q]
      c == CHOOSE x \in d.todo : TRUE
  IN Goto(q, IF d.todo = {} THEN Idle
             ELSE [New(d.op, c, "barrier") EXCEPT !.todo = d.todo \ {c}])

\* Mutant: the call's claim outlives its row.
DeleteRowOnly(S) == rows' = rows \ S /\ UNCHANGED claim

\* deleteRow
Delete(S) ==
  /\ rows' = rows \ S
  /\ claim' = [c \in Calls |-> IF c \in S THEN NoClaim ELSE claim[c]]

Returns(c, state) == caller' = [caller EXCEPT ![c] = state]

-----------------------------------------------------------------------------
(* callMethod *)

\* A caller whose request failed repeats it; it may repeat one that did not.
CallMethod(q, c) ==
  /\ \/ caller[c] \in {"new", "failed"} /\ UNCHANGED disturbances
     \/ caller[c] = "parked" /\ Disturb
  /\ Serve(q, Read(New("call", c, "lookup"), "lookup"))
  /\ Returns(c, "calling")
  /\ UNCHANGED <<log, tables, running, working, target, rotted>>

\* The terminal was looked up: one that is there ends the call's row, too.
Found(q, c) ==
  /\ Delete({c})
  /\ End(q)
  /\ Returns(c, "parked")
  /\ UNCHANGED running

LookupReply(q) ==
  LET d == request[q] IN
  /\ At(q, "lookup")
  /\ \E n \in d.since..Len(log) :
       IF Ended(d.call, n) THEN Found(q, d.call)
       ELSE Goto(q, [d EXCEPT !.step = "start"]) /\ UNCHANGED <<tables, caller, running>>
  /\ UNCHANGED <<log, working, target, rotted, disturbances>>

AppendStart(q) ==
  LET c == request[q].call IN
  /\ At(q, "start")
  /\ log' = IF StartedNow(c) THEN log ELSE Append(log, Start(c))
  /\ Goto(q, [request[q] EXCEPT !.step = "started"])
  /\ UNCHANGED <<tables, running, working, caller, target, rotted, disturbances>>

StartReply(q) ==
  /\ At(q, "started")
  /\ Goto(q, Read(request[q], "lookupAgain"))
  /\ UNCHANGED <<log, tables, running, working, caller, target, rotted, disturbances>>

\* Mutant: a takeover keeps the generation.
ClaimedAgain(c, holder) ==
  [generation |-> IF claim[c].generation = 0 THEN 1 ELSE claim[c].generation,
   holder |-> holder]

\* claimProviderCall: a new holder supersedes the former one.
Claimed(c, holder) ==
  IF holder # 0 /\ claim[c].holder = holder THEN claim[c]
  ELSE [generation |-> claim[c].generation + 1, holder |-> holder]

\* deliverDoMethodCall for the calls of S: each dispatch claims the call anew.
Deliver(S) ==
  /\ claim' = [c \in Calls |-> IF c \in S THEN Claimed(c, 0) ELSE claim[c]]
  /\ running' = running \cup {[call |-> c, generation |-> claim'[c].generation] : c \in S}

\* insertRow, then dispatchCallStart: a call to an absent target is settled.
LookupAgainReply(q) ==
  LET d == request[q]
      c == d.call
  IN
  /\ At(q, "lookupAgain")
  /\ \E n \in d.since..Len(log) :
       IF Ended(c, n) THEN Found(q, c)
       ELSE /\ rows' = rows \cup {c}
            /\ IF ~present
               THEN /\ Goto(q, New("undeliverable", c, "barrier"))
                    /\ UNCHANGED <<claim, running, caller>>
               ELSE /\ Deliver(IF route = "direct" THEN {c} ELSE {})
                    /\ End(q)
                    /\ Returns(c, "parked")
  /\ UNCHANGED <<log, working, target, rotted, disturbances>>

-----------------------------------------------------------------------------
(* settleCall, and what leads up to it *)

\* startInFlight: a start of the call is being journalled.
Journalling(c) ==
  \E q \in Requests : request[q] # Idle /\ request[q].op = "call" /\ request[q].call = c

\* Mutant: a settlement does not wait for the start it may overtake.
PassAtOnce(q) ==
  LET d == request[q] IN
  /\ At(q, "barrier")
  /\ Goto(q, IF d.call \in rows THEN Read(d, "check") ELSE Read(d, "ended"))
  /\ UNCHANGED <<log, tables, running, working, caller, target, rotted, disturbances>>

\* A settlement waits for a start, then looks for the call's row ...
PassBarrier(q) ==
  LET d == request[q] IN
  /\ At(q, "barrier")
  /\ ~Journalling(d.call)
  /\ Goto(q, IF d.call \in rows THEN Read(d, "check") ELSE Read(d, "ended"))
  /\ UNCHANGED <<log, tables, running, working, caller, target, rotted, disturbances>>

\* What follows a settlement: a caller hears of its cancellation, the target of
\* a timeout, both when the row was found, whatever ended the call.
Finish(q, settled) ==
  LET d == request[q] IN
  /\ End(q)
  /\ caller' = CASE d.op = "cancel" -> [caller EXCEPT ![d.call] = "cancelled"]
                 [] d.op = "undeliverable" -> [caller EXCEPT ![d.call] = "parked"]
                 [] OTHER -> caller
  /\ rotted' = IF settled /\ d.op = "timeout" THEN rotted \cup {d.call} ELSE rotted

\* Mutant: a call without a row counts as settled.
EndedWithoutRow(q) ==
  /\ At(q, "ended")
  /\ Finish(q, FALSE)
  /\ UNCHANGED <<log, tables, running, working, target, disturbances>>

\* ... in the log ...
EndedReply(q) ==
  LET d == request[q] IN
  /\ At(q, "ended")
  /\ \E n \in d.since..Len(log) :
       IF Ended(d.call, n) THEN Finish(q, FALSE)
       ELSE Goto(q, Read(d, "page")) /\ UNCHANGED <<caller, rotted>>
  /\ UNCHANGED <<log, tables, running, working, target, disturbances>>

\* Mutant: a reconciliation deletes rows and restores none.
PageDeletes(q) ==
  LET d == request[q] IN
  /\ At(q, "page")
  /\ \E n \in d.since..Len(log) :
       /\ rows' = rows \cap Pending(n)
       /\ claim' = [c \in Calls |-> IF c \in rows' THEN claim[c] ELSE NoClaim]
       /\ IF d.call \in Pending(n)
          THEN Goto(q, [d EXCEPT !.step = "barrier"]) /\ UNCHANGED <<caller, rotted>>
          ELSE Finish(q, FALSE)
  /\ UNCHANGED <<log, running, working, target, disturbances>>

\* ... and in the table as reconcilePendingCalls makes it: the calls pending in
\* the events that were read, with the claims of those.  Without a row nothing
\* is settled: another look for a terminal decides the answer only.
PageReply(q) ==
  LET d == request[q] IN
  /\ At(q, "page")
  /\ \E n \in d.since..Len(log) :
       /\ rows' = Pending(n)
       /\ claim' = [c \in Calls |-> IF c \in Pending(n) THEN claim[c] ELSE NoClaim]
       /\ IF d.call \in Pending(n)
          THEN /\ Goto(q, IF d.op \in {"submit", "cancel", "timeout"}
                          THEN [d EXCEPT !.step = "barrier"] ELSE Read(d, "check"))
               /\ UNCHANGED <<caller, rotted>>
          ELSE Finish(q, FALSE)
  /\ UNCHANGED <<log, running, working, target, disturbances>>

\* ensureMethodRoot and the look for a terminal: one that is there is kept.
CheckReply(q) ==
  LET d == request[q] IN
  /\ At(q, "check")
  /\ \E n \in d.since..Len(log) :
       Goto(q, [d EXCEPT !.step = IF Ended(d.call, n) THEN "consume" ELSE "append"])
  /\ UNCHANGED <<log, tables, running, working, caller, target, rotted, disturbances>>

AppendTerminal(q) ==
  LET d == request[q] IN
  /\ At(q, "append")
  /\ log' = IF EndedNow(d.call) THEN log ELSE Append(log, Terminal(d.call, d.op))
  /\ Goto(q, [d EXCEPT !.step = "consume"])
  /\ UNCHANGED <<tables, running, working, caller, target, rotted, disturbances>>

Consume(q) ==
  /\ At(q, "consume")
  /\ Delete({request[q].call})
  /\ Finish(q, TRUE)
  /\ UNCHANGED <<log, running, working, target, disturbances>>

-----------------------------------------------------------------------------
(* Who settles *)

Settle(q, op, c) ==
  /\ Serve(q, New(op, c, "barrier"))
  /\ UNCHANGED <<log, tables, rotted, disturbances>>

\* A direct invocation returns: its result counts while its claim is current.
DirectResult(q, r) ==
  /\ IF claim[r.call].generation = r.generation THEN Settle(q, "result", r.call)
     ELSE UNCHANGED <<log, tables, request, rotted, disturbances>>
  /\ running' = running \ {r}
  /\ UNCHANGED <<working, caller, target>>

\* claimMethodCall by a process of the target, which has received the start.
ClaimMethodCall(c, i) ==
  /\ route = "mailbox" /\ present
  /\ c \in rows /\ claim[c].generation < MaxClaims
  /\ claim' = [claim EXCEPT ![c] = Claimed(c, i)]
  /\ working' = working \cup {[call |-> c, generation |-> claim'[c].generation, holder |-> i]}
  /\ working' # working
  /\ UNCHANGED <<log, rows, request, running, caller, target, rotted, disturbances>>

\* submitMethodResult drops what a superseded claim has produced, as long as
\* the target is on the route that claims.
SubmitMethodResult(q, w) ==
  /\ IF route = "mailbox" /\ claim[w.call].generation # w.generation
     THEN UNCHANGED <<log, tables, request, rotted, disturbances>>
     ELSE Settle(q, "submit", w.call)
  /\ working' = working \ {w}
  /\ UNCHANGED <<running, caller, target>>

\* The caller gives up.  It does not call again unless that fails.
CancelMethodCall(q, c) ==
  /\ caller[c] \in {"calling", "parked", "failed"}
  /\ ~\E x \in Requests : request[x] # Idle /\ request[x].op = "cancel"
  /\ Settle(q, "cancel", c)
  /\ Returns(c, IF caller[c] = "calling" THEN "calling" ELSE "cancelling")
  /\ UNCHANGED <<running, working, target>>

\* The deadline's maintenance item, one at a time.
TimeoutMethodCall(q, c) ==
  /\ c \in rows \cap Timed
  /\ ~\E x \in Requests : request[x] # Idle /\ request[x].op = "timeout"
  /\ Settle(q, "timeout", c)
  /\ UNCHANGED <<running, working, caller, target>>

\* leave, then failPendingCallsTargeting.  A leave that is repeated after a
\* crash finds the target gone and settles nothing.
Leave(q) ==
  /\ present /\ present' = FALSE
  /\ Disturb
  /\ IF rows = {} THEN UNCHANGED request
     ELSE LET c == CHOOSE x \in rows : TRUE IN
          Serve(q, [New("abandon", c, "barrier") EXCEPT !.todo = rows \ {c}])
  /\ UNCHANGED <<route, log, tables, running, working, caller, rotted>>

\* join, then redeliverPendingCallsTo, which asks the log for terminals.
Join(q) ==
  /\ ~present /\ present' = TRUE
  /\ Disturb
  /\ route' \in {"direct", "mailbox"}
  /\ IF rows = {} THEN UNCHANGED request
     ELSE Serve(q, Read([New("join", CHOOSE x \in rows : TRUE, "redeliver") EXCEPT !.todo = rows],
                        "redeliver"))
  /\ UNCHANGED <<log, tables, running, working, caller, rotted>>

RedeliverReply(q) ==
  LET d == request[q] IN
  /\ At(q, "redeliver")
  /\ \E n \in d.since..Len(log) :
       LET over == {c \in d.todo : Ended(c, n)}
           sent == IF route = "direct" THEN (d.todo \ over) \cap rows ELSE {}
       IN
       /\ rows' = rows \ over
       /\ claim' = [c \in Calls |-> CASE c \in over -> NoClaim
                                      [] c \in sent -> Claimed(c, 0)
                                      [] OTHER -> claim[c]]
       /\ running' = running \cup {[call |-> c, generation |-> claim'[c].generation] : c \in sent}
  /\ Goto(q, Idle)
  /\ UNCHANGED <<log, working, caller, target, rotted, disturbances>>

\* The activation is lost with all it was doing, and the requests fail.
Crash ==
  /\ Disturb
  /\ request' = [q \in Requests |-> Idle]
  /\ running' = {}
  /\ caller' = [c \in Calls |->
                  IF caller[c] = "cancelling" \/ \E q \in Requests :
                       request[q] # Idle /\ request[q].call = c
                       /\ request[q].op \in {"call", "undeliverable"}
                  THEN "failed" ELSE caller[c]]
  /\ UNCHANGED <<log, tables, working, target, rotted>>

-----------------------------------------------------------------------------
Init ==
  /\ log = <<>>
  /\ rows = {}
  /\ claim = [c \in Calls |-> NoClaim]
  /\ request = [q \in Requests |-> Idle]
  /\ running = {} /\ working = {}
  /\ caller = [c \in Calls |-> "new"]
  /\ present = TRUE /\ route = "mailbox"
  /\ rotted = {}
  /\ disturbances = 0

Continue(q) ==
  \/ LookupReply(q) \/ AppendStart(q) \/ StartReply(q) \/ LookupAgainReply(q)
  \/ PassBarrier(q) \/ EndedReply(q) \/ PageReply(q)
  \/ CheckReply(q) \/ AppendTerminal(q) \/ Consume(q) \/ RedeliverReply(q)

Next ==
  \/ \E q \in Requests :
       \/ Continue(q) \/ Leave(q) \/ Join(q)
       \/ \E c \in Calls : CallMethod(q, c) \/ CancelMethodCall(q, c) \/ TimeoutMethodCall(q, c)
       \/ \E r \in running : DirectResult(q, r)
       \/ \E w \in working : SubmitMethodResult(q, w)
  \/ \E c \in Calls, i \in Providers : ClaimMethodCall(c, i)
  \/ Crash

Spec == Init /\ [][Next]_vars

\* The log answers, deadlines fire, and a caller whose request failed repeats
\* it.  Targets need not answer.
Fairness ==
  /\ \A q \in Requests : WF_vars(Continue(q))
  /\ \A c \in Calls : /\ WF_vars(\E q \in Requests : TimeoutMethodCall(q, c))
                      /\ WF_vars(caller[c] = "failed" /\ \E q \in Requests : CallMethod(q, c))

FairSpec == Spec /\ Fairness

-----------------------------------------------------------------------------
(* Properties *)

\* A claim belongs to a row (deleteRow and the reconciliation drop both), and a
\* request never awaits a read of events that do not exist.
TypeOK ==
  /\ rows \subseteq Calls
  /\ \A c \in Calls : claim[c].generation > 0 => c \in rows
  /\ \A q \in Requests : request[q] # Idle => request[q].since \in 0..Len(log)

\* A call that is pending in the log has its row, without which it meets no
\* deadline and is not delivered again, or its caller is still at it.  Stale
\* reads, settlements that race a start and crashes threaten it.
NoCallIsForgotten ==
  \A c \in Calls :
    StartedNow(c) /\ ~EndedNow(c) =>
      c \in rows \/ caller[c] \in {"calling", "failed", "cancelling"}

\* Two processes of a target never hold claims of one generation of a pending
\* call (claimProviderCall), although rows and claims are deleted and derived
\* again: at most one of them gets its result accepted.
FenceHolds ==
  \A v, w \in working :
    v.call = w.call /\ v.generation = w.generation /\ ~EndedNow(w.call) => v = w

Settlements == {"result", "submit", "cancel", "timeout", "abandon", "undeliverable"}

\* A settlement that is done, whoever asked for it, leaves no call that has
\* started and not ended: settleCall reconciles a missing row before it gives up.
SettlementsEndCalls ==
  [][\A q \in Requests :
       LET d == request[q] IN
       /\ d # Idle /\ d.op \in Settlements
       /\ request'[q] # d
       /\ (request'[q] = Idle \/ request'[q].call # d.call)
       /\ disturbances' = disturbances
       => EndedNow(d.call) \/ ~StartedNow(d.call)]_vars

\* A call with a deadline ends, and its row goes for good, whether its target
\* answers, leaves or never comes back and whatever crashes.
CallsEnd == \A c \in Timed : StartedNow(c) ~> [](EndedNow(c) /\ c \notin rows)

\* The target is told that a call timed out only if it did not answer
\* (timeoutMethodCall).  A cancellation that finds the row reports the call as
\* settled whatever terminal was there.
TimeoutSparesAnswered ==
  \A c \in rotted, i \in 1..Len(log) :
    log[i].type = "terminal" /\ log[i].call = c => log[i].by \notin {"result", "submit"}
=============================================================================
