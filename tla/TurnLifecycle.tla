--------------------------- MODULE TurnLifecycle ---------------------------
(***************************************************************************)
(* What the durable log promises about one agent turn, whatever the        *)
(* driver, its crashes and its recoveries do: an intention is logged once  *)
(* and gets one outcome, a model call is never in flight beside other work *)
(* of its turn, and the turn closes on nothing open.                       *)
(***************************************************************************)
EXTENDS Naturals

CONSTANT Others      \* the tool calls and the approvals of the turn

VARIABLES
    calls,       \* how many model calls are logged
    answered,    \* how many of them have their outcome
    work,        \* the tool calls and approvals without an outcome
    done,        \* those with one
    open         \* FALSE once the turn is closed

vars == <<calls, answered, work, done, open>>

Init ==
    calls = 1 /\ answered = 0 /\ work = {} /\ done = {} /\ open = TRUE

\* One append may log outcomes of what was pending and begin new work.
Append(outcomes, new) ==
    /\ outcomes \subseteq work
    /\ new \subseteq Others \ (work \cup done)
    /\ work' = (work \ outcomes) \cup new
    /\ done' = done \cup outcomes
    /\ answered' \in answered .. calls
    /\ new # {} => open /\ answered' = calls

Idle == answered' = calls /\ work' = {}

BeginModel == open /\ Idle /\ calls' = calls + 1 /\ UNCHANGED open

Close == open /\ Idle /\ open' = FALSE /\ UNCHANGED calls

Next ==
    \E outcomes \in SUBSET work, new \in SUBSET (Others \ (work \cup done)) :
        /\ Append(outcomes, new)
        /\ BeginModel \/ Close \/ UNCHANGED <<calls, open>>

Spec == Init /\ [][Next]_vars

=============================================================================
