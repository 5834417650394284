------------------------------- MODULE Missions -------------------------------
(***************************************************************************)
(* One mission of MissionsDO.ts: a scheduled agent run in a fresh          *)
(* conversation, its occurrence ledger, and the requests and the alarm     *)
(* that work on both.                                                      *)
(*                                                                         *)
(* A thread is one request, or the alarm, between its awaits.  The Durable *)
(* Object runs one thread until it awaits: a thread whose pc is in Local   *)
(* is the one that runs, and nothing else moves until it awaits or ends.   *)
(* A thread at any other pc awaits an answer.                              *)
(***************************************************************************)
EXTENDS Naturals, FiniteSets

CONSTANTS
  Charters,      \* what a revision executes; its digest names the subject
  Scheduled,     \* those of them with a schedule; the others run on demand
  First,         \* the one the mission is launched with
  Keys,          \* command identities of manual runs
  Requests,      \* slots: requests of the owner and of executors in flight at once
  MaxTime,       \* bound: the schedule's instants
  MaxRuns,       \* trigger.maxRuns
  Until,         \* trigger.untilAt; Never when the trigger has none
  MaxRevisions,  \* bound: revisions of the mission
  MaxDisturbances \* bound: calls that fail and restarts of the object

ASSUME MissionsAssumption ==
  /\ First \in Charters
  /\ Keys # {}
  /\ MaxTime \in Nat
  /\ MaxRevisions \in Nat \ {0}

VARIABLES
  mission,       \* the row of missions
  run,           \* mission_runs, by run id
  effects,       \* mission_effects
  wake,          \* the alarm that is set, if any
  thread,
  clock,
  session,       \* the host's authority session of each run's admission
  executor,      \* what the executor of each run retains of it
  retired,       \* the subjects whose authority the host was told to retire
  spent          \* failures and restarts so far

host == <<session, executor, retired>>
ledger == <<mission, run, effects>>
vars == <<mission, run, effects, wake, thread, clock, host, spent>>

Never == MaxTime + 2
Instants == 1..(MaxTime + 1) \cup {Never}
\* What an executor reports.  A response ends the mission; any other outcome ends
\* the run alone.
Verdicts == {"succeeded", "responded"}
RunIds == [subject : Charters, key : Keys \cup 1..(MaxTime + 1)]
Phases == {"context-preparing", "executor-preparing", "execution-admitting",
           "dispatching", "executing", "terminal"}
Outcomes == Verdicts \cup {"none", "error", "skipped", "interrupted"}
Effects == [kind : {"retire-authority"}, of : Charters]
             \cup [kind : {"ack-executor-terminal"}, of : RunIds]
Threads == Requests \cup {"alarm"}
Local == {"advance", "caught", "terminal", "return", "due"}
Awaits == {"compile", "acquire", "hash", "context", "target", "admit", "readmit",
           "dispatch", "describe", "close", "effect"}

Live == {r \in DOMAIN run : run[r].phase # "terminal"}
Executing == {r \in DOMAIN run : run[r].phase = "executing"}

\* A mission that runs on demand has neither bound.
CompletedBefore(m, now) ==
  m.charter \in Scheduled /\ (m.count >= MaxRuns \/ now >= Until)

FirstInstant(c, now) == IF c \in Scheduled THEN now ELSE Never
InitialRun(c, now) == IF c \in Scheduled THEN now + 1 ELSE Never

NewMission ==
  [state |-> "active", revision |-> 1, charter |-> First,
   next |-> InitialRun(First, 0), count |-> 0, editing |-> FALSE]

Idle ==
  [op |-> "idle", stage |-> "start", pc |-> "idle",
   run |-> CHOOSE r \in RunIds : TRUE, runs |-> {}, fate |-> "none",
   effects |-> {}, effect |-> CHOOSE e \in Effects : TRUE,
   seen |-> NewMission, now |-> 0, charter |-> First,
   key |-> CHOOSE k \in Keys : TRUE]

\* activeRunRow: a run of the mission that has not ended.
OnlyExecuting == Executing # {}
Occupied == Live # {}

\* A request reads the mission when it starts and may use the copy after awaits.
New(op) == [Idle EXCEPT !.op = op, !.seen = mission, !.now = clock]

At(t, pc) ==
  /\ thread[t].pc = pc
  /\ pc \in Local \/ \A u \in Threads : thread[u].pc \notin Local
Free(t) == At(t, "idle")
Goto(t, new) == thread' = [thread EXCEPT ![t] = new]
To(t, pc) == Goto(t, [thread[t] EXCEPT !.pc = pc])

-----------------------------------------------------------------------------
(* The alarm is set when a request ends well, for the earliest of what is  *)
(* pending; when nothing is, it stays as it was.                           *)

PendingRuns ==
  [work |-> \E r \in DOMAIN run' : run'[r].phase # "terminal",
   at |-> IF mission'.state = "active" THEN mission'.next ELSE Never]
Pending ==
  [work |-> effects' # {} \/ \E r \in DOMAIN run' : run'[r].phase # "terminal",
   at |-> IF mission'.state = "active" THEN mission'.next ELSE Never]
NoWake == [work |-> FALSE, at |-> Never]

Armed == wake' = IF Pending = NoWake THEN wake ELSE Pending

EndWell(t) ==
  /\ IF thread[t].op = "alarm" THEN wake' = Pending ELSE Armed
  /\ Goto(t, Idle)

\* A request that throws sets no alarm; an alarm that throws fires again.
Abort(t) ==
  /\ wake' = [wake EXCEPT !.work = @ \/ thread[t].op = "alarm"]
  /\ Goto(t, Idle)

-----------------------------------------------------------------------------
(* Completion and schedule.                                                *)

Completed(m) ==
  IF m.state \in {"active", "paused"}
  THEN [m EXCEPT !.state = "completed", !.next = Never] ELSE m

\* The instant after now, unless the runs or the time are used up.  The charter that
\* was read decides; the row is written whatever the mission has become.
Advanced(m, charter, now, count) ==
  IF charter \notin Scheduled THEN m
  ELSE [m EXCEPT !.next = IF count >= MaxRuns \/ now + 1 >= Until THEN Never ELSE now + 1]

-----------------------------------------------------------------------------
(* What several threads do.                                                *)

\* closeAdmission asks the host only when the row holds a session.
ClosingExecuting(t, new) ==
  Goto(t, [new EXCEPT !.pc = IF run[new.run].phase = "executing" THEN "close"
                             ELSE "terminal"])
Closing(t, new) ==
  Goto(t, [new EXCEPT !.pc = IF run[new.run].session THEN "close" ELSE "terminal"])

\* reconcileEffects: each effect in turn; then the caller goes on.
Reconcile(t, new, due) ==
  \/ /\ due = {}
     /\ Goto(t, [new EXCEPT !.pc = "return", !.effects = {}, !.effect = Idle.effect])
  \/ \E e \in due :
       Goto(t, [new EXCEPT !.pc = "effect", !.effect = e, !.effects = due \ {e}])

\* The call of advanceRun in each phase.
CallOf(phase) ==
  CASE phase = "context-preparing" -> "context"
    [] phase = "executor-preparing" -> "target"
    [] phase = "execution-admitting" -> "admit"
    [] phase = "dispatching" -> "readmit"
    [] phase = "executing" -> "describe"
    [] phase = "terminal" -> "return"

-----------------------------------------------------------------------------
(* Requests.                                                               *)

RunNow(t, k) ==
  /\ Free(t)
  /\ mission.state = "active"
  /\ Goto(t, [New("runNow") EXCEPT !.pc = "acquire", !.key = k])
  /\ UNCHANGED <<ledger, wake, clock, host, spent>>

Pause(t) ==
  /\ Free(t)
  /\ mission.state = "active"
  /\ mission' = [mission EXCEPT !.state = "paused", !.next = Never]
  /\ UNCHANGED <<run, effects, thread, clock, host, spent>>
  /\ Armed

Resume(t) ==
  /\ Free(t)
  /\ mission.state = "paused"
  /\ mission' = IF CompletedBefore(mission, clock) THEN Completed(mission)
                ELSE [mission EXCEPT !.state = "active",
                                     !.next = InitialRun(mission.charter, clock)]
  /\ UNCHANGED <<run, effects, thread, clock, host, spent>>
  /\ Armed

Interrupted(subject) == {r \in Live : r.subject = subject}

Retire(t) ==
  /\ Free(t)
  /\ mission' = [mission EXCEPT !.state = "retired", !.next = Never]
  /\ effects' = effects \cup {[kind |-> "retire-authority", of |-> mission.charter]}
  /\ Goto(t, [Idle EXCEPT !.op = "retire", !.stage = "interrupt", !.pc = "return",
                           !.runs = Interrupted(mission.charter)])
  /\ UNCHANGED <<run, wake, clock, host, spent>>

\* The old revision's row is recorded once: a second edit of it is refused.
Commit(t, old, c) ==
  /\ UNCHANGED <<run, clock, host, spent>>
  /\ \/ /\ mission.revision # old.revision
        /\ Abort(t)
        /\ UNCHANGED <<mission, effects>>
     \/ /\ mission.revision = old.revision
        /\ mission' = [mission EXCEPT !.state = "active", !.revision = @ + 1,
                                      !.charter = c, !.next = InitialRun(c, clock),
                                      !.editing = TRUE]
        /\ effects' = effects \cup {[kind |-> "retire-authority", of |-> old.charter]}
        /\ Goto(t, [Idle EXCEPT !.op = "edit", !.stage = "interrupt", !.pc = "return",
                             !.runs = Interrupted(old.charter)])
        /\ UNCHANGED wake

\* An edit with a charter compiles its policy first; one that only renames does not.
Edit(t, c) ==
  /\ Free(t)
  /\ mission.state # "retired"
  /\ mission.revision < MaxRevisions
  /\ \/ /\ Goto(t, [New("edit") EXCEPT !.pc = "compile", !.charter = c])
        /\ UNCHANGED <<ledger, wake, clock, host, spent>>
     \/ c = mission.charter /\ Commit(t, mission, c)

Compiled(t) == At(t, "compile") /\ Commit(t, thread[t].seen, thread[t].charter)

\* The retry of an edit that is committed and whose request failed.
Reedit(t) ==
  /\ Free(t)
  /\ mission.editing /\ mission.state # "retired"
  /\ \A u \in Threads : thread[u].op # "edit"
  /\ \E runs \in {Live, Live \ Executing} :
       Goto(t, [Idle EXCEPT !.op = "edit", !.stage = "resume", !.pc = "return",
                            !.runs = runs])
  /\ UNCHANGED <<ledger, wake, clock, host, spent>>

\* Any other request, such as a view of the ledger, sets the alarm too.
Read ==
  /\ \A u \in Threads : thread[u].pc \notin Local
  /\ UNCHANGED <<ledger, thread, clock, host, spent>>
  /\ Armed

AckFirst(t, r) ==
  LET new == [Idle EXCEPT !.op = "finishRun", !.stage = "finish"] IN
  /\ Free(t)
  /\ executor[r] \in Verdicts
  /\ effects' = effects \cup {[kind |-> "ack-executor-terminal", of |-> r]}
  /\ IF r \in Live THEN Closing(t, [new EXCEPT !.run = r, !.fate = executor[r]])
     ELSE Reconcile(t, new, effects')
  /\ UNCHANGED <<mission, run, wake, clock, host, spent>>
FinishRun(t, r) ==
  LET new == [Idle EXCEPT !.op = "finishRun", !.stage = "finish"] IN
  /\ Free(t)
  /\ executor[r] \in Verdicts
  /\ \/ /\ r \notin Live
        /\ effects' = effects \cup {[kind |-> "ack-executor-terminal", of |-> r]}
        /\ Reconcile(t, new, effects')
     \/ /\ r \in Live
        /\ Closing(t, [new EXCEPT !.run = r, !.fate = executor[r]])
        /\ UNCHANGED effects
  /\ UNCHANGED <<mission, run, wake, clock, host, spent>>

\* An alarm for unfinished work fires a minute after its last progress (late), the
\* time that an executing run is left alone for.
Alarm(late) ==
  /\ Free("alarm")
  /\ IF late THEN wake.work ELSE wake.at <= clock
  /\ wake' = NoWake
  /\ Goto("alarm", [Idle EXCEPT !.op = "alarm", !.stage = "resume", !.pc = "return",
                            !.runs = IF late THEN Live ELSE Live \ Executing])
  /\ UNCHANGED <<ledger, clock, host, spent>>

-----------------------------------------------------------------------------
(* startExecution: what was read before the awaits decides.                *)

Authorized(t) ==
  /\ At(t, "acquire") /\ thread[t].op = "edit"
  /\ Reconcile(t, [Idle EXCEPT !.op = "edit", !.stage = "last"], effects)
  /\ UNCHANGED <<ledger, wake, clock, host, spent>>

\* The alarm looks at what is due, with the time it began to look.
Due(t) ==
  /\ At(t, "due")
  /\ UNCHANGED <<ledger, clock, host, spent>>
  /\ IF /\ mission.state = "active"
        /\ mission.next <= clock \/ (mission.charter \in Scheduled /\ Until <= clock)
     THEN /\ Goto(t, [thread[t] EXCEPT !.seen = mission, !.now = clock,
                                       !.pc = "acquire"])
          /\ UNCHANGED wake
     ELSE EndWell(t)

\* The alarm's own refusals: the mission is over, or the instant was missed.
Passed(t) ==
  LET m == thread[t].seen  now == thread[t].now IN
  /\ At(t, "acquire") /\ thread[t].op = "alarm"
  /\ \/ /\ CompletedBefore(m, now)
        /\ mission' = IF Occupied THEN mission ELSE Completed(mission)
     \/ /\ ~CompletedBefore(m, now) /\ m.next <= now
        /\ mission' = Advanced(mission, m.charter, now, m.count)
  /\ UNCHANGED <<run, effects, clock, host, spent>>
  /\ EndWell(t)

Begin(t) ==
  LET m == thread[t].seen IN
  /\ At(t, "acquire") /\ thread[t].op # "edit"
  /\ thread[t].op = "alarm" =>
       ~CompletedBefore(m, thread[t].now) /\ m.next = thread[t].now
  /\ UNCHANGED <<run, effects, clock, host, spent>>
  /\ IF CompletedBefore(m, clock)
     THEN mission' = Completed(mission) /\ Abort(t)
     ELSE /\ Goto(t, [thread[t] EXCEPT !.pc = "hash", !.now = clock,
                        !.run = [subject |-> m.charter,
                                 key |-> IF thread[t].op = "alarm" THEN m.next
                                         ELSE thread[t].key]])
          /\ UNCHANGED <<mission, wake>>

Row(phase, outcome, revision) ==
  [phase |-> phase, outcome |-> outcome, revision |-> revision, session |-> FALSE]
Inserted(r, row) == [i \in DOMAIN run \cup {r} |-> IF i = r THEN row ELSE run[i]]

Occurrence(t) ==
  LET r == thread[t].run  m == thread[t].seen  now == thread[t].now
      scheduled == thread[t].op = "alarm" IN
  /\ At(t, "hash")
  /\ UNCHANGED <<effects, clock, host, spent>>
  /\ \/ /\ r \in DOMAIN run
        /\ UNCHANGED <<mission, run>>
        /\ EndWell(t)
     \/ /\ r \notin DOMAIN run /\ Occupied
        /\ run' = Inserted(r, Row("terminal", "skipped", m.revision))
        /\ mission' = IF scheduled THEN Advanced(mission, m.charter, now, m.count) ELSE mission
        /\ Reconcile(t, [Idle EXCEPT !.op = thread[t].op, !.stage = "admitted"],
                     effects)
        /\ UNCHANGED wake
     \/ /\ r \notin DOMAIN run /\ ~Occupied
        /\ run' = Inserted(r, Row("context-preparing", "none", m.revision))
        /\ LET counted == [mission EXCEPT !.count = m.count + 1] IN
             mission' = IF scheduled THEN Advanced(counted, m.charter, now, m.count + 1)
                        ELSE counted
        /\ Goto(t, [Idle EXCEPT !.op = thread[t].op, !.stage = "admitted",
                                !.pc = "advance", !.run = r])
        /\ UNCHANGED wake

-----------------------------------------------------------------------------
(* advanceRun.                                                             *)

\* The run's revision is no longer the mission's, or nothing may run any more.
NotActive(r) == r.subject # mission.charter \/ mission.state # "active"
Replaced(r) == r.subject # mission.charter \/ mission.state = "retired"

AdvanceRun(t) ==
  LET r == thread[t].run IN
  /\ At(t, "advance")
  /\ CASE run[r].phase = "terminal" -> To(t, "return")
       [] run[r].phase # "terminal" /\ Replaced(r) ->
            Closing(t, [thread[t] EXCEPT !.fate = "interrupted"])
       [] OTHER -> To(t, CallOf(run[r].phase))
  /\ UNCHANGED <<ledger, wake, clock, host, spent>>

\* What a call does at its receiver.  A call repeated under its key changes nothing.
Received(t) ==
  LET r == thread[t].run  pc == thread[t].pc  e == thread[t].effect IN
  /\ session' = [session EXCEPT ![r] =
       CASE pc \in {"admit", "readmit"} /\ @ = "none" -> "open"
         [] pc = "close" -> "closed"
         [] OTHER -> @]
  /\ executor' = CASE pc = "dispatch" /\ executor[r] = "idle" ->
                        [executor EXCEPT ![r] = "running"]
                   [] pc = "effect" /\ e.kind = "ack-executor-terminal" ->
                        [executor EXCEPT ![e.of] = "acked"]
                   [] OTHER -> executor
  /\ retired' = IF pc = "effect" /\ e.kind = "retire-authority"
                THEN retired \cup {e.of} ELSE retired

\* An update that holds only in the phase the thread found the row in.
Moved(r, from, to) ==
  IF run[r].phase = from THEN [run EXCEPT ![r].phase = to] ELSE run
\* setPhase and recordAdmission hold unless the run has ended.
Overwritten(r, row) == [run EXCEPT ![r] = row]
Unended(r, row) == IF run[r].phase = "terminal" THEN run ELSE [run EXCEPT ![r] = row]

Prepared(t, pc, from, to) ==
  /\ At(t, pc)
  /\ Received(t)
  /\ run' = Moved(thread[t].run, from, to)
  /\ To(t, CallOf(run'[thread[t].run].phase))
  /\ UNCHANGED <<mission, effects, wake, clock, spent>>

Admitted(t) ==
  LET r == thread[t].run IN
  /\ At(t, "admit")
  /\ Received(t)
  /\ run' = IF run[r].phase # "execution-admitting" THEN run
            ELSE [run EXCEPT ![r].phase = "dispatching", ![r].session = TRUE]
  /\ To(t, CallOf(run'[thread[t].run].phase))
  /\ UNCHANGED <<mission, effects, wake, clock, spent>>

Readmitted(t) ==
  LET r == thread[t].run IN
  /\ At(t, "readmit")
  /\ Received(t)
  /\ run' = Unended(r, [run[r] EXCEPT !.session = TRUE])
  /\ To(t, "dispatch")
  /\ UNCHANGED <<mission, effects, wake, clock, spent>>

Dispatched(t) ==
  LET r == thread[t].run IN
  /\ At(t, "dispatch")
  /\ Received(t)
  /\ run' = Unended(r, [run[r] EXCEPT !.phase = "executing"])
  /\ To(t, "return")
  /\ UNCHANGED <<mission, effects, wake, clock, spent>>

\* What the executor retains decides: a run it does not know is dispatched again.
Described(t) ==
  LET r == thread[t].run IN
  /\ At(t, "describe")
  /\ UNCHANGED <<mission, effects, wake, clock, host, spent>>
  /\ \/ executor[r] = "running" /\ To(t, "return") /\ UNCHANGED run
     \/ /\ executor[r] \in {"idle", "acked"}
        /\ run' = Unended(r, [run[r] EXCEPT !.phase = "dispatching"])
        /\ To(t, "readmit")
     \/ /\ executor[r] \in Verdicts
        /\ Closing(t, [thread[t] EXCEPT !.fate = executor[r]])
        /\ UNCHANGED run

Closed(t) ==
  /\ At(t, "close")
  /\ Received(t)
  /\ To(t, "terminal")
  /\ UNCHANGED <<ledger, wake, clock, spent>>

\* A run that has ended keeps its row; the rest is done in any case.
Terminalize(t) ==
  LET r == thread[t].run  fate == thread[t].fate IN
  /\ At(t, "terminal")
  /\ run' = Unended(r, [run[r] EXCEPT !.phase = "terminal", !.outcome = fate])
  /\ mission' = IF /\ run[r].revision = mission.revision
                   /\ fate = "responded" \/ CompletedBefore(mission, clock)
                THEN Completed(mission) ELSE mission
  /\ effects' = IF fate \in Verdicts
                THEN effects \cup {[kind |-> "ack-executor-terminal", of |-> r]}
                ELSE effects
  /\ Reconcile(t, [thread[t] EXCEPT !.fate = "none", !.run = Idle.run],
               IF fate = "interrupted" THEN {} ELSE effects')
  /\ UNCHANGED <<wake, clock, host, spent>>

-----------------------------------------------------------------------------
(* Effects, and what follows when a callee returns.                        *)

Executed(t) ==
  /\ At(t, "effect")
  /\ Received(t)
  /\ effects' = effects \ {thread[t].effect}
  /\ Reconcile(t, thread[t], thread[t].effects)
  /\ UNCHANGED <<mission, run, wake, clock, spent>>

\* The next run of resumeRuns or of interruptRunsForRevision.
NextRun(t) ==
  /\ At(t, "return")
  /\ \E r \in thread[t].runs :
       LET new == [thread[t] EXCEPT !.run = r, !.runs = @ \ {r}] IN
       IF thread[t].stage = "resume" THEN Goto(t, [new EXCEPT !.pc = "advance"])
       ELSE Closing(t, [new EXCEPT !.fate = "interrupted"])
  /\ UNCHANGED <<ledger, wake, clock, host, spent>>

Return(t) ==
  LET op == thread[t].op  stage == thread[t].stage IN
  /\ At(t, "return") /\ thread[t].runs = {}
  /\ UNCHANGED <<run, effects, clock, host, spent>>
  /\ \/ /\ stage \in {"admitted", "finish", "last"}
        /\ mission' = IF op = "edit" THEN [mission EXCEPT !.editing = FALSE] ELSE mission
        /\ EndWell(t)
     \/ /\ UNCHANGED <<mission, wake>>
        /\ CASE stage = "resume" /\ op = "alarm" ->
                  Reconcile(t, [thread[t] EXCEPT !.stage = "drain"], effects)
             [] stage = "drain" -> To(t, "due")
             [] stage = "interrupt" /\ op = "retire" ->
                  Reconcile(t, [thread[t] EXCEPT !.stage = "last"], effects)
             [] op = "edit" /\ stage \in {"interrupt", "resume"} -> To(t, "acquire")
             [] OTHER -> FALSE

-----------------------------------------------------------------------------
(* Failures.  A call that fails may have had its effect.                   *)

\* Where an error goes: the rest of an advance is tried later (automatic), or
\* its run fails (manual); an effect stays in the outbox; a request throws.
Fail(t) ==
  LET r == thread[t].run IN
  /\ thread[t].pc \in Awaits \ {"hash"} /\ At(t, thread[t].pc)
  /\ spent < MaxDisturbances
  /\ spent' = spent + 1
  /\ Received(t) \/ UNCHANGED host
  /\ UNCHANGED <<ledger, clock>>
  /\ IF \/ thread[t].pc \in {"compile", "acquire"}
        \/ thread[t].pc = "close" /\ thread[t].stage \in {"interrupt", "finish"}
        \/ thread[t].pc = "effect" /\ thread[t].stage = "last"
     THEN Abort(t)
     ELSE /\ UNCHANGED wake
          /\ CASE thread[t].pc = "effect" ->
                    Reconcile(t, thread[t], thread[t].effects)
               [] thread[t].pc = "close" /\ thread[t].fate = "error" -> To(t, "return")
               [] OTHER -> To(t, "caught")

Caught(t) ==
  /\ At(t, "caught")
  /\ UNCHANGED <<ledger, wake, clock, host, spent>>
  /\ \/ To(t, "return")
     \/ /\ run[thread[t].run].phase # "terminal"
        /\ Closing(t, [thread[t] EXCEPT !.fate = "error"])

\* A restart loses the threads; the alarm it interrupts fires again.
Crash ==
  /\ spent < MaxDisturbances
  /\ \A t \in Threads : thread[t].pc \notin Local
  /\ \E t \in Threads : thread[t].pc # "idle"
  /\ spent' = spent + 1
  /\ wake' = [wake EXCEPT !.work = @ \/ thread["alarm"].pc # "idle"]
  /\ thread' = [t \in Threads |-> Idle]
  /\ UNCHANGED <<ledger, clock, host>>

-----------------------------------------------------------------------------
(* The environment.                                                        *)

ExecutorEnds(r) ==
  /\ executor[r] = "running"
  /\ \E v \in Verdicts : executor' = [executor EXCEPT ![r] = v]
  /\ UNCHANGED <<ledger, wake, thread, clock, session, retired, spent>>

Tick ==
  /\ \A u \in Threads : thread[u].pc \notin Local
  /\ clock < MaxTime
  /\ clock' = clock + 1
  /\ UNCHANGED <<ledger, wake, thread, host, spent>>

Init ==
  /\ mission = NewMission
  /\ run = [r \in {} |-> Row("terminal", "none", 1)]
  /\ effects = {}
  /\ wake = [work |-> FALSE, at |-> InitialRun(First, 0)]
  /\ thread = [t \in Threads |-> Idle]
  /\ clock = 0
  /\ session = [r \in RunIds |-> "none"]
  /\ executor = [r \in RunIds |-> "idle"]
  /\ retired = {}
  /\ spent = 0

\* A thread runs on, or its awaited call is answered.
Step(t) ==
  \/ Compiled(t) \/ Authorized(t) \/ Due(t) \/ Passed(t) \/ Begin(t) \/ Occurrence(t)
  \/ AdvanceRun(t)
  \/ Prepared(t, "context", "context-preparing", "executor-preparing")
  \/ Prepared(t, "target", "executor-preparing", "execution-admitting")
  \/ Admitted(t) \/ Readmitted(t) \/ Dispatched(t) \/ Described(t) \/ Closed(t)
  \/ Terminalize(t) \/ Executed(t) \/ NextRun(t) \/ Return(t) \/ Caught(t)

Next ==
  \/ \E t \in Threads : Step(t) \/ Fail(t)
  \/ \E t \in Requests :
       \/ \E k \in Keys : RunNow(t, k)
       \/ \E c \in Charters : Edit(t, c)
       \/ \E r \in RunIds : FinishRun(t, r)
       \/ Pause(t) \/ Resume(t) \/ Retire(t) \/ Reedit(t)
  \/ \E r \in RunIds : ExecutorEnds(r)
  \/ \E late \in BOOLEAN : Alarm(late)
  \/ Read \/ Crash \/ Tick

-----------------------------------------------------------------------------
(* Properties that hold.                                                   *)

TypeOK ==
  /\ mission \in [state : {"active", "paused", "completed", "retired"},
                  revision : 1..MaxRevisions, charter : Charters, next : Instants,
                  count : Nat, editing : BOOLEAN]
  /\ DOMAIN run \subseteq RunIds
  /\ \A r \in DOMAIN run :
       run[r] \in [phase : Phases, outcome : Outcomes, revision : 1..MaxRevisions,
                  session : BOOLEAN]
  /\ effects \subseteq Effects
  /\ wake \in [work : BOOLEAN, at : Instants]
  /\ \A t \in Threads : thread[t].pc \in {"idle"} \cup Local \cup Awaits
  /\ session \in [RunIds -> {"none", "open", "closed"}]
  /\ executor \in [RunIds -> {"idle", "running", "acked"} \cup Verdicts]

\* One run remains active at a time, whichever requests and alarms meet.  Each
\* decides on a copy of the mission read before its awaits; what keeps the runs
\* apart is the look at the ledger after the last of them (startExecution).
OneActiveRun == \A r, i \in Live : r = i

\* A run that ended with its admission on record has had it closed at the host,
\* also when several threads end it (closeAdmission before terminalizeRun).
RecordedSessionsClose ==
  \A r \in DOMAIN run :
    run[r].phase = "terminal" /\ run[r].session => session[r] = "closed"

\* The executor keeps what it knows of a run until the ledger has its end: a run
\* that is forgotten earlier is dispatched again for ever (ack-executor-terminal).
ReceiptOutlivesRun ==
  \A r \in RunIds : executor[r] = "acked" => r \in DOMAIN run /\ r \notin Live

\* Only a later revision or a retirement interrupts a run; pausing and completing
\* the mission let it go on (advanceRun, interruptRunsForRevision).
InterruptionsAreOwed ==
  \A r \in DOMAIN run :
    run[r].outcome = "interrupted" =>
      run[r].revision < mission.revision \/ mission.state = "retired"

\* A run that has ended stays as it ended, though threads that advance it, finish
\* it or interrupt it come back from their awaits later (setPhase, recordAdmission,
\* terminalizeRun).
OutcomeIsFinal ==
  [][\A r \in DOMAIN run : run[r].phase = "terminal" => run'[r] = run[r]]_vars

\* Time and again no run is open and no effect is owed, whatever failed or was
\* lost, if someone looks at the ledger now and then (nextWakeAt, alarm).
LedgerSettles == []<>(Live = {} /\ effects = {})

-----------------------------------------------------------------------------
(* Properties the documents state and the code does not keep.              *)

\* skills/automations/SKILL.md: retire permanently prevents new runs.  An edit that
\* began before the retirement commits after it, and the mission is active again.
RetireIsPermanent ==
  [][mission.state = "retired" => mission'.state = "retired"]_vars

\* Ibid.: retire, like edit, retires revision authority after live executions close.
RetireAfterClose ==
  [][\A c \in retired' \ retired :
       \A r \in RunIds : r.subject = c => session[r] # "open"]_vars

\* Ibid.: edit creates a new subject.  An edit that keeps the charter keeps the
\* subject, and retires the authority of the revision it installs.
LiveSubjectKeepsAuthority ==
  mission.state # "retired" => mission.charter \notin retired

\* Ibid.: pause stops new admission.
PauseStopsAdmission ==
  [][\A r \in DOMAIN run' \ DOMAIN run : mission.state = "active"]_vars

\* Ibid.: maxRuns counts admitted runs.
RunsWithinMax ==
  Cardinality({r \in DOMAIN run : run[r].outcome # "skipped"}) <= MaxRuns

\* No work starts for a run that has ended.
WorkBelongsToLiveRuns ==
  [][\A r \in RunIds :
       executor[r] = "idle" /\ executor'[r] = "running" => r \in Live]_vars

\* A mission whose time is over is completed (alarm asks for untilAt, nextWakeAt not).
MissionEnds ==
  (mission.state = "active" /\ mission.charter \in Scheduled /\ clock >= Until)
    ~> mission.state # "active"

-----------------------------------------------------------------------------
Spec == Init /\ [][Next]_vars

\* The event loop comes back to every awaited answer, the host fires an alarm that
\* is set, executors finish what they run, and someone looks at the ledger.
Fairness ==
  /\ \A t \in Threads : SF_vars(Step(t))
  /\ SF_vars(Alarm(TRUE)) /\ WF_vars(Read)
  /\ WF_vars(\E r \in RunIds : ExecutorEnds(r))

FairSpec == Spec /\ Fairness

\* An alarm set for an instant of the schedule fires as well.  What has begun settles
\* without it; whether a mission ends is asked with it.
PunctualSpec == FairSpec /\ WF_vars(Alarm(FALSE))
=============================================================================
