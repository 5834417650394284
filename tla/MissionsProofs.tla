---------------------------- MODULE MissionsProofs ----------------------------
(***************************************************************************)
(* Proofs about Missions, for every number of requests, charters, keys and *)
(* instants.                                                               *)
(*                                                                         *)
(* One run is active at a time, and a run that has ended keeps its row:    *)
(* every step of the object changes the ledger in one of two ways.  It     *)
(* rewrites rows of runs that have not ended, or it inserts one row, which *)
(* is of a run that ended at once unless no run is live.                   *)
(*                                                                         *)
(* Recorded sessions close, receipts outlive their runs, and interruptions *)
(* are owed: these rest on what a thread knows when it comes back from an  *)
(* await (MissionInv), and that no step of another thread takes it away.   *)
(***************************************************************************)
EXTENDS Missions, TLAPS

AsRow(row) ==
  [phase |-> row.phase, outcome |-> row.outcome, revision |-> row.revision,
   session |-> row.session]

RowsOK ==
  /\ run = [r \in DOMAIN run |-> run[r]]
  /\ \A r \in DOMAIN run : run[r] = AsRow(run[r])

LedgerInv == RowsOK /\ OneActiveRun

\* The rows that have ended stand, and no row comes or goes.
Rewrites ==
  /\ run' = [r \in DOMAIN run |-> run'[r]]
  /\ \A r \in DOMAIN run :
       /\ run'[r] = AsRow(run'[r])
       /\ run[r].phase = "terminal" => run'[r] = run[r]

\* One row comes, that of a live run only when there is none.
Inserts ==
  \E r, row :
    /\ r \notin DOMAIN run
    /\ run' = Inserted(r, row)
    /\ row = AsRow(row)
    /\ row.phase # "terminal" => ~Occupied

LedgerStep == Rewrites \/ Inserts

-----------------------------------------------------------------------------
LEMMA Standing ==
  ASSUME RowsOK, run' = run
  PROVE  Rewrites
BY DEF RowsOK, Rewrites

\* setPhase, recordAdmission and terminalizeRun write rows that have not ended.
LEMMA UnendedRewrites ==
  ASSUME RowsOK, NEW r, NEW row, run' = Unended(r, row),
         r \in DOMAIN run => row = AsRow(row)
  PROVE  Rewrites
<1>1. CASE r \in DOMAIN run /\ run[r].phase # "terminal"
  BY <1>1 DEF RowsOK, Rewrites, Unended
<1>2. CASE r \notin DOMAIN run \/ run[r].phase = "terminal"
  BY <1>2 DEF RowsOK, Rewrites, Unended
<1> QED BY <1>1, <1>2

LEMMA PhaseShape ==
  ASSUME NEW row, row = AsRow(row), NEW p
  PROVE  [row EXCEPT !.phase = p] = AsRow([row EXCEPT !.phase = p])
<1>1. PICK a, b, c, d : row = [phase |-> a, outcome |-> b, revision |-> c, session |-> d]
  BY DEF AsRow
<1>2. [row EXCEPT !.phase = p]
        = [phase |-> p, outcome |-> b, revision |-> c, session |-> d]
  BY <1>1
<1> QED BY <1>2 DEF AsRow

LEMMA SessionShape ==
  ASSUME NEW row, row = AsRow(row), NEW s
  PROVE  [row EXCEPT !.session = s] = AsRow([row EXCEPT !.session = s])
<1>1. PICK a, b, c, d : row = [phase |-> a, outcome |-> b, revision |-> c, session |-> d]
  BY DEF AsRow
<1>2. [row EXCEPT !.session = s]
        = [phase |-> a, outcome |-> b, revision |-> c, session |-> s]
  BY <1>1
<1> QED BY <1>2 DEF AsRow

LEMMA OutcomeShape ==
  ASSUME NEW row, row = AsRow(row), NEW o
  PROVE  [row EXCEPT !.outcome = o] = AsRow([row EXCEPT !.outcome = o])
<1>1. PICK a, b, c, d : row = [phase |-> a, outcome |-> b, revision |-> c, session |-> d]
  BY DEF AsRow
<1>2. [row EXCEPT !.outcome = o]
        = [phase |-> a, outcome |-> o, revision |-> c, session |-> d]
  BY <1>1
<1> QED BY <1>2 DEF AsRow

\* The ledger's invariant and the finality of its rows follow from LedgerStep.
LEMMA StepKeepsInv ==
  ASSUME LedgerInv, LedgerStep
  PROVE  LedgerInv'
<1>1. CASE Rewrites
  <2>1. DOMAIN run' = DOMAIN run
    BY <1>1 DEF Rewrites
  <2>2. RowsOK'
    BY <1>1, <2>1 DEF Rewrites, RowsOK, AsRow
  <2>3. \A r \in Live' : r \in Live
    BY <1>1, <2>1 DEF Rewrites, Live
  <2> QED BY <2>2, <2>3 DEF LedgerInv, OneActiveRun
<1>2. CASE Inserts
  <2>1. PICK r, row : /\ r \notin DOMAIN run
                      /\ run' = Inserted(r, row)
                      /\ row = AsRow(row)
                      /\ row.phase # "terminal" => ~Occupied
    BY <1>2 DEF Inserts
  <2>2. /\ DOMAIN run' = DOMAIN run \cup {r}
        /\ run'[r] = row
        /\ \A i \in DOMAIN run : run'[i] = run[i]
        /\ run' = [i \in DOMAIN run' |-> run'[i]]
    BY <2>1 DEF Inserted
  <2>3. RowsOK'
    BY <2>1, <2>2 DEF LedgerInv, RowsOK, AsRow
  <2>4. \A i \in Live' : i \in Live \/ (i = r /\ Live = {})
    BY <2>1, <2>2 DEF Live, Occupied
  <2> QED BY <2>3, <2>4 DEF LedgerInv, OneActiveRun
<1> QED BY <1>1, <1>2 DEF LedgerStep

LEMMA StepKeepsOutcomes ==
  ASSUME LedgerStep
  PROVE  \A r \in DOMAIN run : run[r].phase = "terminal" => run'[r] = run[r]
BY DEF LedgerStep, Rewrites, Inserts, Inserted

-----------------------------------------------------------------------------
(* Every step is such a step.                                              *)

LEMMA PreparedStep ==
  ASSUME RowsOK, NEW t, NEW pc, NEW to, NEW from, from # "terminal",
         Prepared(t, pc, from, to)
  PROVE  Rewrites
<1>1. PICK r : r = thread[t].run
  OBVIOUS
<1>2. run' = Moved(r, from, to)
  BY <1>1 DEF Prepared
<1>3. CASE r \in DOMAIN run /\ run[r].phase = from
  <2>1. PICK row : row = [run[r] EXCEPT !.phase = to]
    OBVIOUS
  <2>2. row = AsRow(row)
    <3>1. run[r] = AsRow(run[r])
      BY <1>3, Zenon DEF RowsOK
    <3> QED BY <2>1, <3>1, PhaseShape, Zenon
  <2>3. run' = [run EXCEPT ![r] = row]
    BY <1>2, <1>3, <2>1 DEF Moved
  <2> QED BY <1>3, <2>2, <2>3 DEF RowsOK, Rewrites
<1>4. CASE ~(r \in DOMAIN run /\ run[r].phase = from)
  BY <1>2, <1>4 DEF Moved, RowsOK, Rewrites
<1> QED BY <1>3, <1>4

LEMMA AdmittedStep ==
  ASSUME RowsOK, NEW t, Admitted(t)
  PROVE  Rewrites
<1>1. PICK r : r = thread[t].run
  OBVIOUS
<1>2. CASE r \in DOMAIN run /\ run[r].phase = "execution-admitting"
  <2>1. PICK moved : moved = [run[r] EXCEPT !.phase = "dispatching"]
    OBVIOUS
  <2>2. PICK row : row = [moved EXCEPT !.session = TRUE]
    OBVIOUS
  <2>3. moved = AsRow(moved)
    <3>1. run[r] = AsRow(run[r])
      BY <1>2, Zenon DEF RowsOK
    <3> QED BY <2>1, <3>1, PhaseShape, Zenon
  <2>4. row = AsRow(row)
    BY <2>2, <2>3, SessionShape, Zenon
  <2>5. run' = [run EXCEPT ![r] = row]
    BY <1>1, <1>2, <2>1, <2>2 DEF Admitted
  <2> QED BY <1>2, <2>4, <2>5 DEF RowsOK, Rewrites
<1>3. CASE ~(r \in DOMAIN run /\ run[r].phase = "execution-admitting")
  BY <1>1, <1>3 DEF Admitted, RowsOK, Rewrites
<1> QED BY <1>2, <1>3

\* A thread that writes a phase, the session or the end of its run.
LEMMA WrittenStep ==
  ASSUME RowsOK, NEW r, NEW p, NEW o, NEW s,
         \/ run' = Unended(r, [run[r] EXCEPT !.phase = p])
         \/ run' = Unended(r, [run[r] EXCEPT !.session = s])
         \/ run' = Unended(r, [run[r] EXCEPT !.phase = p, !.outcome = o])
  PROVE  Rewrites
<1>1. PICK row : /\ run' = Unended(r, row)
                 /\ \/ row = [run[r] EXCEPT !.phase = p]
                    \/ row = [run[r] EXCEPT !.session = s]
                    \/ row = [run[r] EXCEPT !.phase = p, !.outcome = o]
  OBVIOUS
<1>2. ASSUME r \in DOMAIN run PROVE row = AsRow(row)
  <2>1. run[r] = AsRow(run[r])
    BY <1>2, Zenon DEF RowsOK
  <2>2. CASE row = [run[r] EXCEPT !.phase = p]
    BY <2>1, <2>2, PhaseShape, Zenon
  <2>3. CASE row = [run[r] EXCEPT !.session = s]
    BY <2>1, <2>3, SessionShape, Zenon
  <2>4. CASE row = [run[r] EXCEPT !.phase = p, !.outcome = o]
    <3>1. PICK moved : moved = [run[r] EXCEPT !.phase = p]
      OBVIOUS
    <3>2. moved = AsRow(moved)
      BY <2>1, <3>1, PhaseShape, Zenon
    <3>3. PICK ended : ended = [moved EXCEPT !.outcome = o]
      OBVIOUS
    <3>4. ended = AsRow(ended)
      BY <3>2, <3>3, OutcomeShape, Zenon
    <3>5. row = ended
      BY <2>4, <3>1, <3>3, Zenon
    <3> QED BY <3>4, <3>5, Zenon
  <2> QED BY <1>1, <2>2, <2>3, <2>4
<1> QED BY <1>1, <1>2, UnendedRewrites

LEMMA OccurrenceStep ==
  ASSUME RowsOK, NEW t, Occurrence(t)
  PROVE  LedgerStep
<1>1. CASE run' = run
  BY <1>1, Standing DEF LedgerStep
<1>2. CASE \E r, revision :
             /\ r \notin DOMAIN run
             /\ run' = Inserted(r, Row("terminal", "skipped", revision))
  BY <1>2 DEF LedgerStep, Inserts, Row, AsRow
<1>3. CASE \E r, revision :
             /\ r \notin DOMAIN run
             /\ ~Occupied
             /\ run' = Inserted(r, Row("context-preparing", "none", revision))
  BY <1>3 DEF LedgerStep, Inserts, Row, AsRow
<1> QED BY <1>1, <1>2, <1>3 DEF Occurrence

LEMMA ThreadStep ==
  ASSUME RowsOK, NEW t, Step(t)
  PROVE  LedgerStep
<1>1. CASE Prepared(t, "context", "context-preparing", "executor-preparing")
  BY <1>1, PreparedStep DEF LedgerStep
<1>2. CASE Prepared(t, "target", "executor-preparing", "execution-admitting")
  BY <1>2, PreparedStep DEF LedgerStep
<1>3. CASE Admitted(t)
  BY <1>3, AdmittedStep DEF LedgerStep
<1>4. CASE Readmitted(t)
  BY <1>4, WrittenStep DEF Readmitted, LedgerStep
<1>5. CASE Dispatched(t)
  BY <1>5, WrittenStep DEF Dispatched, LedgerStep
<1>6. CASE Described(t)
  <2>1. run' = run \/ run' = Unended(thread[t].run,
                               [run[thread[t].run] EXCEPT !.phase = "dispatching"])
    BY <1>6, Zenon DEF Described
  <2> QED BY <2>1, Standing, WrittenStep DEF LedgerStep
<1>7. CASE Terminalize(t)
  BY <1>7, WrittenStep DEF Terminalize, LedgerStep
<1>8. CASE Occurrence(t)
  BY <1>8, OccurrenceStep
<1>9. CASE \/ Compiled(t) \/ Authorized(t) \/ Due(t) \/ Passed(t) \/ Begin(t)
           \/ AdvanceRun(t) \/ Closed(t) \/ Executed(t) \/ NextRun(t)
           \/ Return(t) \/ Caught(t)
  <2>1. run' = run
    BY <1>9 DEF Compiled, Commit, Authorized, Due, Passed, Begin, AdvanceRun, Closed,
                Executed, NextRun, Return, Caught, ledger
  <2> QED BY <2>1, Standing DEF LedgerStep
<1> QED BY <1>1, <1>2, <1>3, <1>4, <1>5, <1>6, <1>7, <1>8, <1>9 DEF Step

LEMMA NextStep ==
  ASSUME RowsOK, [Next]_vars
  PROVE  LedgerStep
<1>1. CASE \E t \in Threads : Step(t)
  BY <1>1, ThreadStep
<1>2. CASE run' = run
  BY <1>2, Standing DEF LedgerStep
<1>3. ASSUME NEW t, Fail(t) PROVE run' = run
  BY <1>3 DEF Fail, ledger
<1>4. ASSUME NEW t \in Requests,
             \/ \E k \in Keys : RunNow(t, k)
             \/ \E c \in Charters : Edit(t, c)
             \/ \E r \in RunIds : FinishRun(t, r)
             \/ Pause(t) \/ Resume(t) \/ Retire(t) \/ Reedit(t)
      PROVE  run' = run
  BY <1>4 DEF RunNow, Edit, Commit, FinishRun, Pause, Resume, Retire, Reedit, ledger
<1>5. ASSUME \/ \E r \in RunIds : ExecutorEnds(r)
             \/ \E late \in BOOLEAN : Alarm(late)
             \/ Read \/ Crash \/ Tick
      PROVE  run' = run
  BY <1>5 DEF ExecutorEnds, Alarm, Read, Crash, Tick, ledger
<1>6. CASE UNCHANGED vars
  BY <1>6, <1>2 DEF vars
<1> QED BY <1>1, <1>2, <1>3, <1>4, <1>5, <1>6 DEF Next

-----------------------------------------------------------------------------
LEMMA InitOK == Init => LedgerInv
BY DEF Init, LedgerInv, RowsOK, OneActiveRun, Live

\* At most one run has not ended, whatever requests, alarms, failures and restarts
\* meet (startExecution, advanceRun, terminalizeRun).
THEOREM OneRunAtATime == Spec => []OneActiveRun
<1>1. Init => LedgerInv
  BY InitOK
<1>2. LedgerInv /\ [Next]_vars => LedgerInv'
  BY NextStep, StepKeepsInv DEF LedgerInv
<1>3. LedgerInv => OneActiveRun
  BY DEF LedgerInv
<1> QED BY <1>1, <1>2, <1>3, PTL DEF Spec

\* A run that has ended keeps its outcome (setPhase, recordAdmission, terminalizeRun).
THEOREM EndsAreFinal == Spec => OutcomeIsFinal
<1>1. Init => LedgerInv
  BY InitOK
<1>2. LedgerInv /\ [Next]_vars => LedgerInv'
  BY NextStep, StepKeepsInv DEF LedgerInv
<1>3. LedgerInv /\ [Next]_vars =>
        [\A r \in DOMAIN run : run[r].phase = "terminal" => run'[r] = run[r]]_vars
  BY NextStep, StepKeepsOutcomes DEF LedgerInv
<1> QED BY <1>1, <1>2, <1>3, PTL DEF Spec, OutcomeIsFinal
-----------------------------------------------------------------------------
(* The types of what the ledger, the host and the threads hold.            *)

MissionRows ==
  [state : {"active", "paused", "completed", "retired"}, revision : 1..MaxRevisions,
   charter : Charters, next : Instants, count : Nat, editing : BOOLEAN]
RunRows ==
  [phase : Phases, outcome : Outcomes, revision : 1..MaxRevisions, session : BOOLEAN]
Wakes == [work : BOOLEAN, at : Instants]
Ops == {"idle", "runNow", "edit", "retire", "finishRun", "alarm"}
Stages == {"start", "interrupt", "resume", "finish", "last", "admitted", "drain"}
Pcs == {"idle"} \cup Local \cup Awaits
ThreadRows ==
  [op : Ops, stage : Stages, pc : Pcs, run : RunIds, runs : SUBSET RunIds,
   fate : Outcomes, effects : SUBSET Effects, effect : Effects, seen : MissionRows,
   now : 0..MaxTime, charter : Charters, key : Keys]

RunTyped == DOMAIN run \subseteq RunIds /\ run \in [DOMAIN run -> RunRows]
HostTyped ==
  /\ session \in [RunIds -> {"none", "open", "closed"}]
  /\ executor \in [RunIds -> {"idle", "running", "acked"} \cup Verdicts]

Types ==
  /\ mission \in MissionRows
  /\ RunTyped
  /\ effects \subseteq Effects
  /\ wake \in Wakes
  /\ thread \in [Threads -> ThreadRows]
  /\ clock \in 0..MaxTime
  /\ HostTyped

LEMMA InstantsFacts ==
  /\ Never \in Instants
  /\ \A now \in 0..MaxTime : now + 1 \in Instants
  /\ \A now \in 0..MaxTime : now \in Instants => now \in 1..(MaxTime + 1)
BY MissionsAssumption DEF Never, Instants

LEMMA ScheduleTyped ==
  ASSUME NEW m \in MissionRows, NEW now \in 0..MaxTime, NEW c, NEW n \in Nat
  PROVE  /\ InitialRun(c, now) \in Instants
         /\ Completed(m) \in MissionRows
         /\ Advanced(m, c, now, n) \in MissionRows
<1>1. InitialRun(c, now) \in Instants
  BY InstantsFacts DEF InitialRun
<1>2. Completed(m) \in MissionRows
  BY InstantsFacts DEF Completed, MissionRows
<1>3. Advanced(m, c, now, n) \in MissionRows
  <2>1. PICK next \in Instants : Advanced(m, c, now, n) \in {m, [m EXCEPT !.next = next]}
    BY InstantsFacts DEF Advanced
  <2> QED BY <2>1 DEF MissionRows
<1> QED BY <1>1, <1>2, <1>3

LEMMA IdleTyped == NewMission \in MissionRows /\ Idle \in ThreadRows
<1>1. NewMission \in MissionRows
  <2>1. InitialRun(First, 0) \in Instants
    BY MissionsAssumption, InstantsFacts DEF InitialRun
  <2> QED BY <2>1, MissionsAssumption DEF NewMission, MissionRows
<1>2. (CHOOSE r \in RunIds : TRUE) \in RunIds
  <2>1. PICK k \in Keys : TRUE
    BY MissionsAssumption
  <2>2. [subject |-> First, key |-> k] \in RunIds
    BY <2>1, MissionsAssumption DEF RunIds
  <2> QED BY <2>2
<1>3. (CHOOSE e \in Effects : TRUE) \in Effects
  <2>1. [kind |-> "retire-authority", of |-> First] \in Effects
    BY MissionsAssumption DEF Effects
  <2> QED BY <2>1
<1>4. (CHOOSE k \in Keys : TRUE) \in Keys
  BY MissionsAssumption
<1>5. Idle \in ThreadRows
  BY <1>1, <1>2, <1>3, <1>4, MissionsAssumption
     DEF Idle, ThreadRows, Ops, Stages, Pcs, Outcomes
<1> QED BY <1>1, <1>5

LEMMA GotoTyped ==
  ASSUME thread \in [Threads -> ThreadRows], NEW t, NEW new \in ThreadRows, Goto(t, new)
  PROVE  thread' \in [Threads -> ThreadRows]
BY DEF Goto

\* The new row of a thread of which a caller says what it changes.
LEMMA AtTyped ==
  ASSUME NEW th \in ThreadRows, NEW pc \in Pcs
  PROVE  [th EXCEPT !.pc = pc] \in ThreadRows
BY DEF ThreadRows

LEMMA ClosingTyped ==
  ASSUME thread \in [Threads -> ThreadRows], NEW t, NEW new \in ThreadRows,
         Closing(t, new)
  PROVE  thread' \in [Threads -> ThreadRows]
<1>1. PICK pc \in {"close", "terminal"} : Goto(t, [new EXCEPT !.pc = pc])
  BY DEF Closing
<1>2. [new EXCEPT !.pc = pc] \in ThreadRows
  BY AtTyped DEF Pcs, Local, Awaits
<1> QED BY <1>1, <1>2, GotoTyped

LEMMA ReconcileTyped ==
  ASSUME thread \in [Threads -> ThreadRows], NEW t, NEW new \in ThreadRows,
         NEW due \in SUBSET Effects, Reconcile(t, new, due)
  PROVE  thread' \in [Threads -> ThreadRows]
<1>1. Idle.effect \in Effects
  BY IdleTyped DEF ThreadRows
<1>2. PICK pc \in {"return", "effect"}, e \in Effects, es \in SUBSET Effects :
        Goto(t, [new EXCEPT !.pc = pc, !.effects = es, !.effect = e])
  <2>1. CASE Goto(t, [new EXCEPT !.pc = "return", !.effects = {}, !.effect = Idle.effect])
    BY <1>1, <2>1
  <2>2. ASSUME NEW e \in due,
               Goto(t, [new EXCEPT !.pc = "effect", !.effect = e, !.effects = due \ {e}])
        PROVE  Goto(t, [new EXCEPT !.pc = "effect", !.effects = due \ {e}, !.effect = e])
    <3>1. [new EXCEPT !.pc = "effect", !.effect = e, !.effects = due \ {e}]
            = [new EXCEPT !.pc = "effect", !.effects = due \ {e}, !.effect = e]
      BY DEF ThreadRows
    <3> QED BY <2>2, <3>1
  <2> QED BY <2>1, <2>2 DEF Reconcile
<1>3. [new EXCEPT !.pc = pc, !.effects = es, !.effect = e] \in ThreadRows
  BY DEF ThreadRows, Pcs, Local, Awaits
<1> QED BY <1>2, <1>3, GotoTyped

LEMMA EndWellTyped ==
  ASSUME Types, NEW t, EndWell(t), mission' \in MissionRows
  PROVE  thread' \in [Threads -> ThreadRows] /\ wake' \in Wakes
<1>1. Pending \in Wakes
  BY InstantsFacts DEF Pending, Wakes, MissionRows
<1> QED
  BY <1>1, IdleTyped, GotoTyped DEF EndWell, Armed, Types

LEMMA AbortTyped ==
  ASSUME Types, NEW t, Abort(t)
  PROVE  thread' \in [Threads -> ThreadRows] /\ wake' \in Wakes
BY IdleTyped, GotoTyped DEF Abort, Types, Wakes

LEMMA ReceivedTyped ==
  ASSUME Types, NEW t \in Threads, Received(t)
  PROVE  HostTyped'
<1> DEFINE r == thread[t].run
           e == thread[t].effect
<1>1. session' \in [RunIds -> {"none", "open", "closed"}]
  BY DEF Received, Types, HostTyped
<1>2. executor' \in [RunIds -> {"idle", "running", "acked"} \cup Verdicts]
  BY DEF Received, Types, HostTyped
<1> QED BY <1>1, <1>2 DEF HostTyped
LEMMA RunWritten ==
  ASSUME RunTyped, NEW r, NEW row, r \in DOMAIN run => row \in RunRows,
         run' = [run EXCEPT ![r] = row]
  PROVE  RunTyped'
BY DEF RunTyped

LEMMA RunInserted ==
  ASSUME RunTyped, NEW r \in RunIds, NEW row \in RunRows, run' = Inserted(r, row)
  PROVE  RunTyped'
BY DEF RunTyped, Inserted

-----------------------------------------------------------------------------
(* Every step keeps the types.                                             *)

LEMMA NewTyped ==
  ASSUME Types, NEW op \in Ops
  PROVE  New(op) \in ThreadRows
BY IdleTyped DEF New, Types, ThreadRows

LEMMA RunNowTypes ==
  ASSUME Types, NEW t \in Requests, NEW k \in Keys, RunNow(t, k)
  PROVE  Types'
<1>1. [New("runNow") EXCEPT !.pc = "acquire", !.key = k] \in ThreadRows
  <2>1. New("runNow") \in ThreadRows
    BY NewTyped DEF Ops
  <2> QED BY <2>1 DEF ThreadRows, Pcs, Awaits
<1>2. thread' \in [Threads -> ThreadRows]
  BY <1>1, GotoTyped DEF RunNow, Types
<1> QED BY <1>2 DEF RunNow, Types, ledger, host, RunTyped, HostTyped

LEMMA ArmedTyped ==
  ASSUME wake \in Wakes, mission' \in MissionRows, Armed
  PROVE  wake' \in Wakes
<1>1. Pending \in Wakes
  BY InstantsFacts DEF Pending, Wakes, MissionRows
<1> QED BY <1>1 DEF Armed

LEMMA PauseTypes ==
  ASSUME Types, NEW t, Pause(t)
  PROVE  Types'
<1>1. mission' \in MissionRows
  BY InstantsFacts DEF Pause, Types, MissionRows
<1>2. wake' \in Wakes
  BY <1>1, ArmedTyped DEF Pause, Types
<1> QED BY <1>1, <1>2 DEF Pause, Types, host, RunTyped, HostTyped

LEMMA ResumeTypes ==
  ASSUME Types, NEW t, Resume(t)
  PROVE  Types'
<1>1. mission' \in MissionRows
  <2>1. mission.charter \in Charters
    BY DEF Types, MissionRows
  <2>2. InitialRun(mission.charter, clock) \in Instants /\ Completed(mission) \in MissionRows
    BY <2>1, ScheduleTyped DEF Types
  <2> QED BY <2>2 DEF Resume, Types, MissionRows
<1>2. wake' \in Wakes
  BY <1>1, ArmedTyped DEF Resume, Types
<1> QED BY <1>1, <1>2 DEF Resume, Types, host, RunTyped, HostTyped

LEMMA InterruptedTyped ==
  ASSUME RunTyped, NEW c
  PROVE  Interrupted(c) \in SUBSET RunIds /\ Live \in SUBSET RunIds
BY DEF Interrupted, Live, RunTyped

LEMMA RetireTypes ==
  ASSUME Types, NEW t, Retire(t)
  PROVE  Types'
<1>1. mission' \in MissionRows
  BY InstantsFacts DEF Retire, Types, MissionRows
<1>2. effects' \subseteq Effects
  <2>1. [kind |-> "retire-authority", of |-> mission.charter] \in Effects
    BY DEF Types, MissionRows, Effects
  <2> QED BY <2>1 DEF Retire, Types
<1>3. [Idle EXCEPT !.op = "retire", !.stage = "interrupt", !.pc = "return",
                   !.runs = Interrupted(mission.charter)] \in ThreadRows
  BY IdleTyped, InterruptedTyped DEF ThreadRows, Ops, Stages, Pcs, Local, Types
<1>4. thread' \in [Threads -> ThreadRows]
  BY <1>3, GotoTyped DEF Retire, Types
<1> QED BY <1>1, <1>2, <1>4 DEF Retire, Types, host, RunTyped, HostTyped

\* What an edit commits follows a revision before the last.
LEMMA CommitTypes ==
  ASSUME Types, NEW t, NEW old \in MissionRows, NEW c \in Charters, Commit(t, old, c),
         old.revision < MaxRevisions
  PROVE  Types'
<1>1. UNCHANGED <<run, clock, session, executor>>
  BY DEF Commit, host
<1>2. CASE Abort(t) /\ UNCHANGED <<mission, effects>>
  BY <1>1, <1>2, AbortTyped DEF Types, RunTyped, HostTyped
<1>3. CASE mission.revision = old.revision /\ ~(Abort(t) /\ UNCHANGED <<mission, effects>>)
  <2>1. mission' \in MissionRows
    <3>1. InitialRun(c, clock) \in Instants
      BY IdleTyped, ScheduleTyped DEF Types
    <3>2. mission.revision + 1 \in 1..MaxRevisions
      BY <1>3, MissionsAssumption DEF Types, MissionRows
    <3>3. mission' = [mission EXCEPT !.state = "active", !.revision = mission.revision + 1,
                                     !.charter = c, !.next = InitialRun(c, clock),
                                     !.editing = TRUE]
      BY <1>3 DEF Commit
    <3> QED BY <3>1, <3>2, <3>3 DEF Types, MissionRows
  <2>2. effects' \subseteq Effects
    <3>1. [kind |-> "retire-authority", of |-> old.charter] \in Effects
      BY DEF MissionRows, Effects
    <3> QED BY <1>3, <3>1 DEF Commit, Types
  <2>3. [Idle EXCEPT !.op = "edit", !.stage = "interrupt", !.pc = "return",
                     !.runs = Interrupted(old.charter)] \in ThreadRows
    BY IdleTyped, InterruptedTyped DEF ThreadRows, Ops, Stages, Pcs, Local, Types
  <2>4. thread' \in [Threads -> ThreadRows]
    BY <1>3, <2>3, GotoTyped DEF Commit, Types
  <2>5. wake' = wake
    BY <1>3 DEF Commit
  <2> QED BY <1>1, <2>1, <2>2, <2>4, <2>5 DEF Types, RunTyped, HostTyped
<1> QED BY <1>2, <1>3 DEF Commit

LEMMA EditTypes ==
  ASSUME Types, NEW t, NEW c \in Charters, Edit(t, c)
  PROVE  Types'
<1>1. CASE Goto(t, [New("edit") EXCEPT !.pc = "compile", !.charter = c])
           /\ UNCHANGED <<ledger, wake, clock, host, spent>>
  <2>1. [New("edit") EXCEPT !.pc = "compile", !.charter = c] \in ThreadRows
    <3>1. New("edit") \in ThreadRows
      BY NewTyped DEF Ops
    <3> QED BY <3>1 DEF ThreadRows, Pcs, Awaits
  <2>2. thread' \in [Threads -> ThreadRows]
    BY <1>1, <2>1, GotoTyped DEF Types
  <2> QED BY <1>1, <2>2 DEF Types, ledger, host, RunTyped, HostTyped
<1>2. CASE Commit(t, mission, c)
  BY <1>2, CommitTypes DEF Edit, Types
<1> QED BY <1>1, <1>2 DEF Edit

LEMMA ReeditTypes ==
  ASSUME Types, NEW t, Reedit(t)
  PROVE  Types'
<1>1. PICK runs \in {Live, Live \ Executing} :
        Goto(t, [Idle EXCEPT !.op = "edit", !.stage = "resume", !.pc = "return",
                             !.runs = runs])
  BY DEF Reedit
<1>2. [Idle EXCEPT !.op = "edit", !.stage = "resume", !.pc = "return", !.runs = runs]
        \in ThreadRows
  BY IdleTyped, InterruptedTyped DEF ThreadRows, Ops, Stages, Pcs, Local, Types
<1>3. thread' \in [Threads -> ThreadRows]
  BY <1>1, <1>2, GotoTyped DEF Types
<1> QED BY <1>3 DEF Reedit, Types, ledger, host, RunTyped, HostTyped

LEMMA FinishRunTypes ==
  ASSUME Types, NEW t, NEW r \in RunIds, FinishRun(t, r)
  PROVE  Types'
<1> DEFINE new == [Idle EXCEPT !.op = "finishRun", !.stage = "finish"]
<1>1. new \in ThreadRows
  BY IdleTyped DEF ThreadRows, Ops, Stages
<1>2. executor[r] \in Outcomes
  BY DEF FinishRun, Outcomes
<1>3. [new EXCEPT !.run = r, !.fate = executor[r]] \in ThreadRows
  BY <1>1, <1>2 DEF ThreadRows
<1>4. effects' \in SUBSET Effects
  BY DEF FinishRun, Types, Effects
<1>5. thread' \in [Threads -> ThreadRows]
  <2>1. CASE Reconcile(t, new, effects')
    BY <1>1, <1>4, <2>1, ReconcileTyped DEF Types
  <2>2. CASE Closing(t, [new EXCEPT !.run = r, !.fate = executor[r]])
    BY <1>3, <2>2, ClosingTyped DEF Types
  <2> QED BY <2>1, <2>2 DEF FinishRun
<1> QED BY <1>4, <1>5 DEF FinishRun, Types, host, RunTyped, HostTyped

LEMMA AlarmTypes ==
  ASSUME Types, NEW late, Alarm(late)
  PROVE  Types'
<1>1. PICK runs \in {Live, Live \ Executing} :
        Goto("alarm", [Idle EXCEPT !.op = "alarm", !.stage = "resume", !.pc = "return",
                                   !.runs = runs])
  BY DEF Alarm
<1>2. [Idle EXCEPT !.op = "alarm", !.stage = "resume", !.pc = "return", !.runs = runs]
        \in ThreadRows
  BY IdleTyped, InterruptedTyped DEF ThreadRows, Ops, Stages, Pcs, Local, Types
<1>3. thread' \in [Threads -> ThreadRows]
  BY <1>1, <1>2, GotoTyped DEF Types
<1>4. wake' \in Wakes
  BY InstantsFacts DEF Alarm, NoWake, Wakes
<1> QED BY <1>3, <1>4 DEF Alarm, Types, ledger, host, RunTyped, HostTyped

LEMMA AuthorizedTypes ==
  ASSUME Types, NEW t, Authorized(t)
  PROVE  Types'
<1>1. [Idle EXCEPT !.op = "edit", !.stage = "last"] \in ThreadRows
  BY IdleTyped DEF ThreadRows, Ops, Stages
<1>2. thread' \in [Threads -> ThreadRows]
  BY <1>1, ReconcileTyped DEF Authorized, Types
<1> QED BY <1>2 DEF Authorized, Types, ledger, host, RunTyped, HostTyped

LEMMA DueTypes ==
  ASSUME Types, NEW t \in Threads, Due(t)
  PROVE  Types'
<1>1. UNCHANGED <<ledger, clock, host, spent>>
  BY DEF Due
<1>2. CASE Goto(t, [thread[t] EXCEPT !.seen = mission, !.now = clock, !.pc = "acquire"])
           /\ UNCHANGED wake
  <2>1. [thread[t] EXCEPT !.seen = mission, !.now = clock, !.pc = "acquire"]
          \in ThreadRows
    BY ZenonT(40) DEF Types, ThreadRows, Pcs, Awaits
  <2>2. thread' \in [Threads -> ThreadRows]
    BY <1>2, <2>1, GotoTyped DEF Types
  <2> QED BY <1>1, <1>2, <2>2 DEF Types, ledger, host, RunTyped, HostTyped
<1>3. CASE EndWell(t)
  <2>1. mission' \in MissionRows
    BY <1>1 DEF Types, ledger
  <2>2. thread' \in [Threads -> ThreadRows] /\ wake' \in Wakes
    BY <1>3, <2>1, EndWellTyped
  <2> QED BY <1>1, <2>2 DEF Types, ledger, host, RunTyped, HostTyped
<1> QED BY <1>2, <1>3 DEF Due

LEMMA ThreadFields ==
  ASSUME Types, NEW t \in Threads
  PROVE  /\ thread[t] \in ThreadRows
         /\ thread[t].seen \in MissionRows
         /\ thread[t].run \in RunIds
         /\ thread[t].now \in 0..MaxTime
         /\ thread[t].charter \in Charters
         /\ thread[t].key \in Keys
         /\ thread[t].op \in Ops
         /\ thread[t].fate \in Outcomes
         /\ thread[t].effects \in SUBSET Effects
         /\ thread[t].effect \in Effects
         /\ thread[t].runs \in SUBSET RunIds
BY DEF Types, ThreadRows

LEMMA PassedTypes ==
  ASSUME Types, NEW t \in Threads, Passed(t)
  PROVE  Types'
<1>1. mission' \in MissionRows
  <2>1. thread[t].seen.count \in Nat /\ thread[t].now \in 0..MaxTime
    BY ThreadFields DEF MissionRows
  <2>2. Completed(mission) \in MissionRows
    BY MissionsAssumption, ScheduleTyped DEF Types
  <2>3. Advanced(mission, thread[t].seen.charter, thread[t].now, thread[t].seen.count) \in MissionRows
    BY <2>1, MissionsAssumption, ScheduleTyped DEF Types
  <2> QED BY <2>2, <2>3 DEF Passed, Types
<1>2. thread' \in [Threads -> ThreadRows] /\ wake' \in Wakes
  BY <1>1, EndWellTyped DEF Passed
<1> QED BY <1>1, <1>2 DEF Passed, Types, host, RunTyped, HostTyped

LEMMA BeginTypes ==
  ASSUME Types, NEW t \in Threads, Begin(t)
  PROVE  Types'
<1> DEFINE m == thread[t].seen
           key == IF thread[t].op = "alarm" THEN m.next ELSE thread[t].key
           id == [subject |-> m.charter, key |-> key]
<1>1. UNCHANGED <<run, effects, clock, session, executor>>
  BY DEF Begin, host
<1>2. CASE mission' = Completed(mission) /\ Abort(t)
  <2>1. mission' \in MissionRows
    BY <1>2, MissionsAssumption, ScheduleTyped DEF Types
  <2>2. thread' \in [Threads -> ThreadRows] /\ wake' \in Wakes
    BY <1>2, AbortTyped
  <2> QED BY <1>1, <2>1, <2>2 DEF Types, RunTyped, HostTyped
<1>3. CASE /\ Goto(t, [thread[t] EXCEPT !.pc = "hash", !.now = clock, !.run = id])
           /\ UNCHANGED <<mission, wake>>
  <2>1. m.charter \in Charters /\ m.next \in Instants /\ thread[t].now \in 0..MaxTime
    BY ThreadFields DEF MissionRows
  <2>2. key \in Keys \cup 1..(MaxTime + 1)
    BY <2>1, ThreadFields, InstantsFacts DEF Begin
  <2>3. id \in RunIds
    BY <2>1, <2>2 DEF RunIds
  <2>4. [thread[t] EXCEPT !.pc = "hash", !.now = clock, !.run = id] \in ThreadRows
    BY ZenonT(40), <2>3, ThreadFields DEF ThreadRows, Pcs, Awaits, Types
  <2>5. thread' \in [Threads -> ThreadRows]
    BY <1>3, <2>4, GotoTyped DEF Types
  <2> QED BY <1>1, <1>3, <2>5 DEF Types, RunTyped, HostTyped
<1> QED BY <1>2, <1>3 DEF Begin

LEMMA OccurrenceTypes ==
  ASSUME Types, NEW t \in Threads, Occurrence(t)
  PROVE  Types'
<1> DEFINE m == thread[t].seen
           now == thread[t].now
           r == thread[t].run
<1>1. UNCHANGED <<effects, clock, session, executor>>
  BY DEF Occurrence, host
<1>2. m \in MissionRows /\ m.count \in Nat /\ m.revision \in 1..MaxRevisions
      /\ r \in RunIds /\ now \in 0..MaxTime /\ thread[t].op \in Ops
  BY ThreadFields DEF MissionRows
<1>3. CASE r \in DOMAIN run /\ UNCHANGED <<mission, run>> /\ EndWell(t)
  <2>1. mission' \in MissionRows
    BY <1>3 DEF Types
  <2>2. thread' \in [Threads -> ThreadRows] /\ wake' \in Wakes
    BY <1>3, <2>1, EndWellTyped
  <2> QED BY <1>1, <1>3, <2>2 DEF Types, RunTyped, HostTyped
<1>4. CASE /\ run' = Inserted(r, Row("terminal", "skipped", m.revision))
           /\ mission' = IF thread[t].op = "alarm"
                         THEN Advanced(mission, m.charter, now, m.count)
                         ELSE mission
           /\ Reconcile(t, [Idle EXCEPT !.op = thread[t].op, !.stage = "admitted"],
                        effects)
           /\ UNCHANGED wake
  <2>1. mission' \in MissionRows
    BY <1>2, <1>4, MissionsAssumption, ScheduleTyped DEF Types
  <2>2. Row("terminal", "skipped", m.revision) \in RunRows
    BY <1>2 DEF Row, RunRows, Phases, Outcomes
  <2>3. RunTyped'
    BY <1>2, <1>4, <2>2, RunInserted DEF Types
  <2>4. [Idle EXCEPT !.op = thread[t].op, !.stage = "admitted"] \in ThreadRows
    BY <1>2, IdleTyped DEF ThreadRows, Stages
  <2>5. thread' \in [Threads -> ThreadRows]
    BY <1>4, <2>4, ReconcileTyped DEF Types
  <2> QED BY <1>1, <1>4, <2>1, <2>3, <2>5 DEF Types, HostTyped
<1>5. CASE /\ run' = Inserted(r, Row("context-preparing", "none", m.revision))
           /\ LET counted == [mission EXCEPT !.count = m.count + 1] IN
                mission' = IF thread[t].op = "alarm"
                           THEN Advanced(counted, m.charter, now, m.count + 1) ELSE counted
           /\ Goto(t, [Idle EXCEPT !.op = thread[t].op, !.stage = "admitted",
                                   !.pc = "advance", !.run = r])
           /\ UNCHANGED wake
  <2>1. mission' \in MissionRows
    <3>1. [mission EXCEPT !.count = m.count + 1] \in MissionRows
      BY <1>2 DEF Types, MissionRows
    <3>2. m.count + 1 \in Nat
      BY <1>2
    <3> HIDE DEF m, now, r
    <3> QED BY <1>2, <1>5, <3>1, <3>2, MissionsAssumption, ScheduleTyped
  <2>2. Row("context-preparing", "none", m.revision) \in RunRows
    BY <1>2 DEF Row, RunRows, Phases, Outcomes
  <2>3. RunTyped'
    BY <1>2, <1>5, <2>2, RunInserted DEF Types
  <2>4. [Idle EXCEPT !.op = thread[t].op, !.stage = "admitted", !.pc = "advance",
                     !.run = r] \in ThreadRows
    BY <1>2, IdleTyped DEF ThreadRows, Stages, Pcs, Local
  <2>5. thread' \in [Threads -> ThreadRows]
    BY <1>5, <2>4, GotoTyped DEF Types
  <2> QED BY <1>1, <1>5, <2>1, <2>3, <2>5 DEF Types, HostTyped
<1> QED BY <1>3, <1>4, <1>5 DEF Occurrence

LEMMA ToTyped ==
  ASSUME Types, NEW t \in Threads, NEW pc \in Pcs, To(t, pc)
  PROVE  thread' \in [Threads -> ThreadRows]
BY ThreadFields, AtTyped, GotoTyped DEF To, Types

LEMMA CallOfTyped ==
  ASSUME NEW phase \in Phases
  PROVE  CallOf(phase) \in {"context", "target", "admit", "readmit", "describe", "return"}
BY DEF Phases, CallOf

LEMMA FateTyped ==
  ASSUME Types, NEW t \in Threads, NEW fate \in Outcomes
  PROVE  [thread[t] EXCEPT !.fate = fate] \in ThreadRows
BY ThreadFields DEF ThreadRows

LEMMA AdvanceRunTypes ==
  ASSUME Types, NEW t \in Threads, thread[t].run \in DOMAIN run, AdvanceRun(t)
  PROVE  Types'
<1> DEFINE r == thread[t].run
<1>1. UNCHANGED <<ledger, wake, clock, host, spent>>
  BY DEF AdvanceRun
<1>2. thread' \in [Threads -> ThreadRows]
  <2>1. CASE To(t, "return")
    BY <2>1, ToTyped DEF Pcs, Local
  <2>2. CASE Closing(t, [thread[t] EXCEPT !.fate = "interrupted"])
    BY <2>2, FateTyped, ClosingTyped DEF Types, Outcomes
  <2>3. CASE To(t, CallOf(run[r].phase))
    <3>1. run[r].phase \in Phases
      BY DEF Types, RunTyped, RunRows
    <3>2. CallOf(run[r].phase) \in Pcs
      BY <3>1, CallOfTyped DEF Pcs, Local, Awaits
    <3> QED BY <2>3, <3>2, ToTyped
  <2> QED BY <2>1, <2>2, <2>3 DEF AdvanceRun
<1> QED BY <1>1, <1>2 DEF Types, ledger, host, RunTyped, HostTyped

LEMMA PreparedTypes ==
  ASSUME Types, NEW t \in Threads, thread[t].run \in DOMAIN run, NEW pc, NEW from,
         NEW to \in Phases, Prepared(t, pc, from, to)
  PROVE  Types'
<1> DEFINE r == thread[t].run
<1>1. RunTyped'
  <2>1. [run[r] EXCEPT !.phase = to] \in RunRows
    BY DEF Types, RunTyped, RunRows
  <2>2. run' = run \/ run' = [run EXCEPT ![r] = [run[r] EXCEPT !.phase = to]]
    BY DEF Prepared, Moved
  <2> QED BY <2>1, <2>2, RunWritten DEF Types, RunTyped
<1>2. r \in DOMAIN run'
  BY DEF Prepared, Moved
<1>3. run'[r].phase \in Phases
  BY <1>1, <1>2 DEF RunTyped, RunRows
<1>4. CallOf(run'[r].phase) \in Pcs
  BY <1>3, CallOfTyped DEF Pcs, Local, Awaits
<1>5. thread' \in [Threads -> ThreadRows]
  BY <1>4, ToTyped DEF Prepared
<1>6. HostTyped'
  BY ReceivedTyped DEF Prepared
<1> QED BY <1>1, <1>5, <1>6 DEF Prepared, Types

LEMMA AdmittedTypes ==
  ASSUME Types, NEW t \in Threads, thread[t].run \in DOMAIN run, Admitted(t)
  PROVE  Types'
<1> DEFINE r == thread[t].run
<1>1. RunTyped'
  <2>1. PICK row : row = [[run[r] EXCEPT !.phase = "dispatching"] EXCEPT !.session = TRUE]
    OBVIOUS
  <2>2. row \in RunRows
    BY <2>1 DEF Types, RunTyped, RunRows, Phases
  <2>3. run' = run \/ run' = [run EXCEPT ![r] = row]
    BY <2>1 DEF Admitted
  <2> QED BY <2>2, <2>3, RunWritten DEF Types, RunTyped
<1>2. r \in DOMAIN run'
  BY DEF Admitted
<1>3. run'[r].phase \in Phases
  BY <1>1, <1>2 DEF RunTyped, RunRows
<1>4. CallOf(run'[r].phase) \in Pcs
  BY <1>3, CallOfTyped DEF Pcs, Local, Awaits
<1>5. thread' \in [Threads -> ThreadRows]
  BY <1>4, ToTyped DEF Admitted
<1>6. HostTyped'
  BY ReceivedTyped DEF Admitted
<1> QED BY <1>1, <1>5, <1>6 DEF Admitted, Types

LEMMA UnendedTyped ==
  ASSUME RunTyped, NEW r, NEW row, r \in DOMAIN run => row \in RunRows,
         run' = Unended(r, row)
  PROVE  RunTyped'
<1>1. CASE run' = run
  BY <1>1 DEF RunTyped
<1>2. CASE run' = [run EXCEPT ![r] = row]
  BY <1>2, RunWritten
<1> QED BY <1>1, <1>2 DEF Unended

LEMMA ReadmittedTypes ==
  ASSUME Types, NEW t \in Threads, Readmitted(t)
  PROVE  Types'
<1> DEFINE r == thread[t].run
<1>1. r \in DOMAIN run => [run[r] EXCEPT !.session = TRUE] \in RunRows
  BY DEF Types, RunTyped, RunRows
<1>2. RunTyped'
  BY <1>1, UnendedTyped DEF Readmitted, Types
<1>3. thread' \in [Threads -> ThreadRows]
  BY ToTyped DEF Readmitted, Pcs, Awaits
<1>4. HostTyped'
  BY ReceivedTyped DEF Readmitted
<1> QED BY <1>2, <1>3, <1>4 DEF Readmitted, Types

LEMMA DispatchedTypes ==
  ASSUME Types, NEW t \in Threads, Dispatched(t)
  PROVE  Types'
<1> DEFINE r == thread[t].run
<1>1. r \in DOMAIN run => [run[r] EXCEPT !.phase = "executing"] \in RunRows
  BY DEF Types, RunTyped, RunRows, Phases
<1>2. RunTyped'
  BY <1>1, UnendedTyped DEF Dispatched, Types
<1>3. thread' \in [Threads -> ThreadRows]
  BY ToTyped DEF Dispatched, Pcs, Local
<1>4. HostTyped'
  BY ReceivedTyped DEF Dispatched
<1> QED BY <1>2, <1>3, <1>4 DEF Dispatched, Types

LEMMA DescribedTypes ==
  ASSUME Types, NEW t \in Threads, Described(t)
  PROVE  Types'
<1> DEFINE r == thread[t].run
<1>1. r \in DOMAIN run => [run[r] EXCEPT !.phase = "dispatching"] \in RunRows
  BY DEF Types, RunTyped, RunRows, Phases
<1>2. RunTyped'
  <2>1. CASE run' = run
    BY <2>1 DEF Types, RunTyped
  <2>2. CASE run' = Unended(r, [run[r] EXCEPT !.phase = "dispatching"])
    BY <1>1, <2>2, UnendedTyped DEF Types
  <2> QED BY <2>1, <2>2, Zenon DEF Described
<1>3. thread' \in [Threads -> ThreadRows]
  <2>1. CASE To(t, "return")
    BY <2>1, ToTyped DEF Pcs, Local
  <2>2. CASE To(t, "readmit")
    BY <2>2, ToTyped DEF Pcs, Awaits
  <2>3. CASE executor[r] \in Verdicts /\ Closing(t, [thread[t] EXCEPT !.fate = executor[r]])
    <3>1. executor[r] \in Outcomes
      BY <2>3 DEF Outcomes
    <3> QED BY <2>3, <3>1, FateTyped, ClosingTyped DEF Types
  <2> QED BY <2>1, <2>2, <2>3, Zenon DEF Described
<1> QED BY <1>2, <1>3 DEF Described, Types, host, HostTyped

LEMMA ClosedTypes ==
  ASSUME Types, NEW t \in Threads, Closed(t)
  PROVE  Types'
<1>1. thread' \in [Threads -> ThreadRows]
  BY ToTyped DEF Closed, Pcs, Local
<1>2. HostTyped'
  BY ReceivedTyped DEF Closed
<1> QED BY <1>1, <1>2 DEF Closed, Types, ledger, RunTyped

LEMMA AckTyped ==
  ASSUME NEW r \in RunIds
  PROVE  [kind |-> "ack-executor-terminal", of |-> r] \in Effects
BY DEF Effects

LEMMA TerminalizeTypes ==
  ASSUME Types, NEW t \in Threads, Terminalize(t)
  PROVE  Types'
<1> DEFINE r == thread[t].run
           fate == thread[t].fate
<1>1. fate \in Outcomes /\ r \in RunIds
  BY ThreadFields
<1>2. RunTyped'
  <2>1. PICK row : row = [[run[r] EXCEPT !.phase = "terminal"] EXCEPT !.outcome = fate]
    OBVIOUS
  <2>2. r \in DOMAIN run => row \in RunRows
    BY <1>1, <2>1 DEF Types, RunTyped, RunRows, Phases
  <2>3. run' = Unended(r, row)
    BY <2>1 DEF Terminalize
  <2> QED BY <2>2, <2>3, UnendedTyped DEF Types
<1>3. mission' \in MissionRows
  BY MissionsAssumption, ScheduleTyped DEF Terminalize, Types
<1>4. effects' \in SUBSET Effects
  BY <1>1, AckTyped DEF Terminalize, Types
<1>5. [thread[t] EXCEPT !.fate = "none", !.run = Idle.run] \in ThreadRows
  BY ThreadFields, IdleTyped DEF ThreadRows, Outcomes
<1>6. PICK due \in SUBSET Effects :
        Reconcile(t, [thread[t] EXCEPT !.fate = "none", !.run = Idle.run], due)
  BY <1>4 DEF Terminalize
<1>7. thread' \in [Threads -> ThreadRows]
  BY <1>5, <1>6, ReconcileTyped DEF Types
<1> QED BY <1>2, <1>3, <1>4, <1>7 DEF Terminalize, Types, host, HostTyped

LEMMA ExecutedTypes ==
  ASSUME Types, NEW t \in Threads, Executed(t)
  PROVE  Types'
<1>1. thread' \in [Threads -> ThreadRows]
  BY ThreadFields, ReconcileTyped DEF Executed, Types
<1>2. HostTyped'
  BY ReceivedTyped DEF Executed
<1> QED BY <1>1, <1>2 DEF Executed, Types, RunTyped

LEMMA NextRunTypes ==
  ASSUME Types, NEW t \in Threads, NextRun(t)
  PROVE  Types'
<1>1. PICK r \in thread[t].runs :
        LET new == [thread[t] EXCEPT !.run = r, !.runs = @ \ {r}] IN
        \/ Goto(t, [new EXCEPT !.pc = "advance"])
        \/ Closing(t, [new EXCEPT !.fate = "interrupted"])
  BY DEF NextRun
<1> DEFINE new == [thread[t] EXCEPT !.run = r, !.runs = @ \ {r}]
<1>2. new \in ThreadRows
  BY ThreadFields DEF ThreadRows
<1> HIDE DEF new
<1>3. /\ [new EXCEPT !.pc = "advance"] \in ThreadRows
      /\ [new EXCEPT !.fate = "interrupted"] \in ThreadRows
  BY <1>2 DEF ThreadRows, Pcs, Local, Outcomes
<1>4. \/ Goto(t, [new EXCEPT !.pc = "advance"])
      \/ Closing(t, [new EXCEPT !.fate = "interrupted"])
  BY <1>1 DEF new
<1>5. thread' \in [Threads -> ThreadRows]
  BY <1>3, <1>4, GotoTyped, ClosingTyped DEF Types
<1> QED BY <1>5 DEF NextRun, Types, ledger, host, RunTyped, HostTyped

LEMMA ReturnTypes ==
  ASSUME Types, NEW t \in Threads, Return(t)
  PROVE  Types'
<1>1. UNCHANGED <<run, effects, clock, session, executor>>
  BY DEF Return, host
<1>2. CASE /\ mission' = IF thread[t].op = "edit"
                          THEN [mission EXCEPT !.editing = FALSE] ELSE mission
           /\ EndWell(t)
  <2>1. mission' \in MissionRows
    BY <1>2 DEF Types, MissionRows
  <2>2. thread' \in [Threads -> ThreadRows] /\ wake' \in Wakes
    BY <1>2, <2>1, EndWellTyped
  <2> QED BY <1>1, <2>1, <2>2 DEF Types, RunTyped, HostTyped
<1>3. CASE /\ UNCHANGED <<mission, wake>>
           /\ \/ \E stage \in Stages :
                   Reconcile(t, [thread[t] EXCEPT !.stage = stage], effects)
              \/ \E pc \in Pcs : To(t, pc)
  <2>1. \A stage \in Stages : [thread[t] EXCEPT !.stage = stage] \in ThreadRows
    BY ThreadFields DEF ThreadRows
  <2>2. thread' \in [Threads -> ThreadRows]
    BY <1>3, <2>1, ReconcileTyped, ToTyped DEF Types
  <2> QED BY <1>1, <1>3, <2>2 DEF Types, RunTyped, HostTyped
<1>4. "drain" \in Stages /\ "last" \in Stages /\ "due" \in Pcs /\ "acquire" \in Pcs
  BY DEF Stages, Pcs, Local, Awaits
<1> QED BY <1>2, <1>3, <1>4, Zenon DEF Return

LEMMA CaughtTypes ==
  ASSUME Types, NEW t \in Threads, Caught(t)
  PROVE  Types'
<1>1. thread' \in [Threads -> ThreadRows]
  <2>1. CASE To(t, "return")
    BY <2>1, ToTyped DEF Pcs, Local
  <2>2. CASE Closing(t, [thread[t] EXCEPT !.fate = "error"])
    BY <2>2, FateTyped, ClosingTyped DEF Types, Outcomes
  <2> QED BY <2>1, <2>2 DEF Caught
<1> QED BY <1>1 DEF Caught, Types, ledger, host, RunTyped, HostTyped

LEMMA FailTypes ==
  ASSUME Types, NEW t \in Threads, Fail(t)
  PROVE  Types'
<1>1. UNCHANGED <<mission, run, effects, clock>>
  BY DEF Fail, ledger
<1>2. HostTyped'
  BY ReceivedTyped DEF Fail, host, Types, HostTyped
<1>3. CASE Abort(t)
  BY <1>1, <1>2, <1>3, AbortTyped DEF Types, RunTyped
<1>4. CASE UNCHANGED wake /\ \/ Reconcile(t, thread[t], thread[t].effects)
                             \/ To(t, "return")
                             \/ To(t, "caught")
  <2>1. thread' \in [Threads -> ThreadRows]
    BY <1>4, ThreadFields, ReconcileTyped, ToTyped DEF Types, Pcs, Local
  <2> QED BY <1>1, <1>2, <1>4, <2>1 DEF Types, RunTyped
<1> QED BY <1>3, <1>4, Zenon DEF Fail

LEMMA CrashTypes ==
  ASSUME Types, Crash
  PROVE  Types'
<1>1. thread' \in [Threads -> ThreadRows]
  BY IdleTyped DEF Crash
<1>2. wake' \in Wakes
  BY DEF Crash, Types, Wakes
<1> QED BY <1>1, <1>2 DEF Crash, Types, ledger, host, RunTyped, HostTyped

LEMMA EnvironmentTypes ==
  ASSUME Types, Read \/ Tick \/ \E r \in RunIds : ExecutorEnds(r)
  PROVE  Types'
<1>1. CASE Read
  <2>1. mission' \in MissionRows
    BY <1>1 DEF Read, Types, ledger
  <2>2. wake' \in Wakes
    BY <1>1, <2>1, ArmedTyped DEF Read, Types
  <2> QED BY <1>1, <2>2 DEF Read, Types, ledger, host, RunTyped, HostTyped
<1>2. CASE Tick
  <2>1. clock' \in 0..MaxTime
    BY <1>2, MissionsAssumption DEF Tick, Types
  <2> QED BY <1>2, <2>1 DEF Tick, Types, ledger, host, RunTyped, HostTyped
<1>3. ASSUME NEW r \in RunIds, ExecutorEnds(r) PROVE Types'
  <2>1. HostTyped'
    BY <1>3 DEF ExecutorEnds, Types, HostTyped
  <2> QED BY <1>3, <2>1 DEF ExecutorEnds, Types, ledger, RunTyped
<1> QED BY <1>1, <1>2, <1>3

-----------------------------------------------------------------------------
(* What a thread knows between its awaits.                                 *)

\* The subject of a revision: the mission's own, or that of one it has replaced.
Revised(c, n) ==
  n <= mission.revision /\ (n = mission.revision => c = mission.charter)

\* The run may be interrupted.
Owed(r) == run[r].revision < mission.revision \/ mission.state = "retired"

Ended(r) == r \in DOMAIN run /\ run[r].phase = "terminal"

AcksEnd(due) == \A e \in due : e.kind = "ack-executor-terminal" => Ended(e.of)

\* A thread here works on its run.
Advancing == {"advance", "caught", "terminal", "context", "target", "admit",
              "readmit", "dispatch", "describe", "close"}

\* What a thread took along when it began to wait.
Carries(th) ==
  /\ Revised(th.seen.charter, th.seen.revision)
  /\ \A r \in th.runs : r \in DOMAIN run /\ (th.stage # "resume" => Owed(r))
  /\ AcksEnd(th.effects)

\* What it has found out where it stands.
Stands(th) ==
  /\ th.pc \in Advancing => th.run \in DOMAIN run
  /\ th.pc \in {"close", "terminal"} /\ th.fate = "interrupted" => Owed(th.run)
  /\ th.pc = "terminal" /\ run[th.run].session => session[th.run] = "closed"
  /\ th.pc = "hash" => th.run.subject = th.seen.charter
  /\ th.pc = "compile" => th.seen.revision < MaxRevisions
  /\ th.pc = "effect" => AcksEnd({th.effect})

Knows(th) == Carries(th) /\ Stands(th)

Known == \A t \in Threads : Knows(thread[t])

OneLocal ==
  \A t, u \in Threads : thread[t].pc \in Local /\ thread[u].pc \in Local => t = u

Facts ==
  /\ AcksEnd(effects)
  /\ \A r \in RunIds : executor[r] # "idle" => r \in DOMAIN run
  /\ \A r \in DOMAIN run : Revised(r.subject, run[r].revision)
  /\ Revised(First, 1)

MissionInv ==
  /\ Types
  /\ Known /\ OneLocal
  /\ Facts
  /\ RecordedSessionsClose /\ ReceiptOutlivesRun /\ InterruptionsAreOwed

LedgerFacts ==
  Facts /\ RecordedSessionsClose /\ ReceiptOutlivesRun /\ InterruptionsAreOwed

-----------------------------------------------------------------------------
(* What every step leaves of it.                                           *)

MissionKept ==
  /\ mission.revision <= mission'.revision
  /\ mission'.revision = mission.revision =>
       /\ mission'.charter = mission.charter
       /\ mission.state = "retired" => mission'.state = "retired"

RunsKept ==
  \A r \in DOMAIN run :
    /\ r \in DOMAIN run'
    /\ run'[r].revision = run[r].revision
    /\ run[r].phase = "terminal" => run'[r] = run[r]

\* No run comes, ends, or has another outcome.
RunsStand ==
  /\ RunsKept
  /\ DOMAIN run' = DOMAIN run
  /\ \A r \in DOMAIN run :
       /\ run'[r].outcome = run[r].outcome
       /\ run'[r].phase = "terminal" => run[r].phase = "terminal"

HostKept ==
  \A r \in RunIds :
    /\ session[r] = "closed" => session'[r] = "closed"
    /\ executor'[r] # "idle" => r \in DOMAIN run
    /\ executor'[r] = "acked" => Ended(r)

Kept == MissionKept /\ RunsKept /\ HostKept

Quiet(t) == \A u \in Threads \ {t} : thread[u].pc \notin Local

Goes(t) == \E th \in ThreadRows : Goto(t, th) /\ Knows(th)'

LEMMA Numbers ==
  ASSUME Types
  PROVE  /\ mission.revision \in Nat
         /\ \A r \in DOMAIN run : run[r].revision \in Nat
         /\ \A t \in Threads : thread[t].seen.revision \in Nat
<1>1. \A n \in 1..MaxRevisions : n \in Nat
  BY MissionsAssumption
<1>2. \A t \in Threads : thread[t].seen.revision \in 1..MaxRevisions
  BY ThreadFields DEF MissionRows
<1> QED BY <1>1, <1>2 DEF Types, RunTyped, MissionRows, RunRows

LEMMA RevisedKept ==
  ASSUME Types, Types', MissionKept, NEW c, NEW n \in Nat, Revised(c, n)
  PROVE  Revised(c, n)'
<1>1. PICK a \in Nat, b \in Nat : a = mission.revision /\ b = mission'.revision
  BY Numbers, MissionsAssumption DEF Types, MissionRows
<1> QED BY <1>1 DEF MissionKept, Revised

LEMMA OwedKept ==
  ASSUME Types, Types', Facts, MissionKept, RunsKept, NEW r \in DOMAIN run, Owed(r)
  PROVE  Owed(r)'
<1>1. PICK a \in Nat, b \in Nat, n \in Nat :
        a = mission.revision /\ b = mission'.revision /\ n = run[r].revision
  BY Numbers, MissionsAssumption DEF Types, MissionRows
<1>2. n <= a /\ a <= b /\ run'[r].revision = n
  BY <1>1 DEF Facts, Revised, MissionKept, RunsKept
<1>3. n < a \/ mission.state = "retired"
  BY <1>1 DEF Owed
<1>4. n < b \/ mission'.state = "retired"
  BY <1>1, <1>2, <1>3 DEF MissionKept
<1> QED BY <1>1, <1>2, <1>4 DEF Owed

LEMMA AcksKept ==
  ASSUME RunsKept, NEW due, AcksEnd(due)
  PROVE  AcksEnd(due)'
BY DEF AcksEnd, Ended, RunsKept

LEMMA CarriesKept ==
  ASSUME Types, Types', Facts, Kept, NEW th \in ThreadRows, Carries(th)
  PROVE  Carries(th)'
<1>1. th.seen.revision \in Nat
  BY MissionsAssumption DEF ThreadRows, MissionRows
<1>2. Revised(th.seen.charter, th.seen.revision)'
  BY <1>1, RevisedKept DEF Kept, Carries
<1>3. AcksEnd(th.effects)'
  BY AcksKept DEF Kept, Carries
<1>4. ASSUME NEW r \in th.runs
      PROVE  r \in DOMAIN run' /\ (th.stage # "resume" => Owed(r)')
  BY <1>4, OwedKept DEF Carries, Kept, RunsKept
<1> QED BY <1>2, <1>3, <1>4 DEF Carries

LEMMA KnowsKept ==
  ASSUME Types, Types', Facts, Kept, NEW th \in ThreadRows, Knows(th),
         th.pc \notin Local \/ run' = run
  PROVE  Knows(th)'
<1>1. Carries(th)'
  BY CarriesKept DEF Knows
<1>2. th.pc \in Advancing => th.run \in DOMAIN run /\ th.run \in DOMAIN run'
  BY DEF Knows, Stands, Kept, RunsKept
<1>3. th.pc \in {"close", "terminal"} => th.pc \in Advancing
  BY DEF Advancing
<1>4. th.pc \in {"close", "terminal"} /\ th.fate = "interrupted" => Owed(th.run)'
  BY <1>2, <1>3, OwedKept DEF Knows, Stands, Kept
<1>5. th.pc = "terminal" /\ run'[th.run].session => session'[th.run] = "closed"
  <2>1. th.pc = "terminal" => run' = run
    BY DEF Local
  <2>2. th.run \in RunIds
    BY DEF ThreadRows
  <2> QED BY <2>1, <2>2 DEF Knows, Stands, Kept, HostKept
<1>6. th.pc = "effect" => AcksEnd({th.effect})'
  BY AcksKept DEF Knows, Stands, Kept
<1> QED BY <1>1, <1>2, <1>4, <1>5, <1>6 DEF Knows, Stands

LEMMA AtQuiet ==
  ASSUME OneLocal, NEW t \in Threads, NEW pc, At(t, pc)
  PROVE  Quiet(t)
BY DEF OneLocal, At, Quiet

\* A thread that moves alone leaves the others what they know.
LEMMA GoesKnown ==
  ASSUME Types, Types', Facts, Kept, Known, NEW t \in Threads, Quiet(t), Goes(t)
  PROVE  Known' /\ OneLocal'
<1>1. PICK th \in ThreadRows : Goto(t, th) /\ Knows(th)'
  BY DEF Goes
<1>2. thread'[t] = th /\ \A u \in Threads \ {t} : thread'[u] = thread[u]
  BY <1>1 DEF Goto, Types
<1>3. ASSUME NEW u \in Threads
      PROVE  Knows(thread[u])'
  <2>1. CASE u = t
    BY <1>1, <1>2, <2>1 DEF Knows, Carries, Stands
  <2>2. CASE u # t
    <3>1. PICK old \in ThreadRows : old = thread[u]
      BY ThreadFields
    <3>2. old.pc \notin Local /\ Knows(old)
      BY <2>2, <3>1 DEF Quiet, Known
    <3>3. Knows(old)'
      BY <3>2, KnowsKept
    <3>4. thread'[u] = old
      BY <1>2, <2>2, <3>1
    <3> QED BY <3>3, <3>4 DEF Knows, Carries, Stands
  <2> QED BY <2>1, <2>2
<1>4. Known'
  BY <1>3 DEF Known, Threads
<1>5. OneLocal'
  BY <1>2 DEF OneLocal, Quiet, Threads
<1> QED BY <1>4, <1>5

LEMMA StillKnown ==
  ASSUME Types, Types', Facts, Kept, Known, OneLocal, run' = run, thread' = thread
  PROVE  Known' /\ OneLocal'
<1>1. ASSUME NEW u \in Threads
      PROVE  Knows(thread[u])'
  <2>1. PICK old \in ThreadRows : old = thread[u]
    BY ThreadFields
  <2>2. Knows(old)'
    BY <2>1, KnowsKept DEF Known
  <2> QED BY <2>1, <2>2 DEF Knows, Carries, Stands
<1> QED BY <1>1 DEF Known, OneLocal, Threads

\* The ledger's own facts, when no run comes or ends.
LEMMA FactsStand ==
  ASSUME Types, Types', LedgerFacts, MissionKept, RunsStand, HostKept, AcksEnd(effects)'
  PROVE  LedgerFacts'
<1>1. Revised(First, 1)'
  BY RevisedKept DEF LedgerFacts, Facts
<1>2. ASSUME NEW r \in DOMAIN run'
      PROVE  Revised(r.subject, run[r].revision)'
  <2>1. r \in DOMAIN run /\ run'[r].revision = run[r].revision
    BY DEF RunsStand, RunsKept
  <2>2. PICK n \in Nat : n = run[r].revision
    BY <2>1, Numbers
  <2>3. Revised(r.subject, n)'
    BY <2>1, <2>2, RevisedKept DEF LedgerFacts, Facts
  <2> QED BY <2>1, <2>2, <2>3 DEF Revised
<1>3. Facts'
  BY <1>1, <1>2 DEF Facts, HostKept, RunsStand
<1>4. RecordedSessionsClose'
  <2>1. DOMAIN run \subseteq RunIds
    BY DEF Types, RunTyped
  <2> QED BY <2>1 DEF LedgerFacts, RecordedSessionsClose, RunsStand, RunsKept, HostKept
<1>5. ReceiptOutlivesRun'
  BY DEF ReceiptOutlivesRun, HostKept, Ended, Live, RunsStand, RunsKept
<1>6. InterruptionsAreOwed'
  <2>1. ASSUME NEW r \in DOMAIN run', run'[r].outcome = "interrupted"
        PROVE  Owed(r)'
    BY <2>1, OwedKept DEF LedgerFacts, InterruptionsAreOwed, Owed, RunsStand
  <2> QED BY <2>1 DEF InterruptionsAreOwed, Owed
<1> QED BY <1>3, <1>4, <1>5, <1>6 DEF LedgerFacts

-----------------------------------------------------------------------------
(* Where the threads go.                                                   *)

LEMMA IdleCarries ==
  ASSUME Revised(First, 1)', NEW th, th.seen = NewMission, th.runs = {}, th.effects = {}
  PROVE  Carries(th)'
BY DEF Carries, AcksEnd, NewMission

\* A place where a thread has found out nothing yet.
LEMMA Plain ==
  ASSUME NEW th, Carries(th)', th.pc \in {"idle", "return", "acquire", "due"}
  PROVE  Knows(th)'
BY DEF Knows, Stands, Advancing

LEMMA Working ==
  ASSUME NEW th, Carries(th)', th.run \in DOMAIN run',
         th.pc \in Advancing \ {"close", "terminal"}
  PROVE  Knows(th)'
BY DEF Knows, Stands, Advancing

LEMMA ClosingGoes ==
  ASSUME NEW t, NEW new \in ThreadRows, Closing(t, new), run' = run, Carries(new)',
         new.run \in DOMAIN run, new.fate = "interrupted" => Owed(new.run)'
  PROVE  Goes(t)
<1>1. PICK pc \in {"close", "terminal"} :
        /\ Goto(t, [new EXCEPT !.pc = pc])
        /\ pc = "terminal" => ~run[new.run].session
  BY DEF Closing
<1>2. PICK th \in ThreadRows : th = [new EXCEPT !.pc = pc]
  BY AtTyped DEF Pcs, Local, Awaits
<1>3. /\ th.pc = pc /\ th.run = new.run /\ th.fate = new.fate /\ th.seen = new.seen
      /\ th.runs = new.runs /\ th.effects = new.effects /\ th.stage = new.stage
  BY <1>2 DEF ThreadRows
<1>4. Carries(th)'
  BY <1>3 DEF Carries
<1>5. Stands(th)'
  BY <1>1, <1>3 DEF Stands, Advancing
<1> QED BY <1>1, <1>2, <1>4, <1>5 DEF Goes, Knows

LEMMA ReconcileGoes ==
  ASSUME NEW t, NEW new \in ThreadRows, NEW due \in SUBSET Effects,
         Reconcile(t, new, due), Carries(new)', AcksEnd(due)'
  PROVE  Goes(t)
<1>1. Idle.effect \in Effects
  BY IdleTyped DEF ThreadRows
<1>2. CASE Goto(t, [new EXCEPT !.pc = "return", !.effects = {}, !.effect = Idle.effect])
  <2>1. PICK th : th = [new EXCEPT !.pc = "return", !.effects = {},
                                   !.effect = Idle.effect]
    OBVIOUS
  <2>2. th \in ThreadRows
    BY <1>1, <2>1 DEF ThreadRows, Pcs, Local
  <2>3. /\ th.pc = "return" /\ th.effects = {} /\ th.seen = new.seen
        /\ th.runs = new.runs /\ th.stage = new.stage
    BY <2>1 DEF ThreadRows
  <2>4. Carries(th)'
    BY <2>3 DEF Carries, AcksEnd
  <2> QED BY <1>2, <2>1, <2>2, <2>3, <2>4, Plain DEF Goes
<1>3. ASSUME NEW e \in due,
             Goto(t, [new EXCEPT !.pc = "effect", !.effect = e, !.effects = due \ {e}])
      PROVE  Goes(t)
  <2>1. PICK th : th = [new EXCEPT !.pc = "effect", !.effect = e, !.effects = due \ {e}]
    OBVIOUS
  <2>2. th \in ThreadRows
    BY <2>1 DEF ThreadRows, Pcs, Awaits
  <2>3. /\ th.pc = "effect" /\ th.effects = due \ {e} /\ th.effect = e
        /\ th.seen = new.seen /\ th.runs = new.runs /\ th.stage = new.stage
    BY <2>1 DEF ThreadRows
  <2>4. Knows(th)'
    BY <2>3 DEF Knows, Carries, Stands, AcksEnd, Advancing
  <2> QED BY <1>3, <2>1, <2>2, <2>4 DEF Goes
<1> QED BY <1>2, <1>3 DEF Reconcile

LEMMA ToGoes ==
  ASSUME Types, NEW t \in Threads, NEW pc \in Pcs, To(t, pc), NEW old \in ThreadRows,
         old = thread[t], Carries(old)',
         \/ pc \in {"idle", "return", "acquire", "due"}
         \/ pc \in Advancing \ {"close", "terminal"} /\ old.run \in DOMAIN run'
  PROVE  Goes(t)
<1>1. PICK th \in ThreadRows : th = [old EXCEPT !.pc = pc]
  BY AtTyped
<1>2. /\ th.pc = pc /\ th.seen = old.seen /\ th.runs = old.runs /\ th.run = old.run
      /\ th.effects = old.effects /\ th.stage = old.stage
  BY <1>1 DEF ThreadRows
<1>3. Carries(th)'
  BY <1>2 DEF Carries
<1>4. Knows(th)'
  BY <1>2, <1>3, Plain, Working
<1> QED BY <1>1, <1>4 DEF Goes, To

LEMMA IdleGoes ==
  ASSUME Revised(First, 1)', NEW t, Goto(t, Idle)
  PROVE  Goes(t)
<1>1. PICK th \in ThreadRows : th = Idle
  BY IdleTyped
<1>2. th.seen = NewMission /\ th.runs = {} /\ th.effects = {} /\ th.pc = "idle"
  BY <1>1 DEF Idle
<1>3. Knows(th)'
  BY <1>2, IdleCarries, Plain
<1> QED BY <1>1, <1>3 DEF Goes

-----------------------------------------------------------------------------
(* Every step keeps what is known.                                         *)

LEMMA HostStands ==
  ASSUME MissionInv, UNCHANGED <<session, executor>>
  PROVE  HostKept
BY DEF MissionInv, Facts, ReceiptOutlivesRun, Live, Ended, HostKept

LEMMA ReceivedKept ==
  ASSUME MissionInv, NEW t \in Threads, Received(t)
  PROVE  HostKept
<1> DEFINE r == thread[t].run
           e == thread[t].effect
<1>1. Knows(thread[t]) /\ thread[t].pc = "dispatch" => r \in DOMAIN run
  BY DEF Knows, Stands, Advancing
<1>2. Knows(thread[t]) /\ thread[t].pc = "effect" /\ e.kind = "ack-executor-terminal"
        => Ended(e.of)
  BY DEF Knows, Stands, AcksEnd
<1>3. \A i \in RunIds : executor[i] = "acked" => Ended(i)
  BY DEF MissionInv, ReceiptOutlivesRun, Live, Ended
<1>4. \A i \in RunIds : executor[i] # "idle" => i \in DOMAIN run
  BY DEF MissionInv, Facts
<1>5. session \in [RunIds -> {"none", "open", "closed"}]
  BY DEF MissionInv, Types, HostTyped
<1>6. executor \in [RunIds -> {"idle", "running", "acked"} \cup Verdicts]
  BY DEF MissionInv, Types, HostTyped
<1>7. \A i \in RunIds : session[i] = "closed" => session'[i] = "closed"
  BY <1>5 DEF Received
<1>8. \A i \in RunIds : executor'[i] # "idle" => i \in DOMAIN run
  BY <1>1, <1>2, <1>4, <1>6 DEF Received, MissionInv, Known, Ended
<1>9. \A i \in RunIds : executor'[i] = "acked" => Ended(i)
  BY <1>2, <1>3, <1>6 DEF Received, MissionInv, Known
<1> QED BY <1>7, <1>8, <1>9 DEF HostKept

LEMMA MissionStands ==
  ASSUME Types, NEW m \in MissionRows, NEW c, NEW now, NEW n,
         \/ mission' = mission
         \/ mission' = Completed(mission)
         \/ mission' = Advanced(mission, c, now, n)
         \/ m = [mission EXCEPT !.count = n] /\ mission' \in {m, Advanced(m, c, now, n)}
         \/ mission' = [mission EXCEPT !.editing = FALSE]
         \/ mission' = [mission EXCEPT !.state = "paused", !.next = now]
              /\ mission.state # "retired"
         \/ mission' = [mission EXCEPT !.state = "active", !.next = now]
              /\ mission.state # "retired"
         \/ mission' = [mission EXCEPT !.state = "retired", !.next = now]
  PROVE  MissionKept
<1>1. mission \in MissionRows /\ mission.revision \in Nat
  BY Numbers DEF Types
<1>2. /\ mission'.revision = mission.revision
      /\ mission'.charter = mission.charter
      /\ mission.state = "retired" => mission'.state = "retired"
  BY ZenonT(40), <1>1 DEF Completed, Advanced, MissionRows
<1>3. PICK n1 \in Nat : n1 = mission.revision
  BY <1>1
<1> QED BY <1>2, <1>3 DEF MissionKept

LEMMA LedgerStands ==
  ASSUME run' = run
  PROVE  RunsStand
BY DEF RunsStand, RunsKept

LEMMA SplitInv == MissionInv <=> Types /\ Known /\ OneLocal /\ LedgerFacts
BY DEF MissionInv, LedgerFacts

\* A step of a thread after which the runs are those they were.
LEMMA QuietStep ==
  ASSUME MissionInv, Types', NEW t \in Threads, Quiet(t), MissionKept, RunsStand, HostKept,
         AcksEnd(effects)', Goes(t)
  PROVE  MissionInv'
<1>1. LedgerFacts'
  BY SplitInv, FactsStand
<1>2. Known' /\ OneLocal'
  BY GoesKnown DEF MissionInv, Kept, RunsStand
<1> QED BY <1>1, <1>2 DEF MissionInv, LedgerFacts

LEMMA StillStep ==
  ASSUME MissionInv, Types', MissionKept, HostKept, UNCHANGED <<run, effects, thread>>
  PROVE  MissionInv'
<1>1. RunsStand
  BY LedgerStands
<1>2. AcksEnd(effects)'
  BY <1>1, AcksKept DEF MissionInv, Facts, RunsStand, AcksEnd
<1>3. LedgerFacts'
  BY <1>1, <1>2, SplitInv, FactsStand
<1>4. Known' /\ OneLocal'
  BY <1>1, StillKnown DEF MissionInv, Kept, RunsStand
<1> QED BY <1>3, <1>4 DEF MissionInv, LedgerFacts

LEMMA EffectsStand ==
  ASSUME MissionInv, RunsKept, effects' \subseteq effects
  PROVE  AcksEnd(effects)'
BY DEF MissionInv, Facts, AcksEnd, RunsKept, Ended

LEMMA RetireOwed ==
  ASSUME MissionInv, RunsKept, NEW c, NEW of,
         effects' = effects \cup {[kind |-> c, of |-> of]}, c # "ack-executor-terminal"
  PROVE  AcksEnd(effects)'
BY DEF MissionInv, Facts, AcksEnd, RunsKept, Ended

LEMMA FirstKept ==
  ASSUME MissionInv, Types', MissionKept
  PROVE  Revised(First, 1)'
BY RevisedKept DEF MissionInv, Facts

LEMMA FreeQuiet ==
  ASSUME OneLocal, NEW t \in Threads, Free(t)
  PROVE  Quiet(t)
BY AtQuiet DEF Free

LEMMA RunNowKeeps ==
  ASSUME MissionInv, Types', NEW t \in Requests, NEW k \in Keys, RunNow(t, k)
  PROVE  MissionInv'
<1>1. UNCHANGED <<mission, run, effects, session, executor>>
  BY DEF RunNow, ledger, host
<1>2. MissionKept
  BY <1>1, Numbers DEF MissionKept, MissionInv
<1>3. RunsStand /\ HostKept
  BY <1>1, LedgerStands, HostStands
<1>4. PICK th : th = [New("runNow") EXCEPT !.pc = "acquire", !.key = k]
  OBVIOUS
<1>5. th \in ThreadRows
  <2>1. New("runNow") \in ThreadRows
    BY NewTyped DEF Ops, MissionInv
  <2> QED BY <1>4, <2>1 DEF ThreadRows, Pcs, Awaits
<1>6. th.pc = "acquire" /\ th.runs = {} /\ th.effects = {} /\ th.seen = mission
  BY <1>4, IdleTyped DEF New, Idle, ThreadRows
<1>7. Carries(th)'
  BY <1>1, <1>6, Numbers DEF Carries, AcksEnd, Revised, MissionInv
<1>8. Goes(t)
  BY <1>4, <1>5, <1>6, <1>7, Plain DEF Goes, RunNow
<1> QED
  BY <1>1, <1>2, <1>3, <1>8, EffectsStand, FreeQuiet, QuietStep
     DEF RunNow, Threads, MissionInv, RunsStand

LEMMA PauseKeeps ==
  ASSUME MissionInv, Types', NEW t, Pause(t) \/ Resume(t)
  PROVE  MissionInv'
<1>1. UNCHANGED <<run, effects, thread, session, executor>>
  BY DEF Pause, Resume, host
<1>2. MissionKept
  BY MissionStands, IdleTyped DEF Pause, Resume, MissionInv
<1> QED BY <1>1, <1>2, HostStands, StillStep

\* The runs that a retirement or an edit interrupts.
LEMMA InterruptGoes ==
  ASSUME Revised(First, 1)', NEW t, NEW runs \in SUBSET RunIds, NEW op \in Ops,
         Goto(t, [Idle EXCEPT !.op = op, !.stage = "interrupt", !.pc = "return",
                              !.runs = runs]),
         \A r \in runs : r \in DOMAIN run' /\ Owed(r)'
  PROVE  Goes(t)
<1>1. PICK th : th = [Idle EXCEPT !.op = op, !.stage = "interrupt", !.pc = "return",
                                  !.runs = runs]
  OBVIOUS
<1>2. th \in ThreadRows
  BY <1>1, IdleTyped DEF ThreadRows, Stages, Pcs, Local
<1>3. th.pc = "return" /\ th.runs = runs /\ th.seen = NewMission /\ th.effects = {}
  BY <1>1 DEF Idle
<1>4. Carries(th)'
  BY <1>3 DEF Carries, AcksEnd, NewMission
<1> QED BY <1>1, <1>2, <1>3, <1>4, Plain DEF Goes

LEMMA RetireKeeps ==
  ASSUME MissionInv, Types', NEW t \in Threads, Retire(t)
  PROVE  MissionInv'
<1>1. UNCHANGED <<run, session, executor>>
  BY DEF Retire, host
<1>2. MissionKept
  BY MissionStands, IdleTyped DEF Retire, MissionInv
<1>3. RunsStand /\ HostKept
  BY <1>1, LedgerStands, HostStands
<1>4. AcksEnd(effects)'
  BY <1>3, RetireOwed DEF Retire, RunsStand
<1>5. PICK runs \in SUBSET RunIds : runs = Interrupted(mission.charter)
  BY InterruptedTyped DEF MissionInv, Types
<1>6. \A r \in runs : r \in DOMAIN run' /\ Owed(r)'
  <2>1. mission'.state = "retired"
    BY DEF Retire, MissionInv, Types, MissionRows
  <2> QED BY <1>1, <1>5, <2>1 DEF Interrupted, Live, Owed
<1>7. Goes(t)
  BY <1>2, <1>5, <1>6, FirstKept, InterruptGoes DEF Retire, Ops
<1> QED BY <1>2, <1>3, <1>4, <1>7, FreeQuiet, QuietStep DEF Retire, MissionInv

LEMMA AbortGoes ==
  ASSUME MissionInv, Types', MissionKept, NEW t, Abort(t) \/ EndWell(t)
  PROVE  Goes(t)
BY FirstKept, IdleGoes DEF Abort, EndWell

LEMMA CommitKeeps ==
  ASSUME MissionInv, Types', NEW t \in Threads, Quiet(t), NEW old, NEW c,
         Commit(t, old, c)
  PROVE  MissionInv'
<1>1. UNCHANGED <<run, session, executor>>
  BY DEF Commit, host
<1>2. RunsStand /\ HostKept
  BY <1>1, LedgerStands, HostStands
<1>3. CASE Abort(t) /\ UNCHANGED <<mission, effects>>
  <2>1. MissionKept
    BY <1>3, MissionStands, IdleTyped DEF MissionInv
  <2>2. Goes(t)
    BY <1>3, <2>1, AbortGoes
  <2> QED BY <1>2, <1>3, <2>1, <2>2, EffectsStand, QuietStep DEF RunsStand
<1>4. CASE /\ mission' = [mission EXCEPT !.state = "active", !.revision = @ + 1,
                                         !.charter = c, !.next = InitialRun(c, clock),
                                         !.editing = TRUE]
           /\ effects' = effects \cup {[kind |-> "retire-authority", of |-> old.charter]}
           /\ Goto(t, [Idle EXCEPT !.op = "edit", !.stage = "interrupt", !.pc = "return",
                                   !.runs = Interrupted(old.charter)])
  <2>1. PICK n \in Nat : n = mission.revision
    BY Numbers DEF MissionInv
  <2>2. mission'.revision = n + 1
    BY <1>4, <2>1 DEF MissionInv, Types, MissionRows
  <2>3. MissionKept
    BY <2>1, <2>2 DEF MissionKept
  <2>4. AcksEnd(effects)'
    BY <1>2, <1>4, RetireOwed DEF RunsStand
  <2>5. PICK runs \in SUBSET RunIds : runs = Interrupted(old.charter)
    BY InterruptedTyped DEF MissionInv, Types
  <2>6. ASSUME NEW r \in runs
        PROVE  r \in DOMAIN run' /\ Owed(r)'
    <3>1. r \in DOMAIN run
      BY <2>5 DEF Interrupted, Live
    <3>2. PICK i \in Nat : i = run[r].revision
      BY <3>1, Numbers DEF MissionInv
    <3>3. i <= n
      BY <2>1, <3>1, <3>2 DEF MissionInv, Facts, Revised
    <3>4. i < n + 1
      BY <3>3
    <3> QED BY <1>1, <2>2, <3>1, <3>2, <3>4 DEF Owed
  <2>7. Goes(t)
    BY <1>4, <2>3, <2>5, <2>6, FirstKept, InterruptGoes DEF Ops
  <2> QED BY <1>2, <2>3, <2>4, <2>7, QuietStep
<1> QED BY <1>3, <1>4, Zenon DEF Commit

LEMMA EditKeeps ==
  ASSUME MissionInv, Types', NEW t \in Threads, NEW c \in Charters, Edit(t, c)
  PROVE  MissionInv'
<1>1. Quiet(t)
  BY FreeQuiet DEF Edit, MissionInv
<1>2. CASE Commit(t, mission, c)
  BY <1>1, <1>2, CommitKeeps
<1>3. CASE /\ Goto(t, [New("edit") EXCEPT !.pc = "compile", !.charter = c])
           /\ UNCHANGED <<ledger, wake, clock, host, spent>>
  <2>1. UNCHANGED <<mission, run, effects, session, executor>>
    BY <1>3 DEF ledger, host
  <2>2. MissionKept
    BY <2>1, MissionStands, IdleTyped DEF MissionInv
  <2>3. RunsStand /\ HostKept
    BY <2>1, LedgerStands, HostStands
  <2>4. PICK th : th = [New("edit") EXCEPT !.pc = "compile", !.charter = c]
    OBVIOUS
  <2>5. th \in ThreadRows
    <3>1. New("edit") \in ThreadRows
      BY NewTyped DEF Ops, MissionInv
    <3> QED BY <2>4, <3>1 DEF ThreadRows, Pcs, Awaits
  <2>6. th.pc = "compile" /\ th.runs = {} /\ th.effects = {} /\ th.seen = mission
    BY <2>4, IdleTyped DEF New, Idle, ThreadRows
  <2>7. Carries(th)'
    BY <2>1, <2>6, Numbers DEF Carries, AcksEnd, Revised, MissionInv
  <2>8. Stands(th)'
    BY <2>6 DEF Stands, Advancing, Edit
  <2>9. Goes(t)
    BY <1>3, <2>4, <2>5, <2>7, <2>8 DEF Goes, Knows
  <2> QED BY <1>1, <2>1, <2>2, <2>3, <2>9, EffectsStand, QuietStep DEF RunsStand
<1> QED BY <1>2, <1>3 DEF Edit

\* A thread begins to resume the runs that are open.
LEMMA ResumeGoes ==
  ASSUME Types, Revised(First, 1)', NEW t, NEW runs \in {Live, Live \ Executing},
         NEW op \in Ops, run' = run,
         Goto(t, [Idle EXCEPT !.op = op, !.stage = "resume", !.pc = "return",
                              !.runs = runs])
  PROVE  Goes(t)
<1>1. PICK rs \in SUBSET RunIds : rs = runs /\ rs \subseteq DOMAIN run'
  BY InterruptedTyped DEF Live, Types
<1>2. PICK th : th = [Idle EXCEPT !.op = op, !.stage = "resume", !.pc = "return",
                                  !.runs = rs]
  OBVIOUS
<1>3. th \in ThreadRows
  BY <1>2, IdleTyped DEF ThreadRows, Stages, Pcs, Local
<1>4. /\ th.pc = "return" /\ th.runs = rs /\ th.seen = NewMission /\ th.effects = {}
      /\ th.stage = "resume"
  BY <1>2 DEF Idle
<1>5. Carries(th)'
  BY <1>1, <1>4 DEF Carries, AcksEnd, NewMission
<1> QED BY <1>1, <1>2, <1>3, <1>4, <1>5, Plain DEF Goes

LEMMA ReeditKeeps ==
  ASSUME MissionInv, Types', NEW t \in Threads,
         Reedit(t) \/ (t = "alarm" /\ \E late \in BOOLEAN : Alarm(late))
  PROVE  MissionInv'
<1>1. UNCHANGED <<mission, run, effects, session, executor>>
  BY DEF Reedit, Alarm, ledger, host
<1>2. MissionKept
  BY <1>1, MissionStands, IdleTyped DEF MissionInv
<1>3. RunsStand /\ HostKept
  BY <1>1, LedgerStands, HostStands
<1>4. PICK runs \in {Live, Live \ Executing}, op \in Ops :
        Goto(t, [Idle EXCEPT !.op = op, !.stage = "resume", !.pc = "return",
                             !.runs = runs])
  BY DEF Reedit, Alarm, Ops
<1>5. Goes(t)
  BY <1>1, <1>2, <1>4, FirstKept, ResumeGoes DEF MissionInv
<1>6. Quiet(t)
  BY FreeQuiet DEF Reedit, Alarm, MissionInv
<1> QED BY <1>1, <1>2, <1>3, <1>5, <1>6, EffectsStand, QuietStep DEF RunsStand

LEMMA FinishRunKeeps ==
  ASSUME MissionInv, Types', NEW t \in Threads, NEW r \in RunIds, FinishRun(t, r)
  PROVE  MissionInv'
<1>1. UNCHANGED <<mission, run, session, executor>>
  BY DEF FinishRun, host
<1>2. MissionKept
  BY <1>1, MissionStands, IdleTyped DEF MissionInv
<1>3. RunsStand /\ HostKept
  BY <1>1, LedgerStands, HostStands
<1>4. Quiet(t)
  BY FreeQuiet DEF FinishRun, MissionInv
<1>5. r \in DOMAIN run
  BY DEF FinishRun, MissionInv, Facts, Verdicts
<1>6. AcksEnd(effects)'
  <2>1. CASE effects' = effects
    BY <1>3, <2>1, EffectsStand DEF RunsStand
  <2>2. CASE /\ r \notin Live
             /\ effects' = effects \cup {[kind |-> "ack-executor-terminal", of |-> r]}
    <3>1. Ended(r)
      BY <1>5, <2>2 DEF Live, Ended
    <3> QED BY <1>1, <2>2, <3>1 DEF AcksEnd, Ended, MissionInv, Facts
  <2> QED BY <2>1, <2>2 DEF FinishRun
<1>7. PICK new : new = [Idle EXCEPT !.op = "finishRun", !.stage = "finish"]
  OBVIOUS
<1>8. new \in ThreadRows
  BY <1>7, IdleTyped DEF ThreadRows, Ops, Stages
<1>9. new.runs = {} /\ new.effects = {} /\ new.seen = NewMission
  BY <1>7 DEF Idle
<1>10. Carries(new)'
  BY <1>2, <1>9, FirstKept, IdleCarries
<1>11. Goes(t)
  <2>1. CASE Reconcile(t, new, effects')
    <3>1. PICK due \in SUBSET Effects : due = effects'
      BY DEF Types
    <3>2. AcksEnd(due)'
      BY <1>6, <3>1 DEF AcksEnd
    <3> QED BY <1>8, <1>10, <2>1, <3>1, <3>2, ReconcileGoes
  <2>2. CASE executor[r] \in Verdicts /\ Closing(t, [new EXCEPT !.run = r, !.fate = executor[r]])
    <3>1. PICK th : th = [new EXCEPT !.run = r, !.fate = executor[r]]
      OBVIOUS
    <3>2. th \in ThreadRows
      BY <1>8, <2>2, <3>1 DEF ThreadRows, Outcomes
    <3>3. /\ th.runs = {} /\ th.effects = {} /\ th.seen = NewMission
          /\ th.run = r /\ th.fate # "interrupted"
      BY <1>8, <1>9, <2>2, <3>1 DEF ThreadRows, Verdicts
    <3>4. Carries(th)'
      BY <1>2, <3>3, FirstKept, IdleCarries
    <3> QED BY <1>1, <1>5, <2>2, <3>1, <3>2, <3>3, <3>4, ClosingGoes
  <2> QED BY <1>7, <2>1, <2>2 DEF FinishRun
<1> QED BY <1>2, <1>3, <1>4, <1>6, <1>11, QuietStep

LEMMA EnvironmentKeeps ==
  ASSUME MissionInv, Types', Read \/ Tick \/ \E r \in RunIds : ExecutorEnds(r)
  PROVE  MissionInv'
<1>1. UNCHANGED <<mission, run, effects, thread>>
  BY DEF Read, Tick, ExecutorEnds, ledger
<1>2. MissionKept
  BY <1>1, MissionStands, IdleTyped DEF MissionInv
<1>3. HostKept
  <2>1. CASE Read \/ Tick
    BY <2>1, HostStands DEF Read, Tick, host
  <2>2. ASSUME NEW r \in RunIds, ExecutorEnds(r) PROVE HostKept
    BY <2>2 DEF ExecutorEnds, MissionInv, Facts, ReceiptOutlivesRun, Live, Ended,
                HostKept, Verdicts, Types, HostTyped
  <2> QED BY <2>1, <2>2
<1> QED BY <1>1, <1>2, <1>3, StillStep

LEMMA CrashKeeps ==
  ASSUME MissionInv, Types', Crash
  PROVE  MissionInv'
<1>1. UNCHANGED <<mission, run, effects, session, executor>>
  BY DEF Crash, ledger, host
<1>2. MissionKept
  BY <1>1, MissionStands, IdleTyped DEF MissionInv
<1>3. RunsStand /\ HostKept
  BY <1>1, LedgerStands, HostStands
<1>4. LedgerFacts'
  BY <1>1, <1>2, <1>3, EffectsStand, SplitInv, FactsStand DEF RunsStand
<1>5. PICK th \in ThreadRows : th = Idle
  BY IdleTyped
<1>6. th.seen = NewMission /\ th.runs = {} /\ th.effects = {} /\ th.pc = "idle"
  BY <1>5 DEF Idle
<1>7. Knows(th)'
  BY <1>2, <1>6, FirstKept, IdleCarries, Plain
<1>8. \A t \in Threads : thread'[t] = th
  BY <1>5 DEF Crash
<1>9. Known' /\ OneLocal'
  BY <1>6, <1>7, <1>8 DEF Known, OneLocal, Threads, Knows, Carries, Stands, Local
<1> QED BY <1>4, <1>9 DEF MissionInv, LedgerFacts

LEMMA MineCarries ==
  ASSUME MissionInv, Types', Kept, NEW t \in Threads, NEW old \in ThreadRows,
         old = thread[t]
  PROVE  Carries(old)'
BY CarriesKept DEF MissionInv, Known, Knows

LEMMA CompiledKeeps ==
  ASSUME MissionInv, Types', NEW t \in Threads, Compiled(t)
  PROVE  MissionInv'
BY AtQuiet, CommitKeeps DEF Compiled, MissionInv

\* Steps that change nothing but their thread and the alarm.
LEMMA ThreadAlone ==
  ASSUME MissionInv, UNCHANGED <<mission, run, effects, session, executor>>
  PROVE  MissionKept /\ RunsStand /\ HostKept /\ RunsKept /\ AcksEnd(effects)' /\ Kept
<1>1. MissionKept
  BY MissionStands, IdleTyped DEF MissionInv
<1>2. RunsStand /\ HostKept
  BY LedgerStands, HostStands
<1> QED BY <1>1, <1>2, EffectsStand DEF RunsStand, Kept

LEMMA AuthorizedKeeps ==
  ASSUME MissionInv, Types', NEW t \in Threads, Authorized(t)
  PROVE  MissionInv'
<1>1. UNCHANGED <<mission, run, effects, session, executor>>
  BY DEF Authorized, ledger, host
<1>2. MissionKept /\ RunsStand /\ HostKept /\ AcksEnd(effects)'
  BY <1>1, ThreadAlone
<1>3. PICK new : new = [Idle EXCEPT !.op = "edit", !.stage = "last"]
  OBVIOUS
<1>4. new \in ThreadRows
  BY <1>3, IdleTyped DEF ThreadRows, Ops, Stages
<1>5. new.runs = {} /\ new.effects = {} /\ new.seen = NewMission
  BY <1>3 DEF Idle
<1>6. Carries(new)'
  BY <1>2, <1>5, FirstKept, IdleCarries
<1>7. PICK due \in SUBSET Effects : due = effects
  BY DEF MissionInv, Types
<1>8. AcksEnd(due)'
  BY <1>1, <1>2, <1>7 DEF AcksEnd
<1>9. Goes(t)
  BY <1>3, <1>4, <1>6, <1>7, <1>8, ReconcileGoes DEF Authorized
<1> QED BY <1>2, <1>9, AtQuiet, QuietStep DEF Authorized, MissionInv

LEMMA DueKeeps ==
  ASSUME MissionInv, Types', NEW t \in Threads, Due(t)
  PROVE  MissionInv'
<1>1. UNCHANGED <<mission, run, effects, session, executor>>
  BY DEF Due, ledger, host
<1>2. MissionKept /\ RunsStand /\ HostKept /\ AcksEnd(effects)' /\ Kept
  BY <1>1, ThreadAlone
<1>3. CASE EndWell(t)
  BY <1>2, <1>3, AbortGoes, AtQuiet, QuietStep DEF Due, MissionInv
<1>4. CASE Goto(t, [thread[t] EXCEPT !.seen = mission, !.now = clock, !.pc = "acquire"])
  <2>1. PICK old \in ThreadRows : old = thread[t]
    BY ThreadFields DEF MissionInv
  <2>2. Carries(old)'
    BY <1>2, <2>1, MineCarries
  <2>3. PICK th : th = [old EXCEPT !.seen = mission, !.now = clock, !.pc = "acquire"]
    OBVIOUS
  <2>4. th \in ThreadRows
    BY <2>3 DEF ThreadRows, Pcs, Awaits, MissionInv, Types
  <2>5. /\ th.pc = "acquire" /\ th.seen = mission /\ th.runs = old.runs
        /\ th.stage = old.stage /\ th.effects = old.effects
    BY <2>3 DEF ThreadRows
  <2>6. Revised(mission.charter, mission.revision)
    BY Numbers DEF Revised, MissionInv
  <2>7. Carries(th)'
    BY <1>1, <2>2, <2>5, <2>6 DEF Carries, Revised
  <2>8. Goes(t)
    BY <1>4, <2>1, <2>3, <2>4, <2>5, <2>7, Plain DEF Goes
  <2> QED BY <1>2, <2>8, AtQuiet, QuietStep DEF Due, MissionInv
<1> QED BY <1>3, <1>4 DEF Due

LEMMA PassedKeeps ==
  ASSUME MissionInv, Types', NEW t \in Threads, Passed(t)
  PROVE  MissionInv'
<1>1. UNCHANGED <<run, effects, session, executor>>
  BY DEF Passed, host
<1>2. MissionKept
  BY MissionStands, IdleTyped DEF Passed, MissionInv
<1>3. RunsStand /\ HostKept
  BY <1>1, LedgerStands, HostStands
<1>4. Goes(t)
  BY <1>2, AbortGoes DEF Passed
<1> QED
  BY <1>1, <1>2, <1>3, <1>4, EffectsStand, AtQuiet, QuietStep
     DEF Passed, MissionInv, RunsStand

LEMMA BeginKeeps ==
  ASSUME MissionInv, Types', NEW t \in Threads, Begin(t)
  PROVE  MissionInv'
<1>1. UNCHANGED <<run, effects, session, executor>>
  BY DEF Begin, host
<1>2. MissionKept
  BY MissionStands, IdleTyped DEF Begin, MissionInv
<1>3. RunsStand /\ HostKept
  BY <1>1, LedgerStands, HostStands
<1>4. CASE Abort(t)
  BY <1>1, <1>2, <1>3, <1>4, AbortGoes, EffectsStand, AtQuiet, QuietStep
     DEF Begin, MissionInv, RunsStand
<1>5. CASE ~Abort(t)
  <2>1. PICK old \in ThreadRows : old = thread[t]
    BY ThreadFields DEF MissionInv
  <2>2. PICK id : /\ id = [subject |-> old.seen.charter,
                          key |-> IF old.op = "alarm" THEN old.seen.next ELSE old.key]
                  /\ Goto(t, [old EXCEPT !.pc = "hash", !.now = clock, !.run = id])
    BY <1>5, <2>1 DEF Begin
  <2>3. PICK th : th = [old EXCEPT !.pc = "hash", !.now = clock, !.run = id]
    OBVIOUS
  <2>4. thread'[t] = th
    BY <2>2, <2>3 DEF Goto, MissionInv, Types
  <2>5. th \in ThreadRows
    BY <2>4 DEF Types
  <2>6. /\ th.pc = "hash" /\ th.run = id /\ th.seen = old.seen /\ th.runs = old.runs
        /\ th.stage = old.stage /\ th.effects = old.effects
    BY <2>3 DEF ThreadRows
  <2>7. Carries(old)'
    BY <1>2, <1>3, <2>1, MineCarries DEF Kept, RunsStand
  <2>8. Carries(th)'
    BY <2>6, <2>7 DEF Carries
  <2>9. Stands(th)'
    BY <2>2, <2>6 DEF Stands, Advancing
  <2>10. Goes(t)
    BY <2>2, <2>3, <2>5, <2>8, <2>9 DEF Goes, Knows
  <2> QED
    BY <1>1, <1>2, <1>3, <2>10, EffectsStand, AtQuiet, QuietStep
       DEF Begin, MissionInv, RunsStand
<1> QED BY <1>4, <1>5

\* The ledger's facts when a run comes.
LEMMA FactsInserted ==
  ASSUME Types, Types', LedgerFacts, MissionKept, UNCHANGED <<effects, session, executor>>,
         NEW r \in RunIds, r \notin DOMAIN run, NEW row \in RunRows,
         run' = Inserted(r, row), ~row.session, row.outcome # "interrupted",
         Revised(r.subject, row.revision)
  PROVE  LedgerFacts' /\ RunsKept
<1>1. /\ DOMAIN run' = DOMAIN run \cup {r}
      /\ run'[r] = row
      /\ \A i \in DOMAIN run : run'[i] = run[i]
  BY DEF Inserted
<1>2. RunsKept
  BY <1>1 DEF RunsKept
<1>3. Revised(First, 1)'
  BY RevisedKept DEF LedgerFacts, Facts
<1>4. ASSUME NEW i \in DOMAIN run'
      PROVE  Revised(i.subject, run[i].revision)'
  <2>1. PICK n \in Nat : n = run'[i].revision
    BY <1>4, MissionsAssumption DEF Types, RunTyped, RunRows
  <2>2. Revised(i.subject, n)
    BY <1>1, <2>1 DEF LedgerFacts, Facts
  <2>3. Revised(i.subject, n)'
    BY <2>2, RevisedKept
  <2> QED BY <2>1, <2>3 DEF Revised
<1>5. Facts'
  <2>1. AcksEnd(effects)'
    BY <1>2, AcksKept DEF LedgerFacts, Facts, AcksEnd
  <2> QED BY <1>1, <1>3, <1>4, <2>1 DEF Facts, LedgerFacts
<1>6. RecordedSessionsClose'
  BY <1>1 DEF LedgerFacts, RecordedSessionsClose
<1>7. ReceiptOutlivesRun'
  BY <1>1 DEF LedgerFacts, ReceiptOutlivesRun, Live
<1>8. InterruptionsAreOwed'
  <2>1. ASSUME NEW i \in DOMAIN run', run'[i].outcome = "interrupted"
        PROVE  Owed(i)'
    <3>1. i \in DOMAIN run /\ run[i].outcome = "interrupted"
      BY <1>1, <2>1
    <3> QED BY <1>2, <3>1, OwedKept DEF LedgerFacts, InterruptionsAreOwed, Owed
  <2> QED BY <2>1 DEF InterruptionsAreOwed, Owed
<1> QED BY <1>2, <1>5, <1>6, <1>7, <1>8 DEF LedgerFacts

LEMMA OccurrenceKeeps ==
  ASSUME MissionInv, Types', NEW t \in Threads, Occurrence(t)
  PROVE  MissionInv'
<1>1. UNCHANGED <<effects, session, executor>>
  BY DEF Occurrence, host
<1>2. Quiet(t)
  BY AtQuiet DEF Occurrence, MissionInv
<1>3. CASE UNCHANGED <<mission, run>> /\ EndWell(t)
  <2>1. MissionKept /\ RunsStand /\ HostKept /\ AcksEnd(effects)'
    BY <1>1, <1>3, ThreadAlone
  <2> QED BY <1>2, <1>3, <2>1, AbortGoes, QuietStep
<1>4. PICK old \in ThreadRows : old = thread[t]
  BY ThreadFields DEF MissionInv
<1>5. /\ old.seen \in MissionRows /\ old.op \in Ops /\ old.run \in RunIds
      /\ old.seen.revision \in 1..MaxRevisions
  BY DEF ThreadRows, MissionRows
<1>6. Revised(old.run.subject, old.seen.revision)
  <2>1. old.pc = "hash"
    BY <1>4 DEF Occurrence, At
  <2> QED BY <1>4, <2>1 DEF MissionInv, Known, Knows, Carries, Stands
<1>7. CASE /\ old.run \notin DOMAIN run
           /\ run' = Inserted(old.run, Row("terminal", "skipped", old.seen.revision))
           /\ mission' = IF old.op = "alarm"
                         THEN Advanced(mission, old.seen.charter, old.now, old.seen.count)
                         ELSE mission
           /\ Reconcile(t, [Idle EXCEPT !.op = old.op, !.stage = "admitted"], effects)
  <2>1. PICK row : row = Row("terminal", "skipped", old.seen.revision)
    OBVIOUS
  <2>2. /\ row \in RunRows /\ row.revision = old.seen.revision /\ ~row.session
        /\ row.outcome # "interrupted"
    BY <1>5, <2>1 DEF Row, RunRows, Phases, Outcomes
  <2>3. PICK new : new = [Idle EXCEPT !.op = old.op, !.stage = "admitted"]
    OBVIOUS
  <2>4. new \in ThreadRows
    BY <1>5, <2>3, IdleTyped DEF ThreadRows, Stages
  <2>5. new.runs = {} /\ new.effects = {} /\ new.seen = NewMission
    BY <2>3 DEF Idle
  <2>6. MissionKept
    BY <1>7, MissionStands, IdleTyped DEF MissionInv
  <2>7. LedgerFacts' /\ RunsKept
    BY <1>1, <1>5, <1>6, <1>7, <2>1, <2>2, <2>6, SplitInv, FactsInserted
  <2>8. Kept
    BY <1>1, <2>6, <2>7, HostStands DEF Kept
  <2>9. Carries(new)'
    BY <2>5, <2>6, FirstKept, IdleCarries
  <2>10. PICK due \in SUBSET Effects : due = effects
    BY DEF MissionInv, Types
  <2>11. AcksEnd(due)'
    BY <1>1, <2>7, <2>10 DEF LedgerFacts, Facts, AcksEnd
  <2>12. Goes(t)
    BY <1>7, <2>3, <2>4, <2>9, <2>10, <2>11, ReconcileGoes
  <2>13. Known' /\ OneLocal'
    BY <1>2, <2>8, <2>12, GoesKnown DEF MissionInv
  <2> QED BY <2>7, <2>13 DEF MissionInv, LedgerFacts
<1>8. CASE /\ old.run \notin DOMAIN run
           /\ run' = Inserted(old.run, Row("context-preparing", "none", old.seen.revision))
           /\ LET counted == [mission EXCEPT !.count = old.seen.count + 1] IN
                mission' = IF old.op = "alarm"
                           THEN Advanced(counted, old.seen.charter, old.now,
                                         old.seen.count + 1)
                           ELSE counted
           /\ Goto(t, [Idle EXCEPT !.op = old.op, !.stage = "admitted",
                                   !.pc = "advance", !.run = old.run])
  <2>1. PICK row : row = Row("context-preparing", "none", old.seen.revision)
    OBVIOUS
  <2>2. /\ row \in RunRows /\ row.revision = old.seen.revision /\ ~row.session
        /\ row.outcome # "interrupted"
    BY <1>5, <2>1 DEF Row, RunRows, Phases, Outcomes
  <2>3. PICK new : new = [Idle EXCEPT !.op = old.op, !.stage = "admitted",
                                      !.pc = "advance", !.run = old.run]
    OBVIOUS
  <2>4. new \in ThreadRows
    BY <1>5, <2>3, IdleTyped DEF ThreadRows, Stages, Pcs, Local
  <2>5. /\ new.runs = {} /\ new.effects = {} /\ new.seen = NewMission
        /\ new.run = old.run /\ new.pc = "advance"
    BY <2>3 DEF Idle
  <2>6. MissionKept
    <3>1. PICK n \in Nat : n = old.seen.count + 1
      BY <1>5 DEF MissionRows
    <3>2. PICK m : m = [mission EXCEPT !.count = n]
      OBVIOUS
    <3>3. m \in MissionRows
      BY <3>2 DEF MissionInv, Types, MissionRows
    <3>4. mission' \in {m, Advanced(m, old.seen.charter, old.now, n)}
      BY <1>8, <3>1, <3>2
    <3> QED BY <3>2, <3>3, <3>4, MissionStands DEF MissionInv
  <2>7. LedgerFacts' /\ RunsKept
    BY <1>1, <1>5, <1>6, <1>8, <2>1, <2>2, <2>6, SplitInv, FactsInserted
  <2>8. Kept
    BY <1>1, <2>6, <2>7, HostStands DEF Kept
  <2>9. Carries(new)'
    BY <2>5, <2>6, FirstKept, IdleCarries
  <2>10. new.run \in DOMAIN run'
    BY <1>8, <2>5 DEF Inserted
  <2>11. Goes(t)
    BY <1>8, <2>3, <2>4, <2>5, <2>9, <2>10, Working DEF Goes, Advancing
  <2>12. Known' /\ OneLocal'
    BY <1>2, <2>8, <2>11, GoesKnown DEF MissionInv
  <2> QED BY <2>7, <2>12 DEF MissionInv, LedgerFacts
<1> QED BY <1>3, <1>4, <1>7, <1>8 DEF Occurrence

LEMMA AdvanceRunKeeps ==
  ASSUME MissionInv, Types', NEW t \in Threads, AdvanceRun(t)
  PROVE  MissionInv'
<1>1. UNCHANGED <<mission, run, effects, session, executor>>
  BY DEF AdvanceRun, ledger, host
<1>2. MissionKept /\ RunsStand /\ HostKept /\ AcksEnd(effects)' /\ Kept
  BY <1>1, ThreadAlone
<1>3. PICK old \in ThreadRows : old = thread[t]
  BY ThreadFields DEF MissionInv
<1>4. Carries(old)'
  BY <1>2, <1>3, MineCarries
<1>5. old.pc = "advance"
  BY <1>3 DEF AdvanceRun, At
<1>6. old.run \in DOMAIN run
  BY <1>3, <1>5 DEF MissionInv, Known, Knows, Stands, Advancing
<1>7. Goes(t)
  <2>1. CASE To(t, "return")
    BY <1>3, <1>4, <2>1, ToGoes DEF MissionInv, Pcs, Local
  <2>2. CASE To(t, CallOf(run[old.run].phase))
    <3>1. PICK pc \in {"context", "target", "admit", "readmit", "describe", "return"} :
            pc = CallOf(run[old.run].phase)
      BY <1>6, CallOfTyped DEF MissionInv, Types, RunTyped, RunRows
    <3> QED
      BY <1>1, <1>3, <1>4, <1>6, <2>2, <3>1, ToGoes
         DEF MissionInv, Pcs, Local, Awaits, Advancing
  <2>3. CASE /\ Replaced(old.run)
             /\ Closing(t, [old EXCEPT !.fate = "interrupted"])
    <3>1. Owed(old.run)
      <4>1. PICK n \in Nat, m \in Nat : n = run[old.run].revision /\ m = mission.revision
        BY <1>6, Numbers DEF MissionInv
      <4>2. n <= m /\ (n = m => old.run.subject = mission.charter)
        BY <1>6, <4>1 DEF MissionInv, Facts, Revised
      <4> QED BY <2>3, <4>1, <4>2 DEF Replaced, Owed
    <3>2. PICK new : new = [old EXCEPT !.fate = "interrupted"]
      OBVIOUS
    <3>3. new \in ThreadRows
      BY <3>2 DEF ThreadRows, Outcomes
    <3>4. /\ new.run = old.run /\ new.seen = old.seen /\ new.runs = old.runs
          /\ new.stage = old.stage /\ new.effects = old.effects
      BY <3>2 DEF ThreadRows
    <3>5. Carries(new)'
      BY <1>4, <3>4 DEF Carries
    <3>6. Owed(old.run)'
      BY <1>1, <3>1 DEF Owed
    <3> QED BY <1>1, <1>6, <2>3, <3>2, <3>3, <3>4, <3>5, <3>6, ClosingGoes
  <2> QED BY <1>3, <2>1, <2>2, <2>3 DEF AdvanceRun
<1> QED BY <1>2, <1>7, AtQuiet, QuietStep DEF AdvanceRun, MissionInv

\* A run that has not ended gets another phase, or its session on record.
LEMMA RowStands ==
  ASSUME Types, NEW r \in DOMAIN run, NEW row, run' = [run EXCEPT ![r] = row],
         run[r].phase # "terminal", row.phase # "terminal",
         row.revision = run[r].revision, row.outcome = run[r].outcome
  PROVE  RunsStand
<1>1. /\ DOMAIN run' = DOMAIN run
      /\ run'[r] = row
      /\ \A i \in DOMAIN run : i # r => run'[i] = run[i]
  OBVIOUS
<1> QED BY <1>1 DEF RunsStand, RunsKept

LEMMA UnendedStands ==
  ASSUME Types, NEW r \in DOMAIN run, NEW row, run' = Unended(r, row),
         row.phase = "terminal" => run[r].phase = "terminal",
         row.revision = run[r].revision, row.outcome = run[r].outcome
  PROVE  RunsStand
BY RowStands, LedgerStands DEF Unended

\* A call of advanceRun returns, and the thread goes to the next.
LEMMA CallReturns ==
  ASSUME MissionInv, Types', NEW t \in Threads, Quiet(t), UNCHANGED <<mission, effects>>,
         HostKept, RunsStand, NEW pc \in Pcs, To(t, pc),
         thread[t].run \in DOMAIN run, pc \in (Advancing \ {"close", "terminal"}) \cup {"return"}
  PROVE  MissionInv'
<1>1. MissionKept
  BY MissionStands, IdleTyped DEF MissionInv
<1>2. Kept
  BY <1>1 DEF Kept, RunsStand
<1>3. AcksEnd(effects)'
  BY EffectsStand DEF RunsStand
<1>4. PICK old \in ThreadRows : old = thread[t]
  BY ThreadFields DEF MissionInv
<1>5. Carries(old)'
  BY <1>2, <1>4, MineCarries
<1>6. Goes(t)
  BY <1>4, <1>5, ToGoes DEF MissionInv, RunsStand
<1> QED BY <1>1, <1>3, <1>6, QuietStep

LEMMA RunOf ==
  ASSUME MissionInv, NEW t \in Threads, NEW pc \in Advancing, At(t, pc)
  PROVE  thread[t].run \in DOMAIN run /\ Quiet(t)
BY AtQuiet DEF MissionInv, Known, Knows, Stands, At

LEMMA PreparedKeeps ==
  ASSUME MissionInv, Types', NEW t \in Threads, NEW pc \in {"context", "target"},
         NEW from, NEW to, from # "terminal", to # "terminal", Prepared(t, pc, from, to)
  PROVE  MissionInv'
<1> DEFINE r == thread[t].run
<1>1. r \in DOMAIN run /\ Quiet(t)
  BY RunOf DEF Prepared, Advancing
<1>2. RunsStand
  <2>1. CASE run' = run
    BY <2>1, LedgerStands
  <2>2. CASE run[r].phase = from /\ run' = [run EXCEPT ![r].phase = to]
    <3>1. PICK row : row = [run[r] EXCEPT !.phase = to]
      OBVIOUS
    <3>2. row.phase = to /\ row.revision = run[r].revision /\ row.outcome = run[r].outcome
      BY <1>1, <3>1 DEF MissionInv, Types, RunTyped, RunRows
    <3> QED BY <1>1, <2>2, <3>1, <3>2, RowStands DEF MissionInv
  <2> QED BY <2>1, <2>2 DEF Prepared, Moved
<1>3. HostKept
  BY ReceivedKept DEF Prepared
<1>4. r \in DOMAIN run'
  BY <1>1, <1>2 DEF RunsStand
<1>5. PICK to2 \in Pcs : /\ to2 = CallOf(run'[r].phase)
                         /\ to2 \in (Advancing \ {"close", "terminal"}) \cup {"return"}
  <2>1. run'[r].phase \in Phases
    BY <1>4 DEF Types, RunTyped, RunRows
  <2> QED BY <2>1, CallOfTyped DEF Pcs, Local, Awaits, Advancing
<1> QED BY <1>1, <1>2, <1>3, <1>5, CallReturns DEF Prepared

LEMMA AdmittedKeeps ==
  ASSUME MissionInv, Types', NEW t \in Threads, Admitted(t)
  PROVE  MissionInv'
<1> DEFINE r == thread[t].run
<1>1. r \in DOMAIN run /\ Quiet(t)
  BY RunOf DEF Admitted, Advancing
<1>2. RunsStand
  <2>1. CASE run' = run
    BY <2>1, LedgerStands
  <2>2. CASE /\ run[r].phase = "execution-admitting"
             /\ run' = [run EXCEPT ![r].phase = "dispatching", ![r].session = TRUE]
    <3>1. PICK row : row = [[run[r] EXCEPT !.phase = "dispatching"] EXCEPT !.session = TRUE]
      OBVIOUS
    <3>2. /\ row.phase = "dispatching" /\ row.revision = run[r].revision
          /\ row.outcome = run[r].outcome
      BY <1>1, <3>1 DEF MissionInv, Types, RunTyped, RunRows
    <3> QED BY <1>1, <2>2, <3>1, <3>2, RowStands DEF MissionInv
  <2> QED BY <2>1, <2>2 DEF Admitted
<1>3. HostKept
  BY ReceivedKept DEF Admitted
<1>4. r \in DOMAIN run'
  BY <1>1, <1>2 DEF RunsStand
<1>5. PICK to2 \in Pcs : /\ to2 = CallOf(run'[r].phase)
                         /\ to2 \in (Advancing \ {"close", "terminal"}) \cup {"return"}
  <2>1. run'[r].phase \in Phases
    BY <1>4 DEF Types, RunTyped, RunRows
  <2> QED BY <2>1, CallOfTyped DEF Pcs, Local, Awaits, Advancing
<1> QED BY <1>1, <1>2, <1>3, <1>5, CallReturns DEF Admitted

LEMMA ReadmittedKeeps ==
  ASSUME MissionInv, Types', NEW t \in Threads, Readmitted(t) \/ Dispatched(t)
  PROVE  MissionInv'
<1> DEFINE r == thread[t].run
<1>1. r \in DOMAIN run /\ Quiet(t)
  BY RunOf DEF Readmitted, Dispatched, Advancing
<1>2. RunsStand
  <2>1. PICK row : /\ run' = Unended(r, row)
                   /\ \/ row = [run[r] EXCEPT !.session = TRUE]
                      \/ row = [run[r] EXCEPT !.phase = "executing"]
    BY DEF Readmitted, Dispatched
  <2>2. /\ row.phase \in {run[r].phase, "executing"} /\ row.revision = run[r].revision
        /\ row.outcome = run[r].outcome
    BY <1>1, <2>1 DEF MissionInv, Types, RunTyped, RunRows
  <2> QED BY <1>1, <2>1, <2>2, UnendedStands DEF MissionInv
<1>3. HostKept
  BY ReceivedKept DEF Readmitted, Dispatched
<1> QED
  BY <1>1, <1>2, <1>3, CallReturns
     DEF Readmitted, Dispatched, Pcs, Local, Awaits, Advancing

\* A thread closes its run for good with an outcome that is no interruption.
LEMMA FateGoes ==
  ASSUME MissionInv, Types', NEW t \in Threads, UNCHANGED <<mission, run, effects, session, executor>>,
         thread[t].run \in DOMAIN run, NEW fate \in Outcomes, fate # "interrupted",
         Closing(t, [thread[t] EXCEPT !.fate = fate])
  PROVE  Goes(t)
<1>1. PICK old \in ThreadRows : old = thread[t]
  BY ThreadFields DEF MissionInv
<1>2. Carries(old)'
  BY <1>1, ThreadAlone, MineCarries
<1>3. PICK new : new = [old EXCEPT !.fate = fate]
  OBVIOUS
<1>4. new \in ThreadRows
  BY <1>3 DEF ThreadRows
<1>5. /\ new.run = old.run /\ new.seen = old.seen /\ new.runs = old.runs
      /\ new.stage = old.stage /\ new.effects = old.effects /\ new.fate = fate
  BY <1>3 DEF ThreadRows
<1>6. Carries(new)'
  BY <1>2, <1>5 DEF Carries
<1> QED BY <1>1, <1>3, <1>4, <1>5, <1>6, ClosingGoes

LEMMA DescribedKeeps ==
  ASSUME MissionInv, Types', NEW t \in Threads, Described(t)
  PROVE  MissionInv'
<1> DEFINE r == thread[t].run
<1>1. r \in DOMAIN run /\ Quiet(t)
  BY RunOf DEF Described, Advancing
<1>2. UNCHANGED <<mission, effects, session, executor>>
  BY DEF Described, host
<1>3. HostKept
  BY <1>2, HostStands
<1>4. CASE run' = run /\ To(t, "return")
  BY <1>1, <1>2, <1>3, <1>4, LedgerStands, CallReturns DEF Pcs, Local
<1>5. CASE run' = Unended(r, [run[r] EXCEPT !.phase = "dispatching"]) /\ To(t, "readmit")
  <2>1. PICK row : row = [run[r] EXCEPT !.phase = "dispatching"]
    OBVIOUS
  <2>2. /\ row.phase = "dispatching" /\ row.revision = run[r].revision
        /\ row.outcome = run[r].outcome
    BY <1>1, <2>1 DEF MissionInv, Types, RunTyped, RunRows
  <2>3. RunsStand
    BY <1>1, <1>5, <2>1, <2>2, UnendedStands DEF MissionInv
  <2> QED BY <1>1, <1>2, <1>3, <1>5, <2>3, CallReturns DEF Pcs, Awaits, Advancing
<1>6. CASE /\ executor[r] \in Verdicts
           /\ Closing(t, [thread[t] EXCEPT !.fate = executor[r]])
           /\ run' = run
  <2>1. executor[r] \in Outcomes /\ executor[r] # "interrupted"
    BY <1>6 DEF Verdicts, Outcomes
  <2>2. Goes(t)
    BY <1>1, <1>2, <1>6, <2>1, FateGoes
  <2> QED BY <1>1, <1>2, <1>6, <2>2, ThreadAlone, QuietStep
<1> QED BY <1>4, <1>5, <1>6, Zenon DEF Described

LEMMA ClosedKeeps ==
  ASSUME MissionInv, Types', NEW t \in Threads, Closed(t)
  PROVE  MissionInv'
<1>1. thread[t].run \in DOMAIN run /\ Quiet(t)
  BY RunOf DEF Closed, Advancing
<1>2. UNCHANGED <<mission, run, effects>>
  BY DEF Closed, ledger
<1>3. MissionKept /\ RunsStand /\ HostKept
  BY <1>2, MissionStands, IdleTyped, LedgerStands, ReceivedKept DEF Closed, MissionInv
<1>4. PICK old \in ThreadRows : old = thread[t]
  BY ThreadFields DEF MissionInv
<1>5. Carries(old)'
  BY <1>3, <1>4, MineCarries DEF Kept, RunsStand
<1>6. old.pc = "close" /\ old.run \in RunIds
  BY <1>4 DEF Closed, At, ThreadRows
<1>7. session'[old.run] = "closed"
  BY <1>4, <1>6 DEF Closed, Received, MissionInv, Types, HostTyped
<1>8. PICK th \in ThreadRows : th = [old EXCEPT !.pc = "terminal"]
  BY AtTyped DEF Pcs, Local
<1>9. /\ th.pc = "terminal" /\ th.seen = old.seen /\ th.runs = old.runs /\ th.run = old.run
      /\ th.effects = old.effects /\ th.stage = old.stage /\ th.fate = old.fate
  BY <1>8 DEF ThreadRows
<1>10. Carries(th)'
  BY <1>5, <1>9 DEF Carries
<1>11. old.fate = "interrupted" => Owed(old.run)
  BY <1>4, <1>6 DEF MissionInv, Known, Knows, Stands
<1>12. Stands(th)'
  BY <1>1, <1>2, <1>4, <1>7, <1>9, <1>11 DEF Stands, Owed
<1>13. Goes(t)
  BY <1>4, <1>8, <1>10, <1>12 DEF Goes, Knows, Closed, To
<1> QED BY <1>1, <1>2, <1>3, <1>13, EffectsStand, QuietStep DEF RunsStand

LEMMA ExecutedKeeps ==
  ASSUME MissionInv, Types', NEW t \in Threads, Executed(t)
  PROVE  MissionInv'
<1>1. UNCHANGED <<mission, run>> /\ effects' \subseteq effects
  BY DEF Executed
<1>2. MissionKept /\ RunsStand /\ HostKept
  BY <1>1, MissionStands, IdleTyped, LedgerStands, ReceivedKept DEF Executed, MissionInv
<1>3. PICK old \in ThreadRows : old = thread[t]
  BY ThreadFields DEF MissionInv
<1>4. Carries(old)'
  BY <1>2, <1>3, MineCarries DEF Kept, RunsStand
<1>5. old.effects \in SUBSET Effects /\ AcksEnd(old.effects)'
  BY <1>4 DEF Carries, ThreadRows
<1>6. Goes(t)
  BY <1>3, <1>4, <1>5, ReconcileGoes DEF Executed
<1> QED
  BY <1>1, <1>2, <1>6, EffectsStand, AtQuiet, QuietStep DEF Executed, RunsStand, MissionInv

LEMMA NextRunKeeps ==
  ASSUME MissionInv, Types', NEW t \in Threads, NextRun(t)
  PROVE  MissionInv'
<1>1. UNCHANGED <<mission, run, effects, session, executor>>
  BY DEF NextRun, ledger, host
<1>2. MissionKept /\ RunsStand /\ HostKept /\ AcksEnd(effects)' /\ Kept
  BY <1>1, ThreadAlone
<1>3. PICK old \in ThreadRows : old = thread[t]
  BY ThreadFields DEF MissionInv
<1>4. Carries(old)'
  BY <1>2, <1>3, MineCarries
<1>5. PICK r \in old.runs :
        LET new == [old EXCEPT !.run = r, !.runs = @ \ {r}] IN
        IF old.stage = "resume" THEN Goto(t, [new EXCEPT !.pc = "advance"])
        ELSE Closing(t, [new EXCEPT !.fate = "interrupted"])
  BY <1>3 DEF NextRun
<1>6. PICK new : new = [old EXCEPT !.run = r, !.runs = @ \ {r}]
  OBVIOUS
<1>7. new \in ThreadRows
  BY <1>5, <1>6 DEF ThreadRows
<1>8. /\ new.run = r /\ new.runs = old.runs \ {r} /\ new.stage = old.stage
      /\ new.seen = old.seen /\ new.effects = old.effects
  BY <1>6 DEF ThreadRows
<1>9. r \in DOMAIN run' /\ (old.stage # "resume" => Owed(r)')
  BY <1>4 DEF Carries
<1>10. Goes(t)
  <2>1. CASE old.stage = "resume"
    <3>1. PICK th \in ThreadRows : th = [new EXCEPT !.pc = "advance"]
      BY <1>7, AtTyped DEF Pcs, Local
    <3>2. /\ th.pc = "advance" /\ th.seen = new.seen /\ th.runs = new.runs
          /\ th.run = new.run /\ th.effects = new.effects /\ th.stage = new.stage
      BY <1>7, <3>1 DEF ThreadRows
    <3>3. Carries(th)'
      BY <1>4, <1>8, <3>2 DEF Carries
    <3>4. Knows(th)'
      BY <1>8, <1>9, <3>2, <3>3, Working DEF Advancing
    <3> QED BY <1>5, <1>6, <2>1, <3>1, <3>4 DEF Goes
  <2>2. CASE old.stage # "resume"
    <3>1. PICK th : th = [new EXCEPT !.fate = "interrupted"]
      OBVIOUS
    <3>2. th \in ThreadRows
      BY <1>7, <3>1 DEF ThreadRows, Outcomes
    <3>3. /\ th.run = r /\ th.seen = new.seen /\ th.runs = new.runs
          /\ th.effects = new.effects /\ th.stage = new.stage
      BY <1>7, <1>8, <3>1 DEF ThreadRows
    <3>4. Carries(th)'
      BY <1>4, <1>8, <3>3 DEF Carries
    <3>5. Closing(t, th)
      BY <1>5, <1>6, <2>2, <3>1
    <3> QED BY <1>1, <1>9, <2>2, <3>2, <3>3, <3>4, <3>5, ClosingGoes
  <2> QED BY <2>1, <2>2
<1> QED BY <1>2, <1>10, AtQuiet, QuietStep DEF NextRun, MissionInv

\* The rest of a thread's luggage when it goes on elsewhere with what is due.
LEMMA StageGoes ==
  ASSUME MissionInv, Types', NEW t \in Threads, UNCHANGED <<mission, run, effects, session, executor>>,
         thread[t].runs = {}, NEW stage \in Stages,
         Reconcile(t, [thread[t] EXCEPT !.stage = stage], effects)
  PROVE  Goes(t)
<1>1. PICK old \in ThreadRows : old = thread[t]
  BY ThreadFields DEF MissionInv
<1>2. Carries(old)'
  BY <1>1, ThreadAlone, MineCarries
<1>3. PICK new : new = [old EXCEPT !.stage = stage]
  OBVIOUS
<1>4. new \in ThreadRows
  BY <1>3 DEF ThreadRows
<1>5. new.seen = old.seen /\ new.runs = {} /\ new.effects = old.effects
  BY <1>1, <1>3 DEF ThreadRows
<1>6. Carries(new)'
  BY <1>2, <1>5 DEF Carries
<1>7. PICK due \in SUBSET Effects : due = effects
  BY DEF MissionInv, Types
<1>8. AcksEnd(due)'
  BY <1>7, ThreadAlone DEF AcksEnd
<1> QED BY <1>1, <1>3, <1>4, <1>6, <1>7, <1>8, ReconcileGoes

LEMMA ReturnKeeps ==
  ASSUME MissionInv, Types', NEW t \in Threads, Return(t)
  PROVE  MissionInv'
<1>1. UNCHANGED <<run, effects, session, executor>> /\ thread[t].runs = {}
  BY DEF Return, host
<1>2. Quiet(t)
  BY AtQuiet DEF Return, MissionInv
<1>3. CASE /\ mission' = IF thread[t].op = "edit"
                          THEN [mission EXCEPT !.editing = FALSE] ELSE mission
           /\ EndWell(t)
  <2>1. MissionKept
    BY <1>3, MissionStands, IdleTyped DEF MissionInv
  <2>2. RunsStand /\ HostKept
    BY <1>1, LedgerStands, HostStands
  <2>3. Goes(t)
    BY <1>3, <2>1, AbortGoes
  <2> QED BY <1>1, <1>2, <2>1, <2>2, <2>3, EffectsStand, QuietStep DEF RunsStand
<1>4. CASE /\ UNCHANGED <<mission, wake>>
           /\ \/ \E stage \in Stages :
                   Reconcile(t, [thread[t] EXCEPT !.stage = stage], effects)
              \/ \E pc \in {"due", "acquire"} : To(t, pc)
  <2>1. MissionKept /\ RunsStand /\ HostKept /\ AcksEnd(effects)' /\ Kept
    BY <1>1, <1>4, ThreadAlone
  <2>2. Goes(t)
    <3>1. PICK old \in ThreadRows : old = thread[t]
      BY ThreadFields DEF MissionInv
    <3>2. Carries(old)'
      BY <2>1, <3>1, MineCarries
    <3>3. ASSUME NEW pc \in {"due", "acquire"}, To(t, pc) PROVE Goes(t)
      <4>1. pc \in Pcs
        BY <3>3 DEF Pcs, Local, Awaits
      <4> QED BY <3>1, <3>2, <3>3, <4>1, ToGoes DEF MissionInv
    <3> QED BY <1>1, <1>4, <3>3, StageGoes
  <2> QED BY <1>2, <2>1, <2>2, QuietStep
<1>5. "drain" \in Stages /\ "last" \in Stages
  BY DEF Stages
<1>6. "due" \in {"due", "acquire"} /\ "acquire" \in {"due", "acquire"}
  OBVIOUS
<1> QED BY <1>3, <1>4, <1>5, <1>6, Zenon DEF Return

LEMMA CaughtKeeps ==
  ASSUME MissionInv, Types', NEW t \in Threads, Caught(t)
  PROVE  MissionInv'
<1>1. UNCHANGED <<mission, run, effects, session, executor>>
  BY DEF Caught, ledger, host
<1>2. thread[t].run \in DOMAIN run /\ Quiet(t)
  BY RunOf DEF Caught, Advancing
<1>3. CASE To(t, "return")
  BY <1>1, <1>2, <1>3, ThreadAlone, CallReturns DEF Pcs, Local
<1>4. CASE Closing(t, [thread[t] EXCEPT !.fate = "error"])
  <2>1. Goes(t)
    BY <1>1, <1>2, <1>4, FateGoes DEF Outcomes
  <2> QED BY <1>1, <1>2, <2>1, ThreadAlone, QuietStep
<1> QED BY <1>3, <1>4 DEF Caught

LEMMA FailKeeps ==
  ASSUME MissionInv, Types', NEW t \in Threads, Fail(t)
  PROVE  MissionInv'
<1>1. UNCHANGED <<mission, run, effects>>
  BY DEF Fail, ledger
<1>2. Quiet(t)
  BY AtQuiet DEF Fail, MissionInv
<1>3. MissionKept /\ RunsStand /\ HostKept
  BY <1>1, MissionStands, IdleTyped, LedgerStands, HostStands, ReceivedKept
     DEF Fail, host, MissionInv
<1>4. AcksEnd(effects)'
  BY <1>1, <1>3, EffectsStand DEF RunsStand
<1>5. CASE Abort(t)
  BY <1>2, <1>3, <1>4, <1>5, AbortGoes, QuietStep
<1>6. PICK old \in ThreadRows : old = thread[t]
  BY ThreadFields DEF MissionInv
<1>7. Carries(old)'
  BY <1>3, <1>6, MineCarries DEF Kept, RunsStand
<1>8. CASE Reconcile(t, thread[t], thread[t].effects)
  <2>1. old.effects \in SUBSET Effects /\ AcksEnd(old.effects)'
    BY <1>7 DEF Carries, ThreadRows
  <2>2. Goes(t)
    BY <1>6, <1>7, <1>8, <2>1, ReconcileGoes
  <2> QED BY <1>2, <1>3, <1>4, <2>2, QuietStep
<1>9. CASE To(t, "return")
  <2>1. Goes(t)
    BY <1>6, <1>7, <1>9, ToGoes DEF MissionInv, Pcs, Local
  <2> QED BY <1>2, <1>3, <1>4, <2>1, QuietStep
<1>10. CASE /\ old.pc \in Awaits \ {"hash", "compile", "acquire", "effect"}
            /\ To(t, "caught")
  <2>1. old.run \in DOMAIN run'
    <3>1. old.pc \in Advancing
      BY <1>10 DEF Awaits, Advancing
    <3> QED BY <1>1, <1>6, <3>1 DEF MissionInv, Known, Knows, Stands
  <2>2. Goes(t)
    BY <1>6, <1>7, <1>10, <2>1, ToGoes DEF MissionInv, Pcs, Local, Advancing
  <2> QED BY <1>2, <1>3, <1>4, <2>2, QuietStep
<1> QED BY <1>5, <1>6, <1>8, <1>9, <1>10 DEF Fail

LEMMA TerminalizeKeeps ==
  ASSUME MissionInv, Types', NEW t \in Threads, Terminalize(t)
  PROVE  MissionInv'
<1>1. PICK old \in ThreadRows : old = thread[t]
  BY ThreadFields DEF MissionInv
<1>2. PICK r \in RunIds, fate \in Outcomes : r = old.run /\ fate = old.fate
  BY DEF ThreadRows
<1>3. r \in DOMAIN run /\ Quiet(t) /\ old.pc = "terminal"
  BY <1>1, <1>2, RunOf DEF Terminalize, At, Advancing
<1>4. UNCHANGED <<session, executor>>
  BY DEF Terminalize, host
<1>5. HostKept
  BY <1>4, HostStands
<1>6. MissionKept
  BY MissionStands, IdleTyped DEF Terminalize, MissionInv
<1>7. PICK row : row = [[run[r] EXCEPT !.phase = "terminal"] EXCEPT !.outcome = fate]
  OBVIOUS
<1>8. /\ row.phase = "terminal" /\ row.outcome = fate /\ row.revision = run[r].revision
      /\ row.session = run[r].session
  BY <1>3, <1>7 DEF MissionInv, Types, RunTyped, RunRows
<1>9. run' = Unended(r, row)
  BY <1>1, <1>2, <1>7 DEF Terminalize
<1>10. /\ DOMAIN run' = DOMAIN run
       /\ run'[r] = IF run[r].phase = "terminal" THEN run[r] ELSE row
       /\ \A i \in DOMAIN run : i # r => run'[i] = run[i]
  BY <1>3, <1>9 DEF Unended
<1>11. RunsKept
  BY <1>8, <1>10 DEF RunsKept
<1>12. Ended(r)'
  BY <1>3, <1>8, <1>10 DEF Ended
<1>13. AcksEnd(effects)'
  <2>1. effects' \subseteq effects \cup {[kind |-> "ack-executor-terminal", of |-> r]}
    BY <1>1, <1>2 DEF Terminalize
  <2>2. \A e \in effects : e.kind = "ack-executor-terminal" => Ended(e.of)'
    BY <1>11 DEF MissionInv, Facts, AcksEnd, RunsKept, Ended
  <2> QED BY <1>12, <2>1, <2>2 DEF AcksEnd, Ended
<1>14. Kept
  BY <1>5, <1>6, <1>11 DEF Kept
<1>15. ASSUME NEW i \in DOMAIN run'
       PROVE  Revised(i.subject, run[i].revision)'
  <2>1. i \in DOMAIN run /\ run'[i].revision = run[i].revision
    BY <1>10, <1>11 DEF RunsKept
  <2>2. PICK n \in Nat : n = run[i].revision
    BY <2>1, Numbers DEF MissionInv
  <2>3. Revised(i.subject, n)'
    BY <1>6, <2>1, <2>2, RevisedKept DEF MissionInv, Facts
  <2> QED BY <2>1, <2>2, <2>3 DEF Revised
<1>16. Facts'
  BY <1>4, <1>6, <1>10, <1>13, <1>15, FirstKept DEF Facts, MissionInv
<1>17. RecordedSessionsClose'
  <2>1. run[r].session => session[r] = "closed"
    BY <1>1, <1>2, <1>3 DEF MissionInv, Known, Knows, Stands
  <2> QED
    BY <1>4, <1>8, <1>10, <2>1 DEF MissionInv, RecordedSessionsClose
<1>18. ReceiptOutlivesRun'
  BY <1>4, <1>8, <1>10 DEF MissionInv, ReceiptOutlivesRun, Live
<1>19. InterruptionsAreOwed'
  <2>1. fate = "interrupted" => Owed(r)
    BY <1>1, <1>2, <1>3 DEF MissionInv, Known, Knows, Stands
  <2>2. ASSUME NEW i \in DOMAIN run', run'[i].outcome = "interrupted"
        PROVE  Owed(i)'
    <3>1. i \in DOMAIN run /\ Owed(i)
      BY <1>8, <1>10, <2>1, <2>2 DEF MissionInv, InterruptionsAreOwed, Owed
    <3> QED BY <1>6, <1>11, <3>1, OwedKept DEF MissionInv
  <2> QED BY <2>2 DEF InterruptionsAreOwed, Owed
<1>20. Carries(old)'
  BY <1>1, <1>14, MineCarries
<1>21. PICK new : new = [old EXCEPT !.fate = "none", !.run = Idle.run]
  OBVIOUS
<1>22. new \in ThreadRows
  BY <1>21, IdleTyped DEF ThreadRows, Outcomes
<1>23. /\ new.seen = old.seen /\ new.runs = old.runs /\ new.effects = old.effects
       /\ new.stage = old.stage
  BY <1>21 DEF ThreadRows
<1>24. Carries(new)'
  BY <1>20, <1>23 DEF Carries
<1>25. PICK due \in SUBSET Effects : due \in {{}, effects'} /\ Reconcile(t, new, due)
  BY <1>1, <1>21 DEF Terminalize, Types
<1>26. AcksEnd(due)'
  BY <1>13, <1>25 DEF AcksEnd
<1>27. Goes(t)
  BY <1>22, <1>24, <1>25, <1>26, ReconcileGoes
<1>28. Known' /\ OneLocal'
  BY <1>3, <1>14, <1>27, GoesKnown DEF MissionInv
<1> QED BY <1>16, <1>17, <1>18, <1>19, <1>28 DEF MissionInv

-----------------------------------------------------------------------------
LEMMA MissionInit == Init => MissionInv
<1> SUFFICES ASSUME Init PROVE MissionInv
  OBVIOUS
<1>1. Types
  <2>1. wake \in Wakes
    BY MissionsAssumption, InstantsFacts DEF Init, Wakes, InitialRun
  <2>2. RunTyped
    BY DEF Init, RunTyped
  <2> QED
    BY <2>1, <2>2, IdleTyped, MissionsAssumption DEF Init, Types, HostTyped
<1>2. mission.revision = 1 /\ mission.charter = First
  BY DEF Init, NewMission
<1>3. /\ Idle.seen = NewMission /\ Idle.runs = {} /\ Idle.effects = {}
      /\ Idle.pc = "idle"
  BY DEF Idle
<1>4. Known
  BY <1>2, <1>3 DEF Init, Known, Knows, Carries, Stands, Revised, NewMission, AcksEnd,
                    Advancing
<1>5. OneLocal
  BY <1>3 DEF Init, OneLocal, Local
<1>6. LedgerFacts
  BY <1>2 DEF Init, LedgerFacts, Facts, AcksEnd, Revised, RecordedSessionsClose,
              ReceiptOutlivesRun, InterruptionsAreOwed
<1> QED BY <1>1, <1>4, <1>5, <1>6 DEF MissionInv, LedgerFacts

LEMMA TypesNext ==
  ASSUME MissionInv, [Next]_vars
  PROVE  Types'
<1>1. ASSUME NEW t \in Threads, Step(t) PROVE Types'
  <2>1. CASE Compiled(t)
    <3>1. thread[t].seen.revision < MaxRevisions
      BY <2>1 DEF Compiled, At, MissionInv, Known, Knows, Stands
    <3> QED BY <2>1, <3>1, ThreadFields, CommitTypes DEF Compiled, MissionInv
  <2>2. CASE AdvanceRun(t)
    BY <2>2, RunOf, AdvanceRunTypes DEF AdvanceRun, MissionInv, Advancing
  <2>3. CASE Prepared(t, "context", "context-preparing", "executor-preparing")
    BY <2>3, RunOf, PreparedTypes DEF Prepared, MissionInv, Advancing, Phases
  <2>4. CASE Prepared(t, "target", "executor-preparing", "execution-admitting")
    BY <2>4, RunOf, PreparedTypes DEF Prepared, MissionInv, Advancing, Phases
  <2>5. CASE Admitted(t)
    BY <2>5, RunOf, AdmittedTypes DEF Admitted, MissionInv, Advancing
  <2> QED
    BY <1>1, <2>1, <2>2, <2>3, <2>4, <2>5, AuthorizedTypes, DueTypes, PassedTypes,
       BeginTypes, OccurrenceTypes, ReadmittedTypes, DispatchedTypes, DescribedTypes,
       ClosedTypes, TerminalizeTypes, ExecutedTypes, NextRunTypes, ReturnTypes,
       CaughtTypes
       DEF Step, MissionInv
<1>2. ASSUME NEW t \in Requests,
             \/ \E k \in Keys : RunNow(t, k)
             \/ \E c \in Charters : Edit(t, c)
             \/ \E r \in RunIds : FinishRun(t, r)
             \/ Pause(t) \/ Resume(t) \/ Retire(t) \/ Reedit(t)
      PROVE  Types'
  BY <1>2, RunNowTypes, EditTypes, FinishRunTypes, PauseTypes, ResumeTypes, RetireTypes,
     ReeditTypes DEF MissionInv
<1>3. CASE UNCHANGED vars
  BY <1>3 DEF vars, host, MissionInv, Types, RunTyped, HostTyped
<1> QED
  BY <1>1, <1>2, <1>3, FailTypes, AlarmTypes, CrashTypes, EnvironmentTypes
     DEF Next, MissionInv

LEMMA MissionStep ==
  ASSUME MissionInv, [Next]_vars
  PROVE  MissionInv'
<1>0. Types'
  BY TypesNext
<1>1. ASSUME NEW t \in Threads, Step(t) PROVE MissionInv'
  <2>1. CASE Prepared(t, "context", "context-preparing", "executor-preparing")
    BY <1>0, <2>1, PreparedKeeps
  <2>2. CASE Prepared(t, "target", "executor-preparing", "execution-admitting")
    BY <1>0, <2>2, PreparedKeeps
  <2> QED
    BY <1>0, <1>1, <2>1, <2>2, CompiledKeeps, AuthorizedKeeps, DueKeeps, PassedKeeps,
       BeginKeeps, OccurrenceKeeps, AdvanceRunKeeps, AdmittedKeeps, ReadmittedKeeps,
       DescribedKeeps, ClosedKeeps, TerminalizeKeeps, ExecutedKeeps, NextRunKeeps,
       ReturnKeeps, CaughtKeeps
       DEF Step
<1>2. ASSUME NEW t \in Requests,
             \/ \E k \in Keys : RunNow(t, k)
             \/ \E c \in Charters : Edit(t, c)
             \/ \E r \in RunIds : FinishRun(t, r)
             \/ Pause(t) \/ Resume(t) \/ Retire(t) \/ Reedit(t)
      PROVE  MissionInv'
  <2>1. t \in Threads
    BY DEF Threads
  <2> QED
    BY <1>0, <1>2, <2>1, RunNowKeeps, EditKeeps, FinishRunKeeps, PauseKeeps, RetireKeeps,
       ReeditKeeps
<1>3. CASE UNCHANGED vars
  <2>1. UNCHANGED <<mission, run, effects, thread, session, executor>>
    BY <1>3 DEF vars, host
  <2> QED BY <1>0, <2>1, MissionStands, IdleTyped, HostStands, StillStep DEF MissionInv
<1>4. ASSUME \E late \in BOOLEAN : Alarm(late) PROVE MissionInv'
  BY <1>0, <1>4, ReeditKeeps DEF Threads
<1> QED
  BY <1>0, <1>1, <1>2, <1>3, <1>4, FailKeeps, CrashKeeps, EnvironmentKeeps DEF Next

LEMMA MissionInvariant == Spec => []MissionInv
<1>1. MissionInv /\ [Next]_vars => MissionInv'
  BY MissionStep
<1> QED BY <1>1, MissionInit, PTL DEF Spec

\* What the mission, its ledger, its threads and the host may hold.
THEOREM MissionTypes == Spec => []TypeOK
<1>1. MissionInv => TypeOK
  BY DEF MissionInv, Types, TypeOK, MissionRows, RunTyped, RunRows, Wakes, ThreadRows,
         Pcs, HostTyped
<1> QED BY <1>1, MissionInvariant, PTL

\* A run that ended with its admission on record has had it closed at the host,
\* whichever threads end it, fail to or come late (closeAdmission, terminalizeRun).
THEOREM SessionsAreClosed == Spec => []RecordedSessionsClose
<1>1. MissionInv => RecordedSessionsClose
  BY DEF MissionInv
<1> QED BY <1>1, MissionInvariant, PTL

\* An executor is told to forget a run only when the ledger has its end
\* (finishRun, terminalizeRun, reconcileEffects).
THEOREM ReceiptsAreKept == Spec => []ReceiptOutlivesRun
<1>1. MissionInv => ReceiptOutlivesRun
  BY DEF MissionInv
<1> QED BY <1>1, MissionInvariant, PTL

\* Only a later revision or a retirement interrupts a run, also when the thread that
\* does so waited in between (advanceRun, interruptRunsForRevision).
THEOREM OnlyOwedInterruptions == Spec => []InterruptionsAreOwed
<1>1. MissionInv => InterruptionsAreOwed
  BY DEF MissionInv
<1> QED BY <1>1, MissionInvariant, PTL
=============================================================================
