------------------------- MODULE EffectClaimsProofs -------------------------
(***************************************************************************)
(* Theorems about the life of an outbox row, for any set of effects, any   *)
(* number of workers and any bounds.                                       *)
(***************************************************************************)
EXTENDS EffectClaims, TLAPS

MaybeRow == OutboxRow \cup {NoRow}

(***************************************************************************)
(* What the statements of the outbox do to one row.                        *)
(***************************************************************************)

LEMMA NoRowIsNoOutboxRow == NoRow \notin OutboxRow
  BY DEF NoRow, OutboxRow, RowColumns

LEMMA ReleasedByType ==
  ASSUME NEW r \in MaybeRow, NEW w
  PROVE  ReleasedBy(w, r) \in MaybeRow
  BY NoRowIsNoOutboxRow DEF MaybeRow, ReleasedBy, OutboxRow, RowColumns, NoOwner

LEMMA LeasedToType ==
  ASSUME NEW r \in OutboxRow, NEW w \in Workers
  PROVE  LeasedTo(w, r) \in OutboxRow
<1>1. r \in RowColumns /\ w # NoOwner /\ r.generation + 1 \in Nat
  BY OutboxAssumption DEF OutboxRow, RowColumns, NoOwner
<1>2. LeasedTo(w, r) \in RowColumns
  BY <1>1 DEF LeasedTo, RowColumns
<1>3. LeasedTo(w, r).owner = w /\ LeasedTo(w, r).disposition = "leased"
  BY <1>1 DEF LeasedTo, RowColumns
<1> QED
  BY <1>1, <1>2, <1>3 DEF OutboxRow

LEMMA FailedType ==
  ASSUME NEW r \in OutboxRow, NEW soon \in BOOLEAN
  PROVE  Failed(r, soon) \in OutboxRow
<1> DEFINE attempts == IF r.attempts < AttemptCap THEN r.attempts + 1 ELSE r.attempts
<1>1. r \in RowColumns /\ attempts \in Nat
  BY OutboxAssumption DEF OutboxRow, RowColumns
<1>2. Failed(r, soon) = [r EXCEPT !.disposition = "retrying", !.owner = NoOwner,
                                  !.attempts = attempts,
                                  !.next = IF soon THEN "due" ELSE "later"]
  BY DEF Failed
<1> HIDE DEF attempts
<1>3. Failed(r, soon) \in RowColumns
  BY <1>1, <1>2 DEF RowColumns
<1>4. Failed(r, soon).owner = NoOwner /\ Failed(r, soon).disposition = "retrying"
  BY <1>1, <1>2 DEF RowColumns
<1> QED
  BY <1>3, <1>4 DEF OutboxRow

LEMMA DeferredType ==
  ASSUME NEW r \in OutboxRow
  PROVE  Deferred(r) \in OutboxRow
  BY DEF Deferred, OutboxRow, RowColumns, NoOwner

LEMMA NudgedType ==
  ASSUME row \in [Effects -> MaybeRow], NEW e \in Effects
  PROVE  /\ AuthorityNudged(e) \in MaybeRow
         /\ EvalNudged(e) \in MaybeRow
  BY NoRowIsNoOutboxRow
  DEF AuthorityNudged, EvalNudged, MaybeRow, OutboxRow, RowColumns, NoOwner

(***************************************************************************)
(* What the building blocks of the actions do.                             *)
(***************************************************************************)

TableOK == row \in [Effects -> MaybeRow] /\ clock \in Nat

LEMMA InsertRowsType ==
  ASSUME TableOK, NEW S, NEW ordered, InsertRows(S, ordered)
  PROVE  TableOK'
<1> DEFINE fresh(e) == [disposition |-> "ready", next |-> "null",
                        attempts |-> 0, owner |-> NoOwner, generation |-> 0,
                        born |-> clock + 1, ordered |-> e \in ordered]
<1>1. \A e \in Effects : fresh(e) \in RowColumns
  BY DEF TableOK, RowColumns
<1>2. \A e \in Effects : fresh(e) \in OutboxRow
  BY <1>1 DEF OutboxRow
<1>3. \A e \in Effects : row'[e] \in {fresh(e), row[e]}
  BY DEF InsertRows
<1> QED
  BY <1>2, <1>3 DEF InsertRows, TableOK, MaybeRow

LEMMA DeleteRowsType ==
  ASSUME TableOK, NEW S, DeleteRows(S)
  PROVE  TableOK'
  BY DEF DeleteRows, TableOK, MaybeRow

\* A row that is changed in place keeps its columns.
LEMMA UpdateRowType ==
  ASSUME TableOK, NEW e \in Effects, NEW r \in MaybeRow,
         row' = [row EXCEPT ![e] = r], UNCHANGED clock
  PROVE  TableOK'
  BY DEF TableOK

LEMMA MoveClaimType ==
  ASSUME claims \subseteq Claim, NEW c \in claims,
         NEW phase \in {"claimed", "executing", "returned", "errored", "left"},
         MoveClaim(c, phase)
  PROVE  claims' \subseteq Claim
<1>1. [c EXCEPT !.phase = phase] \in Claim
  BY DEF Claim
<1> QED
  BY <1>1 DEF MoveClaim

LEMMA EndRunType ==
  ASSUME claims \subseteq Claim, running \in [Effects -> Run],
         NEW e \in Effects, EndRun(e)
  PROVE  claims' \subseteq Claim /\ running' \in [Effects -> Run]
<1>1. \A c \in claims : [c EXCEPT !.phase = "returned"] \in Claim
  BY DEF Claim
<1>2. NoRun \in Run
  BY DEF NoRun, Run
<1> QED
  BY <1>1, <1>2 DEF EndRun

\* OutboxRow as the type of a row that its claim still owns.
LEMMA OwnedRow ==
  ASSUME TableOK, NEW e \in Effects, OwnsRow(e)
  PROVE  row[e] \in OutboxRow
  BY DEF TableOK, MaybeRow, OwnsRow, IsClaim, IsLeased

(***************************************************************************)
(* Type correctness.                                                       *)
(***************************************************************************)

OtherTypesOK ==
    /\ journal \in [Effects -> {"absent", "gated", "pending", "settled"}]
    /\ worker \in Workers \cup {NoOwner}
    /\ claims \subseteq Claim
    /\ running \in [Effects -> Run]
    /\ admission \in {"open", "closing", "interrupted"}
    /\ released \in BOOLEAN
    /\ authority \subseteq Effects
    /\ hinted \in BOOLEAN

LEMMA TypeOKParts == TypeOK <=> TableOK /\ OtherTypesOK
  BY DEF TypeOK, TableOK, OtherTypesOK, MaybeRow

LEMMA InitTypeOK == Init => TypeOK
<1>1. Init => released \in BOOLEAN /\ hinted \in BOOLEAN
  BY Zenon DEF Init
<1>2. Init => TableOK
  BY DEF Init, TableOK, MaybeRow
<1>3. Init => OtherTypesOK
  BY <1>1 DEF Init, OtherTypesOK, NoRun, Run
<1> QED
  BY <1>2, <1>3, TypeOKParts

LEMMA SettledType ==
  ASSUME TypeOK, NEW e \in Effects, Settled(e)
  PROVE  /\ TableOK'
         /\ journal' \in [Effects -> {"absent", "gated", "pending", "settled"}]
  BY TypeOKParts, DeleteRowsType DEF Settled, OtherTypesOK

\* A claim of the table: the owner and the generation come from the row.
LEMMA ClaimReadyType ==
  ASSUME TypeOK, NEW w \in Workers, ClaimReady(w)
  PROVE  TypeOK'
<1> DEFINE table == [e \in Effects |->
                       IF w # worker THEN ReleasedBy(worker, row[e]) ELSE row[e]]
<1>1. PICK picked \in SUBSET Rows :
             /\ row' = [e \in Effects |->
                          IF e \in picked THEN LeasedTo(w, table[e]) ELSE table[e]]
             /\ worker' = w
             /\ claims' = claims \cup
                   {[effect |-> e, generation |-> row'[e].generation,
                     worker |-> w, born |-> row[e].born, phase |-> "claimed"] :
                       e \in picked}
             /\ UNCHANGED <<clock, journal, running, gateVars, wakeVars>>
  BY DEF ClaimReady, Slices, Claimable
<1>2. picked \subseteq Rows
  OBVIOUS
<1>3. \A e \in Effects : table[e] \in MaybeRow
  BY ReleasedByType, TypeOKParts DEF TableOK
<1>4. \A e \in Rows : row[e] \in OutboxRow /\ table[e] \in OutboxRow
  BY <1>3, NoRowIsNoOutboxRow DEF Rows, TypeOK, MaybeRow, ReleasedBy, NoRow
<1> HIDE DEF table
<1>5. \A e \in picked : row'[e] \in OutboxRow
  BY <1>1, <1>2, <1>4, LeasedToType DEF Rows
<1>6. TableOK'
  BY <1>1, <1>3, <1>5, TypeOKParts DEF TableOK, MaybeRow
<1>7. \A e \in picked : [effect |-> e, generation |-> row'[e].generation,
                         worker |-> w, born |-> row[e].born,
                         phase |-> "claimed"] \in Claim
  BY <1>2, <1>4, <1>5 DEF Rows, OutboxRow, RowColumns, Claim
<1>8. claims' \subseteq Claim
  BY <1>1, <1>7, TypeOKParts DEF OtherTypesOK
<1> QED
  BY <1>1, <1>6, <1>8 DEF TypeOK, TableOK, MaybeRow, gateVars, wakeVars

LEMMA HostStepType ==
  ASSUME TypeOK, HostStep
  PROVE  TypeOK'
<1>1. ASSUME NEW w \in Workers, ClaimReady(w)
      PROVE  TypeOK'
  BY <1>1, ClaimReadyType
<1>2. ASSUME NEW c \in claims, StartRun(c)
      PROVE  TypeOK'
  <2>1. c \in Claim
    BY DEF TypeOK
  <2>2. claims' \subseteq Claim
    BY <1>2, MoveClaimType DEF StartRun, TypeOK
  <2>3. running' \in [Effects -> Run]
    BY <1>2, <2>1 DEF StartRun, TypeOK, Claim, Run
  <2> QED
    BY <1>2, <2>2, <2>3 DEF StartRun, TypeOK, outboxVars, gateVars, wakeVars
<1>3. ASSUME NEW c \in claims, RefuseRun(c)
      PROVE  TypeOK'
  <2>1. claims' \subseteq Claim
    BY <1>3, MoveClaimType DEF RefuseRun, TypeOK
  <2> QED
    BY <1>3, <2>1 DEF RefuseRun, TypeOK, outboxVars, gateVars, wakeVars
<1>4. ASSUME NEW c \in claims, SettleClaim(c)
      PROVE  TypeOK'
  <2>1. claims' \subseteq Claim
    BY <1>4, MoveClaimType DEF SettleClaim, TypeOK
  <2> QED
    BY <1>4, <2>1 DEF SettleClaim, TypeOK, outboxVars, gateVars, wakeVars
<1>5. ASSUME NEW c \in claims, FailClaim(c)
      PROVE  TypeOK'
  <2>1. c.effect \in Effects /\ (IsLeased(c.effect) => row[c.effect] \in OutboxRow)
    BY DEF TypeOK, Claim, IsLeased
  <2>2. TableOK'
    BY <1>5, <2>1, FailedType, TypeOKParts
    DEF FailClaim, IsClaim, TableOK, MaybeRow
  <2> QED
    BY <1>5, <2>2 DEF FailClaim, TypeOK, TableOK, MaybeRow, gateVars, wakeVars
<1> QED
  BY <1>1, <1>2, <1>3, <1>4, <1>5 DEF HostStep

LEMMA RunStepType ==
  ASSUME TypeOK, NEW e \in Effects, RunStep(e)
  PROVE  TypeOK'
<1>1. CASE ReadAuthority(e)
  <2>1. running' \in [Effects -> Run]
    BY <1>1 DEF ReadAuthority, TypeOK, Run
  <2> QED
    BY <1>1, <2>1 DEF ReadAuthority, TypeOK, outboxVars, hostVars, gateVars, wakeVars
<1>2. ASSUME ~ReadAuthority(e)
      PROVE  /\ claims' \subseteq Claim /\ running' \in [Effects -> Run]
             /\ UNCHANGED <<worker, gateVars, wakeVars>>
  <2>1. EndRun(e) /\ UNCHANGED <<worker, gateVars, wakeVars>>
    BY <1>2 DEF RunStep, DropRun, CompleteRun, DeferRun, FailRun, RetryRun, RederiveRun
  <2> QED
    BY <2>1, EndRunType DEF TypeOK
<1>3. ASSUME ~ReadAuthority(e)
      PROVE  /\ TableOK'
             /\ journal' \in [Effects -> {"absent", "gated", "pending", "settled"}]
  <2>1. CASE DropRun(e)
    BY <2>1, TypeOKParts DEF DropRun, TableOK, OtherTypesOK, outboxVars
  <2>2. CASE CompleteRun(e)
    BY <2>2, SettledType DEF CompleteRun
  <2>3. CASE DeferRun(e)
    BY <2>3, TypeOKParts, OwnedRow, DeferredType
    DEF DeferRun, TableOK, OtherTypesOK, MaybeRow
  <2>4. CASE FailRun(e)
    BY <2>4, TypeOKParts, OwnedRow, FailedType, SettledType
    DEF FailRun, TableOK, OtherTypesOK, MaybeRow
  <2>5. CASE RetryRun(e)
    BY <2>5, TypeOKParts, OwnedRow, FailedType
    DEF RetryRun, TableOK, OtherTypesOK, MaybeRow
  <2>6. CASE RederiveRun(e)
    <3> DEFINE fresh == [disposition |-> "ready", next |-> "null", attempts |-> 0,
                         owner |-> NoOwner, generation |-> 0,
                         born |-> clock + 1, ordered |-> FALSE]
    <3>1. clock + 1 \in Nat
      BY DEF TypeOK
    <3>2. fresh \in OutboxRow
      BY <3>1 DEF OutboxRow, RowColumns
    <3> QED
      BY <2>6, <3>1, <3>2, TypeOKParts
      DEF RederiveRun, TableOK, OtherTypesOK, MaybeRow
  <2> QED
    BY <1>3, <2>1, <2>2, <2>3, <2>4, <2>5, <2>6 DEF RunStep
<1> QED
  BY <1>1, <1>2, <1>3 DEF TypeOK, TableOK, MaybeRow, gateVars, wakeVars

LEMMA OutsideStepType ==
  ASSUME TypeOK, OutsideStep
  PROVE  TypeOK'
<1>1. ASSUME NEW e \in Effects, DeliverOutcome(e)
      PROVE  TypeOK'
  BY <1>1, SettledType
  DEF DeliverOutcome, TypeOK, TableOK, MaybeRow, hostVars, gateVars, wakeVars
<1>2. ASSUME NEW e \in Effects, GrantAuthority(e)
      PROVE  TypeOK'
  BY <1>2 DEF GrantAuthority, TypeOK, outboxVars, hostVars, gateVars
<1>3. ASSUME NEW e \in Effects, TimePasses(e)
      PROVE  TypeOK'
  <2>1. row[e] \in OutboxRow /\ [row[e] EXCEPT !.next = "due"] \in OutboxRow
    BY <1>3 DEF TimePasses, TypeOK, OutboxRow, RowColumns
  <2> QED
    BY <1>3, <2>1 DEF TimePasses, TypeOK, hostVars, gateVars, wakeVars
<1>4. CASE OnAuthorityChanged
  BY <1>4, TypeOKParts, NudgedType
  DEF OnAuthorityChanged, TypeOK, TableOK, MaybeRow, hostVars, gateVars
<1>5. CASE ReconcileDeferredEvalRuns
  BY <1>5, TypeOKParts, NudgedType
  DEF ReconcileDeferredEvalRuns, TypeOK, TableOK, MaybeRow, hostVars, gateVars, wakeVars
<1>6. CASE Restart
  <2>1. \A c \in claims : [c EXCEPT !.phase = "errored"] \in Claim
    BY DEF TypeOK, Claim
  <2>2. NoRun \in Run
    BY DEF NoRun, Run
  <2> QED
    BY <1>6, <2>1, <2>2 DEF Restart, TypeOK, outboxVars, gateVars, wakeVars
<1>7. CASE ReleaseActivation
  BY <1>7 DEF ReleaseActivation, TypeOK, outboxVars, hostVars, wakeVars
<1> QED
  BY <1>1, <1>2, <1>3, <1>4, <1>5, <1>6, <1>7 DEF OutsideStep

LEMMA IntentionAndInterruptType ==
  ASSUME TypeOK, IntentionStep \/ InterruptStep
  PROVE  TypeOK'
<1>1. ASSUME NEW e \in Effects, BeginEffect(e)
      PROVE  TypeOK'
  BY <1>1, InsertRowsType, TypeOKParts
  DEF BeginEffect, TypeOK, TableOK, MaybeRow, hostVars, gateVars, wakeVars
<1>2. ASSUME NEW e \in Effects, ResolveApproval(e)
      PROVE  TypeOK'
  <2>1. TableOK'
    BY <1>2, InsertRowsType, TypeOKParts DEF ResolveApproval, TableOK, outboxVars
  <2> QED
    BY <1>2, <2>1 DEF ResolveApproval, TypeOK, TableOK, MaybeRow, hostVars, gateVars, wakeVars
<1>3. ASSUME NEW t, BeginCalls(t)
      PROVE  TypeOK'
  BY <1>3, InsertRowsType, TypeOKParts
  DEF BeginCalls, TypeOK, TableOK, MaybeRow, hostVars, gateVars, wakeVars
<1>4. CASE CloseAdmission
  BY <1>4 DEF CloseAdmission, TypeOK, outboxVars, hostVars, gateVars, wakeVars
<1>5. CASE JournalInterrupt
  BY <1>5, DeleteRowsType, TypeOKParts
  DEF JournalInterrupt, TypeOK, TableOK, MaybeRow, hostVars, gateVars, wakeVars
<1>6. CASE ReopenAdmission
  BY <1>6 DEF ReopenAdmission, TypeOK, outboxVars, hostVars, gateVars, wakeVars
<1> QED
  BY <1>1, <1>2, <1>3, <1>4, <1>5, <1>6 DEF IntentionStep, InterruptStep

LEMMA NextTypeOK == TypeOK /\ [Next]_vars => TypeOK'
<1> SUFFICES ASSUME TypeOK, [Next]_vars
             PROVE  TypeOK'
  OBVIOUS
<1>1. CASE UNCHANGED vars
  BY <1>1 DEF TypeOK, vars
<1> QED
  BY <1>1, HostStepType, RunStepType, OutsideStepType, IntentionAndInterruptType
  DEF Next

\* Every reachable table is well formed: in particular a row has an owner
\* exactly while it is leased, however the lease ended.
THEOREM TypeCorrect == Spec => []TypeOK
  BY InitTypeOK, NextTypeOK, PTL DEF Spec

(***************************************************************************)
(* No lease is orphaned.  The invariant is inductive with TypeOK.          *)
(***************************************************************************)

Backs(c, e) ==
    /\ c.effect = e /\ c.worker = worker
    /\ c.generation = row[e].generation /\ c.born = row[e].born

\* The claims of a step keep the identity of the claims they come from.
Survives(c) ==
    \E d \in claims' : /\ d.effect = c.effect /\ d.worker = c.worker
                      /\ d.generation = c.generation /\ d.born = c.born

LEMMA LeaseHasClaimAsBacking ==
  LeaseHasClaim <=>
    \A e \in Effects : IsLeased(e) =>
        row[e].owner = worker /\ \E c \in claims : Backs(c, e)
  BY DEF LeaseHasClaim, Holds, Backs

\* A step that leases nothing and drops no backing claim.
LEMMA KeepsLeases ==
  ASSUME LeaseHasClaim,
         UNCHANGED worker,
         \A e \in Effects : IsLeased(e)' =>
            /\ IsLeased(e)
            /\ row'[e].owner = row[e].owner
            /\ row'[e].generation = row[e].generation
            /\ row'[e].born = row[e].born,
         \A e \in Effects : IsLeased(e)' =>
            \A c \in claims : Backs(c, e) => Survives(c)
  PROVE  LeaseHasClaim'
<1> SUFFICES ASSUME NEW e \in Effects, IsLeased(e)'
             PROVE  row'[e].owner = worker' /\
                    \E d \in claims' : /\ d.effect = e /\ d.worker = worker'
                                      /\ d.generation = row'[e].generation
                                      /\ d.born = row'[e].born
  BY DEF LeaseHasClaim, Holds
<1>1. PICK c \in claims : Backs(c, e)
  BY DEF LeaseHasClaim, Holds, Backs
<1> QED
  BY <1>1 DEF Survives, Backs, LeaseHasClaim, Holds

LEMMA MoveClaimSurvives ==
  ASSUME claims \subseteq Claim, NEW c \in claims, NEW phase, MoveClaim(c, phase)
  PROVE  \A d \in claims : Survives(d)
<1>1. LET m == [c EXCEPT !.phase = phase] IN
        /\ m \in claims' /\ m.effect = c.effect /\ m.worker = c.worker
        /\ m.generation = c.generation /\ m.born = c.born
  BY DEF MoveClaim, Claim
<1>2. \A d \in claims : d # c => d \in claims'
  BY DEF MoveClaim
<1> QED
  BY <1>1, <1>2 DEF Survives

\* EndRun and Restart only move claims to another phase.
LEMMA PhaseChangeSurvives ==
  ASSUME claims \subseteq Claim, NEW moved, NEW phase,
         claims' = {IF c \in moved THEN [c EXCEPT !.phase = phase] ELSE c : c \in claims}
  PROVE  \A d \in claims : Survives(d)
<1> SUFFICES ASSUME NEW d \in claims PROVE Survives(d)
  OBVIOUS
<1>1. CASE d \in moved
  <2>1. LET m == [d EXCEPT !.phase = phase] IN
          /\ m \in claims' /\ m.effect = d.effect /\ m.worker = d.worker
          /\ m.generation = d.generation /\ m.born = d.born
    BY <1>1 DEF Claim
  <2> QED
    BY <2>1 DEF Survives
<1>2. CASE d \notin moved
  BY <1>2 DEF Survives
<1> QED
  BY <1>1, <1>2

LEMMA EndRunSurvives ==
  ASSUME claims \subseteq Claim, NEW e, EndRun(e)
  PROVE  \A d \in claims : Survives(d)
<1> DEFINE moved == {c \in claims : /\ c.effect = e /\ c.phase = "executing"
                                   /\ c.generation = running[e].generation}
<1>1. claims' = {IF c \in moved THEN [c EXCEPT !.phase = "returned"] ELSE c :
                   c \in claims}
  BY DEF EndRun
<1> QED
  BY <1>1, PhaseChangeSurvives

\* A step other than a claim grants no lease and changes none.
LeasesOnlyEnd ==
    \A e \in Effects : IsLeased(e)' =>
        /\ IsLeased(e)
        /\ row'[e].owner = row[e].owner
        /\ row'[e].generation = row[e].generation
        /\ row'[e].born = row[e].born

LEMMA InsertRowsLeases ==
  ASSUME NEW S, NEW ordered, InsertRows(S, ordered)
  PROVE  LeasesOnlyEnd
  BY DEF InsertRows, LeasesOnlyEnd, IsLeased, NoRow

LEMMA SettledLeases ==
  ASSUME NEW S, DeleteRows(S)
  PROVE  LeasesOnlyEnd
  BY DEF DeleteRows, LeasesOnlyEnd, IsLeased

LEMMA RunStepLeases ==
  ASSUME TypeOK, NEW e \in Effects, RunStep(e)
  PROVE  LeasesOnlyEnd
<1>1. CASE UNCHANGED row
  BY <1>1 DEF LeasesOnlyEnd, IsLeased
<1>2. CASE Settled(e)
  BY <1>2, SettledLeases DEF Settled
<1>3. ASSUME NEW r, r.disposition # "leased", row' = [row EXCEPT ![e] = r]
      PROVE  LeasesOnlyEnd
  BY <1>3 DEF LeasesOnlyEnd, IsLeased, TypeOK
<1>4. CASE RederiveRun(e)
  BY <1>4 DEF RederiveRun, LeasesOnlyEnd, IsLeased, TypeOK
<1>5. OwnsRow(e) => /\ Deferred(row[e]).disposition = "parked"
                    /\ \A soon \in BOOLEAN :
                          Failed(row[e], soon).disposition = "retrying"
  BY OwnedRow, TypeOKParts DEF Deferred, Failed, OutboxRow, RowColumns
<1>6. CASE DeferRun(e)
  BY <1>3, <1>5, <1>6 DEF DeferRun
<1>7. CASE FailRun(e)
  BY <1>2, <1>3, <1>5, <1>7 DEF FailRun
<1>8. CASE RetryRun(e)
  BY <1>3, <1>5, <1>8 DEF RetryRun
<1> QED
  BY <1>1, <1>2, <1>4, <1>6, <1>7, <1>8
  DEF RunStep, DropRun, CompleteRun, ReadAuthority, outboxVars

LEMMA OutsideStepLeases ==
  ASSUME TypeOK, OutsideStep
  PROVE  LeasesOnlyEnd
<1>1. ASSUME NEW e \in Effects, DeliverOutcome(e)
      PROVE  LeasesOnlyEnd
  BY <1>1, SettledLeases DEF DeliverOutcome, Settled
<1>2. ASSUME UNCHANGED row
      PROVE  LeasesOnlyEnd
  BY <1>2 DEF LeasesOnlyEnd, IsLeased
<1>3. ASSUME NEW e \in Effects, TimePasses(e)
      PROVE  LeasesOnlyEnd
  <2>1. row[e] \in OutboxRow
    BY <1>3 DEF TimePasses, TypeOK
  <2> QED
    BY <1>3, <2>1 DEF TimePasses, LeasesOnlyEnd, IsLeased, OutboxRow, RowColumns, TypeOK
<1>4. CASE OnAuthorityChanged
  BY <1>4, NoRowIsNoOutboxRow
  DEF OnAuthorityChanged, LeasesOnlyEnd, IsLeased, AuthorityNudged, TypeOK,
      OutboxRow, RowColumns
<1>5. CASE ReconcileDeferredEvalRuns
  BY ZenonT(40), <1>5, NoRowIsNoOutboxRow
  DEF ReconcileDeferredEvalRuns, LeasesOnlyEnd, IsLeased, EvalNudged, TypeOK,
      OutboxRow, RowColumns
<1> QED
  BY <1>1, <1>2, <1>3, <1>4, <1>5 DEF OutsideStep, GrantAuthority, ReleaseActivation, Restart, outboxVars

LEMMA LeaseHasClaimRunStep ==
  ASSUME TypeOK, LeaseHasClaim, NEW e \in Effects, RunStep(e)
  PROVE  LeaseHasClaim'
<1>1. claims \subseteq Claim
  BY DEF TypeOK
<1>2. \A c \in claims : Survives(c)
  <2>1. CASE ReadAuthority(e)
    BY <2>1 DEF ReadAuthority, Survives, hostVars
  <2>2. CASE ~ReadAuthority(e)
    <3>1. EndRun(e)
      BY <2>2 DEF RunStep, DropRun, CompleteRun, DeferRun, FailRun, RetryRun, RederiveRun
    <3> QED
      BY <1>1, <3>1, EndRunSurvives
  <2> QED
    BY <2>1, <2>2
<1>3. UNCHANGED worker
  BY DEF RunStep, DropRun, CompleteRun, DeferRun, FailRun, RetryRun, RederiveRun,
         ReadAuthority, hostVars
<1> QED
  BY <1>2, <1>3, RunStepLeases, KeepsLeases DEF LeasesOnlyEnd

LEMMA LeaseHasClaimOutside ==
  ASSUME TypeOK, LeaseHasClaim, OutsideStep
  PROVE  LeaseHasClaim'
<1>1. claims \subseteq Claim
  BY DEF TypeOK
<1>2. \A c \in claims : Survives(c)
  <2>1. CASE Restart
    <3>1. claims' = {IF c \in {d \in claims : d.phase = "executing"}
                     THEN [c EXCEPT !.phase = "errored"] ELSE c : c \in claims}
      BY <2>1 DEF Restart
    <3> QED
      BY <1>1, <3>1, PhaseChangeSurvives
  <2>2. CASE UNCHANGED claims
    BY <2>2 DEF Survives
  <2> QED
    BY <2>1, <2>2 DEF OutsideStep, DeliverOutcome, GrantAuthority, TimePasses,
       OnAuthorityChanged, ReconcileDeferredEvalRuns, ReleaseActivation, hostVars
<1>3. UNCHANGED worker
  BY DEF OutsideStep, DeliverOutcome, GrantAuthority, TimePasses, Restart,
         OnAuthorityChanged, ReconcileDeferredEvalRuns, ReleaseActivation, hostVars
<1> QED
  BY <1>2, <1>3, OutsideStepLeases, KeepsLeases DEF LeasesOnlyEnd

LEMMA LeaseHasClaimIntention ==
  ASSUME TypeOK, LeaseHasClaim, IntentionStep \/ InterruptStep
  PROVE  LeaseHasClaim'
<1>1. UNCHANGED hostVars
  BY DEF IntentionStep, InterruptStep, BeginEffect, ResolveApproval, BeginCalls,
         CloseAdmission, JournalInterrupt, ReopenAdmission
<1>2. LeasesOnlyEnd
  <2>1. UNCHANGED row => LeasesOnlyEnd
    BY DEF LeasesOnlyEnd, IsLeased
  <2> QED
    BY <2>1, InsertRowsLeases, SettledLeases
    DEF IntentionStep, InterruptStep, BeginEffect, ResolveApproval, BeginCalls,
        CloseAdmission, JournalInterrupt, ReopenAdmission, outboxVars
<1> QED
  BY <1>1, <1>2, KeepsLeases DEF LeasesOnlyEnd, Survives, hostVars

LEMMA LeaseHasClaimHost ==
  ASSUME TypeOK, LeaseHasClaim, HostStep
  PROVE  LeaseHasClaim'
<1>0. claims \subseteq Claim
  BY DEF TypeOK
<1>1. ASSUME NEW w \in Workers, ClaimReady(w)
      PROVE  LeaseHasClaim'
  <2> DEFINE table == [e \in Effects |->
                         IF w # worker THEN ReleasedBy(worker, row[e]) ELSE row[e]]
  <2>1. PICK picked \in SUBSET Rows :
             /\ row' = [e \in Effects |->
                          IF e \in picked THEN LeasedTo(w, table[e]) ELSE table[e]]
             /\ worker' = w
             /\ claims' = claims \cup
                   {[effect |-> e, generation |-> row'[e].generation,
                     worker |-> w, born |-> row[e].born, phase |-> "claimed"] :
                       e \in picked}
    BY <1>1 DEF ClaimReady, Slices, Claimable
  <2>2. ASSUME NEW e \in picked
        PROVE  /\ row'[e].owner = w /\ row'[e].born = row[e].born
               /\ row[e] \in OutboxRow
    <3>1. e \in Effects /\ row[e] \in OutboxRow
      BY DEF Rows, TypeOK
    <3>2. ReleasedBy(worker, row[e]) \in OutboxRow
          /\ ReleasedBy(worker, row[e]).born = row[e].born
      BY <3>1, ReleasedByType, NoRowIsNoOutboxRow
      DEF MaybeRow, ReleasedBy, OutboxRow, RowColumns, NoRow
    <3>3. table[e] \in OutboxRow /\ table[e].born = row[e].born
      BY <3>1, <3>2
    <3> HIDE DEF table
    <3>4. row'[e] = LeasedTo(w, table[e])
      BY <3>1, <2>1
    <3> QED
      BY <3>1, <3>3, <3>4 DEF LeasedTo, OutboxRow, RowColumns
  <2>3. ASSUME NEW e \in Effects \ picked, IsLeased(e)'
        PROVE  w = worker /\ IsLeased(e) /\ row'[e] = row[e]
    <3>1. row'[e] = table[e]
      BY <2>1
    <3>2. CASE w = worker
      BY <3>1, <3>2, <2>3 DEF IsLeased
    <3>3. CASE w # worker
      <4>1. row'[e] = ReleasedBy(worker, row[e]) /\ row'[e] # NoRow
            /\ row'[e].disposition = "leased"
        BY <3>1, <3>3, <2>3 DEF IsLeased
      <4>2. row[e] \in OutboxRow
        BY <4>1, NoRowIsNoOutboxRow DEF ReleasedBy, TypeOK
      <4>3. row'[e] = row[e]
        BY <4>1, <4>2 DEF ReleasedBy, OutboxRow, RowColumns
      <4>4. IsLeased(e) /\ row[e].owner = worker /\ worker # NoOwner
        BY <4>1, <4>2, <4>3 DEF IsLeased, LeaseHasClaim, Holds, OutboxRow
      <4>5. row'[e].disposition = "ready"
        BY <4>1, <4>2, <4>4 DEF ReleasedBy, IsLeased, OutboxRow, RowColumns
      <4> QED
        BY <4>1, <4>5
    <3> QED
      BY <3>2, <3>3
  <2> HIDE DEF table
  <2> SUFFICES ASSUME NEW e \in Effects, IsLeased(e)'
               PROVE  row'[e].owner = worker' /\
                      \E d \in claims' : /\ d.effect = e /\ d.worker = worker'
                                        /\ d.generation = row'[e].generation
                                        /\ d.born = row'[e].born
    BY DEF LeaseHasClaim, Holds
  <2>4. CASE e \in picked
    <3>1. LET d == [effect |-> e, generation |-> row'[e].generation,
                    worker |-> w, born |-> row[e].born, phase |-> "claimed"]
          IN  /\ d \in claims' /\ d.effect = e /\ d.worker = w
              /\ d.generation = row'[e].generation /\ d.born = row[e].born
      BY <2>1, <2>4
    <3> QED
      BY <3>1, <2>1, <2>2, <2>4
  <2>5. CASE e \notin picked
    BY <2>1, <2>3, <2>5 DEF LeaseHasClaim, Holds
  <2> QED
    BY <2>4, <2>5
<1>2. ASSUME NEW c \in claims, StartRun(c) \/ RefuseRun(c)
      PROVE  LeaseHasClaim'
  <2>1. \A d \in claims : Survives(d)
    BY <1>0, <1>2, MoveClaimSurvives DEF StartRun, RefuseRun
  <2> QED
    BY <1>2, <2>1, KeepsLeases DEF StartRun, RefuseRun, outboxVars, IsLeased
<1>3. ASSUME NEW c \in claims, SettleClaim(c)
      PROVE  LeaseHasClaim'
  <2>1. CASE \E phase \in {"errored", "left"} : MoveClaim(c, phase)
    <3>1. \A d \in claims : Survives(d)
      BY <1>0, <2>1, MoveClaimSurvives
    <3> QED
      BY <1>3, <3>1, KeepsLeases DEF SettleClaim, outboxVars, IsLeased
  <2>2. CASE ~(IsClaim(c.effect, c.generation) /\ row[c.effect].owner = c.worker)
    <3>1. claims' = claims \ {c} /\ UNCHANGED <<row, worker>>
      BY <1>3, <2>2 DEF SettleClaim, outboxVars
    <3>2. \A e \in Effects : IsLeased(e) => ~Backs(c, e)
      BY <2>2 DEF Backs, IsClaim, LeaseHasClaim, Holds
    <3>3. \A d \in claims : d # c => Survives(d)
      BY <3>1 DEF Survives
    <3> QED
      BY <3>1, <3>2, <3>3, KeepsLeases DEF IsLeased
  <2> QED
    BY <1>3, <2>1, <2>2 DEF SettleClaim
<1>4. ASSUME NEW c \in claims, FailClaim(c)
      PROVE  LeaseHasClaim'
  <2>1. claims' = claims \ {c} /\ UNCHANGED worker
    BY <1>4 DEF FailClaim
  <2>2. \A d \in claims : d # c => Survives(d)
    BY <2>1 DEF Survives
  <2>3. CASE IsClaim(c.effect, c.generation) /\ row[c.effect].owner = c.worker
    <3>1. row' = [row EXCEPT ![c.effect] = Failed(row[c.effect], FALSE)]
      BY <1>4, <2>3 DEF FailClaim
    <3>2. c.effect \in Effects /\ row[c.effect] \in OutboxRow
      BY <1>0, <2>3 DEF IsClaim, IsLeased, TypeOK, Claim
    <3>3. ~IsLeased(c.effect)'
      BY <3>1, <3>2 DEF IsLeased, Failed, OutboxRow, RowColumns, TypeOK
    <3>4. \A e \in Effects : e # c.effect => row'[e] = row[e]
      BY <3>1
    <3>5. \A e \in Effects : e # c.effect => ~Backs(c, e)
      BY DEF Backs
    <3> QED
      BY <2>1, <2>2, <3>3, <3>4, <3>5, KeepsLeases DEF IsLeased
  <2>4. CASE ~(IsClaim(c.effect, c.generation) /\ row[c.effect].owner = c.worker)
    <3>1. UNCHANGED row
      BY <1>4, <2>4 DEF FailClaim
    <3>2. \A e \in Effects : IsLeased(e) => ~Backs(c, e)
      BY <2>4 DEF Backs, IsClaim, LeaseHasClaim, Holds
    <3> QED
      BY <2>1, <2>2, <3>1, <3>2, KeepsLeases DEF IsLeased
  <2> QED
    BY <2>3, <2>4
<1> QED
  BY <1>1, <1>2, <1>3, <1>4 DEF HostStep

\* Whatever ends a lease - settlement, failure, deferral, an interrupt, a dead
\* activation, a replaced worker - no row stays leased to a worker that has no
\* claim left to settle or fail, save a row whose claim a released activation
\* has answered "stale".
THEOREM LeasesAreBacked == Spec => []LeaseHasClaim
<1>1. Init => LeaseHasClaim
  BY DEF Init, LeaseHasClaim, IsLeased
<1>2. TypeOK /\ LeaseHasClaim /\ [Next]_vars => LeaseHasClaim'
  <2> SUFFICES ASSUME TypeOK, LeaseHasClaim, [Next]_vars
               PROVE  LeaseHasClaim'
    OBVIOUS
  <2>1. CASE UNCHANGED vars
    BY <2>1 DEF vars, LeaseHasClaim, Holds, IsLeased
  <2> QED
    BY <2>1, LeaseHasClaimHost, LeaseHasClaimRunStep, LeaseHasClaimOutside,
       LeaseHasClaimIntention DEF Next
<1> QED
  BY <1>1, <1>2, TypeCorrect, PTL DEF Spec

(***************************************************************************)
(* Claims are told apart by the generation of their row.                   *)
(***************************************************************************)

SameClaim(c, d) ==
    c.effect = d.effect /\ c.born = d.born /\ c.generation = d.generation

ClaimsDistinct ==
    /\ \A e \in Rows : row[e].born <= clock
    /\ \A c \in claims : c.born <= clock
    /\ \A c \in claims :
          row[c.effect] # NoRow /\ row[c.effect].born = c.born
          => c.generation <= row[c.effect].generation
    /\ \A c, d \in claims : SameClaim(c, d) => c = d

KeptRow(e) ==
    /\ row[e] # NoRow
    /\ row'[e].born = row[e].born
    /\ row'[e].ordered = row[e].ordered
    /\ row'[e].generation = row[e].generation

\* A step other than a claim: a row that is there afterwards was inserted by
\* the step or keeps its insertion, its order and its generation.
RowsAdvance ==
    /\ clock' \in {clock, clock + 1}
    /\ \A e \in Effects : row'[e] # NoRow =>
          \/ KeptRow(e)
          \/ row'[e].born = clock + 1 /\ clock' = clock + 1

LEMMA ClaimsDistinctStep ==
  ASSUME TypeOK, ClaimsDistinct, RowsAdvance, TypeOK', NEW f,
         \A d \in claims : /\ f[d].effect = d.effect /\ f[d].born = d.born
                          /\ f[d].generation = d.generation,
         claims' \subseteq {f[d] : d \in claims}
  PROVE  ClaimsDistinct'
<1>1. \A c \in claims' : \E d \in claims :
         c = f[d] /\ c.effect = d.effect /\ c.born = d.born
         /\ c.generation = d.generation
  OBVIOUS
<1>2. \A d \in claims : d.effect \in Effects /\ d.born \in Nat /\ d.generation \in Nat
  BY DEF TypeOK, Claim
<1>3. clock \in Nat
  BY DEF TypeOK
<1>4. \A e \in Effects : row[e] # NoRow => row[e].born \in Nat
  BY DEF TypeOK, OutboxRow, RowColumns
<1>5. \A e \in Rows' : row'[e].born <= clock'
  BY <1>3, <1>4 DEF RowsAdvance, KeptRow, ClaimsDistinct, Rows
<1>6. \A c \in claims' : c.born <= clock'
  BY <1>1, <1>2, <1>3 DEF RowsAdvance, KeptRow, ClaimsDistinct
<1>7. ASSUME NEW c \in claims', row'[c.effect] # NoRow, row'[c.effect].born = c.born
      PROVE  c.generation <= row'[c.effect].generation
  <2>1. PICK d \in claims : c.effect = d.effect /\ c.born = d.born
                            /\ c.generation = d.generation
    BY <1>1
  <2>2. d.born <= clock /\ d.effect \in Effects /\ d.born \in Nat
    BY <1>2 DEF ClaimsDistinct
  <2>3. row'[d.effect].born # clock + 1
    BY <1>3, <1>7, <2>1, <2>2
  <2> QED
    BY <1>7, <2>1, <2>2, <2>3 DEF RowsAdvance, KeptRow, ClaimsDistinct
<1>8. \A c, d \in claims' : SameClaim(c, d) => c = d
  BY <1>1 DEF ClaimsDistinct, SameClaim
<1> QED
  BY <1>5, <1>6, <1>7, <1>8 DEF ClaimsDistinct, SameClaim

\* Claims that change their phase or go away.
LEMMA ClaimsDistinctUnlessClaimed ==
  ASSUME TypeOK, TypeOK', ClaimsDistinct, RowsAdvance, NEW moved, NEW phase,
         claims' \subseteq {IF c \in moved THEN [c EXCEPT !.phase = phase] ELSE c :
                            c \in claims}
  PROVE  ClaimsDistinct'
<1> DEFINE f == [c \in claims |->
                   IF c \in moved THEN [c EXCEPT !.phase = phase] ELSE c]
<1>1. \A d \in claims : /\ f[d].effect = d.effect /\ f[d].born = d.born
                       /\ f[d].generation = d.generation
  BY DEF TypeOK, Claim
<1>2. claims' \subseteq {f[d] : d \in claims}
  OBVIOUS
<1> HIDE DEF f
<1> QED
  BY <1>1, <1>2, ClaimsDistinctStep

LEMMA InsertRowsAdvance ==
  ASSUME TypeOK, NEW S, NEW ordered, InsertRows(S, ordered)
  PROVE  RowsAdvance
  BY DEF InsertRows, RowsAdvance, KeptRow

LEMMA DeleteRowsAdvance ==
  ASSUME NEW S, DeleteRows(S)
  PROVE  RowsAdvance
  BY DEF DeleteRows, RowsAdvance, KeptRow

\* An update that keeps the insertion and the generation of a row.
LEMMA UpdateRowAdvance ==
  ASSUME TypeOK, NEW e \in Effects, NEW r, UNCHANGED clock,
         row' = [row EXCEPT ![e] = r],
         row[e] # NoRow, r.born = row[e].born, r.ordered = row[e].ordered,
         r.generation = row[e].generation
  PROVE  RowsAdvance
  BY DEF RowsAdvance, KeptRow, TypeOK

LEMMA RunStepAdvance ==
  ASSUME TypeOK, NEW e \in Effects, RunStep(e)
  PROVE  RowsAdvance
<1>1. CASE UNCHANGED outboxVars
  BY <1>1 DEF RowsAdvance, KeptRow, outboxVars
<1>2. CASE Settled(e)
  BY <1>2, DeleteRowsAdvance DEF Settled
<1>3. OwnsRow(e) =>
        /\ row[e] # NoRow
        /\ Deferred(row[e]).born = row[e].born
        /\ Deferred(row[e]).ordered = row[e].ordered
        /\ Deferred(row[e]).generation = row[e].generation
        /\ \A soon \in BOOLEAN :
              /\ Failed(row[e], soon).born = row[e].born
              /\ Failed(row[e], soon).ordered = row[e].ordered
              /\ Failed(row[e], soon).generation = row[e].generation
  BY OwnedRow, TypeOKParts, NoRowIsNoOutboxRow
  DEF Deferred, Failed, OutboxRow, RowColumns
<1>4. CASE DeferRun(e)
  BY <1>3, <1>4, UpdateRowAdvance DEF DeferRun
<1>5. CASE FailRun(e)
  BY <1>2, <1>3, <1>5, UpdateRowAdvance DEF FailRun
<1>6. CASE RetryRun(e)
  BY <1>3, <1>6, UpdateRowAdvance DEF RetryRun
<1>7. CASE RederiveRun(e)
  BY <1>7 DEF RederiveRun, RowsAdvance, KeptRow, TypeOK
<1> QED
  BY <1>1, <1>2, <1>4, <1>5, <1>6, <1>7
  DEF RunStep, DropRun, CompleteRun, ReadAuthority

LEMMA OutsideStepAdvance ==
  ASSUME TypeOK, OutsideStep
  PROVE  RowsAdvance
<1>1. ASSUME NEW e \in Effects, DeliverOutcome(e)
      PROVE  RowsAdvance
  BY <1>1, DeleteRowsAdvance DEF DeliverOutcome, Settled
<1>2. ASSUME NEW e \in Effects, TimePasses(e)
      PROVE  RowsAdvance
  <2>1. row[e] \in OutboxRow
    BY <1>2 DEF TimePasses, TypeOK
  <2> QED
    BY <1>2, <2>1, UpdateRowAdvance DEF TimePasses, OutboxRow, RowColumns
<1>3. CASE OnAuthorityChanged
  BY <1>3, NoRowIsNoOutboxRow
  DEF OnAuthorityChanged, RowsAdvance, KeptRow, AuthorityNudged, TypeOK, OutboxRow, RowColumns
<1>4. CASE ReconcileDeferredEvalRuns
  BY <1>4, NoRowIsNoOutboxRow
  DEF ReconcileDeferredEvalRuns, RowsAdvance, KeptRow, EvalNudged, TypeOK, OutboxRow, RowColumns
<1>5. CASE UNCHANGED outboxVars
  BY <1>5 DEF RowsAdvance, KeptRow, outboxVars
<1> QED
  BY <1>1, <1>2, <1>3, <1>4, <1>5 DEF OutsideStep, GrantAuthority, ReleaseActivation, Restart

LEMMA FollowUpAdvance ==
  ASSUME TypeOK, NEW c \in claims,
         StartRun(c) \/ RefuseRun(c) \/ SettleClaim(c) \/ FailClaim(c)
  PROVE  RowsAdvance /\ LeasesOnlyEnd /\ UNCHANGED clock
<1>1. CASE UNCHANGED outboxVars
  BY <1>1 DEF RowsAdvance, KeptRow, LeasesOnlyEnd, IsLeased, outboxVars
<1>2. CASE FailClaim(c) /\ ~UNCHANGED row
  <2>1. /\ c.effect \in Effects /\ row[c.effect] # NoRow
        /\ row' = [row EXCEPT ![c.effect] = Failed(row[c.effect], FALSE)]
        /\ UNCHANGED clock
    BY <1>2 DEF FailClaim, IsClaim, IsLeased, TypeOK, Claim
  <2>2. row[c.effect] \in OutboxRow
    BY <2>1 DEF TypeOK
  <2>3. /\ Failed(row[c.effect], FALSE).born = row[c.effect].born
        /\ Failed(row[c.effect], FALSE).ordered = row[c.effect].ordered
        /\ Failed(row[c.effect], FALSE).generation = row[c.effect].generation
        /\ Failed(row[c.effect], FALSE).disposition = "retrying"
    BY <2>2 DEF Failed, OutboxRow, RowColumns
  <2>4. RowsAdvance
    BY <2>1, <2>3, UpdateRowAdvance
  <2>5. LeasesOnlyEnd
    BY <2>1, <2>3 DEF LeasesOnlyEnd, IsLeased, TypeOK
  <2> QED
    BY <2>1, <2>4, <2>5
<1> QED
  BY <1>1, <1>2 DEF StartRun, RefuseRun, SettleClaim, FailClaim, outboxVars

LEMMA IntentionAdvance ==
  ASSUME TypeOK, IntentionStep \/ InterruptStep
  PROVE  RowsAdvance
<1>1. UNCHANGED outboxVars => RowsAdvance
  BY DEF RowsAdvance, KeptRow, outboxVars
<1> QED
  BY <1>1, InsertRowsAdvance, DeleteRowsAdvance
  DEF IntentionStep, InterruptStep, BeginEffect, ResolveApproval, BeginCalls,
      CloseAdmission, JournalInterrupt, ReopenAdmission

LEMMA ClaimReadyDistinct ==
  ASSUME TypeOK, ClaimsDistinct, NEW w \in Workers, ClaimReady(w)
  PROVE  ClaimsDistinct'
<1> DEFINE table == [e \in Effects |->
                       IF w # worker THEN ReleasedBy(worker, row[e]) ELSE row[e]]
<1>1. PICK picked \in SUBSET Rows :
           /\ row' = [e \in Effects |->
                        IF e \in picked THEN LeasedTo(w, table[e]) ELSE table[e]]
           /\ claims' = claims \cup
                 {[effect |-> e, generation |-> row'[e].generation,
                   worker |-> w, born |-> row[e].born, phase |-> "claimed"] :
                     e \in picked}
           /\ UNCHANGED clock
  BY DEF ClaimReady, Slices, Claimable
<1>2. ASSUME NEW e \in Effects, row[e] # NoRow
      PROVE  /\ row[e] \in OutboxRow /\ table[e] \in OutboxRow
             /\ table[e].born = row[e].born /\ table[e].generation = row[e].generation
  <2>1. row[e] \in OutboxRow
    BY <1>2 DEF TypeOK
  <2>2. /\ ReleasedBy(worker, row[e]) \in OutboxRow
        /\ ReleasedBy(worker, row[e]).born = row[e].born
        /\ ReleasedBy(worker, row[e]).generation = row[e].generation
    BY <2>1, ReleasedByType, NoRowIsNoOutboxRow
    DEF MaybeRow, ReleasedBy, OutboxRow, RowColumns, NoRow
  <2> QED
    BY <2>1, <2>2
<1>3. ASSUME NEW e \in Effects, row[e] = NoRow
      PROVE  table[e] = NoRow /\ row'[e] = NoRow
  <2>1. table[e] = NoRow
    BY <1>3 DEF ReleasedBy
  <2> HIDE DEF table
  <2> QED
    BY <1>1, <1>3, <2>1 DEF Rows
<1> HIDE DEF table
<1>4. ASSUME NEW e \in picked
      PROVE  /\ e \in Effects /\ row[e] # NoRow
             /\ row'[e].born = row[e].born
             /\ row'[e].generation = row[e].generation + 1
  <2>1. e \in Effects /\ row[e] # NoRow
    BY DEF Rows
  <2>2. row'[e] = LeasedTo(w, table[e])
    BY <1>1, <2>1
  <2> QED
    BY <1>2, <2>1, <2>2 DEF LeasedTo, OutboxRow, RowColumns
<1>5. ASSUME NEW e \in Effects \ picked, row[e] # NoRow
      PROVE  row'[e].born = row[e].born /\ row'[e].generation = row[e].generation
  BY <1>1, <1>2, <1>5
<1>6. \A e \in Effects : row[e] # NoRow =>
        row[e].born \in Nat /\ row[e].generation \in Nat
  BY <1>2 DEF OutboxRow, RowColumns
<1>7. \A c \in claims : c.effect \in Effects /\ c.generation \in Nat
  BY DEF TypeOK, Claim
<1>8. ASSUME NEW c \in claims' \ claims
      PROVE  /\ c.effect \in picked /\ c.born = row[c.effect].born
             /\ c.generation = row[c.effect].generation + 1
             /\ c = [effect |-> c.effect, generation |-> row'[c.effect].generation,
                     worker |-> w, born |-> row[c.effect].born, phase |-> "claimed"]
  <2>1. PICK e \in picked :
          c = [effect |-> e, generation |-> row'[e].generation,
               worker |-> w, born |-> row[e].born, phase |-> "claimed"]
    BY <1>1, <1>8
  <2>2. c.effect = e /\ c.born = row[e].born /\ c.generation = row'[e].generation
    BY <2>1
  <2> QED
    BY <1>4, <2>1, <2>2
<1>9. \A e \in Rows' : row'[e].born <= clock'
  BY <1>1, <1>3, <1>4, <1>5 DEF ClaimsDistinct, Rows
<1>10. \A c \in claims' : c.born <= clock'
  BY <1>1, <1>8 DEF ClaimsDistinct, Rows
<1>11. ASSUME NEW c \in claims', row'[c.effect] # NoRow, row'[c.effect].born = c.born
       PROVE  c.generation <= row'[c.effect].generation
  <2>1. CASE c \in claims
    <3>1. c.effect \in Effects /\ row[c.effect] # NoRow
      BY <1>3, <1>7, <1>11, <2>1
    <3>2. c.generation <= row[c.effect].generation
      BY <1>4, <1>5, <1>11, <2>1, <3>1 DEF ClaimsDistinct
    <3> QED
      BY <1>4, <1>5, <1>6, <1>7, <2>1, <3>1, <3>2
  <2>2. CASE c \notin claims
    BY <1>4, <1>6, <1>8, <2>2
  <2> QED
    BY <2>1, <2>2
<1>12. ASSUME NEW c \in claims, NEW d \in claims' \ claims
       PROVE  ~SameClaim(c, d)
  <2>1. d.effect \in Effects /\ row[d.effect] # NoRow /\ d.born = row[d.effect].born
        /\ d.generation = row[d.effect].generation + 1
    BY <1>4, <1>8
  <2>2. c.effect = d.effect /\ c.born = d.born => c.generation <= row[d.effect].generation
    BY <2>1 DEF ClaimsDistinct
  <2> QED
    BY <1>6, <1>7, <2>1, <2>2 DEF SameClaim
<1>13. \A c, d \in claims' : SameClaim(c, d) => c = d
  <2>1. \A c, d \in claims : SameClaim(c, d) => c = d
    BY DEF ClaimsDistinct
  <2>2. \A c, d \in claims' \ claims : SameClaim(c, d) => c = d
    BY <1>8 DEF SameClaim
  <2>3. \A c \in claims, d \in claims' \ claims : ~SameClaim(c, d) /\ ~SameClaim(d, c)
    BY <1>12 DEF SameClaim
  <2> QED
    BY <2>1, <2>2, <2>3
<1> QED
  BY <1>9, <1>10, <1>11, <1>13 DEF ClaimsDistinct, SameClaim

LEMMA InitClaimsDistinct == Init => ClaimsDistinct
  BY DEF Init, ClaimsDistinct, Rows

LEMMA NextClaimsDistinct ==
  TypeOK /\ TypeOK' /\ ClaimsDistinct /\ [Next]_vars => ClaimsDistinct'
<1> SUFFICES ASSUME TypeOK, TypeOK', ClaimsDistinct, [Next]_vars
             PROVE  ClaimsDistinct'
  OBVIOUS
<1>1. ASSUME RowsAdvance, claims' \subseteq claims
      PROVE  ClaimsDistinct'
  <2> DEFINE f == [c \in claims |-> c]
  <2>1. \A d \in claims : f[d] = d
    OBVIOUS
  <2>2. claims' \subseteq {f[d] : d \in claims}
    BY <1>1
  <2> HIDE DEF f
  <2> QED
    BY <1>1, <2>1, <2>2, ClaimsDistinctStep
<1>2. ASSUME RowsAdvance, NEW c \in claims, NEW phase, MoveClaim(c, phase)
      PROVE  ClaimsDistinct'
  <2> DEFINE moved == {c}
  <2>1. claims' \subseteq {IF d \in moved THEN [d EXCEPT !.phase = phase] ELSE d :
                           d \in claims}
    BY <1>2 DEF MoveClaim
  <2> HIDE DEF moved
  <2> QED
    BY <1>2, <2>1, ClaimsDistinctUnlessClaimed
<1>3. UNCHANGED outboxVars => RowsAdvance
  BY DEF RowsAdvance, KeptRow, outboxVars
<1>4. CASE HostStep
  <2>2. ASSUME NEW c \in claims, FailClaim(c)
        PROVE  ClaimsDistinct'
    BY <1>1, <2>2, FollowUpAdvance DEF FailClaim
  <2>3. ASSUME NEW c \in claims, StartRun(c) \/ RefuseRun(c) \/ SettleClaim(c)
        PROVE  ClaimsDistinct'
    <3>1. RowsAdvance
      BY <2>3, FollowUpAdvance
    <3>2. (\E phase : MoveClaim(c, phase)) \/ claims' \subseteq claims
      BY <2>3 DEF StartRun, RefuseRun, SettleClaim
    <3> QED
      BY <1>1, <1>2, <3>1, <3>2
  <2> QED
    BY <1>4, <2>2, <2>3, ClaimReadyDistinct DEF HostStep
<1>5. ASSUME NEW e \in Effects, RunStep(e)
      PROVE  ClaimsDistinct'
  <2>1. CASE ReadAuthority(e)
    BY <1>1, <1>5, <2>1, RunStepAdvance DEF ReadAuthority, hostVars
  <2>2. CASE EndRun(e)
    <3>1. claims' \subseteq {IF c \in {d \in claims : /\ d.effect = e
                                                   /\ d.phase = "executing"
                                                   /\ d.generation = running[e].generation}
                            THEN [c EXCEPT !.phase = "returned"] ELSE c : c \in claims}
      BY <2>2 DEF EndRun
    <3> QED
      BY ZenonT(40), <1>5, <3>1, RunStepAdvance, ClaimsDistinctUnlessClaimed
  <2> QED
    BY <1>5, <2>1, <2>2
    DEF RunStep, DropRun, CompleteRun, DeferRun, FailRun, RetryRun, RederiveRun
<1>6. CASE OutsideStep
  <2>1. CASE Restart
    <3>1. claims' \subseteq {IF c \in {d \in claims : d.phase = "executing"}
                            THEN [c EXCEPT !.phase = "errored"] ELSE c : c \in claims}
      BY <2>1 DEF Restart
    <3> QED
      BY <1>6, <3>1, OutsideStepAdvance, ClaimsDistinctUnlessClaimed
  <2>2. CASE UNCHANGED claims
    BY <1>1, <1>6, <2>2, OutsideStepAdvance
  <2> QED
    BY <1>6, <2>1, <2>2 DEF OutsideStep, DeliverOutcome, GrantAuthority, TimePasses,
       OnAuthorityChanged, ReconcileDeferredEvalRuns, ReleaseActivation, hostVars
<1>7. CASE IntentionStep \/ InterruptStep
  <2>1. UNCHANGED claims
    BY <1>7 DEF IntentionStep, InterruptStep, BeginEffect, ResolveApproval, BeginCalls,
       CloseAdmission, JournalInterrupt, ReopenAdmission, hostVars
  <2> QED
    BY <1>1, <1>7, <2>1, IntentionAdvance
<1>8. CASE UNCHANGED vars
  BY <1>1, <1>3, <1>8 DEF vars, outboxVars
<1> QED
  BY <1>4, <1>5, <1>6, <1>7, <1>8 DEF Next

\* Two live claims of one insertion of a row are never both current: the
\* generation that executeClaimedEffect checks is enough, although it checks
\* no worker.
THEOREM ClaimsAreExclusive == Spec => []ExclusiveClaim
<1>1. ClaimsDistinct => ExclusiveClaim
  BY DEF ClaimsDistinct, ExclusiveClaim, SameClaim, IsClaim
<1> QED
  BY <1>1, InitClaimsDistinct, InitTypeOK, NextTypeOK, NextClaimsDistinct, PTL DEF Spec

(***************************************************************************)
(* No wake is lost.                                                        *)
(***************************************************************************)

AuthorityKinds == {"model_call", "http_call"}

\* The row is leased under the run's claim, in a released activation too.
HoldsRow(e) == Running(e) /\ IsClaim(e, running[e].generation)

\* A run that holds its row and was denied, although the authority has since
\* been granted and announced: the announcement is recorded on its row.
WakeIsRecorded(e) ==
  /\ HoldsRow(e) /\ running[e].saw = "denied"
  /\ Kind[e] \in AuthorityKinds /\ e \in authority /\ hinted
  => row[e].next = "due"

\* A run never outlives its row into another insertion of the same effect, and
\* never holds a generation that its row has still to reach.
RunFollowsRow(e) ==
  /\ row[e] # NoRow => journal[e] = "pending"
  /\ Running(e) => journal[e] \in {"pending", "settled"}
  /\ Running(e) /\ row[e] # NoRow => running[e].generation <= row[e].generation

NotStranded(e) ==
  /\ row[e] # NoRow /\ Kind[e] \in AuthorityKinds
  /\ row[e].disposition = "parked" /\ row[e].next = "later"
  => e \notin authority \/ ~hinted

WakesOK(e) == RunFollowsRow(e) /\ WakeIsRecorded(e) /\ NotStranded(e)

AllWakesOK == \A e \in Effects : WakesOK(e)

\* What becomes of a row that a step does not lease, defer or insert: it keeps
\* its place, it is deleted with its intention settled, it waits for a claim
\* with its generation, or it is woken.
RowCalm(e) ==
  \/ row'[e] = row[e] /\ journal'[e] = journal[e]
  \/ row'[e] = NoRow /\ journal'[e] = "settled"
  \/ /\ row[e] # NoRow /\ row'[e] # NoRow /\ journal'[e] = journal[e]
     /\ row'[e].generation = row[e].generation
     /\ \/ row'[e].disposition \in {"ready", "retrying"}
        \/ /\ row'[e].disposition = row[e].disposition
           /\ row'[e].next = "due"

LEMMA WakesKept ==
  ASSUME TypeOK, NEW e \in Effects, WakesOK(e), RowCalm(e),
         running'[e] \in {running[e], NoRun},
         e \in authority' <=> e \in authority,
         UNCHANGED hinted
  PROVE  WakesOK(e)'
<1>1. CASE row'[e] = row[e] /\ journal'[e] = journal[e]
  BY <1>1 DEF WakesOK, RunFollowsRow, WakeIsRecorded, NotStranded, OwnsRow, HoldsRow, IsClaim,
     IsLeased, Running
<1>2. CASE row'[e] = NoRow /\ journal'[e] = "settled"
  BY <1>2 DEF WakesOK, RunFollowsRow, WakeIsRecorded, NotStranded, OwnsRow, HoldsRow, IsClaim,
     IsLeased, Running
<1>3. CASE /\ row[e] # NoRow /\ row'[e] # NoRow /\ journal'[e] = journal[e]
           /\ row'[e].generation = row[e].generation
           /\ row'[e].disposition \in {"ready", "retrying"}
  BY <1>3 DEF WakesOK, RunFollowsRow, WakeIsRecorded, NotStranded, OwnsRow, HoldsRow, IsClaim,
     IsLeased, Running
<1>4. CASE /\ row[e] # NoRow /\ row'[e] # NoRow /\ journal'[e] = journal[e]
           /\ row'[e].generation = row[e].generation
           /\ row'[e].next = "due"
  BY <1>4 DEF WakesOK, RunFollowsRow, WakeIsRecorded, NotStranded, OwnsRow, HoldsRow, IsClaim,
     IsLeased, Running
<1> QED
  BY <1>1, <1>2, <1>3, <1>4 DEF RowCalm

\* A step that leaves the effect's row, intention, run and authority alone.
LEMMA WakesUntouched ==
  ASSUME TypeOK, NEW e \in Effects, WakesOK(e),
         row'[e] = row[e], journal'[e] = journal[e], running'[e] = running[e],
         UNCHANGED wakeVars
  PROVE  WakesOK(e)'
  BY WakesKept DEF RowCalm, wakeVars

LEMMA InsertWakes ==
  ASSUME TypeOK, AllWakesOK, NEW S \in SUBSET Effects, NEW ordered, InsertRows(S, ordered),
         \A e \in S : journal[e] \in {"absent", "gated"} /\ journal'[e] = "pending",
         \A e \in Effects \ S :
            \/ journal'[e] = journal[e]
            \/ journal[e] \in {"absent", "gated"} /\ journal'[e] = "gated",
         UNCHANGED <<running, authority, hinted>>
  PROVE  AllWakesOK'
<1> SUFFICES ASSUME NEW e \in Effects
             PROVE  WakesOK(e)'
  BY DEF AllWakesOK
<1>0. WakesOK(e)
  BY DEF AllWakesOK
<1>1. CASE e \in S
  <2>1. row[e] = NoRow /\ ~Running(e)
    BY <1>0, <1>1 DEF WakesOK, RunFollowsRow
  <2>2. row'[e] # NoRow /\ row'[e].disposition = "ready"
    BY <1>1, <2>1 DEF InsertRows, NoRow
  <2> QED
    BY <1>1, <2>1, <2>2 DEF WakesOK, RunFollowsRow, WakeIsRecorded, NotStranded, OwnsRow, HoldsRow,
       IsClaim, IsLeased, Running
<1>2. CASE e \notin S /\ journal'[e] = journal[e]
  <2>1. row'[e] = row[e]
    BY <1>2 DEF InsertRows
  <2> QED
    BY <1>0, <1>2, <2>1, WakesUntouched DEF wakeVars
<1>3. CASE e \notin S /\ journal[e] \in {"absent", "gated"} /\ journal'[e] = "gated"
  <2>1. row[e] = NoRow /\ ~Running(e) /\ row'[e] = row[e]
    BY <1>0, <1>3 DEF WakesOK, RunFollowsRow, InsertRows
  <2> QED
    BY <1>3, <2>1 DEF WakesOK, RunFollowsRow, WakeIsRecorded, NotStranded, OwnsRow, HoldsRow,
       IsClaim, IsLeased, Running
<1> QED
  BY <1>1, <1>2, <1>3

LEMMA IntentionWakes ==
  ASSUME TypeOK, AllWakesOK, IntentionStep
  PROVE  AllWakesOK'
<1>1. ASSUME NEW e \in Effects, BeginEffect(e)
      PROVE  AllWakesOK'
  BY <1>1, InsertWakes DEF BeginEffect, TypeOK, wakeVars
<1>2. ASSUME NEW e \in Effects, ResolveApproval(e)
      PROVE  AllWakesOK'
  <2>1. CASE InsertRows({e}, {e}) /\ journal' = [journal EXCEPT ![e] = "pending"]
    BY <1>2, <2>1, InsertWakes DEF ResolveApproval, TypeOK, wakeVars
  <2>2. CASE journal' = [journal EXCEPT ![e] = "settled"] /\ UNCHANGED outboxVars
    <3>1. row[e] = NoRow
      BY <1>2 DEF ResolveApproval, AllWakesOK, WakesOK, RunFollowsRow
    <3>2. ASSUME NEW f \in Effects
          PROVE  RowCalm(f)
      BY <2>2, <3>1 DEF TypeOK, RowCalm, outboxVars
    <3> QED
      BY <1>2, <3>2, WakesKept DEF ResolveApproval, AllWakesOK, wakeVars
  <2> QED
    BY <1>2, <2>1, <2>2 DEF ResolveApproval
<1>3. ASSUME NEW t, BeginCalls(t)
      PROVE  AllWakesOK'
  <2> DEFINE calls == {e \in Effects : Turn[e] = t}
  <2>1. \A e \in calls : journal[e] = "absent"
    BY <1>3 DEF BeginCalls
  <2>2. /\ InsertRows(calls \ Gated, calls \ Rerouted)
        /\ journal' = [e \in Effects |->
                     IF e \in calls
                     THEN IF e \in Gated THEN "gated" ELSE "pending"
                     ELSE journal[e]]
        /\ UNCHANGED <<running, authority, hinted>>
    BY <1>3 DEF BeginCalls, wakeVars
  <2>3. calls \ Gated \in SUBSET Effects
    OBVIOUS
  <2> HIDE DEF calls
  <2>4. \A e \in calls \ Gated : journal[e] \in {"absent", "gated"} /\ journal'[e] = "pending"
    BY <2>1, <2>2, <2>3
  <2>5. \A e \in Effects \ (calls \ Gated) :
          \/ journal'[e] = journal[e]
          \/ journal[e] \in {"absent", "gated"} /\ journal'[e] = "gated"
    <3> SUFFICES ASSUME NEW e \in Effects, ~(e \in calls \ Gated), journal'[e] # journal[e]
                 PROVE  journal[e] \in {"absent", "gated"} /\ journal'[e] = "gated"
      OBVIOUS
    <3>1. e \in calls /\ e \in Gated
      BY <2>2
    <3> QED
      BY <2>1, <2>2, <3>1
  <2>6. \E S \in SUBSET Effects : \E ordered :
          /\ InsertRows(S, ordered)
          /\ \A e \in S : journal[e] \in {"absent", "gated"} /\ journal'[e] = "pending"
          /\ \A e \in Effects \ S :
               \/ journal'[e] = journal[e]
               \/ journal[e] \in {"absent", "gated"} /\ journal'[e] = "gated"
    BY <2>2, <2>3, <2>4, <2>5
  <2> QED
    BY <2>2, <2>6, InsertWakes
<1> QED
  BY <1>1, <1>2, <1>3 DEF IntentionStep

\* A new lease has a generation that no run of the row has.
LEMMA ClaimWakes ==
  ASSUME TypeOK, AllWakesOK, NEW w \in Workers, ClaimReady(w)
  PROVE  AllWakesOK'
<1> SUFFICES ASSUME NEW e \in Effects
             PROVE  WakesOK(e)'
  BY DEF AllWakesOK
<1>0. WakesOK(e)
  BY DEF AllWakesOK
<1> DEFINE table == [f \in Effects |->
                       IF w # worker THEN ReleasedBy(worker, row[f]) ELSE row[f]]
<1>1. PICK ahead \in DispatchOrders(Semantic) :
      \E picked \in Slices(Claimable(table, ahead)) :
        /\ row' = [f \in Effects |->
                     IF f \in picked THEN LeasedTo(w, table[f]) ELSE table[f]]
        /\ UNCHANGED <<clock, journal, running, gateVars, wakeVars>>
  BY Zenon DEF ClaimReady
<1>2. PICK picked \in Slices(Claimable(table, ahead)) :
        /\ row' = [f \in Effects |->
                     IF f \in picked THEN LeasedTo(w, table[f]) ELSE table[f]]
        /\ UNCHANGED <<clock, journal, running, gateVars, wakeVars>>
  BY <1>1
<1>3. /\ row'[e] = IF e \in picked THEN LeasedTo(w, table[e]) ELSE table[e]
      /\ journal'[e] = journal[e] /\ running'[e] = running[e] /\ UNCHANGED wakeVars
  BY <1>2
<1>4. e \in picked => row[e] # NoRow
  BY DEF Slices, Claimable, Rows
<1>5. \/ table[e] = row[e]
      \/ table[e] = ReleasedBy(worker, row[e])
  OBVIOUS
<1> HIDE DEF table
<1>6. table[e] = row[e] \/ /\ row[e] # NoRow /\ table[e] # NoRow
                           /\ table[e].generation = row[e].generation
                           /\ table[e].disposition = "ready"
  BY ZenonT(40), <1>5, NoRowIsNoOutboxRow DEF TypeOK, ReleasedBy, OutboxRow, RowColumns, NoRow
<1>7. CASE e \notin picked
  BY <1>0, <1>3, <1>6, <1>7, WakesKept DEF RowCalm, wakeVars
<1>8. CASE e \in picked
  <2>1. row[e] # NoRow /\ row[e].generation \in Nat
    BY <1>4, <1>8 DEF TypeOK, OutboxRow, RowColumns
  <2>2. table[e] \in OutboxRow /\ table[e].generation = row[e].generation
    BY <1>5, <1>6, <2>1, ReleasedByType DEF TypeOK, MaybeRow
  <2>3. row'[e] # NoRow /\ row'[e].disposition = "leased"
        /\ row'[e].generation = row[e].generation + 1
    BY ZenonT(40), <1>3, <1>8, <2>2, NoRowIsNoOutboxRow
    DEF LeasedTo, OutboxRow, RowColumns, NoRow
  <2>4. Running(e) => running[e].generation \in Nat
                      /\ running[e].generation <= row[e].generation
    BY <1>0, <2>1 DEF WakesOK, RunFollowsRow, TypeOK, Run
  <2>5. PICK n \in Nat : n = row[e].generation
    BY <2>1
  <2>6. ~HoldsRow(e)'
    BY <1>3, <2>3, <2>4, <2>5 DEF OwnsRow, HoldsRow, IsClaim, Running
  <2>7. Running(e)' => running'[e].generation <= row'[e].generation
    BY <1>3, <2>3, <2>4, <2>5 DEF Running
  <2> QED
    BY <1>0, <1>3, <2>1, <2>3, <2>6, <2>7
    DEF WakesOK, RunFollowsRow, WakeIsRecorded, NotStranded, Running
<1> QED
  BY <1>7, <1>8

LEMMA HostWakes ==
  ASSUME TypeOK, AllWakesOK, HostStep
  PROVE  AllWakesOK'
<1>1. ASSUME NEW c \in claims, StartRun(c)
      PROVE  AllWakesOK'
  <2> SUFFICES ASSUME NEW e \in Effects
               PROVE  WakesOK(e)'
    BY DEF AllWakesOK
  <2>0. WakesOK(e) /\ c.effect \in Effects
    BY DEF AllWakesOK, TypeOK, Claim
  <2>1. CASE e # c.effect
    BY <1>1, <2>0, <2>1, WakesUntouched DEF StartRun, TypeOK, outboxVars, wakeVars
  <2>2. CASE e = c.effect
    <3>1. /\ row'[e] = row[e] /\ journal'[e] = journal[e]
          /\ running'[e] = [generation |-> c.generation, saw |-> "unread"]
          /\ IsLeased(e) /\ row[e].generation = c.generation
      BY <1>1, <2>0, <2>2 DEF StartRun, TypeOK, outboxVars, IsClaim
    <3>2. row[e].generation \in Nat
      BY <3>1 DEF TypeOK, IsLeased, OutboxRow, RowColumns
    <3> QED
      BY <2>0, <3>1, <3>2
      DEF WakesOK, RunFollowsRow, WakeIsRecorded, NotStranded, IsLeased
  <2> QED
    BY <2>1, <2>2
<1>2. ASSUME NEW c \in claims, RefuseRun(c) \/ SettleClaim(c)
      PROVE  AllWakesOK'
  BY <1>2, WakesUntouched DEF RefuseRun, SettleClaim, AllWakesOK, outboxVars, wakeVars
<1>3. ASSUME NEW c \in claims, FailClaim(c)
      PROVE  AllWakesOK'
  <2> SUFFICES ASSUME NEW e \in Effects
               PROVE  WakesOK(e)'
    BY DEF AllWakesOK
  <2>0. WakesOK(e) /\ c.effect \in Effects
    BY DEF AllWakesOK, TypeOK, Claim
  <2>1. CASE row'[e] = row[e]
    BY <1>3, <2>0, <2>1, WakesUntouched DEF FailClaim, wakeVars
  <2>2. CASE row'[e] # row[e]
    <3>1. e = c.effect /\ IsLeased(e) /\ row'[e] = Failed(row[e], FALSE)
      BY <1>3, <2>0, <2>2 DEF FailClaim, TypeOK, IsClaim
    <3>2. row[e] \in OutboxRow /\ row[e] # NoRow
      BY <3>1 DEF TypeOK, IsLeased
    <3>3. row'[e] # NoRow /\ row'[e].disposition = "retrying"
          /\ row'[e].generation = row[e].generation
      BY <3>1, <3>2 DEF Failed, OutboxRow, RowColumns, NoRow
    <3>4. RowCalm(e)
      BY <1>3, <3>2, <3>3 DEF RowCalm, FailClaim
    <3> QED
      BY <1>3, <2>0, <3>4, WakesKept DEF FailClaim, wakeVars
  <2> QED
    BY <2>1, <2>2
<1> QED
  BY <1>1, <1>2, <1>3, ClaimWakes DEF HostStep

LEMMA RunStepWakes ==
  ASSUME TypeOK, AllWakesOK, NEW e \in Effects, RunStep(e)
  PROVE  AllWakesOK'
<1>1. ASSUME NEW f \in Effects, f # e
      PROVE  WakesOK(f)'
  <2>1. row'[f] = row[f] /\ journal'[f] = journal[f] /\ running'[f] = running[f]
        /\ UNCHANGED wakeVars
    BY <1>1 DEF RunStep, DropRun, CompleteRun, DeferRun, FailRun, RetryRun, RederiveRun,
       ReadAuthority, EndRun, Settled, DeleteRows, outboxVars, TypeOK
  <2> QED
    BY <1>1, <2>1, WakesUntouched DEF AllWakesOK
<1>2. ASSUME RowCalm(e), EndRun(e), UNCHANGED wakeVars
      PROVE  WakesOK(e)'
  BY <1>2, WakesKept DEF EndRun, AllWakesOK, TypeOK, wakeVars
<1>3. Settled(e) => RowCalm(e)
  BY DEF Settled, DeleteRows, RowCalm, TypeOK
<1>4. OwnsRow(e) => /\ row[e] \in OutboxRow /\ row[e] # NoRow
                    /\ \A soon \in BOOLEAN :
                         /\ Failed(row[e], soon) # NoRow
                         /\ Failed(row[e], soon).disposition = "retrying"
                         /\ Failed(row[e], soon).generation = row[e].generation
                    /\ Deferred(row[e]) # NoRow
                    /\ Deferred(row[e]).disposition = "parked"
                    /\ Deferred(row[e]).generation = row[e].generation
                    /\ row[e].next = "due" => Deferred(row[e]).next = "due"
  <2> SUFFICES ASSUME OwnsRow(e)
               PROVE  /\ row[e] \in OutboxRow /\ row[e] # NoRow
                      /\ \A soon \in BOOLEAN :
                           /\ Failed(row[e], soon) # NoRow
                           /\ Failed(row[e], soon).disposition = "retrying"
                           /\ Failed(row[e], soon).generation = row[e].generation
                      /\ Deferred(row[e]) # NoRow
                      /\ Deferred(row[e]).disposition = "parked"
                      /\ Deferred(row[e]).generation = row[e].generation
                      /\ row[e].next = "due" => Deferred(row[e]).next = "due"
    OBVIOUS
  <2>1. PICK r \in OutboxRow : r = row[e]
    BY OwnedRow, TypeOKParts
  <2>2. r \in RowColumns /\ r # NoRow
    BY <2>1, NoRowIsNoOutboxRow DEF OutboxRow
  <2>3. ASSUME NEW soon \in BOOLEAN
        PROVE  /\ Failed(r, soon) # NoRow
               /\ Failed(r, soon).disposition = "retrying"
               /\ Failed(r, soon).generation = r.generation
    <3>1. Failed(r, soon) # NoRow
      BY FailedType, NoRowIsNoOutboxRow
    <3>2. /\ Failed(r, soon).disposition = "retrying"
          /\ Failed(r, soon).generation = r.generation
      BY <2>2 DEF Failed, RowColumns
    <3> QED
      BY <3>1, <3>2
  <2>4. Deferred(r) # NoRow
    BY DeferredType, NoRowIsNoOutboxRow
  <2>5. /\ Deferred(r).disposition = "parked"
        /\ Deferred(r).generation = r.generation
        /\ r.next = "due" => Deferred(r).next = "due"
    BY <2>2 DEF Deferred, RowColumns
  <2> QED
    BY <2>1, <2>2, <2>3, <2>4, <2>5
<1>5. ASSUME OwnsRow(e), NEW soon \in BOOLEAN, UNCHANGED journal,
             row' = [row EXCEPT ![e] = Failed(row[e], soon)]
      PROVE  RowCalm(e)
  <2>1. row'[e] = Failed(row[e], soon)
    BY <1>5 DEF TypeOK
  <2> QED
    BY <1>4, <1>5, <2>1 DEF RowCalm
<1>6. WakesOK(e)
  BY DEF AllWakesOK
<1>7. ASSUME DropRun(e)
      PROVE  WakesOK(e)'
  <2>1. row' = row /\ journal' = journal /\ EndRun(e) /\ UNCHANGED wakeVars
    BY <1>7 DEF DropRun, outboxVars
  <2> QED
    BY <1>2, <2>1 DEF RowCalm
<1>8. ASSUME CompleteRun(e)
      PROVE  WakesOK(e)'
  <2>1. Settled(e) /\ EndRun(e) /\ UNCHANGED wakeVars
    BY <1>8 DEF CompleteRun
  <2> QED
    BY <1>2, <1>3, <2>1
<1>9. ASSUME FailRun(e)
      PROVE  WakesOK(e)'
  <2>1. OwnsRow(e) /\ EndRun(e) /\ UNCHANGED wakeVars
    BY <1>9 DEF FailRun
  <2>2. Settled(e) \/ (row' = [row EXCEPT ![e] = Failed(row[e], FALSE)] /\ UNCHANGED journal)
    BY <1>9 DEF FailRun
  <2>3. RowCalm(e)
    BY <1>3, <1>5, <2>1, <2>2
  <2> QED
    BY <1>2, <2>1, <2>3
<1>10. ASSUME RetryRun(e)
       PROVE  WakesOK(e)'
  <2>1. OwnsRow(e) /\ EndRun(e) /\ UNCHANGED wakeVars /\ UNCHANGED journal
    BY <1>10 DEF RetryRun
  <2>2. PICK soon \in BOOLEAN : row' = [row EXCEPT ![e] = Failed(row[e], soon)]
    BY <1>10 DEF RetryRun
  <2>3. RowCalm(e)
    BY <1>5, <2>1, <2>2
  <2> QED
    BY <1>2, <2>1, <2>3
<1>11. ASSUME DeferRun(e)
       PROVE  WakesOK(e)'
  <2>1. row'[e] = Deferred(row[e]) /\ journal'[e] = journal[e] /\ running'[e] = NoRun
        /\ UNCHANGED wakeVars /\ OwnsRow(e) /\ HoldsRow(e)
    BY <1>11 DEF DeferRun, EndRun, TypeOK, OwnsRow, HoldsRow
  <2>2. ~Running(e)' /\ ~HoldsRow(e)'
    BY <2>1 DEF Running, OwnsRow, HoldsRow
  <2>3. Kind[e] \in AuthorityKinds => running[e].saw = "denied"
    BY <1>11, OutboxAssumption DEF DeferRun, AuthorityKinds, OutOfBand
  <2>4. NotStranded(e)'
    BY <1>4, <1>6, <2>1, <2>3 DEF NotStranded, WakesOK, WakeIsRecorded, wakeVars
  <2>5. row'[e] # NoRow /\ row[e] # NoRow
    BY <1>4, <2>1
  <2> QED
    BY <1>6, <2>1, <2>2, <2>4, <2>5 DEF WakesOK, RunFollowsRow, WakeIsRecorded
<1>12. ASSUME RederiveRun(e)
       PROVE  WakesOK(e)'
  <2>1. /\ row'[e] = [disposition |-> "ready", next |-> "null", attempts |-> 0,
                  owner |-> NoOwner, generation |-> 0, born |-> clock + 1,
                  ordered |-> FALSE]
        /\ running'[e] = NoRun /\ journal'[e] = journal[e] /\ row[e] # NoRow
    BY <1>12 DEF RederiveRun, EndRun, TypeOK, OwnsRow, HoldsRow, IsClaim, IsLeased
  <2>2. row'[e].disposition = "ready" /\ ~Running(e)' /\ ~HoldsRow(e)'
    BY <2>1 DEF Running, OwnsRow, HoldsRow
  <2> QED
    BY <1>6, <2>1, <2>2 DEF WakesOK, RunFollowsRow, WakeIsRecorded, NotStranded
<1>13. ASSUME ReadAuthority(e)
       PROVE  WakesOK(e)'
  <2>1. /\ row'[e] = row[e] /\ journal'[e] = journal[e] /\ UNCHANGED wakeVars
        /\ Running(e) /\ running'[e].generation = running[e].generation
        /\ running'[e].saw = IF e \in authority THEN "granted" ELSE "denied"
    BY <1>13 DEF ReadAuthority, TypeOK, Run, outboxVars
  <2>2. Running(e)' => running'[e].generation = running[e].generation
    BY <2>1
  <2>3. RunFollowsRow(e)'
    BY <1>6, <2>1, <2>2 DEF WakesOK, RunFollowsRow
  <2>4. WakeIsRecorded(e)'
    BY <2>1 DEF WakeIsRecorded, wakeVars
  <2>5. NotStranded(e)'
    BY <1>6, <2>1 DEF WakesOK, NotStranded, wakeVars
  <2> QED
    BY <2>3, <2>4, <2>5 DEF WakesOK
<1>14. WakesOK(e)'
  BY <1>7, <1>8, <1>9, <1>10, <1>11, <1>12, <1>13, Zenon DEF RunStep
<1> QED
  BY <1>1, <1>14 DEF AllWakesOK

LEMMA OutsideWakes ==
  ASSUME TypeOK, AllWakesOK, OutsideStep
  PROVE  AllWakesOK'
<1> SUFFICES ASSUME NEW e \in Effects
             PROVE  WakesOK(e)'
  BY DEF AllWakesOK
<1>0. WakesOK(e) /\ row[e] \in MaybeRow
  BY DEF AllWakesOK, TypeOK, MaybeRow
<1>1. ASSUME NEW f \in Effects, DeliverOutcome(f)
      PROVE  WakesOK(e)'
  <2>1. RowCalm(e)
    BY <1>1 DEF DeliverOutcome, Settled, DeleteRows, RowCalm, TypeOK
  <2> QED
    BY <1>0, <1>1, <2>1, WakesKept DEF DeliverOutcome, wakeVars
<1>2. ASSUME NEW f \in Effects, GrantAuthority(f)
      PROVE  WakesOK(e)'
  BY <1>0, <1>2 DEF GrantAuthority, outboxVars, WakesOK, RunFollowsRow, WakeIsRecorded,
     NotStranded, OwnsRow, HoldsRow, IsClaim, IsLeased, Running
<1>3. ASSUME NEW f \in Effects, TimePasses(f)
      PROVE  WakesOK(e)'
  <2>1. RowCalm(e)
    <3>1. CASE e # f
      BY <1>3, <3>1 DEF TimePasses, RowCalm
    <3>2. CASE e = f
      <4>1. row[e] \in OutboxRow
        BY <1>0, <1>3, <3>2 DEF TimePasses, MaybeRow
      <4>2. row'[e] = [row[e] EXCEPT !.next = "due"]
        BY <1>3, <3>2 DEF TimePasses, TypeOK
      <4> QED
        BY <1>3, <3>2, <4>1, <4>2 DEF TimePasses, RowCalm, OutboxRow, RowColumns, NoRow
    <3> QED
      BY <3>1, <3>2
  <2> QED
    BY <1>0, <1>3, <2>1, WakesKept DEF TimePasses, wakeVars
<1>4. CASE OnAuthorityChanged
  <2>1. /\ row'[e] = AuthorityNudged(e) /\ journal'[e] = journal[e]
        /\ running'[e] = running[e] /\ UNCHANGED authority
    BY <1>4 DEF OnAuthorityChanged
  <2>2. CASE /\ row[e] # NoRow /\ Kind[e] \in AuthorityKinds
             /\ row[e].disposition \in {"parked", "leased"}
    <3>1. row'[e] = [row[e] EXCEPT !.next = "due"] /\ row[e] \in OutboxRow
      BY <1>0, <2>1, <2>2 DEF AuthorityNudged, AuthorityKinds, MaybeRow
    <3>2. row'[e] # NoRow /\ row'[e].next = "due" /\ row'[e].generation = row[e].generation
      BY <3>1 DEF OutboxRow, RowColumns, NoRow
    <3> QED
      BY <1>0, <2>1, <2>2, <3>2
      DEF WakesOK, RunFollowsRow, WakeIsRecorded, NotStranded, Running
  <2>3. CASE ~(/\ row[e] # NoRow /\ Kind[e] \in AuthorityKinds
               /\ row[e].disposition \in {"parked", "leased"})
    <3>1. row'[e] = row[e]
      BY <2>1, <2>3 DEF AuthorityNudged, AuthorityKinds
    <3> QED
      BY <1>0, <2>1, <2>3, <3>1
      DEF WakesOK, RunFollowsRow, WakeIsRecorded, NotStranded, Running, OwnsRow, HoldsRow, IsClaim,
          IsLeased
  <2> QED
    BY <2>2, <2>3
<1>5. CASE ReconcileDeferredEvalRuns
  <2>1. /\ row'[e] = EvalNudged(e) /\ journal'[e] = journal[e]
    BY <1>5 DEF ReconcileDeferredEvalRuns
  <2>2. row[e] # NoRow => row[e] \in OutboxRow
    BY <1>0 DEF MaybeRow
  <2>3. RowCalm(e)
    BY <2>1, <2>2 DEF EvalNudged, RowCalm, OutboxRow, RowColumns, NoRow
  <2> QED
    BY <1>0, <1>5, <2>3, WakesKept DEF ReconcileDeferredEvalRuns, wakeVars
<1>6. CASE Restart
  BY <1>0, <1>6, WakesKept DEF Restart, RowCalm, outboxVars, wakeVars
<1>7. CASE ReleaseActivation
  BY <1>0, <1>7, WakesUntouched DEF ReleaseActivation, outboxVars
<1> QED
  BY <1>1, <1>2, <1>3, <1>4, <1>5, <1>6, <1>7 DEF OutsideStep

LEMMA InterruptWakes ==
  ASSUME TypeOK, AllWakesOK, InterruptStep
  PROVE  AllWakesOK'
<1>1. CASE CloseAdmission \/ ReopenAdmission
  BY <1>1, WakesUntouched DEF CloseAdmission, ReopenAdmission, AllWakesOK, outboxVars
<1>2. CASE JournalInterrupt
  <2>1. ASSUME NEW e \in Effects
        PROVE  RowCalm(e)
    BY <1>2, <2>1 DEF JournalInterrupt, DeleteRows, RowCalm
  <2> QED
    BY <1>2, <2>1, WakesKept DEF JournalInterrupt, AllWakesOK, wakeVars
<1> QED
  BY <1>1, <1>2 DEF InterruptStep

LEMMA NextWakesOK == TypeOK /\ AllWakesOK /\ [Next]_vars => AllWakesOK'
<1>1. CASE UNCHANGED vars
  BY <1>1, WakesUntouched DEF vars, AllWakesOK, wakeVars
<1> QED
  BY <1>1, HostWakes, IntentionWakes, OutsideWakes, InterruptWakes, RunStepWakes DEF Next

\* An authority wake is not lost: whether the grant comes before, during or
\* after the executor's check, a row is parked until its backstop only while
\* its authority is missing or the wake is still on its way.
THEOREM WakesAreKept == Spec => []NoStrandedDeferral
<1>1. Init => AllWakesOK
  BY DEF Init, AllWakesOK, WakesOK, RunFollowsRow, WakeIsRecorded, NotStranded, OwnsRow, HoldsRow,
     Running
<1>2. AllWakesOK => NoStrandedDeferral
  BY DEF AllWakesOK, WakesOK, NotStranded, NoStrandedDeferral, Rows, AuthorityKinds
<1> QED
  BY <1>1, <1>2, InitTypeOK, NextTypeOK, NextWakesOK, PTL DEF Spec

(***************************************************************************)
(* The dispatch lane of a channel, when no call waits for an approval      *)
(* (Gated = {}): a granted call is inserted behind later calls of its turn,*)
(* which then may have started.                                            *)
(***************************************************************************)

Wave(e, f) == SameTurn(e, f) /\ {e, f} \subseteq Parallel

\* The rows of a channel that no gate has reordered.
LaneOrder ==
    /\ \A e \in Effects : journal[e] # "gated"
    /\ \A e \in Effects : row[e] # NoRow <=> journal[e] = "pending"
    /\ \A e, f \in Effects :
          Turn[e] # NoTurn /\ Turn[f] = Turn[e] /\ journal[e] = "absent"
          => journal[f] = "absent"
    /\ \A e \in Rows : row[e].born <= clock
    /\ \A e \in Rows : row[e].ordered => Turn[e] # NoTurn
    /\ \A e, f \in Rows : SameTurn(e, f) => row[e].born = row[f].born

\* A leased row is the head of the lane, up to its own wave.
LeasedAtHead ==
    \A e, f \in Semantic : IsLeased(e) /\ Before(f, e) => Wave(e, f)

LaneInv == LaneOrder /\ LeasedAtHead

(***************************************************************************)
(* The dispatch order is total, and without gated calls also transitive.   *)
(***************************************************************************)

LEMMA PositionFacts ==
  /\ \A e \in Effects : Position[e] \in Nat
  /\ \A e, f \in Effects : e # f => Position[e] # Position[f]
  BY OutboxAssumption

LEMMA BornFacts ==
  ASSUME TypeOK
  PROVE  \A e \in Rows : row[e].born \in Nat /\ e \in Effects
  BY DEF TypeOK, Rows, OutboxRow, RowColumns

LEMMA BeforeTotal ==
  ASSUME TypeOK, NEW e \in Rows, NEW f \in Rows, e # f
  PROVE  Before(e, f) \/ Before(f, e)
  BY PositionFacts, BornFacts DEF Before, SameTurn

LEMMA BeforeIsLexicographic ==
  ASSUME LaneOrder, NEW e \in Rows, NEW f \in Rows
  PROVE  Before(e, f) <=>
           \/ row[e].born = row[f].born /\ Position[e] < Position[f]
           \/ row[e].born # row[f].born /\ row[e].born < row[f].born
<1>1. SameTurn(e, f) => row[e].born = row[f].born
  BY DEF LaneOrder
<1>2. CASE SameTurn(e, f) \/ row[e].born = row[f].born
  <2>1. Before(e, f) <=> Position[e] < Position[f]
    BY <1>2 DEF Before
  <2> QED
    BY <1>1, <1>2, <2>1
<1>3. CASE ~(SameTurn(e, f) \/ row[e].born = row[f].born)
  <2>1. Before(e, f) <=> row[e].born < row[f].born
    BY <1>3 DEF Before
  <2> QED
    BY <1>3, <2>1
<1> QED
  BY <1>2, <1>3

LEMMA LaneConsistent ==
  ASSUME TypeOK, LaneOrder
  PROVE  Consistent(Semantic)
<1> SUFFICES ASSUME NEW e \in Semantic, NEW f \in Semantic, NEW g \in Semantic,
                    Before(e, f), Before(f, g)
             PROVE  Before(e, g)
  BY DEF Consistent
<1>1. {e, f, g} \subseteq Rows
  BY DEF Semantic
<1>2. /\ row[e].born \in Nat /\ row[f].born \in Nat /\ row[g].born \in Nat
      /\ Position[e] \in Nat /\ Position[f] \in Nat /\ Position[g] \in Nat
  BY <1>1, PositionFacts, BornFacts
<1> QED
  BY <1>1, <1>2, BeforeIsLexicographic

\* Of two leased rows in the lane, one is before the other: they form a wave.
LEMMA LeasedAtHeadGivesExclusion ==
  ASSUME TypeOK, LeasedAtHead
  PROVE  LaneExclusion
<1> SUFFICES ASSUME NEW e \in Effects, NEW f \in Effects, e # f,
                    IsLeased(e), IsLeased(f), ~Independent(e), ~Independent(f)
             PROVE  SameTurn(e, f) /\ {e, f} \subseteq Parallel
  BY DEF LaneExclusion
<1>1. {e, f} \subseteq Rows /\ {e, f} \subseteq Semantic
  BY DEF Rows, Semantic, IsLeased
<1>2. CASE Before(f, e)
  BY <1>1, <1>2 DEF LeasedAtHead, Wave
<1>3. CASE Before(e, f)
  BY <1>1, <1>3 DEF LeasedAtHead, Wave, SameTurn
<1> QED
  BY <1>1, <1>2, <1>3, BeforeTotal

(***************************************************************************)
(* Preservation.  First the steps that keep every row they leave in place. *)
(***************************************************************************)

\* Steps that insert nothing and lease nothing, and journal what they delete.
LEMMA LaneInvKept ==
  ASSUME TypeOK, LaneInv, RowsAdvance, LeasesOnlyEnd, UNCHANGED clock,
         \A e \in Effects : \/ journal'[e] = journal[e] /\ (row'[e] = NoRow <=> row[e] = NoRow)
                           \/ /\ journal'[e] = "settled" /\ row'[e] = NoRow
                              /\ journal[e] # "absent"
  PROVE  LaneInv'
<1>1. clock \in Nat
  BY DEF TypeOK
<1>2. \A e \in Effects : row'[e] # NoRow => KeptRow(e)
  BY <1>1, BornFacts DEF RowsAdvance
<1>3. Rows' \subseteq Rows /\ \A e \in Rows' :
        row'[e].born = row[e].born /\ row'[e].ordered = row[e].ordered
  BY <1>2 DEF Rows, KeptRow
<1>4. LaneOrder'
  <2>1. \A e \in Effects : journal'[e] # "gated"
    BY DEF LaneInv, LaneOrder
  <2>2. \A e \in Effects : row'[e] # NoRow <=> journal'[e] = "pending"
    BY DEF LaneInv, LaneOrder
  <2>3. \A e, f \in Effects :
          Turn[e] # NoTurn /\ Turn[f] = Turn[e] /\ journal'[e] = "absent"
          => journal'[f] = "absent"
    BY DEF LaneInv, LaneOrder
  <2>4. \A e \in Rows' : row'[e].born <= clock' /\ (row'[e].ordered => Turn[e] # NoTurn)
    BY <1>3 DEF LaneInv, LaneOrder
  <2>5. \A e, f \in Rows' : SameTurn(e, f)' => row'[e].born = row'[f].born
    BY <1>3 DEF LaneInv, LaneOrder, SameTurn, Ordered
  <2> QED
    BY <2>1, <2>2, <2>3, <2>4, <2>5 DEF LaneOrder
<1>5. LeasedAtHead'
  <2> SUFFICES ASSUME NEW e \in Semantic', NEW f \in Semantic',
                      IsLeased(e)', Before(f, e)'
               PROVE  Wave(e, f)'
    BY DEF LeasedAtHead
  <2>1. e \in Semantic /\ f \in Semantic /\ e \in Effects
    BY <1>3 DEF Semantic, Independent, Ordered, Rows
  <2>2. IsLeased(e)
    BY <2>1 DEF LeasesOnlyEnd
  <2>3. Before(f, e) /\ (Wave(e, f)' <=> Wave(e, f))
    BY <1>3 DEF Before, SameTurn, Ordered, Wave, Semantic
  <2> QED
    BY <2>1, <2>2, <2>3 DEF LaneInv, LeasedAtHead
<1> QED
  BY <1>4, <1>5 DEF LaneInv

\* Steps that insert the rows of S behind the others.
LEMMA LaneInvInserted ==
  ASSUME TypeOK, LaneInv, TypeOK', RowsAdvance, LeasesOnlyEnd, clock' = clock + 1,
         LaneOrder',
         \A e, f \in Rows' : SameTurn(e, f)' => (KeptRow(e) <=> KeptRow(f))
  PROVE  LeasedAtHead'
<1> SUFFICES ASSUME NEW e \in Semantic', NEW f \in Semantic',
                    IsLeased(e)', Before(f, e)'
             PROVE  Wave(e, f)'
  BY DEF LeasedAtHead
<1>1. e \in Rows' /\ f \in Rows' /\ e \in Effects /\ f \in Effects /\ clock \in Nat
  BY DEF Semantic, Rows, TypeOK
<1>2. IsLeased(e) /\ row'[e].born = row[e].born
  BY <1>1 DEF LeasesOnlyEnd
<1>3. e \in Rows /\ row[e].born \in Nat /\ row[e].born <= clock
  BY <1>1, <1>2, BornFacts DEF LaneInv, LaneOrder, IsLeased, Rows
<1>4. KeptRow(e)
  BY <1>1, <1>2, <1>3 DEF RowsAdvance, Rows
<1>5. KeptRow(f)
  <2>1. CASE SameTurn(f, e)'
    BY <1>1, <1>4, <2>1
  <2>2. CASE ~SameTurn(f, e)' /\ ~KeptRow(f)
    <3>1. row'[f].born = clock + 1
      BY <1>1, <2>2 DEF RowsAdvance, Rows
    <3>2. ~Before(f, e)'
      BY <1>2, <1>3, <1>1, <2>2, <3>1 DEF Before
    <3> QED
      BY <3>2
  <2> QED
    BY <2>1, <2>2
<1>6. e \in Semantic /\ f \in Semantic
  BY <1>1, <1>4, <1>5 DEF Semantic, Independent, Ordered, Rows, KeptRow
<1>7. Before(f, e) /\ (Wave(e, f)' <=> Wave(e, f))
  BY <1>4, <1>5 DEF Before, SameTurn, Ordered, Wave, KeptRow
<1> QED
  BY <1>2, <1>6, <1>7 DEF LaneInv, LeasedAtHead

\* InsertRows writes the rows of S that were not there, and no others.
LEMMA InsertedRows ==
  ASSUME TypeOK, NEW S, NEW ordered, InsertRows(S, ordered)
  PROVE  /\ clock' = clock + 1
         /\ \A e \in Effects : row[e] # NoRow => KeptRow(e) /\ row'[e] = row[e]
         /\ \A e \in Effects : row[e] = NoRow /\ e \in S =>
               /\ row'[e] # NoRow /\ row'[e].born = clock + 1
               /\ row'[e].ordered = (e \in ordered)
         /\ \A e \in Effects : row[e] = NoRow /\ e \notin S => row'[e] = NoRow
<1> DEFINE fresh(e) == [disposition |-> "ready", next |-> "null",
                        attempts |-> 0, owner |-> NoOwner, generation |-> 0,
                        born |-> clock + 1, ordered |-> e \in ordered]
<1>1. \A e \in Effects : /\ fresh(e) # NoRow /\ fresh(e).born = clock + 1
                        /\ fresh(e).ordered = (e \in ordered)
  BY DEF NoRow
<1>2. \A e \in Effects : row'[e] = IF e \in S /\ row[e] = NoRow
                                  THEN fresh(e) ELSE row[e]
  BY Zenon DEF InsertRows
<1>3. clock' = clock + 1
  BY DEF InsertRows
<1> HIDE DEF fresh
<1>4. ASSUME NEW e \in Effects, row[e] = NoRow, e \in S
      PROVE  /\ row'[e] # NoRow /\ row'[e].born = clock + 1
             /\ row'[e].ordered = (e \in ordered)
  <2>1. row'[e] = fresh(e)
    BY <1>2, <1>4
  <2> QED
    BY <1>1, <2>1, Zenon
<1>5. \A e \in Effects : row[e] # NoRow => KeptRow(e) /\ row'[e] = row[e]
  BY <1>2, Zenon DEF KeptRow
<1>6. \A e \in Effects : row[e] = NoRow /\ e \notin S => row'[e] = NoRow
  BY <1>2, Zenon
<1> QED
  BY <1>3, <1>4, <1>5, <1>6, Zenon

LEMMA BeginEffectLane ==
  ASSUME TypeOK, TypeOK', LaneInv, NEW e \in Effects, BeginEffect(e)
  PROVE  LaneInv'
<1>1. InsertRows({e}, {}) /\ journal[e] = "absent" /\ Turn[e] = NoTurn
      /\ journal' = [journal EXCEPT ![e] = "pending"]
  BY DEF BeginEffect
<1>2. row[e] = NoRow
  BY <1>1 DEF LaneInv, LaneOrder
<1>3. /\ clock' = clock + 1
      /\ row'[e] # NoRow /\ row'[e].born = clock + 1 /\ ~row'[e].ordered
      /\ \A f \in Effects : f # e => row'[f] = row[f]
      /\ \A f \in Effects : row[f] # NoRow => KeptRow(f)
  <2>1. /\ clock' = clock + 1
        /\ row'[e] # NoRow /\ row'[e].born = clock + 1
        /\ \A f \in Effects : row[f] # NoRow => KeptRow(f) /\ row'[f] = row[f]
        /\ \A f \in Effects : row[f] = NoRow /\ f # e => row'[f] = NoRow
    BY <1>1, <1>2, InsertedRows, Zenon
  <2>2. ~row'[e].ordered
    <3> DEFINE S == {e}
               ordered == {}
    <3>1. e \in S /\ e \notin ordered /\ InsertRows(S, ordered)
      BY <1>1
    <3> HIDE DEF S, ordered
    <3>2. row'[e].ordered = (e \in ordered)
      BY <1>2, <3>1, InsertedRows, ZenonT(40)
    <3> QED
      BY <3>1, <3>2, Zenon
  <2> QED
    BY <2>1, <2>2, Zenon
<1>4. /\ journal \in [Effects -> {"absent", "gated", "pending", "settled"}]
      /\ clock \in Nat
      /\ \A f \in Rows : row[f].born \in Nat
  BY BornFacts DEF TypeOK
<1>5. LaneOrder'
  <2>1. \A f \in Effects : journal'[f] # "gated"
    BY <1>1, <1>4 DEF LaneInv, LaneOrder
  <2>2. \A f \in Effects : row'[f] # NoRow <=> journal'[f] = "pending"
    BY <1>1, <1>3, <1>4 DEF LaneInv, LaneOrder
  <2>3. \A f, g \in Effects :
          Turn[f] # NoTurn /\ Turn[g] = Turn[f] /\ journal'[f] = "absent"
          => journal'[g] = "absent"
    BY <1>1, <1>4 DEF LaneInv, LaneOrder
  <2>4. \A f \in Rows' : row'[f].born <= clock'
    BY <1>3, <1>4 DEF LaneInv, LaneOrder, Rows
  <2>5. \A f \in Rows' : row'[f].ordered => Turn[f] # NoTurn
    BY <1>3 DEF LaneInv, LaneOrder, Rows
  <2>6. \A f, g \in Rows' : SameTurn(f, g)' => row'[f].born = row'[g].born
    BY <1>3 DEF LaneInv, LaneOrder, Rows, SameTurn, Ordered
  <2> QED
    BY <2>1, <2>2, <2>3, <2>4, <2>5, <2>6 DEF LaneOrder
<1>6. \A f, g \in Rows' : SameTurn(f, g)' => (KeptRow(f) <=> KeptRow(g))
  BY <1>3 DEF SameTurn, Ordered, Rows
<1> QED
  BY <1>1, <1>3, <1>5, <1>6, LaneInvInserted, InsertRowsAdvance, InsertRowsLeases
  DEF LaneInv

LEMMA BeginCallsLane ==
  ASSUME TypeOK, TypeOK', LaneInv, Gated = {}, NEW t, BeginCalls(t)
  PROVE  LaneInv'
<1> DEFINE calls == {e \in Effects : Turn[e] = t}
<1>1. /\ InsertRows(calls, calls \ Rerouted) /\ t # NoTurn
      /\ \A e \in calls : journal[e] = "absent"
      /\ journal' = [e \in Effects |-> IF e \in calls THEN "pending" ELSE journal[e]]
  BY Zenon DEF BeginCalls
<1>2. \A e \in calls : row[e] = NoRow
  BY <1>1 DEF LaneInv, LaneOrder
<1>3. /\ clock' = clock + 1
      /\ \A e \in calls : row'[e] # NoRow /\ row'[e].born = clock + 1
      /\ \A e \in Effects : e \notin calls => row'[e] = row[e]
      /\ \A e \in Effects : row[e] # NoRow => KeptRow(e)
  BY <1>1, <1>2, InsertedRows
<1>4. /\ journal \in [Effects -> {"absent", "gated", "pending", "settled"}]
      /\ clock \in Nat
      /\ \A e \in Rows : row[e].born \in Nat
  BY BornFacts DEF TypeOK
<1>5. \A e, f \in Rows' : SameTurn(e, f)' => (e \in calls <=> f \in calls)
  BY DEF SameTurn, Rows
<1>6. LaneOrder'
  <2>1. \A e \in Effects : journal'[e] # "gated"
    BY <1>1 DEF LaneInv, LaneOrder
  <2>2. \A e \in Effects : row'[e] # NoRow <=> journal'[e] = "pending"
    BY <1>1, <1>3 DEF LaneInv, LaneOrder
  <2>3. \A e, f \in Effects :
          Turn[e] # NoTurn /\ Turn[f] = Turn[e] /\ journal'[e] = "absent"
          => journal'[f] = "absent"
    BY <1>1 DEF LaneInv, LaneOrder
  <2>4. \A e \in Rows' : row'[e].born <= clock'
    BY <1>3, <1>4 DEF LaneInv, LaneOrder, Rows
  <2>5. \A e \in Rows' : row'[e].ordered => Turn[e] # NoTurn
    BY <1>1, <1>3 DEF LaneInv, LaneOrder, Rows
  <2>6. \A e, f \in Rows' : SameTurn(e, f)' => row'[e].born = row'[f].born
    BY <1>3, <1>5 DEF LaneInv, LaneOrder, Rows, SameTurn, Ordered
  <2> QED
    BY <2>1, <2>2, <2>3, <2>4, <2>5, <2>6 DEF LaneOrder
<1>7. \A e, f \in Rows' : SameTurn(e, f)' => (KeptRow(e) <=> KeptRow(f))
  BY <1>2, <1>3, <1>5 DEF Rows, KeptRow
<1> QED
  BY <1>1, <1>3, <1>6, <1>7, LaneInvInserted, InsertRowsAdvance, InsertRowsLeases
  DEF LaneInv

LEMMA RederiveRunLane ==
  ASSUME TypeOK, TypeOK', LaneInv, NEW e \in Effects, RederiveRun(e)
  PROVE  LaneInv'
<1>1. /\ clock' = clock + 1 /\ UNCHANGED journal /\ row[e] # NoRow
      /\ row'[e] # NoRow /\ row'[e].born = clock + 1 /\ row'[e].ordered = FALSE
      /\ \A f \in Effects : f # e => row'[f] = row[f]
  BY DEF RederiveRun, OwnsRow, IsClaim, IsLeased, TypeOK, NoRow
<1>2. clock \in Nat /\ \A f \in Rows : row[f].born \in Nat
  BY BornFacts DEF TypeOK
<1>3. LaneOrder'
  <2>1. \A f \in Effects : row'[f] # NoRow <=> journal'[f] = "pending"
    BY <1>1 DEF LaneInv, LaneOrder
  <2>2. \A f \in Rows' : row'[f].born <= clock' /\ (row'[f].ordered => Turn[f] # NoTurn)
    BY <1>1, <1>2 DEF LaneInv, LaneOrder, Rows
  <2>3. \A f, g \in Rows' : SameTurn(f, g)' => row'[f].born = row'[g].born
    BY <1>1 DEF LaneInv, LaneOrder, Rows, SameTurn, Ordered
  <2> QED
    BY <1>1, <2>1, <2>2, <2>3 DEF LaneInv, LaneOrder
<1>4. \A f, g \in Rows' : SameTurn(f, g)' => (KeptRow(f) <=> KeptRow(g))
  BY <1>1 DEF SameTurn, Ordered, Rows, KeptRow
<1> QED
  BY <1>1, <1>3, <1>4, LaneInvInserted, RunStepAdvance, RunStepLeases
  DEF LaneInv, RunStep

(***************************************************************************)
(* A claim takes the head of the lane, or the parallel prefix at its head. *)
(***************************************************************************)

LEMMA ClaimedAtHead ==
  ASSUME TypeOK, LaneInv, NEW table, NEW ahead \in DispatchOrders(Semantic),
         NEW e \in Semantic, e \in Claimable(table, ahead),
         NEW f \in Semantic, Before(f, e)
  PROVE  Wave(e, f)
<1>1. ahead = [g \in Semantic |-> {h \in Semantic : Before(h, g)}]
  BY LaneConsistent DEF DispatchOrders, LaneInv
<1>2. f \in ahead[e]
  BY <1>1
<1>3. InWave(ahead, e)
  BY DEF Claimable, Semantic
<1> QED
  BY <1>2, <1>3 DEF InWave, Wave, SameTurn

LEMMA ClaimReadyLane ==
  ASSUME TypeOK, LaneInv, NEW w \in Workers, ClaimReady(w)
  PROVE  LaneInv'
<1> DEFINE table == [e \in Effects |->
                       IF w # worker THEN ReleasedBy(worker, row[e]) ELSE row[e]]
<1>1. PICK picked \in SUBSET Rows :
           /\ \E ahead \in DispatchOrders(Semantic) : picked \subseteq Claimable(table, ahead)
           /\ row' = [e \in Effects |->
                        IF e \in picked THEN LeasedTo(w, table[e]) ELSE table[e]]
           /\ UNCHANGED <<clock, journal>>
  BY DEF ClaimReady, Slices, Claimable
<1>2. ASSUME NEW e \in Effects, row[e] # NoRow
      PROVE  /\ row[e] \in OutboxRow /\ table[e] \in OutboxRow
             /\ table[e].born = row[e].born /\ table[e].ordered = row[e].ordered
             /\ table[e].disposition = "leased" => row[e].disposition = "leased"
  <2>1. row[e] \in OutboxRow
    BY <1>2 DEF TypeOK
  <2>2. /\ ReleasedBy(worker, row[e]) \in OutboxRow
        /\ ReleasedBy(worker, row[e]).born = row[e].born
        /\ ReleasedBy(worker, row[e]).ordered = row[e].ordered
        /\ ReleasedBy(worker, row[e]).disposition = "leased"
           => row[e].disposition = "leased"
    BY <2>1, ReleasedByType, NoRowIsNoOutboxRow
    DEF MaybeRow, ReleasedBy, OutboxRow, RowColumns, NoRow
  <2> QED
    BY <2>1, <2>2
<1>3. ASSUME NEW e \in Effects, row[e] = NoRow
      PROVE  row'[e] = NoRow
  <2>1. table[e] = NoRow
    BY <1>3 DEF ReleasedBy
  <2> HIDE DEF table
  <2> QED
    BY <1>1, <1>3, <2>1 DEF Rows
<1>4. ASSUME NEW e \in picked, NEW f \in Semantic, e \in Semantic, Before(f, e)
      PROVE  Wave(e, f)
  <2> HIDE DEF table
  <2> QED
    BY <1>1, <1>4, ClaimedAtHead
<1> HIDE DEF table
<1>5. ASSUME NEW e \in Effects, row[e] # NoRow
      PROVE  /\ row'[e] # NoRow /\ row'[e].born = row[e].born
             /\ row'[e].ordered = row[e].ordered
             /\ IsLeased(e)' => e \in picked \/ IsLeased(e)
  <2>1. CASE e \in picked
    <3>1. row'[e] = LeasedTo(w, table[e])
      BY <1>1, <2>1
    <3>2. row'[e] \in OutboxRow
      BY <1>2, <1>5, <3>1, LeasedToType
    <3> QED
      BY ZenonT(40), <1>2, <1>5, <2>1, <3>1, <3>2, NoRowIsNoOutboxRow
      DEF LeasedTo, OutboxRow, RowColumns
  <2>2. CASE e \notin picked
    BY <1>1, <1>2, <1>5, <2>2, NoRowIsNoOutboxRow DEF IsLeased
  <2> QED
    BY <2>1, <2>2
<1>6. Rows' = Rows
  BY <1>3, <1>5 DEF Rows
<1>7. LaneOrder'
  BY <1>1, <1>3, <1>5, <1>6 DEF LaneInv, LaneOrder, SameTurn, Ordered, Rows
<1>8. LeasedAtHead'
  <2> SUFFICES ASSUME NEW e \in Semantic', NEW f \in Semantic',
                      IsLeased(e)', Before(f, e)'
               PROVE  Wave(e, f)'
    BY DEF LeasedAtHead
  <2>1. e \in Semantic /\ f \in Semantic
    BY <1>5, <1>6 DEF Semantic, Independent, Ordered, Rows
  <2>2. Before(f, e) /\ (Wave(e, f)' <=> Wave(e, f))
    BY <1>5, <2>1 DEF Before, SameTurn, Ordered, Wave, Semantic, Rows
  <2>3. e \in picked \/ IsLeased(e)
    BY <1>5, <2>1 DEF Semantic, Rows
  <2> QED
    BY <1>4, <2>1, <2>2, <2>3 DEF LaneInv, LeasedAtHead
<1> QED
  BY <1>7, <1>8 DEF LaneInv

(***************************************************************************)
(* The lane invariant.                                                     *)
(***************************************************************************)

\* A terminal is journalled and its row deleted; the others stay.
LEMMA SettledLane ==
  ASSUME TypeOK, LaneInv, NEW e \in Effects, row[e] # NoRow, Settled(e)
  PROVE  \A f \in Effects :
            \/ journal'[f] = journal[f] /\ (row'[f] = NoRow <=> row[f] = NoRow)
            \/ /\ journal'[f] = "settled" /\ row'[f] = NoRow
               /\ journal[f] # "absent"
<1>1. journal[e] = "pending"
  BY DEF LaneInv, LaneOrder
<1> QED
  BY <1>1 DEF Settled, DeleteRows, TypeOK

LEMMA RunStepLane ==
  ASSUME TypeOK, TypeOK', LaneInv, NEW e \in Effects, RunStep(e)
  PROVE  LaneInv'
<1>1. CASE RederiveRun(e)
  BY <1>1, RederiveRunLane
<1>2. CASE Settled(e) /\ OwnsRow(e)
  <2>1. row[e] # NoRow /\ UNCHANGED clock
    BY <1>2 DEF OwnsRow, IsClaim, IsLeased, Settled, DeleteRows
  <2> QED
    BY <1>2, <2>1, SettledLane, LaneInvKept, RunStepAdvance, RunStepLeases
<1>3. ASSUME NEW r, r # NoRow, row' = [row EXCEPT ![e] = r], row[e] # NoRow,
             UNCHANGED <<clock, journal>>
      PROVE  LaneInv'
  <2>1. \A f \in Effects : journal'[f] = journal[f] /\ (row'[f] = NoRow <=> row[f] = NoRow)
    BY <1>3 DEF TypeOK
  <2> QED
    BY <1>3, <2>1, LaneInvKept, RunStepAdvance, RunStepLeases
<1>4. CASE UNCHANGED <<row, clock, journal>>
  BY <1>4, LaneInvKept, RunStepAdvance, RunStepLeases
<1>5. OwnsRow(e) => /\ row[e] # NoRow
                    /\ Deferred(row[e]) # NoRow
                    /\ \A soon \in BOOLEAN : Failed(row[e], soon) # NoRow
  BY OwnedRow, TypeOKParts, DeferredType, FailedType, NoRowIsNoOutboxRow
<1>6. CASE DeferRun(e)
  BY <1>3, <1>5, <1>6 DEF DeferRun
<1>7. CASE FailRun(e)
  BY <1>2, <1>3, <1>5, <1>7 DEF FailRun
<1>8. CASE RetryRun(e)
  BY <1>3, <1>5, <1>8 DEF RetryRun
<1> QED
  BY <1>1, <1>2, <1>4, <1>6, <1>7, <1>8
  DEF RunStep, DropRun, CompleteRun, ReadAuthority, outboxVars

LEMMA OutsideStepLane ==
  ASSUME TypeOK, TypeOK', LaneInv, OutsideStep
  PROVE  LaneInv'
<1>1. ASSUME NEW e \in Effects, DeliverOutcome(e)
      PROVE  LaneInv'
  <2>1. row[e] # NoRow /\ Settled(e) /\ UNCHANGED clock
    BY <1>1 DEF DeliverOutcome, Settled, DeleteRows
  <2> QED
    BY <2>1, SettledLane, LaneInvKept, OutsideStepAdvance, OutsideStepLeases
<1>2. ASSUME \A f \in Effects : row'[f] = NoRow <=> row[f] = NoRow,
             UNCHANGED <<clock, journal>>
      PROVE  LaneInv'
  BY <1>2, LaneInvKept, OutsideStepAdvance, OutsideStepLeases
<1>3. ASSUME NEW e \in Effects, TimePasses(e)
      PROVE  LaneInv'
  <2>1. row[e] \in OutboxRow
    BY <1>3 DEF TimePasses, TypeOK
  <2>2. row' = [row EXCEPT ![e] = [row[e] EXCEPT !.next = "due"]]
    BY <1>3 DEF TimePasses
  <2>3. [row[e] EXCEPT !.next = "due"] # NoRow
    BY <2>1 DEF OutboxRow, RowColumns, NoRow
  <2> QED
    BY <1>2, <1>3, <2>2, <2>3 DEF TimePasses, TypeOK
<1>4. \A e \in Effects : /\ AuthorityNudged(e) = NoRow <=> row[e] = NoRow
                         /\ EvalNudged(e) = NoRow <=> row[e] = NoRow
  BY NoRowIsNoOutboxRow
  DEF AuthorityNudged, EvalNudged, TypeOK, OutboxRow, RowColumns, NoRow
<1>5. CASE OnAuthorityChanged
  BY <1>2, <1>4, <1>5 DEF OnAuthorityChanged
<1>6. CASE ReconcileDeferredEvalRuns
  BY <1>2, <1>4, <1>6 DEF ReconcileDeferredEvalRuns
<1>7. CASE UNCHANGED <<row, clock, journal>>
  BY <1>2, <1>7
<1> QED
  BY <1>1, <1>3, <1>5, <1>6, <1>7 DEF OutsideStep, GrantAuthority, ReleaseActivation, Restart, outboxVars

LEMMA InterruptStepLane ==
  ASSUME TypeOK, TypeOK', LaneInv, InterruptStep
  PROVE  LaneInv'
<1>1. RowsAdvance
  BY IntentionAdvance
<1>2. CASE UNCHANGED <<row, clock, journal>>
  <2>1. LeasesOnlyEnd
    BY <1>2 DEF LeasesOnlyEnd, IsLeased
  <2> QED
    BY <1>1, <1>2, <2>1, LaneInvKept
<1>3. CASE JournalInterrupt
  <2>1. LeasesOnlyEnd /\ UNCHANGED clock
    BY <1>3, SettledLeases DEF JournalInterrupt, DeleteRows
  <2>2. \A e \in Effects :
           \/ journal'[e] = journal[e] /\ (row'[e] = NoRow <=> row[e] = NoRow)
           \/ /\ journal'[e] = "settled" /\ row'[e] = NoRow
              /\ journal[e] # "absent"
    BY <1>3 DEF JournalInterrupt, DeleteRows, Interrupted
  <2> QED
    BY <1>1, <2>1, <2>2, LaneInvKept
<1> QED
  BY <1>2, <1>3 DEF InterruptStep, CloseAdmission, ReopenAdmission, outboxVars

LEMMA FollowUpLane ==
  ASSUME TypeOK, TypeOK', LaneInv, NEW c \in claims,
         StartRun(c) \/ RefuseRun(c) \/ SettleClaim(c) \/ FailClaim(c)
  PROVE  LaneInv'
<1>1. UNCHANGED journal
  BY DEF StartRun, RefuseRun, SettleClaim, FailClaim
<1>2. \A e \in Effects : row'[e] = NoRow <=> row[e] = NoRow
  <2>1. CASE UNCHANGED row
    BY <2>1
  <2>2. CASE FailClaim(c) /\ ~UNCHANGED row
    <3>1. /\ c.effect \in Effects /\ row[c.effect] # NoRow
          /\ row' = [row EXCEPT ![c.effect] = Failed(row[c.effect], FALSE)]
      BY <2>2 DEF FailClaim, IsClaim, IsLeased, TypeOK, Claim
    <3>2. row[c.effect] \in OutboxRow
      BY <3>1 DEF TypeOK
    <3>3. Failed(row[c.effect], FALSE) # NoRow
      BY <3>2, FailedType, NoRowIsNoOutboxRow
    <3> QED
      BY <3>1, <3>3 DEF TypeOK
  <2> QED
    BY <2>1, <2>2 DEF StartRun, RefuseRun, SettleClaim, outboxVars
<1> QED
  BY <1>1, <1>2, FollowUpAdvance, LaneInvKept

LEMMA InitLaneInv == Init => LaneInv
  BY DEF Init, LaneInv, LaneOrder, LeasedAtHead, Semantic, Rows

LEMMA NextLaneInv ==
  ASSUME Gated = {}
  PROVE  TypeOK /\ TypeOK' /\ LaneInv /\ [Next]_vars => LaneInv'
<1> SUFFICES ASSUME TypeOK, TypeOK', LaneInv, [Next]_vars
             PROVE  LaneInv'
  OBVIOUS
<1>1. CASE HostStep
  BY <1>1, ClaimReadyLane, FollowUpLane DEF HostStep
<1>2. CASE IntentionStep
  <2>1. \A e \in Effects : ~ResolveApproval(e)
    BY DEF ResolveApproval, LaneInv, LaneOrder
  <2> QED
    BY <1>2, <2>1, BeginEffectLane, BeginCallsLane DEF IntentionStep
<1>3. CASE UNCHANGED vars
  BY <1>3 DEF vars, LaneInv, LaneOrder, LeasedAtHead, Rows, Semantic, Independent,
     Ordered, IsLeased, Before, SameTurn, Wave
<1> QED
  BY <1>1, <1>2, <1>3, OutsideStepLane, InterruptStepLane, RunStepLane DEF Next

\* One lane per channel, for any number of turns, calls and worker generations:
\* a lease is granted only at the head of the queue and rows queue behind it,
\* so two leased rows are always of one parallel wave.
THEOREM LanesExclude ==
  ASSUME Gated = {}
  PROVE  Spec => []LaneExclusion
<1>1. TypeOK /\ LaneInv => LaneExclusion
  BY LeasedAtHeadGivesExclusion DEF LaneInv
<1>2. TypeOK /\ TypeOK' /\ LaneInv /\ [Next]_vars => LaneInv'
  BY NextLaneInv
<1> QED
  BY <1>1, <1>2, InitTypeOK, NextTypeOK, InitLaneInv, PTL DEF Spec

(***************************************************************************)
(* Source order, when besides no call is rewritten by an interceptor: a    *)
(* rerouted call carries no invocation order and queues behind nothing.    *)
(***************************************************************************)

CallsAreOrdered == \A e \in Rows : Turn[e] # NoTurn => row[e].ordered

LEMMA CallsOrderedKept ==
  ASSUME CallsAreOrdered,
         \A e \in Effects : row'[e] # NoRow /\ Turn[e] # NoTurn =>
            row[e] # NoRow /\ row'[e].ordered = row[e].ordered
  PROVE  CallsAreOrdered'
  BY DEF CallsAreOrdered, Rows

LEMMA ClaimReadyKeepsOrder ==
  ASSUME TypeOK, NEW w \in Workers, ClaimReady(w), NEW e \in Effects, row'[e] # NoRow
  PROVE  row[e] # NoRow /\ row'[e].ordered = row[e].ordered
<1> DEFINE table == [g \in Effects |->
                       IF w # worker THEN ReleasedBy(worker, row[g]) ELSE row[g]]
<1>1. PICK picked \in SUBSET Rows :
           row' = [g \in Effects |->
                     IF g \in picked THEN LeasedTo(w, table[g]) ELSE table[g]]
  BY DEF ClaimReady, Slices, Claimable
<1>2. row[e] # NoRow
  <2>1. row[e] = NoRow => table[e] = NoRow
    BY DEF ReleasedBy
  <2> HIDE DEF table
  <2> QED
    BY <1>1, <2>1 DEF Rows
<1>3. row[e] \in OutboxRow
  BY <1>2 DEF TypeOK
<1>4. ReleasedBy(worker, row[e]) \in OutboxRow
      /\ ReleasedBy(worker, row[e]).ordered = row[e].ordered
  BY <1>3, ReleasedByType, NoRowIsNoOutboxRow
  DEF MaybeRow, ReleasedBy, OutboxRow, RowColumns, NoRow
<1>5. table[e] \in OutboxRow /\ table[e].ordered = row[e].ordered
  BY <1>3, <1>4
<1> HIDE DEF table
<1>6. row'[e] = LeasedTo(w, table[e]) \/ row'[e] = table[e]
  BY <1>1
<1>7. LeasedTo(w, table[e]).ordered = table[e].ordered
  BY <1>5 DEF LeasedTo, OutboxRow, RowColumns
<1> QED
  BY <1>2, <1>5, <1>6, <1>7

\* Steps that insert no row of a call.
LEMMA AdvanceKeepsOrder ==
  ASSUME TypeOK, CallsAreOrdered, RowsAdvance, UNCHANGED clock
  PROVE  CallsAreOrdered'
<1>1. \A e \in Effects : row'[e] # NoRow => KeptRow(e)
  BY DEF RowsAdvance, TypeOK
<1> QED
  BY <1>1, CallsOrderedKept DEF KeptRow

LEMMA NextCallsAreOrdered ==
  ASSUME Gated = {}, Rerouted = {}
  PROVE  TypeOK /\ LaneInv /\ CallsAreOrdered /\ [Next]_vars => CallsAreOrdered'
<1> SUFFICES ASSUME TypeOK, LaneInv, CallsAreOrdered, [Next]_vars
             PROVE  CallsAreOrdered'
  OBVIOUS
<1>1. CASE HostStep
  BY <1>1, ClaimReadyKeepsOrder, CallsOrderedKept, FollowUpAdvance, AdvanceKeepsOrder
  DEF HostStep
<1>2. ASSUME NEW e \in Effects, RunStep(e)
      PROVE  CallsAreOrdered'
  <2>1. CASE RederiveRun(e)
    <3>1. Turn[e] = NoTurn
      BY <2>1, OutboxAssumption DEF RederiveRun, InvocationKinds
    <3>2. \A f \in Effects : f # e => row'[f] = row[f]
      BY <2>1 DEF RederiveRun, TypeOK
    <3> QED
      BY <3>1, <3>2, CallsOrderedKept
  <2>2. CASE UNCHANGED clock
    BY <1>2, <2>2, RunStepAdvance, AdvanceKeepsOrder
  <2> QED
    BY <1>2, <2>1, <2>2
    DEF RunStep, DropRun, CompleteRun, DeferRun, FailRun, RetryRun, ReadAuthority,
        Settled, DeleteRows, outboxVars
<1>3. CASE OutsideStep
  <2>1. UNCHANGED clock
    BY <1>3 DEF OutsideStep, DeliverOutcome, GrantAuthority, TimePasses, Restart,
       OnAuthorityChanged, ReconcileDeferredEvalRuns, ReleaseActivation, Settled, DeleteRows,
       outboxVars
  <2> QED
    BY <1>3, <2>1, OutsideStepAdvance, AdvanceKeepsOrder
<1>4. CASE InterruptStep
  <2>1. UNCHANGED clock
    BY <1>4 DEF InterruptStep, CloseAdmission, JournalInterrupt, ReopenAdmission,
       DeleteRows, outboxVars
  <2> QED
    BY <1>4, <2>1, IntentionAdvance, AdvanceKeepsOrder
<1>5. ASSUME NEW e \in Effects, BeginEffect(e)
      PROVE  CallsAreOrdered'
  <2>1. Turn[e] = NoTurn /\ InsertRows({e}, {})
    BY <1>5 DEF BeginEffect
  <2>2. \A f \in Effects : f # e => row'[f] = row[f]
    BY <2>1 DEF InsertRows
  <2> QED
    BY <2>1, <2>2, CallsOrderedKept
<1>6. ASSUME NEW t, BeginCalls(t)
      PROVE  CallsAreOrdered'
  <2> DEFINE calls == {e \in Effects : Turn[e] = t}
  <2>1. InsertRows(calls, calls) /\ \A e \in calls : journal[e] = "absent"
    BY <1>6 DEF BeginCalls
  <2>2. \A e \in calls : row[e] = NoRow
    BY <2>1 DEF LaneInv, LaneOrder
  <2> HIDE DEF calls
  <2> SUFFICES ASSUME NEW e \in Effects, row'[e] # NoRow, Turn[e] # NoTurn
               PROVE  row'[e].ordered
    BY DEF CallsAreOrdered, Rows
  <2>3. CASE e \in calls
    <3>1. row'[e].ordered = (e \in calls)
      BY <2>1, <2>2, <2>3, InsertedRows, ZenonT(40)
    <3> QED
      BY <2>3, <3>1, Zenon
  <2>4. CASE e \notin calls
    <3>1. row[e] # NoRow /\ row'[e] = row[e]
      BY <2>1, <2>4, InsertedRows, Zenon
    <3>2. row[e].ordered
      BY <3>1, Zenon DEF CallsAreOrdered, Rows
    <3> QED
      BY <3>1, <3>2, Zenon
  <2> QED
    BY <2>3, <2>4
<1>7. CASE IntentionStep
  <2>1. \A e \in Effects : ~ResolveApproval(e)
    BY DEF ResolveApproval, LaneInv, LaneOrder
  <2> QED
    BY <1>5, <1>6, <1>7, <2>1 DEF IntentionStep
<1>8. CASE UNCHANGED vars
  BY <1>8, CallsOrderedKept DEF vars
<1> QED
  BY <1>1, <1>2, <1>3, <1>4, <1>7, <1>8 DEF Next

\* Only StartRun admits a run, for a claim that still owns its row.
LEMMA RunsStartFromLeases ==
  ASSUME TypeOK, [Next]_vars, NEW e \in Effects, ~Running(e), Running(e)'
  PROVE  IsLeased(e)
<1>1. ASSUME NEW c \in claims, StartRun(c)
      PROVE  IsLeased(e)
  <2>1. c.effect = e
    BY <1>1 DEF StartRun, Running, TypeOK, Claim
  <2> QED
    BY <1>1, <2>1 DEF StartRun, IsClaim
<1>2. ASSUME NEW f \in Effects, RunStep(f)
      PROVE  FALSE
  <2>1. CASE EndRun(f)
    BY <2>1 DEF EndRun, Running, TypeOK
  <2>2. CASE ReadAuthority(f)
    BY <2>2 DEF ReadAuthority, Running, TypeOK
  <2> QED
    BY <1>2, <2>1, <2>2
    DEF RunStep, DropRun, CompleteRun, DeferRun, FailRun, RetryRun, RederiveRun
<1>3. CASE Restart
  BY <1>3 DEF Restart, Running
<1>4. CASE UNCHANGED running
  BY <1>4 DEF Running
<1> QED
  BY <1>1, <1>2, <1>3, <1>4
  DEF Next, HostStep, IntentionStep, OutsideStep, InterruptStep, ClaimReady, RefuseRun,
      SettleClaim, FailClaim, BeginEffect, BeginCalls, ResolveApproval, DeliverOutcome,
      GrantAuthority, TimePasses, OnAuthorityChanged, ReconcileDeferredEvalRuns,
      ReleaseActivation, hostVars, CloseAdmission, JournalInterrupt, ReopenAdmission, vars

\* An earlier call of the turn that is still pending is ahead in the queue.
LEMMA EarlierCallSettled ==
  ASSUME TypeOK, LaneInv, CallsAreOrdered, NEW e \in Effects, NEW f \in Effects,
         IsLeased(e), Turn[e] # NoTurn, Turn[f] = Turn[e], Position[f] < Position[e],
         ~({e, f} \subseteq Parallel)
  PROVE  journal[f] = "settled"
<1>1. e \in Rows /\ journal[e] = "pending"
  BY DEF IsLeased, Rows, LaneInv, LaneOrder
<1>2. journal[f] # "absent" /\ journal[f] # "gated"
  BY <1>1 DEF LaneInv, LaneOrder
<1>3. ASSUME journal[f] = "pending"
      PROVE  FALSE
  <2>1. f \in Rows
    BY <1>3 DEF Rows, LaneInv, LaneOrder
  <2>2. Ordered(e) /\ Ordered(f)
    BY <1>1, <2>1 DEF CallsAreOrdered, Ordered
  <2>3. e \in Semantic /\ f \in Semantic
    BY <1>1, <2>1, <2>2, OutboxAssumption DEF Semantic, Independent, InvocationKinds
  <2>4. Before(f, e)
    BY <2>2 DEF Before, SameTurn
  <2>5. Wave(e, f)
    BY <2>3, <2>4 DEF LaneInv, LeasedAtHead
  <2> QED
    BY <2>5 DEF Wave
<1> QED
  BY <1>2, <1>3 DEF TypeOK

\* Model source order, for any turns and calls and however workers, restarts,
\* failures and deliveries interleave: a call starts only behind the terminals
\* of the earlier calls of its turn that it may not run in parallel with.
THEOREM CallsStartInSourceOrder ==
  ASSUME Gated = {}, Rerouted = {}
  PROVE  Spec => SourceOrder
<1>1. Init => CallsAreOrdered
  BY DEF Init, CallsAreOrdered, Rows
<1>2. TypeOK /\ TypeOK' /\ LaneInv /\ [Next]_vars => LaneInv'
  BY NextLaneInv
<1>3. TypeOK /\ LaneInv /\ CallsAreOrdered /\ [Next]_vars => CallsAreOrdered'
  BY NextCallsAreOrdered
<1>4. TypeOK /\ LaneInv /\ CallsAreOrdered /\ [Next]_vars =>
        [\A e, f \in Effects :
            /\ Turn[e] # NoTurn /\ Turn[f] = Turn[e] /\ Position[f] < Position[e]
            /\ ~({e, f} \subseteq Parallel)
            /\ ~Running(e) /\ Running(e)'
            => journal[f] = "settled"]_vars
  BY RunsStartFromLeases, EarlierCallSettled
<1> QED
  BY <1>1, <1>2, <1>3, <1>4, InitTypeOK, NextTypeOK, InitLaneInv, PTL
  DEF Spec, SourceOrder

=============================================================================
