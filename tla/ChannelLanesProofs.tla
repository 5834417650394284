------------------------ MODULE ChannelLanesProofs ------------------------
(***************************************************************************)
(* ChannelLanes for any participants, any routes and any bounds: leases    *)
(* are in the hands of the host, claims are new and their number is        *)
(* bounded; and, while a request's append and fold are one step, no        *)
(* delivery is lost and none overtakes another.  What the log says of a    *)
(* participant (Owed, Forgiven) is compared with what the tables remember  *)
(* (Outstanding).                                                          *)
(***************************************************************************)
EXTENDS ChannelLanes, WellFoundedInduction, TLAPS

MailboxRow ==
  [state : LiveStates \cup {"terminal"}, generation : Nat, owner : Nat, claimedRevision : Nat]

Columns(r) == {"revision", "active", "attached"} \subseteq DOMAIN r

\* The columns the proofs need.  No row is of a revision to come, and a leased
\* row is of an attached participant.
TablesOK ==
  /\ \A p \in Participants : Columns(relationship[p]) /\ relationship[p].revision \in Nat
  /\ relationship = [p \in Participants |-> relationship[p]]
  /\ \A k \in DOMAIN mailbox :
       /\ mailbox[k] \in MailboxRow
       /\ k[2] \in Participants /\ k[3] \in Nat /\ k[3] <= relationship[k[2]].revision
       /\ mailbox[k].state = "leased" =>
            relationship[k[2]].active /\ relationship[k[2]].attached

\* Leases belong to the adopted worker.  A server that has not been adopted
\* has handed out no claims.
OwnersOK ==
  /\ server \in Nat /\ worker \in Nat /\ worker <= server
  /\ worker # server => held = {}
  /\ \A k \in DOMAIN mailbox : mailbox[k].state = "leased" => mailbox[k].owner = worker

Claims == [row : DOMAIN mailbox, generation : Nat, done : BOOLEAN]

Superseded(k) == mailbox[k].state = "terminal" /\ k[3] < relationship[k[2]].revision

\* A claim is current, or its row is closed for good: a row that could be
\* started anew (Rearm) is of the present revision, and such a row is closed
\* only by the report that gives its claim up.
ClaimsOK ==
  /\ held \subseteq Claims
  /\ \A c \in held : Current(c) \/ Superseded(c.row)
  /\ \A c, d \in held : c.row = d.row => c = d

LaneInv == TablesOK /\ OwnersOK /\ ClaimsOK /\ LeasedRowsAreHeld

(***************************************************************************)
(* What a step does to the rows.                                           *)
(***************************************************************************)

NoNewLease ==
  \A k \in DOMAIN mailbox' :
    mailbox'[k].state = "leased" => k \in DOMAIN mailbox /\ mailbox'[k] = mailbox[k]

RevisionsGrow ==
  \A p \in Participants : relationship[p].revision <= relationship'[p].revision

\* What the step does to row k leaves a claim on it current or superseded.
Spared(k) ==
  \/ mailbox'[k] = mailbox[k]
  \/ Superseded(k)'
  \/ mailbox[k].state # "leased" /\ ~Superseded(k)

\* Every row is kept, and a claim on it is spared.
RowsKept == \A k \in DOMAIN mailbox : k \in DOMAIN mailbox' /\ Spared(k)

Calm == TablesOK' /\ NoNewLease /\ RevisionsGrow /\ RowsKept

LEMMA MovedType ==
  ASSUME NEW r \in MailboxRow, NEW s \in LiveStates \cup {"terminal"}
  PROVE  /\ Moved(r, s) \in MailboxRow
         /\ Moved(r, s).state = s
  BY DEF MailboxRow, Moved

LEMMA FreshRowType == FreshRow \in MailboxRow /\ FreshRow.state = "ready"
  BY DEF MailboxRow, FreshRow, LiveStates

SameRelationships ==
  /\ relationship' = [p \in Participants |-> relationship'[p]]
  /\ \A p \in Participants :
       /\ Columns(relationship'[p])
       /\ relationship'[p].revision = relationship[p].revision
       /\ relationship'[p].active = relationship[p].active
       /\ relationship'[p].attached = relationship[p].attached

LEMMA UnchangedAreSame == TablesOK /\ UNCHANGED relationship => SameRelationships
  BY DEF SameRelationships, TablesOK

\* Rows that are added, and terminal rows of the present revision that are
\* started anew, disturb no claim.
LEMMA InsertIsCalm ==
  ASSUME TablesOK, NEW keys,
         \A k \in keys : k[2] \in Participants /\ k[3] = relationship[k[2]].revision,
         mailbox' = Insert(keys) \/ mailbox' = Rearm(keys),
         SameRelationships
  PROVE  Calm
<1>2. DOMAIN mailbox' = DOMAIN mailbox \cup keys
  BY DEF Insert, Rearm
<1>3. \A k \in DOMAIN mailbox' :
        \/ k \in DOMAIN mailbox /\ mailbox'[k] = mailbox[k]
        \/ /\ k \in keys /\ mailbox'[k] = FreshRow
           /\ k \in DOMAIN mailbox => mailbox[k].state \notin LiveStates
  BY <1>2 DEF Insert, Rearm
<1>4. TablesOK'
  BY <1>2, <1>3, FreshRowType DEF TablesOK, SameRelationships
<1>5. NoNewLease
  BY <1>3, FreshRowType DEF NoNewLease
<1>6. RevisionsGrow
  BY DEF RevisionsGrow, TablesOK, SameRelationships
<1>7. \A k \in DOMAIN mailbox : Spared(k)
  BY <1>2, <1>3 DEF Spared, Superseded, TablesOK, LiveStates
<1> QED
  BY <1>2, <1>4, <1>5, <1>6, <1>7 DEF Calm, RowsKept

\* Rows of p are retired when its relationship takes its next revision.
LEMMA RetireIsCalm ==
  ASSUME TablesOK, NEW p \in Participants, NEW r,
         Columns(r), r.revision = relationship[p].revision + 1,
         relationship' = [relationship EXCEPT ![p] = r],
         \/ mailbox' = mailbox /\ r.active /\ r.attached
         \/ mailbox' = Close(LiveRows(p), "terminal")
  PROVE  Calm
<1>1. /\ relationship' = [q \in Participants |-> relationship'[q]]
      /\ \A q \in Participants :
           /\ Columns(relationship'[q]) /\ relationship'[q].revision \in Nat
           /\ relationship[q].revision <= relationship'[q].revision
           /\ q # p => relationship'[q] = relationship[q]
      /\ relationship[p].revision < relationship'[p].revision
      /\ relationship'[p] = r
  BY DEF TablesOK
<1>2. DOMAIN mailbox' = DOMAIN mailbox
  BY DEF Close
<1>3. \A k \in DOMAIN mailbox :
        \/ mailbox'[k] = mailbox[k]
        \/ /\ k[2] = p
           /\ mailbox'[k] = Moved(mailbox[k], "terminal")
  BY DEF Close, LiveRows
<1>4. \A k \in DOMAIN mailbox :
        mailbox'[k].state = "leased" =>
          k[2] # p \/ (relationship'[p].active /\ relationship'[p].attached)
  BY <1>1, MovedType DEF Close, LiveRows, LiveStates, TablesOK
<1>5. TablesOK'
  BY <1>1, <1>2, <1>3, <1>4, MovedType DEF TablesOK
<1>6. NoNewLease
  BY <1>2, <1>3, MovedType DEF NoNewLease, TablesOK
<1>7. \A k \in DOMAIN mailbox : Spared(k)
  BY <1>1, <1>3, MovedType DEF Spared, Superseded, TablesOK
<1> QED
  BY <1>1, <1>2, <1>5, <1>6, <1>7 DEF Calm, RowsKept, RevisionsGrow

IsFact(f) ==
  /\ f.type \in {"message", "joined", "detached", "ended"}
  /\ f.type # "message" => f.who \in Participants

LEMMA FactsAreFacts ==
  ASSUME NEW p \in Participants, NEW r, NEW x
  PROVE  IsFact(Joined(p, r, x)) /\ IsFact(Detached(p, r, x)) /\ IsFact(Ended(p, r))
  BY DEF IsFact, Joined, Detached, Ended

LEMMA MessageIsFact == \A S : IsFact(Message(S))
  BY DEF IsFact, Message

LEMMA FoldedRevision ==
  ASSUME TablesOK, NEW f, NEW e, IsFact(f), f.type # "message"
  PROVE  /\ Columns(FoldedRelationship(f, e))
         /\ FoldedRelationship(f, e).revision = f.revision
         /\ f.type = "joined" => /\ FoldedRelationship(f, e).active
                                 /\ FoldedRelationship(f, e).attached
  BY DEF IsFact, FoldedRelationship, TablesOK, Columns

LEMMA FoldIsCalm ==
  ASSUME TablesOK, NEW f, NEW e, IsFact(f), Fold(f, e)
  PROVE  Calm
<1>1. CASE f.type = "message"
  <2>1. \A k \in Deliveries(f, e, Participants) :
          k[2] \in Participants /\ k[3] = relationship[k[2]].revision
    BY DEF Deliveries
  <2> QED
    BY <1>1, <2>1, InsertIsCalm, UnchangedAreSame DEF Fold
<1>2. CASE f.type # "message" /\ Applies(f)
  <2>1. FoldedRelationship(f, e).revision = relationship[f.who].revision + 1
    BY <1>2, FoldedRevision DEF Applies
  <2>2. \/ mailbox' = mailbox /\ f.type = "joined"
        \/ mailbox' = Close(LiveRows(f.who), "terminal")
    BY <1>2 DEF Fold, FoldedMailbox, IsFact
  <2>3. /\ f.who \in Participants
        /\ relationship' = [relationship EXCEPT ![f.who] = FoldedRelationship(f, e)]
    BY <1>2 DEF Fold, IsFact
  <2> QED
    BY <1>2, <2>1, <2>2, <2>3, FoldedRevision, RetireIsCalm
<1>3. CASE f.type # "message" /\ ~Applies(f)
  BY <1>3 DEF Fold, TablesOK, Calm, NoNewLease, RevisionsGrow, RowsKept, Spared
<1> QED
  BY <1>1, <1>2, <1>3

(***************************************************************************)
(* The requests and the alarm touch no claim.                              *)
(***************************************************************************)

LEMMA DetachIsCalm ==
  ASSUME TablesOK, NEW p \in Participants, NEW bound, DetachAfter(p, bound)
  PROVE  Calm
  BY FoldIsCalm, FactsAreFacts DEF DetachAfter, AppendAndFold

\* A detachment of an attached participant leaves it no leased row.
LEMMA DetachRetires ==
  ASSUME TablesOK, NEW p \in Participants, NEW bound, DetachAfter(p, bound),
         relationship[p].active, relationship[p].attached
  PROVE  \A k \in DOMAIN mailbox : k[2] = p => mailbox'[k].state # "leased"
<1> DEFINE f == Detached(p, relationship[p].revision + 1, Boundary(p, bound))
<1>1. f.type = "detached" /\ f.who = p /\ Applies(f)
  BY DEF Detached, Applies
<1>2. FoldedMailbox(f) = Close(LiveRows(p), "terminal")
  BY <1>1 DEF FoldedMailbox
<1>3. mailbox' = Close(LiveRows(p), "terminal")
  BY <1>1, <1>2 DEF DetachAfter, AppendAndFold, Fold
<1> QED
  BY <1>3, MovedType DEF Close, LiveRows, LiveStates, TablesOK

LEMMA AdvanceIsCalm ==
  ASSUME TablesOK, NEW p \in Participants, NEW from, NEW last, Advance(p, from, last)
  PROVE  Calm
<1> DEFINE r == relationship[p]
           range == IF r.through = 0 THEN {}
                    ELSE Max({from, r.after + 1}) .. Min({last, r.through})
           keys == UNION {Deliveries(log[e], e, {p}) : e \in range}
<1>1. \A k \in keys : k[2] \in Participants /\ k[3] = relationship[k[2]].revision
  BY DEF Deliveries
<1>2. mailbox' = Insert(keys)
  BY DEF Advance
<1>3. SameRelationships
  BY DEF Advance, TablesOK, SameRelationships, Columns
<1> HIDE DEF keys
<1> QED
  BY <1>1, <1>2, <1>3, InsertIsCalm

\* Rows that were waiting for a retry become ready.
LEMMA RetryIsCalm ==
  ASSUME TablesOK, NEW S, \A k \in S \cap DOMAIN mailbox : mailbox[k].state = "retrying",
         mailbox' = Close(S, "ready"), UNCHANGED relationship
  PROVE  Calm
<1>1. DOMAIN mailbox' = DOMAIN mailbox
  BY DEF Close
<1>2. \A k \in DOMAIN mailbox :
        \/ mailbox'[k] = mailbox[k]
        \/ mailbox[k].state = "retrying" /\ mailbox'[k] = Moved(mailbox[k], "ready")
  BY DEF Close
<1>3. \A k \in DOMAIN mailbox : /\ Moved(mailbox[k], "ready") \in MailboxRow
                                /\ Moved(mailbox[k], "ready").state = "ready"
  BY MovedType DEF TablesOK, LiveStates
<1>4. TablesOK' /\ NoNewLease
  BY <1>1, <1>2, <1>3 DEF TablesOK, NoNewLease
<1>5. RevisionsGrow
  BY DEF RevisionsGrow, TablesOK
<1>6. \A k \in DOMAIN mailbox : Spared(k)
  BY <1>2 DEF Spared, Superseded
<1> QED
  BY <1>1, <1>4, <1>5, <1>6 DEF Calm, RowsKept

Requests ==
  \/ \E S \in (SUBSET Participants) \ {{}} : Publish(S)
  \/ \E p \in Participants :
       \/ \E route \in Routes : Join(p, route)
       \/ Revise(p) \/ Leave(p) \/ Detach(p) \/ ContinueJoin(p)
  \/ Alarm

LEMMA RequestsAreCalm ==
  ASSUME TablesOK, Requests
  PROVE  Calm /\ UNCHANGED <<held, server, worker>>
<1> USE DEF host, joins, projection
<1>0. ASSUME UNCHANGED <<relationship, mailbox>> PROVE Calm
  BY <1>0 DEF TablesOK, Calm, NoNewLease, RevisionsGrow, RowsKept, Spared
<1>1. ASSUME NEW S \in SUBSET Participants, Publish(S)
      PROVE  Calm /\ UNCHANGED <<held, server, worker>>
  BY <1>1, FoldIsCalm, MessageIsFact DEF Publish, AppendAndFold
<1>2. ASSUME NEW p \in Participants, NEW route \in Routes, Join(p, route)
      PROVE  Calm /\ UNCHANGED <<held, server, worker>>
  BY <1>0, <1>2, FoldIsCalm, FactsAreFacts DEF Join, AppendAndFold
<1>3. ASSUME NEW p \in Participants, Revise(p)
      PROVE  Calm /\ UNCHANGED <<held, server, worker>>
  BY <1>3, FoldIsCalm, FactsAreFacts DEF Revise, AppendAndFold
<1>4. ASSUME NEW p \in Participants, Leave(p)
      PROVE  Calm /\ UNCHANGED <<held, server, worker>>
  BY <1>4, FoldIsCalm, FactsAreFacts DEF Leave, AppendAndFold
<1>5. ASSUME NEW p \in Participants, Detach(p)
      PROVE  Calm /\ UNCHANGED <<held, server, worker>>
  BY <1>5, DetachIsCalm DEF Detach
<1>6. ASSUME NEW p \in Participants, Recover(p)
      PROVE  Calm /\ UNCHANGED <<held, server, worker>>
  BY <1>6, AdvanceIsCalm DEF Recover
<1>7. ASSUME NEW p \in Participants, RearmRetrying(p)
      PROVE  Calm /\ UNCHANGED <<held, server, worker>>
  BY <1>7, RetryIsCalm DEF RearmRetrying
<1>8. ASSUME NEW p \in Participants, NEW e, Redeliver(p, e)
      PROVE  Calm /\ UNCHANGED <<held, server, worker>>
  <2>1. \A k \in Deliveries(log[e], e, {p}) :
          k[2] \in Participants /\ k[3] = relationship[k[2]].revision
    BY DEF Deliveries
  <2> QED
    BY <1>8, <2>1, InsertIsCalm, UnchangedAreSame DEF Redeliver
<1>9. ASSUME NEW p \in Participants, EndJoin(p)
      PROVE  Calm /\ UNCHANGED <<held, server, worker>>
  BY <1>0, <1>9 DEF EndJoin
<1>10. ASSUME Alarm
       PROVE  Calm /\ UNCHANGED <<held, server, worker>>
  <2>1. PICK k \in DOMAIN mailbox :
          /\ mailbox[k].state = "retrying"
          /\ mailbox' = Close({k}, "ready")
          /\ UNCHANGED <<log, cursor, relationship, joins, host>>
    BY <1>10 DEF Alarm
  <2> QED
    BY <2>1, RetryIsCalm
<1> QED
  BY <1>1, <1>2, <1>3, <1>4, <1>5, <1>6, <1>7, <1>8, <1>9, <1>10
  DEF Requests, ContinueJoin

(***************************************************************************)
(* Claims: what the steps do that take rows of the mailbox, or give them   *)
(* back.                                                                   *)
(***************************************************************************)

\* The step leases only rows of which the host holds no claim of the lease's
\* generation.
NewClaims ==
  \A k \in DOMAIN mailbox :
    mailbox'[k].state = "leased" /\ mailbox[k] # mailbox'[k] =>
      ~\E c \in held : c.row = k /\ c.generation = mailbox'[k].generation

\* A claim that is given up leaves no lease of its generation behind.
GivenUp(c) ==
  ~(/\ mailbox'[c.row].state = "leased" /\ mailbox'[c.row].owner = server
    /\ mailbox'[c.row].generation = c.generation)

\* The steps that lease nothing: claims are kept, or given up.
LEMMA LeaselessStep ==
  ASSUME LaneInv, TablesOK', NoNewLease, RevisionsGrow, UNCHANGED <<server, worker>>,
         held' \subseteq held,
         DOMAIN mailbox \subseteq DOMAIN mailbox',
         \A c \in held' : Spared(c.row),
         \A c \in held \ held' : GivenUp(c)
  PROVE  LaneInv' /\ NewClaims
<1> USE DEF LaneInv
<1>1. OwnersOK'
  BY DEF OwnersOK, NoNewLease
<1>2. held' \subseteq Claims'
  BY DEF ClaimsOK, Claims
<1>3. ASSUME NEW c \in held'
      PROVE  Current(c)' \/ Superseded(c.row)'
  <2>1. c.row \in DOMAIN mailbox /\ (Current(c) \/ Superseded(c.row)) /\ Spared(c.row)
    BY <1>3 DEF ClaimsOK, Claims
  <2>2. c.row[2] \in Participants /\ c.row[3] \in Nat /\ mailbox[c.row] \in MailboxRow
    BY <2>1 DEF TablesOK
  <2>3. CASE mailbox'[c.row] = mailbox[c.row]
    <3>1. Current(c) => Current(c)'
      BY <2>3 DEF Current
    <3>2. relationship[c.row[2]].revision <= relationship'[c.row[2]].revision
          /\ relationship[c.row[2]].revision \in Nat /\ relationship'[c.row[2]].revision \in Nat
      BY <2>2 DEF RevisionsGrow, TablesOK
    <3>3. Superseded(c.row) => Superseded(c.row)'
      BY <2>2, <2>3, <3>2 DEF Superseded
    <3> QED
      BY <2>1, <3>1, <3>3
  <2>4. ~(mailbox[c.row].state # "leased" /\ ~Superseded(c.row))
    BY <2>1 DEF Current
  <2> QED
    BY <2>1, <2>3, <2>4 DEF Spared
<1>4. ClaimsOK'
  BY <1>2, <1>3 DEF ClaimsOK
<1>5. LeasedRowsAreHeld'
  BY DEF LeasedRowsAreHeld, NoNewLease, GivenUp
<1>6. NewClaims
  BY DEF NewClaims, NoNewLease
<1> QED
  BY <1>1, <1>4, <1>5, <1>6

LEMMA ReportStep ==
  ASSUME LaneInv, NEW c \in held, NEW state \in {"ready", "retrying", "terminal"},
         held' = held \ {c},
         mailbox' = IF Current(c) THEN Close({c.row}, state) ELSE mailbox,
         UNCHANGED <<relationship, server, worker>>
  PROVE  LaneInv' /\ NewClaims
<1>1. c.row \in DOMAIN mailbox /\ \A d \in held' : d.row # c.row
  BY DEF LaneInv, ClaimsOK, Claims
<1>2. DOMAIN mailbox' = DOMAIN mailbox
  BY DEF Close
<1>3. \A k \in DOMAIN mailbox : k # c.row => mailbox'[k] = mailbox[k]
  BY DEF Close
<1>4. \/ mailbox'[c.row] = mailbox[c.row] /\ ~Current(c)
      \/ mailbox'[c.row] = Moved(mailbox[c.row], state)
  BY <1>1 DEF Close
<1>5. mailbox[c.row] \in MailboxRow
  BY <1>1 DEF LaneInv, TablesOK
<1>6. Moved(mailbox[c.row], state) \in MailboxRow /\ Moved(mailbox[c.row], state).state # "leased"
  BY <1>5, MovedType DEF LiveStates
<1>7. TablesOK'
  BY <1>2, <1>3, <1>4, <1>6 DEF LaneInv, TablesOK
<1>8. NoNewLease
  BY <1>2, <1>3, <1>4, <1>6 DEF NoNewLease
<1>9. RevisionsGrow
  BY DEF LaneInv, TablesOK, RevisionsGrow
<1>10. \A d \in held' : Spared(d.row)
  BY <1>1, <1>3 DEF Spared, LaneInv, ClaimsOK, Claims
<1>11. GivenUp(c)
  BY <1>4, <1>6 DEF GivenUp, Current
<1> QED
  BY <1>2, <1>7, <1>8, <1>9, <1>10, <1>11, LeaselessStep

LEMMA UnavailableStep ==
  ASSUME LaneInv, NEW c \in held, FailUnavailable(c)
  PROVE  LaneInv' /\ NewClaims
<1> DEFINE p == c.row[2]
<1>1. c.row \in DOMAIN mailbox /\ p \in Participants
  BY DEF LaneInv, ClaimsOK, Claims, TablesOK
<1>2. CASE ~Current(c)
  BY <1>2, ReportStep DEF FailUnavailable, host, joins, projection
<1>3. CASE Current(c) /\ mailbox[c.row].claimedRevision # relationship[p].revision
  BY <1>3, ReportStep DEF FailUnavailable, host, joins
<1>4. CASE Current(c) /\ mailbox[c.row].claimedRevision = relationship[p].revision
  <2>1. DetachAfter(p, c.row[1] - 1) /\ held' = held \ {c} /\ UNCHANGED <<server, worker>>
    BY <1>4 DEF FailUnavailable
  <2>2. Calm
    BY <1>1, <2>1, DetachIsCalm DEF LaneInv
  <2>3. relationship[p].active /\ relationship[p].attached
    BY <1>1, <1>4 DEF Current, LaneInv, TablesOK
  <2>4. GivenUp(c)
    BY <1>1, <2>1, <2>3, DetachRetires DEF LaneInv, GivenUp
  <2> QED
    BY <2>1, <2>2, <2>4, LeaselessStep DEF Calm, RowsKept, LaneInv, ClaimsOK, Claims
<1> QED
  BY <1>2, <1>3, <1>4

LEMMA AnswerStep ==
  ASSUME LaneInv, NEW c \in held, Answer(c)
  PROVE  LaneInv' /\ NewClaims
<1> DEFINE d == [c EXCEPT !.done = TRUE]
<1>1. /\ held' = (held \ {c}) \cup {d}
      /\ UNCHANGED <<relationship, mailbox, server, worker>>
  BY DEF Answer, projection
<1>2. d \in Claims /\ d.row = c.row /\ d.generation = c.generation
  BY DEF LaneInv, ClaimsOK, Claims
<1> HIDE DEF d
<1>3. TablesOK' /\ OwnersOK'
  BY <1>1 DEF LaneInv, TablesOK, OwnersOK
<1>4. ClaimsOK'
  BY <1>1, <1>2 DEF LaneInv, ClaimsOK, Claims, Current, Superseded
<1>5. LeasedRowsAreHeld'
  BY <1>1, <1>2 DEF LaneInv, LeasedRowsAreHeld
<1>6. NewClaims
  BY <1>1 DEF NewClaims
<1> QED
  BY <1>3, <1>4, <1>5, <1>6 DEF LaneInv

LEMMA RestartStep ==
  ASSUME LaneInv, Restart
  PROVE  LaneInv' /\ NewClaims
<1>1. /\ held' = {} /\ server' = server + 1 /\ worker' = worker
      /\ UNCHANGED <<relationship, mailbox>>
  BY DEF Restart, projection
<1>2. TablesOK' /\ OwnersOK' /\ ClaimsOK'
  BY <1>1 DEF LaneInv, TablesOK, OwnersOK, ClaimsOK
<1>3. LeasedRowsAreHeld'
  BY <1>1 DEF LaneInv, OwnersOK, LeasedRowsAreHeld
<1>4. NewClaims
  BY <1>1 DEF NewClaims
<1> QED
  BY <1>2, <1>3, <1>4 DEF LaneInv

\* What another worker generation finds: nothing is leased to the former one.
LEMMA ReleasedRows ==
  ASSUME LaneInv
  PROVE  /\ DOMAIN Released = DOMAIN mailbox
         /\ \A k \in DOMAIN mailbox :
              /\ Released[k] \in MailboxRow
              /\ Released[k] = mailbox[k] \/ (worker # server /\ Released[k].state = "ready")
              /\ worker # server => Released[k].state # "leased"
<1>1. CASE worker = server
  BY <1>1 DEF Released, LaneInv, TablesOK
<1>2. CASE worker # server
  <2>1. Released = Close({k \in DOMAIN mailbox :
                            mailbox[k].state = "leased" /\ mailbox[k].owner = worker}, "ready")
    BY <1>2 DEF Released
  <2>2. \A k \in DOMAIN mailbox :
          Released[k] = IF mailbox[k].state = "leased" /\ mailbox[k].owner = worker
                        THEN Moved(mailbox[k], "ready") ELSE mailbox[k]
    BY <2>1 DEF Close
  <2>3. \A k \in DOMAIN mailbox : /\ Moved(mailbox[k], "ready") \in MailboxRow
                                  /\ Moved(mailbox[k], "ready").state = "ready"
    BY MovedType DEF LaneInv, TablesOK, LiveStates
  <2>4. DOMAIN Released = DOMAIN mailbox
    BY <2>1 DEF Close
  <2>5. ASSUME NEW k \in DOMAIN mailbox
        PROVE  /\ Released[k] \in MailboxRow
               /\ Released[k] = mailbox[k] \/ Released[k].state = "ready"
               /\ Released[k].state # "leased"
    BY <2>2, <2>3 DEF LaneInv, TablesOK, OwnersOK
  <2> QED
    BY <1>2, <2>4, <2>5
<1> QED
  BY <1>1, <1>2

LEMMA AdoptStep ==
  ASSUME LaneInv, Adopt
  PROVE  LaneInv' /\ NewClaims
<1>1. /\ worker # server /\ worker' = server /\ server' = server
      /\ mailbox' = Released /\ UNCHANGED relationship
      /\ held = {} /\ held' = {}
  BY DEF Adopt, LaneInv, OwnersOK
<1>2. TablesOK'
  BY <1>1, ReleasedRows DEF LaneInv, TablesOK
<1>3. OwnersOK' /\ ClaimsOK' /\ LeasedRowsAreHeld'
  BY <1>1, ReleasedRows DEF LaneInv, OwnersOK, ClaimsOK, LeasedRowsAreHeld
<1>4. NewClaims
  BY <1>1 DEF NewClaims
<1> QED
  BY <1>2, <1>3, <1>4 DEF LaneInv

LEMMA ClaimStep ==
  ASSUME LaneInv, ClaimReadyWork
  PROVE  LaneInv' /\ NewClaims
<1> DEFINE claim(k) == [row |-> k, generation |-> mailbox'[k].generation, done |-> FALSE]
<1>0. \A k : /\ claim(k).row = k /\ claim(k).generation = mailbox'[k].generation
             /\ claim(k).done = FALSE
             /\ k \in DOMAIN mailbox' /\ mailbox'[k].generation \in Nat => claim(k) \in Claims'
  BY DEF Claims
<1>1. PICK S \in SUBSET Due(Released) :
        /\ mailbox' = [k \in DOMAIN mailbox |->
                         IF k \in S THEN Leased(Released[k], k[2]) ELSE Released[k]]
        /\ held' = held \cup {claim(k) : k \in S}
  BY DEF ClaimReadyWork
<1> HIDE DEF claim
<1>2. worker' = server /\ server' = server /\ UNCHANGED relationship
  BY DEF ClaimReadyWork
<1>3. /\ S \subseteq DOMAIN mailbox
      /\ \A k \in S : /\ Released[k].state = "ready"
                       /\ relationship[k[2]].active /\ relationship[k[2]].attached
  BY ReleasedRows DEF Due, Claimable
\* No row that is leased now was claimed before.
<1>4. \A k \in S, c \in held : c.row # k
  <2> SUFFICES ASSUME NEW k \in S, NEW c \in held, c.row = k PROVE FALSE
    OBVIOUS
  <2>1. worker = server /\ mailbox[k].state = "ready"
    BY <1>3, ReleasedRows DEF LaneInv, OwnersOK
  <2> QED
    BY <2>1 DEF LaneInv, ClaimsOK, Current, Superseded
<1>5. \A k \in S : /\ mailbox'[k] \in MailboxRow
                    /\ mailbox'[k].state = "leased" /\ mailbox'[k].owner = server
  <2> SUFFICES ASSUME NEW k \in S
               PROVE  /\ mailbox'[k] \in MailboxRow
                      /\ mailbox'[k].state = "leased" /\ mailbox'[k].owner = server
    OBVIOUS
  <2>1. mailbox'[k] = Leased(Released[k], k[2])
    BY <1>1, <1>3
  <2>2. Released[k].generation \in Nat /\ relationship[k[2]].revision \in Nat /\ server \in Nat
    BY <1>3, ReleasedRows DEF MailboxRow, LaneInv, TablesOK, OwnersOK
  <2> QED
    BY <2>1, <2>2 DEF Leased, MailboxRow, LiveStates
<1>6. \A k \in DOMAIN mailbox \ S : mailbox'[k] = Released[k]
  BY <1>1
<1>7. DOMAIN mailbox' = DOMAIN mailbox
  BY <1>1
<1>8. TablesOK'
  <2>1. \A k \in DOMAIN mailbox' : mailbox'[k] \in MailboxRow
    BY <1>5, <1>6, <1>7, ReleasedRows
  <2>2. \A k \in DOMAIN mailbox' :
          mailbox'[k].state = "leased" => relationship[k[2]].active /\ relationship[k[2]].attached
    BY <1>3, <1>6, <1>7, ReleasedRows DEF LaneInv, TablesOK
  <2> QED
    BY <1>2, <1>7, <2>1, <2>2 DEF LaneInv, TablesOK
<1>9. OwnersOK'
  BY <1>2, <1>5, <1>6, <1>7, ReleasedRows DEF LaneInv, OwnersOK
<1>10. ClaimsOK'
  <2>1. \A k \in S : mailbox'[k].generation \in Nat
    BY <1>5 DEF MailboxRow
  <2>2. held \subseteq Claims'
    BY <1>7 DEF LaneInv, ClaimsOK, Claims
  <2>3. held' \subseteq Claims'
    BY <1>0, <1>1, <1>3, <1>7, <2>1, <2>2
  <2>4. ASSUME NEW c \in held'
        PROVE  Current(c)' \/ Superseded(c.row)'
    <3>1. CASE c \in held
      <4>1. worker = server /\ c.row \in DOMAIN mailbox \ S
        BY <3>1, <1>4 DEF LaneInv, OwnersOK, ClaimsOK, Claims
      <4>2. mailbox'[c.row] = mailbox[c.row]
        BY <4>1, <1>6, ReleasedRows
      <4> QED
        BY <3>1, <4>2, <1>2 DEF LaneInv, ClaimsOK, Current, Superseded
    <3>2. CASE c \notin held
      <4>1. PICK k \in S : c = claim(k)
        BY <3>2, <2>4, <1>1
      <4> QED
        BY <4>1, <1>0, <1>2, <1>5 DEF Current
    <3> QED
      BY <3>1, <3>2
  <2>5. \A c, d \in held' : c.row = d.row => c = d
    BY <1>0, <1>1, <1>4 DEF LaneInv, ClaimsOK
  <2> QED
    BY <2>3, <2>4, <2>5 DEF ClaimsOK
<1>11. LeasedRowsAreHeld'
  <2> SUFFICES ASSUME NEW k \in DOMAIN mailbox, mailbox'[k].state = "leased"
               PROVE  \E c \in held' : c.row = k /\ c.generation = mailbox'[k].generation
    BY <1>7 DEF LeasedRowsAreHeld
  <2>1. CASE k \in S
    BY <1>0, <1>1, <2>1
  <2>2. CASE k \notin S
    <3>1. worker = server /\ mailbox'[k] = mailbox[k]
      BY <1>6, <2>2, ReleasedRows
    <3>2. mailbox[k].owner = server
      BY <3>1 DEF LaneInv, OwnersOK
    <3> QED
      BY <1>1, <3>1, <3>2 DEF LaneInv, LeasedRowsAreHeld
  <2> QED
    BY <2>1, <2>2
<1>12. NewClaims
  BY <1>4, <1>6, ReleasedRows DEF NewClaims, LaneInv
<1> QED
  BY <1>8, <1>9, <1>10, <1>11, <1>12 DEF LaneInv

(***************************************************************************)
(* The theorems.                                                           *)
(***************************************************************************)

LEMMA InitInv == Init => LaneInv
  BY DEF Init, LaneInv, TablesOK, OwnersOK, ClaimsOK, LeasedRowsAreHeld, Absent, Columns

LEMMA NextInv ==
  ASSUME LaneInv, [Next]_vars
  PROVE  LaneInv' /\ NewClaims
<1>1. CASE Requests
  BY <1>1, RequestsAreCalm, LeaselessStep DEF LaneInv, Calm, RowsKept, ClaimsOK, Claims
<1>2. CASE ClaimReadyWork
  BY <1>2, ClaimStep
<1>3. ASSUME NEW c \in held, Outcome(c)
      PROVE  LaneInv' /\ NewClaims
  <2>1. CASE Answer(c)
    BY <2>1, AnswerStep
  <2>2. CASE SettleReadyWork(c)
    BY <2>2, ReportStep DEF SettleReadyWork, Report, joins
  <2>3. CASE FailPermanently(c)
    BY <2>3, ReportStep DEF FailPermanently, joins
  <2>4. CASE FailReadyWork(c)
    BY <2>4, ReportStep DEF FailReadyWork, Report, joins
  <2>5. CASE FailUnavailable(c)
    BY <2>5, UnavailableStep
  <2> QED
    BY <1>3, <2>1, <2>2, <2>3, <2>4, <2>5 DEF Outcome
<1>4. CASE Restart
  BY <1>4, RestartStep
<1>5. CASE Adopt
  BY <1>5, AdoptStep
<1>6. CASE UNCHANGED vars
  BY <1>6 DEF vars, projection, joins, host, LaneInv, TablesOK, OwnersOK, ClaimsOK, Claims,
     Current, Superseded, LeasedRowsAreHeld, NewClaims
<1> QED
  BY <1>1, <1>2, <1>3, <1>4, <1>5, <1>6 DEF Next, Requests

LEMMA LaneInvariant == Spec => []LaneInv
<1>1. LaneInv /\ [Next]_vars => LaneInv'
  BY NextInv
<1> QED
  BY <1>1, InitInv, PTL DEF Spec

\* Every lease of the server that runs is in the hands of its host, whatever
\* revisions, detachments, redeliveries and stale reports came in between
\* (claimReadyWork, settleReadyWork, failReadyWork, releaseDurableWorkClaims).
THEOREM LeasesAreHeld == Spec => []LeasedRowsAreHeld
<1>1. LaneInv => LeasedRowsAreHeld
  BY DEF LaneInv
<1> QED
  BY <1>1, LaneInvariant, PTL

\* A lease never has the generation of a claim of its row that the host still
\* holds, although a redelivery starts the generations of a row anew.
THEOREM LeasesAreNew == Spec => ClaimsAreNew
<1>1. LaneInv /\ [Next]_vars => NewClaims
  BY NextInv
<1>2. NewClaims =>
        [\A k \in DOMAIN mailbox :
           mailbox'[k].state = "leased" /\ mailbox[k] # mailbox'[k] =>
             ~\E c \in held : c.row = k /\ c.generation = mailbox'[k].generation]_vars
  BY DEF NewClaims
<1> QED
  BY <1>1, <1>2, LaneInvariant, PTL DEF Spec, ClaimsAreNew

(***************************************************************************)
(* Least and greatest elements.                                            *)
(***************************************************************************)

LEMMA LeastNat ==
  ASSUME NEW S \in SUBSET Nat, S # {}
  PROVE  \E x \in S : \A y \in S : x <= y
<1> DEFINE R == {ss \in Nat \X Nat : ss[1] < ss[2]}
<1>1. IsWellFoundedOn(R, Nat)
  BY NatLessThanWellFounded DEF OpToRel
<1>2. PICK x \in S : \A y \in S : ~(<<y, x>> \in R)
  <2> HIDE DEF R
  <2> QED
    BY <1>1, WFMin
<1>3. ASSUME NEW y \in S
      PROVE  x <= y
  <2>1. x \in Nat /\ y \in Nat /\ <<y, x>> \in Nat \X Nat
    OBVIOUS
  <2>2. ~(y < x)
    BY <1>2, <2>1
  <2> QED
    BY <2>1, <2>2
<1> QED
  BY <1>3

LEMMA MinNat ==
  ASSUME NEW S \in SUBSET Nat, S # {}
  PROVE  Min(S) \in S /\ \A y \in S : Min(S) <= y
  BY LeastNat DEF Min

LEMMA MaxUpTo ==
  ASSUME NEW n \in Nat, NEW S \in SUBSET (1..n), S # {}
  PROVE  Max(S) \in S /\ \A y \in S : y <= Max(S)
<1> DEFINE T == {n - x : x \in S}
<1>1. \A x \in S : x \in Nat /\ n - x \in Nat
  OBVIOUS
<1>2. T \in SUBSET Nat /\ T # {}
  BY <1>1
<1>3. PICK t \in T : \A u \in T : t <= u
  BY <1>2, LeastNat
<1>4. PICK x \in S : t = n - x
  BY <1>3
<1>5. \A y \in S : n - y \in T
  OBVIOUS
<1>6. \A y \in S : y <= x
  BY <1>1, <1>3, <1>4, <1>5
<1> QED
  BY <1>4, <1>6 DEF Max

(***************************************************************************)
(* The inductive invariant.                                                *)
(***************************************************************************)

Fact ==
  [type : {"message"}, to : SUBSET Participants]
  \cup [type : {"joined"}, who : Participants, revision : Nat, route : Routes]
  \cup [type : {"detached"}, who : Participants, revision : Nat, after : Nat]
  \cup [type : {"ended"}, who : Participants, revision : Nat]

Relationship ==
  [revision : Nat, active : BOOLEAN, attached : BOOLEAN, route : Routes \cup {"none"},
   detachedAt : Nat, after : Nat, through : Nat]

LogOK == log \in Seq(Fact) /\ cursor = Len(log)

\* The relationship is what the last fact of the participant says.
Follows(p) ==
  LET r == relationship[p]
      i == LastFact(p, cursor)
  IN IF i = 0 THEN ~r.active /\ ~r.attached
     ELSE /\ r.active <=> log[i].type # "ended"
          /\ r.attached <=> log[i].type = "joined"
          /\ log[i].type = "joined" => r.route = log[i].route

\* Only an attached participant has live rows.
RowsOK ==
  \A k \in DOMAIN mailbox :
    k[1] \in 1..cursor /\ (mailbox[k].state \in LiveStates => relationship[k[2]].attached)

\* A recovery lies behind the cursor, and no row is derived before it is over.
RangesOK ==
  \A p \in Participants :
    LET r == relationship[p] IN
    /\ r \in Relationship
    /\ r.active /\ ~r.attached => r.detachedAt <= cursor
    /\ r.through # 0 =>
         /\ r.active /\ r.attached /\ r.through <= cursor
         /\ \A k \in DOMAIN mailbox :
              k[2] = p => k[3] < r.revision /\ mailbox[k].state \notin LiveStates

SettledBefore(p, e) == \A d \in Owed(p) : d < e => d \in answered[p] \/ Forgiven(p, d)

\* What is claimed comes after everything else the participant is owed.
ClaimsInOrder ==
  \A c \in held : /\ c.done => c.row[1] \in answered[c.row[2]]
                  /\ SettledBefore(c.row[2], c.row[1])

AnsweredOK == answered = [p \in Participants |-> answered[p]]

DebtInv ==
  /\ LogOK /\ (\A p \in Participants : Follows(p)) /\ RowsOK /\ RangesOK
  /\ AnsweredOK /\ ClaimsInOrder /\ NoDebtIsLost

(***************************************************************************)
(* The last fact of a participant.                                         *)
(***************************************************************************)

LEMMA LastFactIs ==
  ASSUME LogOK, NEW p \in Participants, NEW m \in 0..Len(log)
  PROVE  \/ LastFact(p, m) = 0 /\ \A i \in 1..m : ~IsFactOf(i, p)
         \/ /\ LastFact(p, m) \in 1..m /\ IsFactOf(LastFact(p, m), p)
            /\ \A i \in 1..m : IsFactOf(i, p) => i <= LastFact(p, m)
<1> DEFINE facts == {i \in 1..m : IsFactOf(i, p)}
<1>1. CASE facts = {}
  BY <1>1 DEF LastFact
<1>2. CASE facts # {}
  <2>1. m \in Nat /\ facts \in SUBSET (1..m)
    BY DEF LogOK
  <2>2. Max(facts) \in facts /\ \A i \in facts : i <= Max(facts)
    BY <1>2, <2>1, MaxUpTo
  <2>3. LastFact(p, m) = Max(facts)
    BY <1>2 DEF LastFact
  <2> QED
    BY <2>2, <2>3
<1> QED
  BY <1>1, <1>2

LEMMA FactColumns ==
  ASSUME NEW f \in Fact
  PROVE  /\ f.type \in {"message", "joined", "detached", "ended"}
         /\ f.type = "message" => f.to \in SUBSET Participants
         /\ f.type # "message" => f.who \in Participants
         /\ f.type = "joined" => f.route \in Routes
         /\ f.type = "detached" => f.after \in Nat
  BY DEF Fact

(***************************************************************************)
(* An append changes nothing that the log says of the events before it,    *)
(* and forgives no less.                                                   *)
(***************************************************************************)

Grown(f) == log' = Append(log, f) /\ cursor' = Len(log) + 1

LEMMA GrownLog ==
  ASSUME LogOK, NEW f \in Fact, Grown(f)
  PROVE  /\ LogOK'
         /\ Len(log) \in Nat /\ Len(log') = Len(log) + 1
         /\ log'[Len(log) + 1] = f
         /\ \A i \in 1..Len(log) : log'[i] = log[i] /\ log[i] \in Fact
         /\ \A i \in 1..Len(log), p \in Participants : IsFactOf(i, p)' <=> IsFactOf(i, p)
  BY DEF LogOK, Grown, IsFactOf

LEMMA GrownLastFact ==
  ASSUME LogOK, NEW f \in Fact, Grown(f), NEW p \in Participants, NEW n, n = Len(log)
  PROVE  /\ \A m \in 0..n : LastFact(p, m)' = LastFact(p, m)
         /\ LastFact(p, n + 1)' =
              IF f.type # "message" /\ f.who = p THEN n + 1 ELSE LastFact(p, n)
<1>1. n \in Nat /\ LogOK' /\ log'[n + 1] = f
  BY GrownLog
<1>2. \A i \in 1..n : IsFactOf(i, p)' <=> IsFactOf(i, p)
  BY GrownLog
<1>3. ASSUME NEW m \in 0..n
      PROVE  LastFact(p, m)' = LastFact(p, m)
  <2>1. \A i \in 1..m : i \in 1..n
    BY <1>1
  <2>2. {i \in 1..m : IsFactOf(i, p)}' = {i \in 1..m : IsFactOf(i, p)}
    BY <1>2, <2>1
  <2> QED
    BY <2>2 DEF LastFact
<1>4. IsFactOf(n + 1, p)' <=> (f.type # "message" /\ f.who = p)
  BY <1>1 DEF IsFactOf
<1>5. CASE f.type # "message" /\ f.who = p
  <2> DEFINE facts == {i \in 1..(n + 1) : IsFactOf(i, p)}'
  <2>1. n + 1 \in facts /\ facts \in SUBSET (1..(n + 1)) /\ n + 1 \in Nat
    BY <1>1, <1>4, <1>5
  <2>2. Max(facts) \in facts /\ \A i \in facts : i <= Max(facts)
    BY <2>1, MaxUpTo
  <2>3. Max(facts) = n + 1
    BY <1>1, <2>1, <2>2
  <2>4. LastFact(p, n + 1)' = Max(facts)
    BY <2>1 DEF LastFact
  <2> QED
    BY <1>3, <1>5, <2>3, <2>4
<1>6. CASE ~(f.type # "message" /\ f.who = p)
  <2>1. {i \in 1..(n + 1) : IsFactOf(i, p)}' = {i \in 1..n : IsFactOf(i, p)}
    BY <1>1, <1>2, <1>4, <1>6
  <2> QED
    BY <1>3, <1>6, <2>1 DEF LastFact
<1> QED
  BY <1>3, <1>5, <1>6

LEMMA GrownDebts ==
  ASSUME LogOK, NEW f \in Fact, Grown(f), NEW p \in Participants, NEW n, n = Len(log)
  PROVE  /\ \A e \in 1..n : e \in Owed(p)' <=> e \in Owed(p)
         /\ \A e \in 1..n : Forgiven(p, e) => Forgiven(p, e)'
         /\ n + 1 \in Owed(p)' =>
              /\ f.type = "message" /\ p \in f.to
              /\ LastFact(p, n) # 0 /\ log[LastFact(p, n)].type # "ended"
         /\ Owed(p)' \subseteq 1..(n + 1)
<1>1. /\ n \in Nat /\ cursor = n /\ cursor' = n + 1
      /\ log'[n + 1] = f
      /\ \A i \in 1..n : log'[i] = log[i] /\ (IsFactOf(i, p)' <=> IsFactOf(i, p))
  BY GrownLog DEF LogOK, Grown
<1>2. \A m \in 0..n : /\ LastFact(p, m)' = LastFact(p, m)
                      /\ LastFact(p, m) = 0 \/ LastFact(p, m) \in 1..m
  BY GrownLastFact, LastFactIs
<1>3. ASSUME NEW e \in 1..n
      PROVE  e \in Owed(p)' <=> e \in Owed(p)
  <2>1. /\ log'[e] = log[e] /\ LastFact(p, e)' = LastFact(p, e)
        /\ e \in 1..cursor /\ e \in 1..cursor'
    BY <1>1, <1>2
  <2>2. LastFact(p, e) # 0 => log'[LastFact(p, e)] = log[LastFact(p, e)]
    BY <1>1, <1>2
  <2> QED
    BY <2>1, <2>2 DEF Owed
<1>4. ASSUME NEW e \in 1..n, Forgiven(p, e)
      PROVE  Forgiven(p, e)'
  <2>1. PICK j \in e..cursor :
          /\ IsFactOf(j, p)
          /\ \/ log[j].type = "ended"
             \/ LET i == LastFact(p, j - 1) IN
                /\ i # 0 /\ log[i].type = "joined" /\ log[j].type = "joined"
                /\ log[i].route # log[j].route
    BY <1>4 DEF Forgiven
  <2>2. j \in 1..n /\ j - 1 \in 0..n /\ j \in e..cursor'
    BY <1>1
  <2>3. /\ IsFactOf(j, p)' /\ log'[j] = log[j]
        /\ LastFact(p, j - 1)' = LastFact(p, j - 1)
        /\ LastFact(p, j - 1) # 0 => log'[LastFact(p, j - 1)] = log[LastFact(p, j - 1)]
    BY <1>1, <1>2, <2>1, <2>2
  <2> QED
    BY <2>1, <2>2, <2>3 DEF Forgiven
<1>5. ASSUME n + 1 \in Owed(p)'
      PROVE  /\ f.type = "message" /\ p \in f.to
             /\ LastFact(p, n) # 0 /\ log[LastFact(p, n)].type # "ended"
  <2>1. /\ log'[n + 1].type = "message" /\ p \in log'[n + 1].to
        /\ LastFact(p, n + 1)' # 0 /\ log'[LastFact(p, n + 1)'].type # "ended"
    BY <1>5 DEF Owed
  <2>2. LastFact(p, n + 1)' = LastFact(p, n)
    BY <1>1, <2>1, GrownLastFact
  <2> QED
    BY <1>1, <1>2, <2>1, <2>2
<1>6. Owed(p)' \subseteq 1..(n + 1)
  BY <1>1 DEF Owed
<1> QED
  BY <1>3, <1>4, <1>5, <1>6

(***************************************************************************)
(* Folding an event keeps every debt.                                      *)
(***************************************************************************)

\* What is owed and unforgiven is owed by a relationship that is not over.
LEMMA DebtorIsActive ==
  ASSUME LogOK, NEW p \in Participants, Follows(p), NEW e \in Owed(p), ~Forgiven(p, e)
  PROVE  relationship[p].active
<1> DEFINE i == LastFact(p, cursor)
<1>1. e \in 1..cursor /\ LastFact(p, e) # 0 /\ log[LastFact(p, e)].type # "ended"
      /\ cursor = Len(log) /\ cursor \in Nat
  BY DEF Owed, LogOK
<1>2. /\ LastFact(p, e) \in 1..e /\ IsFactOf(LastFact(p, e), p)
      /\ \A j \in 1..e : IsFactOf(j, p) => j <= LastFact(p, e)
  BY <1>1, LastFactIs
<1>3. /\ i \in 1..cursor /\ IsFactOf(i, p)
      /\ \A j \in 1..cursor : IsFactOf(j, p) => j <= i
  BY <1>1, <1>2, LastFactIs
<1>4. log[i].type # "ended"
  <2>1. CASE i < e
    <3>1. i = LastFact(p, e)
      BY <1>1, <1>2, <1>3, <2>1
    <3> QED
      BY <1>1, <3>1
  <2>2. CASE i >= e
    BY <1>1, <1>3, <2>2 DEF Forgiven
  <2> QED
    BY <1>1, <1>3, <2>1, <2>2
<1> QED
  BY <1>1, <1>3, <1>4 DEF Follows

LEMMA BoundaryIs ==
  ASSUME RowsOK, cursor \in Nat, NEW p, NEW upper \in Nat
  PROVE  /\ Boundary(p, upper) \in Nat /\ Boundary(p, upper) <= upper
         /\ \A k \in LiveRows(p) : Boundary(p, upper) < k[1]
<1> DEFINE outstanding == {k[1] : k \in LiveRows(p)}
<1>1. outstanding \in SUBSET (Nat \ {0})
  BY DEF RowsOK, LiveRows
<1>2. CASE outstanding = {}
  BY <1>2 DEF Boundary
<1>3. CASE outstanding # {}
  <2>1. Min(outstanding) \in Nat \ {0} /\ \A y \in outstanding : Min(outstanding) <= y
    BY <1>1, <1>3, MinNat
  <2> DEFINE m == Min(outstanding)
  <2> HIDE DEF outstanding
  <2>2. {upper, m - 1} \in SUBSET Nat
    BY <2>1
  <2> DEFINE both == {upper, m - 1}
  <2>3. Min(both) \in both /\ Min(both) <= upper /\ Min(both) <= m - 1
    BY <2>2, MinNat
  <2>4. Boundary(p, upper) = Min(both)
    BY <1>3 DEF Boundary, outstanding
  <2>5. \A k \in LiveRows(p) : k[1] \in outstanding /\ k[1] \in Nat
    BY DEF outstanding, RowsOK, LiveRows
  <2> HIDE DEF both, m
  <2>6. both = {upper, m - 1} /\ m = Min(outstanding)
    BY DEF both, m
  <2> QED
    BY <2>1, <2>2, <2>3, <2>4, <2>5, <2>6
<1> QED
  BY <1>2, <1>3

\* What the fold of a fact about p, which applies, does to its relationship.
LEMMA FoldedColumns ==
  ASSUME RangesOK, NEW f \in Fact, f.type # "message", Applies(f), NEW e \in Nat \ {0},
         NEW r, r = relationship[f.who], NEW s, s = FoldedRelationship(f, e)
  PROVE  /\ r \in Relationship /\ s \in Relationship
         /\ f.type \in {"joined", "detached", "ended"} /\ f.who \in Participants
         /\ s.revision = r.revision + 1
         /\ s.active <=> f.type # "ended"
         /\ s.attached <=> f.type = "joined"
         /\ f.type = "joined" =>
              /\ s.route = f.route
              /\ (r.active /\ ~r.attached) => s.after = r.detachedAt /\ s.through = e - 1
              /\ ~(r.active /\ ~r.attached) => s.through = 0
         /\ f.type = "detached" => s.detachedAt = f.after
         /\ f.type # "joined" => s.through = 0
<1>1. /\ f.who \in Participants /\ r \in Relationship
      /\ f.type \in {"joined", "detached", "ended"}
      /\ f.type = "joined" => f.route \in Routes
      /\ f.type = "detached" => f.after \in Nat
      /\ f.revision = r.revision + 1 /\ r.revision + 1 \in Nat /\ e - 1 \in Nat
  BY FactColumns DEF RangesOK, Relationship, Applies
<1>2. CASE f.type = "joined"
  BY <1>1, <1>2 DEF FoldedRelationship, Relationship
<1>3. CASE f.type = "detached"
  <2>1. s = [r EXCEPT !.revision = f.revision, !.attached = FALSE,
                      !.detachedAt = f.after, !.after = 0, !.through = 0]
    BY <1>3 DEF FoldedRelationship
  <2>2. s = [revision |-> f.revision, active |-> r.active, attached |-> FALSE,
             route |-> r.route, detachedAt |-> f.after, after |-> 0, through |-> 0]
    BY <1>1, <2>1 DEF Relationship
  <2>3. r.active
    BY <1>3 DEF Applies
  <2> QED
    BY <1>1, <1>3, <2>2, <2>3 DEF Relationship
<1>4. CASE f.type = "ended"
  BY <1>1, <1>4 DEF FoldedRelationship, Relationship
<1> QED
  BY <1>1, <1>2, <1>3, <1>4

FoldStep(f) ==
  /\ f \in Fact /\ Recovering(relationship) = {}
  /\ f.type # "message" => Applies(f)
  /\ f.type = "detached" =>
       f.after <= cursor /\ \A k \in LiveRows(f.who) : f.after < k[1]
  /\ log' = Append(log, f) /\ Fold(f, Len(log) + 1)
  /\ UNCHANGED answered

Base == LaneInv /\ DebtInv

LEMMA NothingRecovers ==
  ASSUME Base, NEW f, FoldStep(f)
  PROVE  \A p \in Participants : relationship[p].through = 0
  BY DEF FoldStep, Recovering

\* What the fold does to rows and relationships.
LEMMA FoldEffect ==
  ASSUME Base, NEW f, FoldStep(f)
  PROVE  /\ Grown(f) /\ f \in Fact
         /\ f.type = "message" =>
              /\ relationship' = relationship
              /\ mailbox' = Insert(Deliveries(f, Len(log) + 1, Participants))
         /\ f.type # "message" =>
              /\ f.who \in Participants
              /\ relationship' =
                   [relationship EXCEPT ![f.who] = FoldedRelationship(f, Len(log) + 1)]
              /\ relationship'[f.who] = FoldedRelationship(f, Len(log) + 1)
              /\ \A q \in Participants \ {f.who} : relationship'[q] = relationship[q]
              /\ mailbox' = mailbox \/ mailbox' = Close(LiveRows(f.who), "terminal")
              /\ f.type # "joined" => mailbox' = Close(LiveRows(f.who), "terminal")
              /\ f.type = "joined" /\ relationship[f.who].route = f.route => mailbox' = mailbox
<1>1. f.type = "message" \/ (f.type \in {"joined", "detached", "ended"} /\ f.who \in Participants)
  BY FactColumns DEF FoldStep
<1>2. Grown(f) /\ f \in Fact
  BY DEF Grown, FoldStep, Fold
<1>3. CASE f.type = "message"
  BY <1>2, <1>3 DEF FoldStep, Fold
<1>4. CASE f.type # "message"
  <2>1. /\ relationship' = [relationship EXCEPT ![f.who] = FoldedRelationship(f, Len(log) + 1)]
        /\ mailbox' = FoldedMailbox(f)
    BY <1>4 DEF FoldStep, Fold
  <2>2. /\ mailbox' = mailbox \/ mailbox' = Close(LiveRows(f.who), "terminal")
        /\ f.type # "joined" => mailbox' = Close(LiveRows(f.who), "terminal")
        /\ (f.type = "joined" /\ relationship[f.who].route = f.route) => mailbox' = mailbox
    BY <1>1, <1>4, <2>1 DEF FoldedMailbox
  <2>3. relationship = [p \in Participants |-> relationship[p]]
    BY DEF Base, LaneInv, TablesOK
  <2> QED
    BY <1>1, <1>2, <1>4, <2>1, <2>2, <2>3
<1> QED
  BY <1>3, <1>4

LEMMA FoldFollows ==
  ASSUME Base, NEW f, FoldStep(f), NEW p \in Participants
  PROVE  Follows(p)'
<1>1. PICK n : n = Len(log)
  OBVIOUS
<1>2. PICK i : i = LastFact(p, n)
  OBVIOUS
<1>3. /\ n \in Nat /\ cursor = n /\ cursor' = n + 1 /\ log'[n + 1] = f
      /\ \A j \in 1..n : log'[j] = log[j]
  BY <1>1, FoldEffect, GrownLog DEF Base, DebtInv, LogOK, Grown
<1>4. LastFact(p, n + 1)' = IF f.type # "message" /\ f.who = p THEN n + 1 ELSE i
  BY <1>1, <1>2, FoldEffect, GrownLastFact DEF Base, DebtInv
<1>5. i = 0 \/ i \in 1..n
  BY <1>1, <1>3, <1>2, LastFactIs DEF Base, DebtInv
<1>6. Follows(p)
  BY DEF Base, DebtInv
<1>7. LastFact(p, cursor)' = LastFact(p, n + 1)'
  BY <1>3 DEF LastFact
<1>8. CASE f.type # "message" /\ f.who = p
  <2> DEFINE s == relationship'[p]
  <2>1. s.active <=> f.type # "ended"
    BY <1>1, <1>3, <1>8, FoldEffect, FoldedColumns DEF Base, DebtInv, FoldStep
  <2>2. s.attached <=> f.type = "joined"
    BY <1>1, <1>3, <1>8, FoldEffect, FoldedColumns DEF Base, DebtInv, FoldStep
  <2>3. f.type = "joined" => s.route = f.route
    BY <1>1, <1>3, <1>8, FoldEffect, FoldedColumns DEF Base, DebtInv, FoldStep
  <2>4. LastFact(p, cursor)' = n + 1 /\ n + 1 # 0 /\ log'[n + 1] = f
    BY <1>3, <1>4, <1>7, <1>8
  <2> QED
    BY <2>1, <2>2, <2>3, <2>4 DEF Follows
<1>9. CASE ~(f.type # "message" /\ f.who = p)
  <2>1. relationship'[p] = relationship[p]
    BY <1>9, FoldEffect
  <2>2. LastFact(p, cursor)' = i
    BY <1>4, <1>7, <1>9
  <2>3. i # 0 => log'[i] = log[i]
    BY <1>3, <1>5
  <2>4. i = LastFact(p, cursor)
    BY <1>3, <1>2
  <2> QED
    BY <1>6, <2>1, <2>2, <2>3, <2>4 DEF Follows
<1> QED
  BY <1>8, <1>9

LEMMA FoldTables ==
  ASSUME Base, NEW f, FoldStep(f)
  PROVE  LogOK' /\ RowsOK' /\ RangesOK' /\ AnsweredOK'
<1> DEFINE n == Len(log)
<1>1. n \in Nat /\ cursor = n /\ cursor' = n + 1 /\ LogOK'
  BY FoldEffect, GrownLog DEF Base, DebtInv, LogOK, Grown
<1>2. /\ RowsOK /\ RangesOK /\ AnsweredOK /\ TablesOK
      /\ \A p \in Participants : relationship[p].through = 0
  BY NothingRecovers DEF Base, DebtInv, LaneInv
<1>3. AnsweredOK'
  BY <1>2 DEF AnsweredOK, FoldStep
<1> HIDE DEF n
<1>4. CASE f.type = "message"
  <2> DEFINE keys == Deliveries(f, n + 1, Participants)
  <2>1. \A k \in keys : k[1] = n + 1 /\ k[2] \in Participants /\ relationship[k[2]].attached
    BY DEF Deliveries
  <2>2. relationship' = relationship /\ mailbox' = Insert(keys)
    BY <1>4, FoldEffect DEF n
  <2> HIDE DEF keys
  <2>3. \A k \in DOMAIN mailbox' :
          k \in keys \/ (k \in DOMAIN mailbox /\ mailbox'[k] = mailbox[k])
    BY <2>2 DEF Insert
  <2>4. RowsOK'
    BY <1>1, <1>2, <2>1, <2>2, <2>3 DEF RowsOK
  <2>5. RangesOK'
    BY <1>1, <1>2, <2>2 DEF RangesOK, Relationship
  <2> QED
    BY <1>1, <1>3, <2>4, <2>5
<1>5. CASE f.type # "message"
  <2> DEFINE p == f.who
             r == relationship[p]
             s == relationship'[p]
  <2>1. /\ p \in Participants
        /\ \A q \in Participants \ {p} : relationship'[q] = relationship[q]
        /\ mailbox' = mailbox \/ mailbox' = Close(LiveRows(p), "terminal")
        /\ f.type # "joined" => mailbox' = Close(LiveRows(p), "terminal")
    BY <1>5, FoldEffect
  <2>2. /\ r \in Relationship /\ s \in Relationship
        /\ s.revision = r.revision + 1
        /\ s.active <=> f.type # "ended"
        /\ s.attached <=> f.type = "joined"
        /\ (r.active /\ ~r.attached) => f.type # "joined" \/ s.through = n
        /\ ~(r.active /\ ~r.attached) => s.through = 0
        /\ f.type = "detached" => s.detachedAt = f.after
        /\ f.type # "joined" => s.through = 0
    <3>1. PICK e \in Nat \ {0} : e = n + 1 /\ e - 1 = n
      BY <1>1
    <3>2. s = FoldedRelationship(f, e)
      BY <1>5, <3>1, FoldEffect DEF n
    <3>3. f \in Fact /\ Applies(f)
      BY <1>5 DEF FoldStep
    <3> HIDE DEF s
    <3>4. PICK t : t = relationship[f.who] /\ t = r
      OBVIOUS
    <3>5. /\ t \in Relationship /\ s \in Relationship
          /\ s.revision = t.revision + 1
          /\ s.active <=> f.type # "ended"
          /\ s.attached <=> f.type = "joined"
          /\ f.type = "joined" /\ (t.active /\ ~t.attached) => s.through = e - 1
          /\ f.type = "joined" /\ ~(t.active /\ ~t.attached) => s.through = 0
          /\ f.type = "detached" => s.detachedAt = f.after
          /\ f.type # "joined" => s.through = 0
      BY <1>2, <1>5, <3>2, <3>3, <3>4, FoldedColumns
    <3> QED
      BY <3>1, <3>4, <3>5
  <2> HIDE DEF p, r, s
  <2>3. DOMAIN mailbox' = DOMAIN mailbox
    BY <2>1 DEF Close
  <2>4. \A k \in DOMAIN mailbox :
          \/ mailbox'[k] = mailbox[k]
          \/ k[2] = p /\ mailbox'[k].state = "terminal"
    BY <1>2, <2>1, MovedType DEF Close, LiveRows, TablesOK
  <2>5. f.type # "joined" =>
          \A k \in DOMAIN mailbox : k[2] = p => mailbox'[k].state \notin LiveStates
    BY <1>2, <2>1, MovedType DEF Close, LiveRows, LiveStates, TablesOK
  <2>6. RowsOK'
    BY <1>1, <1>2, <2>1, <2>2, <2>3, <2>4, <2>5 DEF RowsOK, s, LiveStates, TablesOK
  <2>7. ASSUME NEW q \in Participants
        PROVE  LET t == relationship'[q] IN
               /\ t \in Relationship
               /\ t.active /\ ~t.attached => t.detachedAt <= cursor'
               /\ t.through # 0 =>
                    /\ t.active /\ t.attached /\ t.through <= cursor'
                    /\ \A k \in DOMAIN mailbox' :
                         k[2] = q => k[3] < t.revision /\ mailbox'[k].state \notin LiveStates
    <3>1. CASE q # p
      BY <1>1, <1>2, <2>1, <3>1 DEF RangesOK, Relationship
    <3>2. CASE q = p
      <4>1. relationship'[q] = s /\ relationship[q] = r
        BY <3>2 DEF r, s
      <4>2. s.active /\ ~s.attached => s.detachedAt <= cursor'
        BY <1>1, <1>5, <2>2, FactColumns DEF FoldStep
      <4>3. ASSUME s.through # 0
            PROVE  /\ s.active /\ s.attached /\ s.through <= cursor'
                   /\ \A k \in DOMAIN mailbox' :
                        k[2] = p => k[3] < s.revision /\ mailbox'[k].state \notin LiveStates
        <5>1. r.active /\ ~r.attached /\ f.type = "joined" /\ s.through = n
          BY <2>2, <4>3
        <5>2. ASSUME NEW k \in DOMAIN mailbox, k[2] = p
              PROVE  k[3] < s.revision /\ mailbox'[k].state \notin LiveStates
          <6>1. k[3] \in Nat /\ k[3] <= r.revision /\ r.revision \in Nat
            BY <1>2, <2>1, <5>2 DEF TablesOK, r
          <6>2. mailbox[k].state \notin LiveStates
            BY <1>2, <5>1, <5>2 DEF RowsOK, r
          <6> QED
            BY <2>2, <2>4, <6>1, <6>2 DEF LiveStates
        <5> QED
          BY <1>1, <2>2, <2>3, <5>1, <5>2
      <4> QED
        BY <2>2, <3>2, <4>1, <4>2, <4>3
    <3> QED
      BY <3>1, <3>2
  <2>8. RangesOK'
    BY <2>7 DEF RangesOK
  <2> QED
    BY <1>1, <1>3, <2>6, <2>8
<1> QED
  BY <1>4, <1>5

\* Every claim still comes after everything else its participant is owed.
LEMMA GrownSettled ==
  ASSUME LogOK, NEW f \in Fact, Grown(f), NEW p \in Participants, NEW e \in 1..Len(log),
         SettledBefore(p, e), answered[p] \subseteq answered'[p]
  PROVE  SettledBefore(p, e)'
<1>1. PICK n : n = Len(log)
  OBVIOUS
<1>2. n \in Nat
  BY <1>1, GrownLog
<1>3. /\ \A d \in 1..n : d \in Owed(p)' <=> d \in Owed(p)
      /\ \A d \in 1..n : Forgiven(p, d) => Forgiven(p, d)'
      /\ Owed(p)' \subseteq 1..(n + 1)
  BY <1>1, GrownDebts
<1> QED
  BY <1>1, <1>2, <1>3 DEF SettledBefore

LEMMA FoldClaims ==
  ASSUME Base, NEW f, FoldStep(f), held' \subseteq held
  PROVE  ClaimsInOrder'
<1> SUFFICES ASSUME NEW c \in held'
             PROVE  /\ c.done => c.row[1] \in answered'[c.row[2]]
                    /\ SettledBefore(c.row[2], c.row[1])'
  BY DEF ClaimsInOrder
<1>1. c \in held /\ c.row \in DOMAIN mailbox
  BY DEF Base, LaneInv, ClaimsOK, Claims
<1>2. c.row[1] \in 1..Len(log) /\ c.row[2] \in Participants
  BY <1>1 DEF Base, LaneInv, DebtInv, TablesOK, RowsOK, LogOK
<1>3. /\ c.done => c.row[1] \in answered[c.row[2]]
      /\ SettledBefore(c.row[2], c.row[1]) /\ answered' = answered
  BY <1>1 DEF Base, DebtInv, ClaimsInOrder, FoldStep
<1>4. LogOK /\ f \in Fact /\ Grown(f)
  BY FoldEffect DEF Base, DebtInv
<1> QED
  BY <1>2, <1>3, <1>4, GrownSettled

\* A new message gets its row, or falls into the range of a detached participant.
LEMMA NewDebt ==
  ASSUME Base, NEW f, FoldStep(f), NEW p \in Participants, NEW n, n = Len(log),
         n + 1 \in Owed(p)'
  PROVE  Outstanding(p, n + 1)'
<1>1. /\ n \in Nat /\ cursor = n
      /\ f.type = "message" /\ p \in f.to
      /\ LastFact(p, n) # 0 /\ log[LastFact(p, n)].type # "ended"
  BY FoldEffect, GrownDebts, GrownLog DEF Base, DebtInv, LogOK
<1>2. relationship' = relationship /\ mailbox' = Insert(Deliveries(f, n + 1, Participants))
  BY <1>1, FoldEffect
<1>3. relationship[p].active
  BY <1>1 DEF Base, DebtInv, Follows
<1>4. CASE relationship[p].attached
  <2> DEFINE k == <<n + 1, p, relationship[p].revision>>
             keys == Deliveries(f, n + 1, Participants)
  <2>1. k \in keys
    BY <1>1, <1>3, <1>4 DEF Deliveries
  <2>2. k[1] = n + 1 /\ k[2] = p
    OBVIOUS
  <2> HIDE DEF k, keys
  <2>3. k \notin DOMAIN mailbox
    BY <1>1, <2>2 DEF Base, DebtInv, RowsOK
  <2>4. k \in DOMAIN mailbox' /\ mailbox'[k] = FreshRow
    BY <1>2, <2>1, <2>3 DEF Insert, keys
  <2>5. k \in LiveRows(p)'
    BY <2>2, <2>4 DEF LiveRows, FreshRow, LiveStates
  <2> QED
    BY <2>2, <2>5 DEF Outstanding
<1>5. CASE ~relationship[p].attached
  <2>1. relationship[p].detachedAt \in Nat /\ relationship[p].detachedAt <= n
    BY <1>1, <1>3, <1>5 DEF Base, DebtInv, RangesOK, Relationship
  <2> QED
    BY <1>1, <1>2, <1>5, <2>1 DEF Outstanding
<1> QED
  BY <1>4, <1>5

\* An earlier debt keeps its row or its range, passes from one to the other,
\* or is forgiven.
LEMMA OldDebt ==
  ASSUME Base, NEW f, FoldStep(f), NEW p \in Participants, NEW n, n = Len(log),
         NEW e \in 1..n, e \in Owed(p), Outstanding(p, e), ~Forgiven(p, e), ~Forgiven(p, e)'
  PROVE  Outstanding(p, e)'
<1>1. /\ n \in Nat /\ cursor = n /\ cursor' = n + 1 /\ log'[n + 1] = f
      /\ relationship[p].through = 0
      /\ relationship[p] \in Relationship /\ TablesOK /\ RangesOK /\ LogOK
  BY GrownLog, FoldEffect, NothingRecovers DEF Base, DebtInv, LogOK, Grown, RangesOK, LaneInv
<1>2. relationship[p].active
  BY DebtorIsActive DEF Base, DebtInv
<1>3. \/ \E k \in LiveRows(p) : k[1] = e
      \/ ~relationship[p].attached /\ relationship[p].detachedAt < e
  BY <1>1 DEF Outstanding
<1>4. ASSUME relationship'[p] = relationship[p],
             \A k \in LiveRows(p) : k \in DOMAIN mailbox' /\ mailbox'[k] = mailbox[k]
      PROVE  Outstanding(p, e)'
  BY <1>3, <1>4 DEF Outstanding, LiveRows
<1>5. CASE f.type = "message"
  BY <1>4, <1>5, FoldEffect DEF Insert, LiveRows
<1>6. CASE f.type # "message" /\ f.who # p
  BY <1>4, <1>6, FoldEffect DEF Close, LiveRows
<1>7. ASSUME f.type # "message", f.who = p
      PROVE  Outstanding(p, e)'
  <2>1. PICK g \in Nat \ {0} : g = n + 1 /\ g - 1 = n
    BY <1>1
  <2>2. PICK r, s : r = relationship[p] /\ s = relationship'[p]
    OBVIOUS
  <2>3. s = FoldedRelationship(f, g) /\ f \in Fact /\ Applies(f)
    BY <1>7, <2>1, <2>2, FoldEffect DEF FoldStep
  <2>4. /\ r \in Relationship /\ s \in Relationship
        /\ f.type \in {"joined", "detached", "ended"}
        /\ s.active <=> f.type # "ended"
        /\ s.attached <=> f.type = "joined"
        /\ f.type = "joined" =>
             /\ (r.active /\ ~r.attached) => s.after = r.detachedAt /\ s.through = n
        /\ f.type = "detached" => s.detachedAt = f.after
    BY <1>1, <1>7, <2>1, <2>2, <2>3, FoldedColumns
  <2>5. IsFactOf(n + 1, p)' /\ n + 1 \in e..cursor'
    BY <1>1, <1>7 DEF IsFactOf
  <2>6. CASE f.type = "ended"
    BY <1>1, <2>5, <2>6 DEF Forgiven
  <2>7. CASE f.type = "detached"
    <3>1. r.attached
      BY <1>7, <2>2, <2>3, <2>7 DEF Applies
    <3>2. PICK k \in LiveRows(p) : k[1] = e
      BY <1>3, <2>2, <3>1
    <3>3. f.after < e
      BY <1>7, <2>7, <3>2 DEF FoldStep
    <3> QED
      BY <2>2, <2>4, <2>7, <3>3 DEF Outstanding
  <2>8. CASE f.type = "joined" /\ r.attached
    <3>1. PICK k \in LiveRows(p) : k[1] = e
      BY <1>3, <2>2, <2>8
    <3>2. CASE r.route = f.route
      <4>1. mailbox' = mailbox
        BY <1>7, <2>2, <2>8, <3>2, FoldEffect
      <4>2. k \in LiveRows(p)'
        BY <3>1, <4>1 DEF LiveRows
      <4> QED
        BY <3>1, <4>2 DEF Outstanding
    <3>3. CASE r.route # f.route
      <4>1. PICK i : i = LastFact(p, n)
        OBVIOUS
      <4>2. i = LastFact(p, cursor) /\ (i = 0 \/ i \in 1..n)
        BY <1>1, <4>1, LastFactIs
      <4>3. Follows(p)
        BY DEF Base, DebtInv
      <4>4. i # 0 /\ log[i].type = "joined" /\ log[i].route = r.route
        BY <2>2, <2>8, <4>2, <4>3 DEF Follows
      <4>5. log'[i] = log[i]
        BY <4>2, <4>4, GrownLog, FoldEffect DEF Base, DebtInv
      <4>6. LastFact(p, n)' = i
        BY <1>1, <4>1, GrownLastFact, FoldEffect
      <4>7. n + 1 - 1 = n
        BY <1>1
      <4> QED
        BY <1>1, <2>5, <2>8, <3>3, <4>4, <4>5, <4>6, <4>7 DEF Forgiven
    <3> QED
      BY <3>2, <3>3
  <2>9. CASE f.type = "joined" /\ ~r.attached
    <3>1. r.detachedAt < e
      BY <1>3, <2>2, <2>9 DEF LiveRows, Base, DebtInv, RowsOK
    <3> QED
      BY <1>1, <1>2, <2>2, <2>4, <2>9, <3>1 DEF Outstanding
  <2> QED
    BY <2>4, <2>6, <2>7, <2>8, <2>9
<1> QED
  BY <1>5, <1>6, <1>7

LEMMA FoldDebt ==
  ASSUME Base, NEW f, FoldStep(f), held' \subseteq held
  PROVE  DebtInv'
<1>1. ASSUME NEW p \in Participants, NEW e \in Unsettled(p)'
      PROVE  Outstanding(p, e)'
  <2>1. PICK n : n = Len(log)
    OBVIOUS
  <2>2. n \in Nat /\ f \in Fact /\ Grown(f) /\ LogOK
    BY <2>1, GrownLog, FoldEffect DEF Base, DebtInv
  <2>3. e \in Owed(p)' /\ e \notin answered'[p] /\ ~Forgiven(p, e)'
    BY <1>1 DEF Unsettled
  <2>4. e \in 1..(n + 1)
    BY <2>1, <2>2, <2>3, GrownDebts
  <2>5. CASE e = n + 1
    BY <2>1, <2>3, <2>5, NewDebt
  <2>6. CASE e \in 1..n
    <3>1. e \in Owed(p) /\ ~Forgiven(p, e)
      BY <2>1, <2>2, <2>3, <2>6, GrownDebts
    <3>2. e \in Unsettled(p)
      BY <2>3, <3>1 DEF Unsettled, FoldStep
    <3>3. Outstanding(p, e)
      BY <3>2 DEF Base, DebtInv, NoDebtIsLost
    <3> QED
      BY <2>1, <2>3, <2>6, <3>1, <3>3, OldDebt
  <2> QED
    BY <2>2, <2>4, <2>5, <2>6
<1>2. NoDebtIsLost'
  BY <1>1 DEF NoDebtIsLost
<1> QED
  BY <1>2, FoldFollows, FoldTables, FoldClaims DEF DebtInv

(***************************************************************************)
(* The requests that append.                                               *)
(***************************************************************************)

\* A join's route, a leave's and a detachment's relationship are what their
\* guards say, so the facts apply.
LEMMA RouteIsKnown ==
  ASSUME Base, NEW p \in Participants, relationship[p].attached
  PROVE  relationship[p].active /\ relationship[p].route \in Routes
<1>1. PICK i : i = LastFact(p, cursor)
  OBVIOUS
<1>2. LogOK /\ Follows(p) /\ cursor = Len(log)
  BY DEF Base, DebtInv, LogOK
<1>3. i # 0 /\ log[i].type = "joined" /\ relationship[p].route = log[i].route
      /\ relationship[p].active
  BY <1>1, <1>2 DEF Follows
<1>4. Len(log) \in Nat /\ Len(log) \in 0..Len(log)
  BY <1>2 DEF LogOK
<1>5. i \in 1..Len(log)
  BY <1>1, <1>2, <1>3, <1>4, LastFactIs
<1>6. log[i] \in Fact
  BY <1>2, <1>5 DEF LogOK
<1> QED
  BY <1>3, <1>6, FactColumns

LEMMA AppendedFact ==
  ASSUME Base, NEW f \in Fact, AppendAndFold(f), UNCHANGED answered,
         f.type # "message" => Applies(f),
         f.type = "detached" =>
           f.after <= cursor /\ \A k \in LiveRows(f.who) : f.after < k[1]
  PROVE  FoldStep(f)
  BY DEF AppendAndFold, FoldStep

LEMMA RevisionType ==
  ASSUME Base, NEW p \in Participants
  PROVE  relationship[p].revision + 1 \in Nat
  BY DEF Base, LaneInv, TablesOK

LEMMA PublishKeeps ==
  ASSUME Base, NEW S \in SUBSET Participants, Publish(S)
  PROVE  DebtInv'
<1> DEFINE f == Message(S)
<1>1. f \in Fact /\ f.type = "message"
  BY DEF Message, Fact
<1>2. AppendAndFold(f) /\ UNCHANGED <<answered, held>>
  BY DEF Publish, host
<1> HIDE DEF f
<1> QED
  BY <1>1, <1>2, AppendedFact, FoldDebt

LEMMA JoinedKeeps ==
  ASSUME Base, NEW p \in Participants, NEW route \in Routes, UNCHANGED <<answered, held>>,
         AppendAndFold(Joined(p, relationship[p].revision + 1, route))
  PROVE  DebtInv'
<1> DEFINE f == Joined(p, relationship[p].revision + 1, route)
<1>1. f \in Fact /\ f.type = "joined" /\ Applies(f)
  BY RevisionType DEF Joined, Fact, Applies
<1> HIDE DEF f
<1>2. AppendAndFold(f)
  BY DEF f
<1> QED
  BY <1>1, <1>2, AppendedFact, FoldDebt

LEMMA LeaveKeeps ==
  ASSUME Base, NEW p \in Participants, Leave(p)
  PROVE  DebtInv'
<1> DEFINE f == Ended(p, relationship[p].revision + 1)
<1>1. f \in Fact /\ f.type = "ended" /\ Applies(f)
  BY RevisionType DEF Ended, Fact, Applies, Leave
<1>2. AppendAndFold(f) /\ UNCHANGED <<answered, held>>
  BY DEF Leave, host
<1> HIDE DEF f
<1> QED
  BY <1>1, <1>2, AppendedFact, FoldDebt

LEMMA DetachedKeeps ==
  ASSUME Base, NEW p \in Participants, relationship[p].attached,
         NEW bound \in Nat, bound <= cursor, DetachAfter(p, bound),
         UNCHANGED answered, held' \subseteq held
  PROVE  DebtInv'
<1> DEFINE f == Detached(p, relationship[p].revision + 1, Boundary(p, bound))
<1>1. cursor \in Nat /\ RowsOK
  BY DEF Base, DebtInv, LogOK
<1>2. /\ Boundary(p, bound) \in Nat /\ Boundary(p, bound) <= cursor
      /\ \A k \in LiveRows(p) : Boundary(p, bound) < k[1]
  BY <1>1, BoundaryIs
<1>3. /\ f \in Fact /\ f.type = "detached" /\ Applies(f)
      /\ f.after <= cursor /\ \A k \in LiveRows(f.who) : f.after < k[1]
  BY <1>2, RevisionType, RouteIsKnown DEF Detached, Fact, Applies
<1>4. AppendAndFold(f)
  BY DEF DetachAfter
<1> HIDE DEF f
<1> QED
  BY <1>3, <1>4, AppendedFact, FoldDebt

(***************************************************************************)
(* The steps that leave the log alone.                                     *)
(***************************************************************************)

LEMMA SameLog ==
  ASSUME UNCHANGED <<log, cursor>>, NEW p
  PROVE  /\ \A e : e \in Owed(p)' <=> e \in Owed(p)
         /\ \A e : Forgiven(p, e)' <=> Forgiven(p, e)
         /\ LogOK => LogOK'
         /\ relationship'[p].active = relationship[p].active
              /\ relationship'[p].attached = relationship[p].attached
              /\ relationship'[p].route = relationship[p].route
              /\ Follows(p) => Follows(p)'
<1>1. \A m : LastFact(p, m)' = LastFact(p, m)
  BY DEF LastFact, IsFactOf
<1>2. \A i : IsFactOf(i, p)' <=> IsFactOf(i, p)
  BY DEF IsFactOf
<1>3. \A e : e \in Owed(p)' <=> e \in Owed(p)
  BY <1>1 DEF Owed
<1>4. \A e : Forgiven(p, e)' <=> Forgiven(p, e)
  BY <1>1, <1>2 DEF Forgiven
<1>5. LogOK => LogOK'
  BY DEF LogOK
<1>6. LastFact(p, cursor)' = LastFact(p, cursor)
  BY <1>1
<1> QED
  BY <1>3, <1>4, <1>5, <1>6 DEF Follows

\* The claims that are kept stay in order while answers only arrive.
LEMMA SameClaims ==
  ASSUME Base, UNCHANGED <<log, cursor>>, NEW c \in held,
         \A p \in Participants : answered[p] \subseteq answered'[p]
  PROVE  /\ c.done => c.row[1] \in answered'[c.row[2]]
         /\ SettledBefore(c.row[2], c.row[1])'
<1>1. c.row[2] \in Participants
  BY DEF Base, LaneInv, ClaimsOK, Claims, TablesOK
<1>2. (c.done => c.row[1] \in answered[c.row[2]]) /\ SettledBefore(c.row[2], c.row[1])
  BY DEF Base, DebtInv, ClaimsInOrder
<1>3. /\ \A e : e \in Owed(c.row[2])' <=> e \in Owed(c.row[2])
      /\ \A e : Forgiven(c.row[2], e)' <=> Forgiven(c.row[2], e)
  BY SameLog
<1> QED
  BY <1>1, <1>2, <1>3 DEF SettledBefore

\* A step that moves rows keeps the invariant when a row that was live is live
\* afterwards, or answered.
LEMMA MoveKeeps ==
  ASSUME Base, UNCHANGED <<log, cursor, relationship>>, AnsweredOK',
         \A p \in Participants : answered[p] \subseteq answered'[p],
         DOMAIN mailbox' = DOMAIN mailbox,
         \A k \in DOMAIN mailbox :
           mailbox'[k].state \in LiveStates => mailbox[k].state \in LiveStates,
         \A k \in DOMAIN mailbox :
           mailbox[k].state \in LiveStates =>
             mailbox'[k].state \in LiveStates \/ k[1] \in answered'[k[2]],
         ClaimsInOrder'
  PROVE  DebtInv'
<1>1. LogOK' /\ (\A p \in Participants : Follows(p)')
  BY SameLog DEF Base, DebtInv
<1>2. RowsOK' /\ RangesOK'
  BY DEF Base, DebtInv, RowsOK, RangesOK, Relationship
<1>3. ASSUME NEW p \in Participants, NEW e \in Unsettled(p)'
      PROVE  Outstanding(p, e)'
  <2>1. e \in Owed(p) /\ ~Forgiven(p, e) /\ e \notin answered'[p]
    BY <1>3, SameLog DEF Unsettled
  <2>2. Outstanding(p, e)
    BY <2>1 DEF Unsettled, Base, DebtInv, NoDebtIsLost
  <2>3. \A k \in LiveRows(p) : k[1] = e => k \in LiveRows(p)'
    BY <2>1 DEF LiveRows
  <2> QED
    BY <2>2, <2>3 DEF Outstanding
<1> QED
  BY <1>1, <1>2, <1>3 DEF DebtInv, NoDebtIsLost

\* Rows that are derived keep it when they are of attached participants that
\* have recovered, and what the tables remember is still remembered.
LEMMA InsertKeeps ==
  ASSUME Base, UNCHANGED <<log, cursor, answered, held>>, SameRelationships, NEW keys,
         mailbox' = Insert(keys) \/ mailbox' = Rearm(keys),
         \A k \in keys : /\ k[1] \in 1..cursor /\ k[2] \in Participants
                         /\ relationship[k[2]].attached /\ relationship'[k[2]].through = 0,
         \A p \in Participants :
           /\ relationship'[p] \in Relationship
           /\ relationship'[p].detachedAt = relationship[p].detachedAt
           /\ relationship'[p].through \in {0, relationship[p].through}
           /\ relationship'[p].route = relationship[p].route,
         \A p \in Participants : \A e \in Owed(p) :
           relationship[p].after < e /\ e <= relationship[p].through => Outstanding(p, e)'
  PROVE  DebtInv'
<1>1. LogOK' /\ (\A p \in Participants : Follows(p)')
  BY SameLog DEF Base, DebtInv, SameRelationships
<1>2. \A k \in DOMAIN mailbox :
        k \in DOMAIN mailbox' /\ (mailbox[k].state \in LiveStates => mailbox'[k] = mailbox[k])
  BY DEF Insert, Rearm
<1>3. \A k \in DOMAIN mailbox' : k \in keys \/ (k \in DOMAIN mailbox /\ mailbox'[k] = mailbox[k])
  BY DEF Insert, Rearm
<1>4. RowsOK'
  BY <1>3 DEF Base, DebtInv, LaneInv, TablesOK, RowsOK, SameRelationships
<1>5. RangesOK'
  <2> SUFFICES ASSUME NEW p \in Participants
               PROVE  LET r == relationship'[p] IN
                      /\ r \in Relationship
                      /\ r.active /\ ~r.attached => r.detachedAt <= cursor
                      /\ r.through # 0 =>
                           /\ r.active /\ r.attached /\ r.through <= cursor
                           /\ \A k \in DOMAIN mailbox' :
                                k[2] = p => k[3] < r.revision /\ mailbox'[k].state \notin LiveStates
    BY DEF RangesOK
  <2>1. /\ relationship'[p] \in Relationship
        /\ relationship'[p].active = relationship[p].active
        /\ relationship'[p].attached = relationship[p].attached
        /\ relationship'[p].revision = relationship[p].revision
        /\ relationship'[p].detachedAt = relationship[p].detachedAt
        /\ relationship'[p].through \in {0, relationship[p].through}
    BY DEF SameRelationships
  <2>2. RangesOK
    BY DEF Base, DebtInv
  <2>3. relationship'[p].through # 0 => \A k \in DOMAIN mailbox' : k[2] = p =>
          k \in DOMAIN mailbox /\ mailbox'[k] = mailbox[k]
    BY <1>3
  <2> QED
    BY <2>1, <2>2, <2>3 DEF RangesOK
<1>6. AnsweredOK' /\ ClaimsInOrder'
  BY SameClaims DEF Base, DebtInv, AnsweredOK, ClaimsInOrder
<1>7. ASSUME NEW p \in Participants, NEW e \in Unsettled(p)'
      PROVE  Outstanding(p, e)'
  <2>1. e \in Owed(p) /\ Outstanding(p, e)
    BY <1>7, SameLog DEF Unsettled, Base, DebtInv, NoDebtIsLost
  <2>2. \A k \in LiveRows(p) : k \in LiveRows(p)'
    BY <1>2 DEF LiveRows
  <2> QED
    BY <2>1, <2>2 DEF Outstanding, SameRelationships
<1> QED
  BY <1>1, <1>4, <1>5, <1>6, <1>7 DEF DebtInv, NoDebtIsLost

\* The range of a reattachment becomes rows: none of an event of the range is
\* of the present revision yet.
LEMMA RecoverKeeps ==
  ASSUME Base, NEW p \in Participants, Recover(p)
  PROVE  DebtInv'
<1>1. PICK r : r = relationship[p]
  OBVIOUS
<1>2. /\ r \in Relationship /\ r.through # 0 /\ r.active /\ r.attached /\ r.through <= cursor
      /\ \A k \in DOMAIN mailbox : k[2] = p => k[3] < r.revision
      /\ r.revision \in Nat /\ r.after \in Nat /\ r.through \in Nat /\ cursor \in Nat
  BY <1>1 DEF Recover, Recovering, Base, DebtInv, RangesOK, LogOK, Relationship
<1>3. PICK range : range = (r.after + 1) .. r.through
  OBVIOUS
<1>4. Max({r.after + 1, r.after + 1}) = r.after + 1 /\ Min({r.through, r.through}) = r.through
  BY <1>2 DEF Max, Min
<1>5. PICK keys : keys = UNION {Deliveries(log[e], e, {p}) : e \in range}
  OBVIOUS
<1>6. /\ mailbox' = Insert(keys)
      /\ relationship' = IF range = {} THEN relationship
                         ELSE IF Max(range) = r.through
                         THEN [relationship EXCEPT ![p].after = 0, ![p].through = 0]
                         ELSE [relationship EXCEPT ![p].after = Max(range)]
      /\ UNCHANGED <<log, cursor, answered, held>>
  BY <1>1, <1>2, <1>3, <1>4, <1>5 DEF Recover, Advance, host
<1>7. range # {} => Max(range) = r.through
  <2> SUFFICES ASSUME range # {} PROVE Max(range) = r.through
    OBVIOUS
  <2>1. range \in SUBSET (1..r.through) /\ r.through \in range
    BY <1>2, <1>3
  <2>2. Max(range) \in range /\ \A y \in range : y <= Max(range)
    BY <1>2, <2>1, MaxUpTo
  <2> QED
    BY <1>2, <1>3, <2>1, <2>2
<1>8. \A k \in keys : k[1] \in range /\ k[2] = p
  BY <1>5 DEF Deliveries
<1>9. \/ relationship' = relationship
      \/ relationship' = [relationship EXCEPT ![p].after = 0, ![p].through = 0]
  BY <1>6, <1>7
<1>10. TablesOK /\ RangesOK
  BY DEF Base, LaneInv, DebtInv
<1>11. /\ SameRelationships
       /\ \A q \in Participants :
            /\ relationship'[q] \in Relationship
            /\ relationship'[q].detachedAt = relationship[q].detachedAt
            /\ relationship'[q].through \in {0, relationship[q].through}
            /\ relationship'[q].route = relationship[q].route
            /\ q # p => relationship'[q] = relationship[q]
  BY <1>9, <1>10 DEF TablesOK, RangesOK, Relationship, SameRelationships, Columns
<1>12. range # {} => relationship'[p].through = 0
  BY <1>6, <1>7, <1>10 DEF TablesOK, RangesOK, Relationship
<1>13. \A k \in keys : /\ k[1] \in 1..cursor /\ k[2] \in Participants
                        /\ relationship[k[2]].attached /\ relationship'[k[2]].through = 0
  BY <1>1, <1>2, <1>3, <1>8, <1>12
<1>14. ASSUME NEW q \in Participants, NEW e \in Owed(q),
              relationship[q].after < e, e <= relationship[q].through
       PROVE  Outstanding(q, e)'
  <2>1. CASE q # p
    BY <1>11, <1>14, <2>1 DEF Outstanding
  <2>2. CASE q = p
    <3>1. e \in range /\ log[e].type = "message" /\ p \in log[e].to
      BY <1>1, <1>2, <1>3, <1>14, <2>2 DEF Owed
    <3>2. PICK k : k = <<e, p, r.revision>>
      OBVIOUS
    <3>3. k \in Deliveries(log[e], e, {p})
      BY <1>1, <1>2, <3>1, <3>2 DEF Deliveries
    <3>4. k[1] = e /\ k[2] = p /\ k[3] = r.revision
      BY <3>2
    <3>5. k \in keys /\ k \notin DOMAIN mailbox
      BY <1>2, <1>5, <3>1, <3>3, <3>4
    <3>6. k \in DOMAIN mailbox' /\ mailbox'[k] = FreshRow
      BY <1>6, <3>5 DEF Insert
    <3>7. k \in LiveRows(p)'
      BY <3>4, <3>6 DEF LiveRows, FreshRow, LiveStates
    <3> QED
      BY <2>2, <3>4, <3>7 DEF Outstanding
  <2> QED
    BY <2>1, <2>2
<1> QED
  BY ZenonT(40), <1>6, <1>11, <1>13, <1>14, InsertKeeps

LEMMA RedeliverKeeps ==
  ASSUME Base, NEW p \in Participants, NEW e \in 1..cursor, Redeliver(p, e)
  PROVE  DebtInv'
<1>1. PICK keys : keys = Deliveries(log[e], e, {p})
  OBVIOUS
<1>2. \A k \in keys : k[1] = e /\ k[2] = p /\ relationship[p].attached
  BY <1>1 DEF Deliveries
<1>3. mailbox' = Rearm(keys) /\ UNCHANGED <<log, cursor, relationship, answered, held>>
  BY <1>1 DEF Redeliver, host
<1>4. relationship[p].through = 0
  BY DEF Redeliver, Recovering
<1>5. SameRelationships /\ \A q \in Participants : relationship[q] \in Relationship
  BY <1>3, UnchangedAreSame DEF Base, LaneInv, DebtInv, RangesOK
<1> QED
  BY <1>2, <1>3, <1>4, <1>5, InsertKeeps DEF Outstanding

(***************************************************************************)
(* The steps of the claims.                                                *)
(***************************************************************************)

\* The rows of k in S take a live state.
LEMMA ClosedLive ==
  ASSUME Base, NEW S, NEW state \in {"ready", "retrying"},
         \A k \in S \cap DOMAIN mailbox : mailbox[k].state \in LiveStates,
         mailbox' = Close(S, state)
  PROVE  /\ DOMAIN mailbox' = DOMAIN mailbox
         /\ \A k \in DOMAIN mailbox :
              mailbox'[k].state \in LiveStates <=> mailbox[k].state \in LiveStates
<1>1. \A k \in DOMAIN mailbox : mailbox[k] \in MailboxRow
  BY DEF Base, LaneInv, TablesOK
<1> QED
  BY <1>1, MovedType DEF Close, LiveStates

LEMMA KeptClaims ==
  ASSUME Base, UNCHANGED <<log, cursor>>, held' \subseteq held,
         \A p \in Participants : answered[p] \subseteq answered'[p]
  PROVE  ClaimsInOrder'
  BY SameClaims DEF ClaimsInOrder

\* Steps that change the state of rows among the live ones and answer nothing.
LEMMA LiveKeeps ==
  ASSUME Base, UNCHANGED <<log, cursor, relationship, answered>>, held' \subseteq held,
         DOMAIN mailbox' = DOMAIN mailbox,
         \A k \in DOMAIN mailbox :
           mailbox'[k].state \in LiveStates <=> mailbox[k].state \in LiveStates
  PROVE  DebtInv'
<1>1. AnsweredOK' /\ ClaimsInOrder'
  BY KeptClaims DEF Base, DebtInv, AnsweredOK
<1> QED
  BY <1>1, MoveKeeps

LEMMA ReleasedLive ==
  ASSUME Base
  PROVE  /\ DOMAIN Released = DOMAIN mailbox
         /\ \A k \in DOMAIN mailbox :
              Released[k].state \in LiveStates <=> mailbox[k].state \in LiveStates
<1>1. CASE worker = server
  BY <1>1 DEF Released
<1>2. CASE worker # server
  <2>1. PICK S : S = {k \in DOMAIN mailbox :
                        mailbox[k].state = "leased" /\ mailbox[k].owner = worker}
    OBVIOUS
  <2>2. Released = Close(S, "ready")
    BY <1>2, <2>1 DEF Released
  <2>3. \A k \in DOMAIN mailbox : Moved(mailbox[k], "ready").state = "ready"
    BY MovedType DEF Base, LaneInv, TablesOK, LiveStates
  <2> QED
    BY <2>1, <2>2, <2>3 DEF Close, LiveStates
<1> QED
  BY <1>1, <1>2

\* Of a claimed participant nothing earlier is owed: it would be remembered by
\* an earlier live row, which holds the claim back, or by a range, which no row
\* lives beside.
LEMMA ClaimedInOrder ==
  ASSUME Base, NEW k \in Due(Released)
  PROVE  k[2] \in Participants /\ SettledBefore(k[2], k[1])
<1>1. PICK p : p = k[2]
  OBVIOUS
<1>2. /\ k \in DOMAIN mailbox /\ Released[k].state = "ready"
      /\ relationship[p].active /\ relationship[p].attached
      /\ \A j \in DOMAIN mailbox : j[2] = p /\ j[1] < k[1] => mailbox[j].state \notin LiveStates
  BY <1>1, ReleasedLive DEF Due, Claimable
<1>3. p \in Participants /\ k[1] \in Nat /\ mailbox[k].state \in LiveStates /\ cursor \in Nat
  BY <1>1, <1>2, ReleasedLive DEF Base, LaneInv, TablesOK, DebtInv, RowsOK, LogOK, LiveStates
<1>4. relationship[p].through = 0
  BY <1>1, <1>2, <1>3 DEF Base, DebtInv, RangesOK
<1>5. ASSUME NEW d \in Owed(p), d < k[1], d \notin answered[p], ~Forgiven(p, d)
      PROVE  FALSE
  <2>1. Outstanding(p, d) /\ d \in 1..cursor
    BY <1>3, <1>5 DEF Unsettled, Base, DebtInv, NoDebtIsLost, Owed
  <2>2. PICK j \in LiveRows(p) : j[1] = d
    BY <1>2, <1>3, <1>4, <2>1 DEF Outstanding
  <2> QED
    BY <1>2, <1>5, <2>2 DEF LiveRows
<1> QED
  BY <1>1, <1>3, <1>5 DEF SettledBefore

LEMMA ClaimKeeps ==
  ASSUME Base, ClaimReadyWork
  PROVE  DebtInv'
<1> DEFINE claim(k) == [row |-> k, generation |-> mailbox'[k].generation, done |-> FALSE]
<1>1. \A k : claim(k).row = k /\ claim(k).done = FALSE
  OBVIOUS
<1>2. PICK S \in SUBSET Due(Released) :
        /\ mailbox' = [k \in DOMAIN mailbox |->
                         IF k \in S THEN Leased(Released[k], k[2]) ELSE Released[k]]
        /\ held' = held \cup {claim(k) : k \in S}
  BY DEF ClaimReadyWork
<1>3. UNCHANGED <<log, cursor, relationship, answered>>
  BY DEF ClaimReadyWork
<1> HIDE DEF claim
<1>4. \A k \in S : Released[k].state = "ready" /\ k \in DOMAIN Released
  BY DEF Due, Claimable
<1>5. \A k : Leased(Released[k], k[2]).state = "leased"
  BY DEF Leased
<1>6. /\ DOMAIN mailbox' = DOMAIN mailbox
      /\ \A k \in DOMAIN mailbox :
           mailbox'[k].state \in LiveStates <=> mailbox[k].state \in LiveStates
  BY <1>2, <1>4, <1>5, ReleasedLive DEF LiveStates
<1>7. AnsweredOK' /\ \A p \in Participants : answered[p] \subseteq answered'[p]
  BY <1>3 DEF Base, DebtInv, AnsweredOK
<1>8. ASSUME NEW c \in held'
      PROVE  /\ c.done => c.row[1] \in answered'[c.row[2]]
             /\ SettledBefore(c.row[2], c.row[1])'
  <2>1. CASE c \in held
    BY <1>3, <1>7, <2>1, SameClaims
  <2>2. CASE c \notin held
    <3>1. PICK k \in S : c = claim(k)
      BY <1>2, <1>8, <2>2
    <3>2. c.row = k /\ c.done = FALSE
      BY <1>1, <3>1
    <3>3. k[2] \in Participants /\ SettledBefore(k[2], k[1])
      BY ClaimedInOrder
    <3>4. SettledBefore(k[2], k[1])'
      BY <1>3, <3>3, SameLog DEF SettledBefore
    <3> QED
      BY <3>2, <3>4
  <2> QED
    BY <2>1, <2>2
<1>9. ClaimsInOrder'
  BY <1>8 DEF ClaimsInOrder
<1> QED
  BY <1>3, <1>6, <1>7, <1>9, MoveKeeps

\* An answer, or a refusal, comes after all that was owed before it.
LEMMA AnswersInOrder ==
  ASSUME Base, NEW c \in held,
         answered' = [answered EXCEPT ![c.row[2]] = @ \cup {c.row[1]}]
  PROVE  /\ AnsweredOK'
         /\ c.row[2] \in Participants /\ c.row[1] \in answered'[c.row[2]]
         /\ \A p \in Participants :
              /\ answered[p] \subseteq answered'[p]
              /\ \A e \in answered'[p] \ answered[p] : SettledBefore(p, e)
<1>1. c.row[2] \in Participants /\ SettledBefore(c.row[2], c.row[1])
  BY DEF Base, LaneInv, ClaimsOK, Claims, TablesOK, DebtInv, ClaimsInOrder
<1>2. answered = [p \in Participants |-> answered[p]]
  BY DEF Base, DebtInv, AnsweredOK
<1>3. answered' = [p \in Participants |->
                    IF p = c.row[2] THEN answered[p] \cup {c.row[1]} ELSE answered[p]]
  BY <1>2
<1>4. AnsweredOK'
  BY <1>3 DEF AnsweredOK
<1> QED
  BY <1>1, <1>3, <1>4

LEMMA AnswerKeeps ==
  ASSUME Base, NEW c \in held, Answer(c)
  PROVE  DebtInv'
<1> DEFINE d == [c EXCEPT !.done = TRUE]
<1>1. /\ held' = (held \ {c}) \cup {d} /\ UNCHANGED <<log, cursor, relationship, mailbox>>
      /\ answered' = [answered EXCEPT ![c.row[2]] = @ \cup {c.row[1]}]
  BY DEF Answer, projection
<1>2. d.row = c.row
  BY DEF Base, LaneInv, ClaimsOK, Claims
<1> HIDE DEF d
<1>3. /\ AnsweredOK' /\ c.row[1] \in answered'[c.row[2]]
      /\ \A p \in Participants : answered[p] \subseteq answered'[p]
  BY <1>1, AnswersInOrder
<1>4. ClaimsInOrder'
  <2> SUFFICES ASSUME NEW x \in held'
               PROVE  /\ x.done => x.row[1] \in answered'[x.row[2]]
                      /\ SettledBefore(x.row[2], x.row[1])'
    BY DEF ClaimsInOrder
  <2>1. CASE x \in held
    BY <1>1, <1>3, <2>1, SameClaims
  <2>2. CASE x = d
    BY <1>1, <1>2, <1>3, <2>2, SameClaims
  <2> QED
    BY <1>1, <2>1, <2>2
<1> QED
  BY <1>1, <1>3, <1>4, MoveKeeps

\* A report that closes a row for good closes an answered one.
LEMMA ClosedKeeps ==
  ASSUME Base, NEW c \in held, UNCHANGED <<log, cursor, relationship>>,
         held' \subseteq held, AnsweredOK',
         \A p \in Participants : answered[p] \subseteq answered'[p],
         mailbox' = IF Current(c) THEN Close({c.row}, "terminal") ELSE mailbox,
         Current(c) => c.row[1] \in answered'[c.row[2]]
  PROVE  DebtInv'
<1>1. c.row \in DOMAIN mailbox /\ mailbox[c.row] \in MailboxRow
  BY DEF Base, LaneInv, TablesOK, ClaimsOK, Claims
<1>2. Moved(mailbox[c.row], "terminal").state \notin LiveStates
  BY <1>1, MovedType DEF LiveStates
<1>3. /\ DOMAIN mailbox' = DOMAIN mailbox
      /\ \A k \in DOMAIN mailbox : k # c.row => mailbox'[k] = mailbox[k]
      /\ mailbox'[c.row] = mailbox[c.row] \/
           (Current(c) /\ mailbox'[c.row] = Moved(mailbox[c.row], "terminal"))
  BY <1>1 DEF Close
<1>4. ClaimsInOrder'
  BY KeptClaims
<1> QED
  BY <1>1, <1>2, <1>3, <1>4, MoveKeeps

LEMMA GivenBackKeeps ==
  ASSUME Base, NEW c \in held, NEW state \in {"ready", "retrying"},
         UNCHANGED <<log, cursor, relationship, answered>>, held' \subseteq held,
         mailbox' = mailbox \/ (Current(c) /\ mailbox' = Close({c.row}, state))
  PROVE  DebtInv'
<1>1. CASE mailbox' = mailbox
  BY <1>1, LiveKeeps
<1>2. CASE Current(c) /\ mailbox' = Close({c.row}, state)
  <2>1. mailbox[c.row].state \in LiveStates
    BY <1>2 DEF Current, LiveStates
  <2> QED
    BY <1>2, <2>1, ClosedLive, LiveKeeps
<1> QED
  BY <1>1, <1>2

LEMMA SettleKeeps ==
  ASSUME Base, NEW c \in held, SettleReadyWork(c)
  PROVE  DebtInv'
<1>1. /\ UNCHANGED <<log, cursor, relationship, answered>> /\ held' \subseteq held /\ c.done
      /\ mailbox' = IF Current(c) THEN Close({c.row}, "terminal") ELSE mailbox
  BY DEF SettleReadyWork, Report
<1>2. c.row[1] \in answered'[c.row[2]] /\ AnsweredOK'
  BY <1>1 DEF Base, DebtInv, ClaimsInOrder, AnsweredOK
<1> QED
  BY <1>1, <1>2, ClosedKeeps

LEMMA FailPermanentlyKeeps ==
  ASSUME Base, NEW c \in held, FailPermanently(c)
  PROVE  DebtInv'
<1>1. /\ UNCHANGED <<log, cursor, relationship>> /\ held' \subseteq held
      /\ mailbox' = IF Current(c) THEN Close({c.row}, "terminal") ELSE mailbox
      /\ answered' = IF Current(c) THEN [answered EXCEPT ![c.row[2]] = @ \cup {c.row[1]}]
                     ELSE answered
  BY DEF FailPermanently
<1>2. /\ AnsweredOK' /\ \A p \in Participants : answered[p] \subseteq answered'[p]
      /\ Current(c) => c.row[1] \in answered'[c.row[2]]
  <2>1. CASE Current(c)
    BY <1>1, <2>1, AnswersInOrder
  <2>2. CASE ~Current(c)
    BY <1>1, <2>2 DEF Base, DebtInv, AnsweredOK
  <2> QED
    BY <2>1, <2>2
<1> QED
  BY <1>1, <1>2, ClosedKeeps

LEMMA FailUnavailableKeeps ==
  ASSUME Base, NEW c \in held, FailUnavailable(c)
  PROVE  DebtInv'
<1>1. c.row \in DOMAIN mailbox /\ c.row[2] \in Participants
  BY DEF Base, LaneInv, ClaimsOK, Claims, TablesOK
<1>2. held' \subseteq held /\ UNCHANGED answered
  BY DEF FailUnavailable
<1>3. CASE ~Current(c)
  BY <1>2, <1>3, GivenBackKeeps DEF FailUnavailable, projection
<1>4. CASE Current(c) /\ mailbox[c.row].claimedRevision # relationship[c.row[2]].revision
  BY <1>2, <1>4, GivenBackKeeps DEF FailUnavailable
<1>5. CASE Current(c) /\ mailbox[c.row].claimedRevision = relationship[c.row[2]].revision
  <2>1. DetachAfter(c.row[2], c.row[1] - 1)
    BY <1>5 DEF FailUnavailable
  <2>2. relationship[c.row[2]].attached
    BY <1>1, <1>5 DEF Current, Base, LaneInv, TablesOK
  <2>3. c.row[1] - 1 \in Nat /\ c.row[1] - 1 <= cursor
    BY <1>1 DEF Base, DebtInv, RowsOK, LogOK
  <2> QED
    BY <1>1, <1>2, <2>1, <2>2, <2>3, DetachedKeeps
<1> QED
  BY <1>3, <1>4, <1>5

LEMMA OutcomeKeeps ==
  ASSUME Base, NEW c \in held, Outcome(c)
  PROVE  DebtInv'
<1>1. CASE FailReadyWork(c)
  BY <1>1, GivenBackKeeps DEF FailReadyWork, Report
<1> QED
  BY <1>1, AnswerKeeps, SettleKeeps, FailPermanentlyKeeps, FailUnavailableKeeps DEF Outcome

(***************************************************************************)
(* Every step keeps the invariant.                                         *)
(***************************************************************************)

LEMMA ContinueJoinKeeps ==
  ASSUME Base, NEW p \in Participants, ContinueJoin(p)
  PROVE  DebtInv'
<1>1. CASE RearmRetrying(p)
  <2>1. PICK S : S = {k \in LiveRows(p) : mailbox[k].state = "retrying"}
    OBVIOUS
  <2>2. /\ mailbox' = Close(S, "ready") /\ \A k \in S : mailbox[k].state \in LiveStates
        /\ UNCHANGED <<log, cursor, relationship, answered, held>>
    BY <1>1, <2>1 DEF RearmRetrying, host, LiveStates
  <2> QED
    BY <2>2, ClosedLive, LiveKeeps
<1>2. CASE EndJoin(p)
  BY <1>2, LiveKeeps DEF EndJoin, projection, host
<1> QED
  BY <1>1, <1>2, RecoverKeeps, RedeliverKeeps DEF ContinueJoin

LEMMA JoinKeeps ==
  ASSUME Base, NEW p \in Participants, NEW route \in Routes, Join(p, route)
  PROVE  DebtInv'
<1>1. UNCHANGED <<answered, held>>
  BY DEF Join, host
<1>2. CASE relationship[p].attached /\ relationship[p].route = route
  BY <1>1, <1>2, LiveKeeps DEF Join, projection
<1>3. CASE ~(relationship[p].attached /\ relationship[p].route = route)
  BY <1>1, <1>3, JoinedKeeps DEF Join
<1> QED
  BY <1>2, <1>3

LEMMA RequestsKeep ==
  ASSUME Base, Requests
  PROVE  DebtInv'
<1>1. ASSUME NEW p \in Participants, Revise(p)
      PROVE  DebtInv'
  BY <1>1, RouteIsKnown, JoinedKeeps DEF Revise, host
<1>2. ASSUME NEW p \in Participants, Detach(p)
      PROVE  DebtInv'
  <2>1. relationship[p].attached /\ DetachAfter(p, cursor) /\ UNCHANGED <<answered, held>>
    BY <1>2 DEF Detach, host
  <2>2. cursor \in Nat /\ cursor <= cursor
    BY DEF Base, DebtInv, LogOK
  <2> QED
    BY <2>1, <2>2, DetachedKeeps
<1>3. ASSUME Alarm
      PROVE  DebtInv'
  <2>1. PICK k \in DOMAIN mailbox :
          /\ mailbox[k].state = "retrying" /\ mailbox' = Close({k}, "ready")
          /\ UNCHANGED <<log, cursor, relationship, answered, held>>
    BY <1>3 DEF Alarm, host
  <2>2. mailbox[k].state \in LiveStates
    BY <2>1 DEF LiveStates
  <2> QED
    BY <2>1, <2>2, ClosedLive, LiveKeeps
<1> QED
  BY <1>1, <1>2, <1>3, PublishKeeps, JoinKeeps, LeaveKeeps, ContinueJoinKeeps DEF Requests

LEMMA InitDebt == Init => DebtInv
<1> SUFFICES ASSUME Init PROVE DebtInv
  OBVIOUS
<1> USE DEF Init
<1>1. LogOK
  BY DEF LogOK
<1>2. \A p \in Participants : LastFact(p, 0) = 0
  BY DEF LastFact
<1>3. \A p \in Participants : Follows(p)
  BY <1>2 DEF Follows, Absent
<1>4. RowsOK
  BY DEF RowsOK
<1>5. RangesOK
  BY DEF RangesOK, Absent, Relationship
<1>6. AnsweredOK
  BY DEF AnsweredOK
<1>7. ClaimsInOrder
  BY DEF ClaimsInOrder
<1>8. NoDebtIsLost
  BY DEF NoDebtIsLost, Unsettled, Owed
<1> QED
  BY <1>1, <1>3, <1>4, <1>5, <1>6, <1>7, <1>8 DEF DebtInv

LEMMA NextDebt ==
  ASSUME Base, [Next]_vars
  PROVE  DebtInv'
<1>1. CASE Restart
  <2>1. UNCHANGED <<log, cursor, relationship, mailbox, answered>> /\ held' \subseteq held
    BY <1>1 DEF Restart, projection
  <2> QED
    BY <2>1, LiveKeeps
<1>2. CASE Adopt
  <2>1. mailbox' = Released /\ UNCHANGED <<log, cursor, relationship, answered, held>>
    BY <1>2 DEF Adopt
  <2> QED
    BY <2>1, ReleasedLive, LiveKeeps
<1>3. CASE UNCHANGED vars
  BY <1>3, LiveKeeps DEF vars, projection, host
<1> QED
  BY <1>1, <1>2, <1>3, RequestsKeep, ClaimKeeps, OutcomeKeeps DEF Next, Requests

LEMMA DebtInvariant == Spec => []Base
<1>1. Init => Base
  BY InitInv, InitDebt DEF Base
<1>2. Base /\ [Next]_vars => Base'
  BY NextInv, NextDebt DEF Base
<1> QED
  BY <1>1, <1>2, PTL DEF Spec

\* A message that falls into a participant's relationship is answered, or a row
\* or a range still remembers it, through any detachments, reattachments,
\* changes of address, redeliveries and restarts (foldRelationship,
\* detachRecoveryBoundary, advanceReattachBackfill, closeLiveRows), as long as
\* a range is recovered in one piece.
THEOREM DebtsAreKept == Spec => []NoDebtIsLost
<1>1. Base => NoDebtIsLost
  BY DEF Base, DebtInv
<1> QED
  BY <1>1, DebtInvariant, PTL

OrderStep ==
  \A p \in Participants : \A e \in answered'[p] \ answered[p] :
    \A d \in Owed(p) : d < e => d \in answered[p] \/ Forgiven(p, d)

LEMMA NextOrder ==
  ASSUME Base, [Next]_vars
  PROVE  OrderStep \/ UNCHANGED answered
<1>1. ASSUME NEW c \in held,
             answered' = [answered EXCEPT ![c.row[2]] = @ \cup {c.row[1]}]
      PROVE  OrderStep
  BY <1>1, AnswersInOrder DEF OrderStep, SettledBefore
<1>2. ASSUME NEW c \in held, Outcome(c)
      PROVE  \/ answered' = [answered EXCEPT ![c.row[2]] = @ \cup {c.row[1]}]
             \/ UNCHANGED answered
  BY <1>2 DEF Outcome, Answer, SettleReadyWork, FailPermanently, FailReadyWork,
     FailUnavailable, Report
<1>3. \/ \E c \in held : Outcome(c)
      \/ UNCHANGED answered
  BY DEF Next, vars, host, Publish, Join, Revise, Leave, Detach, ContinueJoin, Recover,
     RearmRetrying, EndJoin, Redeliver, Alarm, ClaimReadyWork, Restart, Adopt
<1> QED
  BY <1>1, <1>2, <1>3

\* A recipient answers in the order of the log: nothing is answered while an
\* earlier message it is owed is neither answered nor forgiven (claimReadyWork).
THEOREM AnswersAreInOrder == Spec => InOrder
<1>1. Base /\ [Next]_vars => OrderStep \/ UNCHANGED answered
  BY NextOrder
<1>2. (OrderStep \/ UNCHANGED answered) =>
        [\A p \in Participants : \A e \in answered'[p] \ answered[p] :
           \A d \in Owed(p) : d < e => d \in answered[p] \/ Forgiven(p, d)]_answered
  BY DEF OrderStep
<1> QED
  BY <1>1, <1>2, DebtInvariant, PTL DEF Spec, InOrder

(***************************************************************************)
(* How often a row may be claimed.                                         *)
(***************************************************************************)

\* A row is given back for another claim by a report, while it has been claimed
\* fewer than MaxClaims times, or by the adoption of another worker generation.
Worn(row, w) ==
  /\ row.owner # 0 <=> row.state = "leased"
  /\ IF row.state \in {"ready", "retrying"} THEN row.generation + 2 <= MaxClaims + w
     ELSE row.generation + 1 <= MaxClaims + w

CountsOK ==
  /\ 1 <= worker /\ server <= MaxServers
  /\ \A k \in DOMAIN mailbox : Worn(mailbox[k], worker)
  /\ joining = [p \in Participants |-> joining[p]]
  /\ \A p \in Participants : joining[p] \in {NotJoining} \cup 0..cursor

\* A row is new, closed for good, due for its retry, or as it was.
Wears(k) ==
  \/ mailbox'[k] = FreshRow
  \/ /\ k \in DOMAIN mailbox
     /\ \/ mailbox'[k] = mailbox[k]
        \/ mailbox'[k] = Moved(mailbox[k], "terminal")
        \/ mailbox[k].state = "retrying" /\ mailbox'[k] = Moved(mailbox[k], "ready")

RowsWear == \A k \in DOMAIN mailbox' : Wears(k)

JoinsOK ==
  /\ joining' = [p \in Participants |-> joining'[p]]
  /\ \A p \in Participants : joining'[p] \in {NotJoining} \cup 0..cursor'

LEMMA MovedWorn ==
  ASSUME NEW row \in MailboxRow, NEW w \in Nat, Worn(row, w)
  PROVE  /\ Worn(Moved(row, "terminal"), w)
         /\ row.state = "retrying" => Worn(Moved(row, "ready"), w)
         /\ \A s \in {"ready", "retrying"} :
              w >= 1 /\ row.generation < MaxClaims => Worn(Moved(row, s), w)
         /\ \A v \in Nat : v > w => Worn(Moved(row, "ready"), v)
         /\ \A v \in Nat : v >= w => Worn(row, v)
<1>1. PICK g \in Nat : row.generation = g
  BY DEF MailboxRow
<1>2. \A s : /\ Moved(row, s).state = s
             /\ Moved(row, s).owner = 0
             /\ Moved(row, s).generation = g
  BY <1>1 DEF Moved, MailboxRow
<1>3. g + 1 <= MaxClaims + w
  BY <1>1, LanesAssumption DEF Worn
<1> QED
  BY <1>1, <1>2, <1>3, LanesAssumption DEF Worn

LEMMA FreshWorn ==
  ASSUME NEW w \in Nat, w >= 1
  PROVE  Worn(FreshRow, w)
  BY LanesAssumption DEF Worn, FreshRow

LEMMA NewRowsWear ==
  ASSUME NEW keys, mailbox' = Insert(keys) \/ mailbox' = Rearm(keys)
  PROVE  RowsWear
  BY DEF RowsWear, Wears, Insert, Rearm

LEMMA ClosedRowsWear ==
  ASSUME NEW S, NEW s, mailbox' = Close(S, s),
         s = "terminal" \/ (s = "ready" /\ \A k \in S : mailbox[k].state = "retrying")
  PROVE  RowsWear
  BY DEF RowsWear, Wears, Close

LEMMA FoldWears ==
  ASSUME NEW f, NEW e, IsFact(f), Fold(f, e)
  PROVE  RowsWear
<1>1. CASE mailbox' = Insert(Deliveries(f, e, Participants))
  BY <1>1, NewRowsWear
<1>2. CASE mailbox' = FoldedMailbox(f)
  <2>1. mailbox' = mailbox \/ mailbox' = Close(LiveRows(f.who), "terminal")
           \/ f.type = "message"
    BY <1>2 DEF FoldedMailbox, IsFact
  <2> QED
    BY <2>1, <1>1, ClosedRowsWear DEF RowsWear, Wears, Fold
<1>3. CASE mailbox' = mailbox
  BY <1>3 DEF RowsWear, Wears
<1> QED
  BY <1>1, <1>2, <1>3 DEF Fold

\* What requests and the alarm leave of the counts.
LEMMA CalmCounts ==
  ASSUME Base, CountsOK, RowsWear, JoinsOK, UNCHANGED <<server, worker>>
  PROVE  CountsOK'
<1>1. worker \in Nat /\ 1 <= worker
  BY DEF Base, LaneInv, OwnersOK, CountsOK
<1>2. ASSUME NEW k \in DOMAIN mailbox'
      PROVE  Worn(mailbox'[k], worker)
  <2>1. k \in DOMAIN mailbox => mailbox[k] \in MailboxRow /\ Worn(mailbox[k], worker)
    BY DEF Base, LaneInv, TablesOK, CountsOK
  <2> QED
    BY <1>1, <2>1, MovedWorn, FreshWorn DEF RowsWear, Wears
<1> QED
  BY <1>2 DEF CountsOK, JoinsOK, Worn

LEMMA LaterCursor ==
  ASSUME Base, Base', CountsOK,
         UNCHANGED cursor \/ \E f : log' = Append(log, f)
  PROVE  \A p \in Participants : joining[p] \in {NotJoining} \cup 0..cursor'
<1>1. PICK n \in Nat, m \in Nat : n = cursor /\ m = cursor' /\ n <= m
  BY DEF Base, DebtInv, LogOK
<1> QED
  BY <1>1 DEF CountsOK

LEMMA RequestCounts ==
  ASSUME Base, Base', CountsOK, Requests
  PROVE  CountsOK'
<1>1. UNCHANGED <<server, worker>>
  BY RequestsAreCalm DEF Base, LaneInv
<1>2. UNCHANGED cursor \/ \E f : log' = Append(log, f)
  BY DEF Requests, Publish, Join, Revise, Leave, Detach, ContinueJoin, Recover,
     RearmRetrying, EndJoin, Redeliver, Alarm, DetachAfter, AppendAndFold, projection,
     Advance
<1>3. \A p \in Participants : joining[p] \in {NotJoining} \cup 0..cursor'
  BY <1>2, LaterCursor
<1>4. cursor' \in Nat
  BY DEF Base, DebtInv, LogOK
<1>5. JoinsOK
  <2>1. CASE UNCHANGED joining
    BY <1>3, <2>1 DEF JoinsOK, CountsOK
  <2>2. ASSUME NEW p \in Participants, NEW e \in {NotJoining} \cup 0..cursor',
               joining' = [joining EXCEPT ![p] = e]
        PROVE  JoinsOK
    BY <1>3, <2>2 DEF JoinsOK, CountsOK
  <2>3. ASSUME NEW p \in Participants, NEW e \in 1..cursor, Redeliver(p, e)
        PROVE  JoinsOK
    <3>1. e \in 0..cursor' /\ joining' = [joining EXCEPT ![p] = e]
      BY <2>3 DEF Redeliver, Base, DebtInv, LogOK
    <3> QED BY <2>2, <3>1
  <2>4. ASSUME NEW p \in Participants,
               Revise(p) \/ EndJoin(p) \/ \E route \in Routes : Join(p, route)
        PROVE  JoinsOK
    <3>1. 0 \in 0..cursor'
      BY <1>4
    <3>2. \E e \in {NotJoining, 0} : joining' = [joining EXCEPT ![p] = e]
      BY <2>4 DEF Revise, EndJoin, Join
    <3> QED BY <2>2, <3>1, <3>2
  <2>5. CASE \/ \E S \in (SUBSET Participants) \ {{}} : Publish(S)
             \/ \E p \in Participants :
                  Leave(p) \/ Detach(p) \/ Recover(p) \/ RearmRetrying(p)
             \/ Alarm
    BY <2>1, <2>5 DEF Publish, Leave, Detach, Recover, RearmRetrying, Alarm, joins
  <2> QED
    BY <2>3, <2>4, <2>5 DEF Requests, ContinueJoin
<1>6. RowsWear
  <2>1. ASSUME NEW f, IsFact(f), AppendAndFold(f)
        PROVE  RowsWear
    BY <2>1, FoldWears DEF AppendAndFold
  <2>2. CASE UNCHANGED mailbox
    BY <2>2 DEF RowsWear, Wears
  <2>3. ASSUME NEW S \in SUBSET Participants, Publish(S)
        PROVE  RowsWear
    BY <2>1, <2>3, MessageIsFact DEF Publish
  <2>4. ASSUME NEW p \in Participants,
               \/ \E route \in Routes : Join(p, route)
               \/ Revise(p) \/ Leave(p) \/ Detach(p)
        PROVE  RowsWear
    <3>1. UNCHANGED mailbox \/ \E f : IsFact(f) /\ AppendAndFold(f)
      BY <2>4, FactsAreFacts DEF Join, Revise, Leave, Detach, DetachAfter, projection
    <3> QED BY <2>1, <2>2, <3>1
  <2>5. ASSUME NEW p \in Participants, ContinueJoin(p)
        PROVE  RowsWear
    <3>1. CASE Recover(p)
      BY <3>1, NewRowsWear DEF Recover, Advance
    <3>2. CASE RearmRetrying(p)
      BY <3>2, ClosedRowsWear DEF RearmRetrying
    <3>3. CASE EndJoin(p)
      BY <2>2, <3>3 DEF EndJoin, projection
    <3>4. ASSUME NEW e, Redeliver(p, e) PROVE RowsWear
      BY <3>4, NewRowsWear DEF Redeliver
    <3> QED BY <2>5, <3>1, <3>2, <3>3, <3>4 DEF ContinueJoin
  <2>6. CASE Alarm
    BY <2>6, ClosedRowsWear DEF Alarm
  <2> QED
    BY <2>3, <2>4, <2>5, <2>6 DEF Requests
<1> QED
  BY <1>1, <1>5, <1>6, CalmCounts

\* Another worker generation takes over what the adopted one had leased.
LEMMA ReleasedWorn ==
  ASSUME Base, CountsOK
  PROVE  /\ DOMAIN Released = DOMAIN mailbox
         /\ \A k \in DOMAIN mailbox : Worn(Released[k], server)
<1>1. worker \in Nat /\ server \in Nat /\ worker <= server
  BY DEF Base, LaneInv, OwnersOK
<1>2. \A k \in DOMAIN mailbox : mailbox[k] \in MailboxRow /\ Worn(mailbox[k], worker)
  BY DEF Base, LaneInv, TablesOK, CountsOK
<1>3. CASE worker = server
  BY <1>2, <1>3 DEF Released
<1>4. CASE worker # server
  <2>1. DOMAIN Released = DOMAIN mailbox
    BY DEF Released, Close
  <2>2. \A k \in DOMAIN mailbox :
          Released[k] = mailbox[k] \/ Released[k] = Moved(mailbox[k], "ready")
    BY DEF Released, Close
  <2>3. worker < server
    BY <1>1, <1>4
  <2>4. \A k \in DOMAIN mailbox :
          Worn(mailbox[k], server) /\ Worn(Moved(mailbox[k], "ready"), server)
    BY <1>1, <1>2, <2>3, MovedWorn
  <2> QED BY <2>1, <2>2, <2>4
<1> QED BY <1>3, <1>4

LEMMA ClaimCounts ==
  ASSUME Base, CountsOK, ClaimReadyWork
  PROVE  CountsOK'
<1>1. worker \in Nat /\ server \in Nat /\ worker <= server /\ 1 <= worker
  BY DEF Base, LaneInv, OwnersOK, CountsOK
<1>2. PICK S \in SUBSET Due(Released) :
        mailbox' = [k \in DOMAIN mailbox |->
                      IF k \in S THEN Leased(Released[k], k[2]) ELSE Released[k]]
  BY DEF ClaimReadyWork
<1>3. ASSUME NEW k \in DOMAIN mailbox
      PROVE  Worn(mailbox'[k], server)
  <2>1. Released[k] \in MailboxRow /\ Worn(Released[k], server)
    BY ReleasedRows, ReleasedWorn DEF Base
  <2>2. CASE k \in S
    <3>1. PICK row \in MailboxRow : row = Released[k]
      BY <2>1
    <3>2. row.state = "ready"
      BY <2>2, <3>1 DEF Due
    <3>3. PICK g \in Nat : g = row.generation
      BY DEF MailboxRow
    <3>4. g + 2 <= MaxClaims + server
      BY <2>1, <3>1, <3>2, <3>3 DEF Worn
    <3>5. PICK new : new = mailbox'[k]
      OBVIOUS
    <3>6. new.state = "leased" /\ new.owner = server /\ new.generation = g + 1
      BY <1>2, <2>2, <3>1, <3>3, <3>5 DEF Leased
    <3>7. Worn(new, server)
      BY <1>1, <3>4, <3>6, LanesAssumption DEF Worn
    <3> QED BY <3>5, <3>7
  <2>3. CASE k \notin S
    BY <1>2, <2>1, <2>3
  <2> QED BY <2>2, <2>3
<1>4. DOMAIN mailbox' = DOMAIN mailbox
  BY <1>2
<1>5. worker' = server /\ UNCHANGED <<server, cursor, joining>>
  BY DEF ClaimReadyWork, joins
<1> QED
  BY <1>1, <1>3, <1>4, <1>5 DEF CountsOK, Worn

LEMMA AdoptCounts ==
  ASSUME Base, CountsOK, Adopt
  PROVE  CountsOK'
<1>1. worker \in Nat /\ server \in Nat /\ worker <= server /\ 1 <= worker
  BY DEF Base, LaneInv, OwnersOK, CountsOK
<1>2. /\ mailbox' = Released /\ worker' = server /\ UNCHANGED <<server, cursor, joining>>
  BY DEF Adopt, joins
<1> QED
  BY <1>1, <1>2, ReleasedWorn DEF CountsOK, Worn

\* A report moves the row of its claim, or no row.
LEMMA OutcomeCounts ==
  ASSUME Base, Base', CountsOK, NEW c \in held, Outcome(c)
  PROVE  CountsOK'
<1>1. worker \in Nat /\ server \in Nat /\ worker <= server /\ 1 <= worker
  BY DEF Base, LaneInv, OwnersOK, CountsOK
<1>2. UNCHANGED <<joining, server, worker>>
  BY DEF Outcome, Answer, SettleReadyWork, FailPermanently, FailReadyWork,
     FailUnavailable, Report, joins
<1>3. UNCHANGED cursor \/ \E f : log' = Append(log, f)
  BY DEF Outcome, Answer, SettleReadyWork, FailPermanently, FailReadyWork,
     FailUnavailable, Report, DetachAfter, AppendAndFold, projection
<1>4. JoinsOK
  BY <1>2, <1>3, LaterCursor DEF JoinsOK, CountsOK
<1>5. c.row \in DOMAIN mailbox
  BY DEF Base, LaneInv, ClaimsOK, Claims
<1>6. ASSUME NEW s \in {"ready", "retrying"}, Current(c), c.generation < MaxClaims,
             mailbox' = Close({c.row}, s)
      PROVE  CountsOK'
  <2>1. ASSUME NEW k \in DOMAIN mailbox'
        PROVE  Worn(mailbox'[k], worker)
    <3>1. k \in DOMAIN mailbox /\ mailbox[k] \in MailboxRow /\ Worn(mailbox[k], worker)
      BY <1>6 DEF Base, LaneInv, TablesOK, CountsOK, Close
    <3>2. CASE k = c.row
      <4>1. mailbox'[k] = Moved(mailbox[k], s) /\ mailbox[k].generation < MaxClaims
        BY <1>6, <3>1, <3>2 DEF Close, Current
      <4> QED BY <1>1, <3>1, <4>1, MovedWorn
    <3>3. CASE k # c.row
      BY <1>6, <3>1, <3>3 DEF Close
    <3> QED BY <3>2, <3>3
  <2> QED BY <1>2, <1>4, <2>1 DEF CountsOK, JoinsOK, Worn
<1>7. ASSUME RowsWear PROVE CountsOK'
  BY <1>2, <1>4, <1>7, CalmCounts
<1>8. CASE UNCHANGED mailbox
  BY <1>7, <1>8 DEF RowsWear, Wears
<1>9. CASE Answer(c)
  BY <1>8, <1>9 DEF Answer, projection
<1>10. CASE SettleReadyWork(c) \/ FailPermanently(c)
  <2>1. UNCHANGED mailbox \/ mailbox' = Close({c.row}, "terminal")
    BY <1>10 DEF SettleReadyWork, FailPermanently, Report
  <2> QED BY <1>7, <1>8, <2>1, ClosedRowsWear
<1>11. CASE FailReadyWork(c)
  BY <1>6, <1>8, <1>11 DEF FailReadyWork, Report
<1>12. CASE FailUnavailable(c)
  <2>1. PICK p : p = c.row[2]
    OBVIOUS
  <2>2. p \in Participants
    BY <1>5, <2>1 DEF Base, LaneInv, TablesOK
  <2>3. CASE DetachAfter(p, c.row[1] - 1)
    BY <1>7, <2>2, <2>3, FoldWears, FactsAreFacts DEF DetachAfter, AppendAndFold
  <2>4. CASE /\ Current(c) /\ c.generation < MaxClaims
             /\ mailbox' = Close({c.row}, "ready")
    BY <1>6, <2>4
  <2>5. CASE UNCHANGED mailbox
    BY <1>8, <2>5
  <2> QED
    BY <1>12, <2>1, <2>3, <2>4, <2>5 DEF FailUnavailable, projection
<1> QED
  BY <1>9, <1>10, <1>11, <1>12 DEF Outcome

LEMMA NextCounts ==
  ASSUME Base, CountsOK, [Next]_vars
  PROVE  CountsOK'
<1>1. Base'
  BY NextInv, NextDebt DEF Base
<1>2. CASE Requests
  BY <1>1, <1>2, RequestCounts
<1>3. CASE Restart
  <2>1. /\ server' = server + 1 /\ server < MaxServers
        /\ joining' = [p \in Participants |-> NotJoining]
        /\ UNCHANGED <<mailbox, worker, cursor>>
    BY <1>3 DEF Restart, projection
  <2>2. server \in Nat
    BY DEF Base, LaneInv, OwnersOK
  <2> QED BY <2>1, <2>2, LanesAssumption DEF CountsOK, Worn
<1>4. CASE UNCHANGED vars
  BY <1>4 DEF vars, projection, joins, host, CountsOK, Worn
<1> QED
  BY <1>1, <1>2, <1>3, <1>4, ClaimCounts, AdoptCounts, OutcomeCounts DEF Next, Requests

\* The fold keeps up with the log, only leased rows have an owner, and a row is
\* claimed again only as often as reports fail and servers are replaced.
THEOREM ClaimsAreBounded == Spec => []TypeOK
<1>1. Init => CountsOK
  BY LanesAssumption DEF Init, CountsOK
<1>2. Base /\ CountsOK /\ [Next]_vars => CountsOK'
  BY NextCounts
<1>3. Base /\ CountsOK => TypeOK
  <2> SUFFICES ASSUME Base, CountsOK PROVE TypeOK
    OBVIOUS
  <2>1. worker \in Nat /\ server \in Nat /\ worker <= server
    BY DEF Base, LaneInv, OwnersOK
  <2>2. cursor = Len(log)
    BY DEF Base, DebtInv, LogOK
  <2>3. ASSUME NEW k \in DOMAIN mailbox
        PROVE  /\ mailbox[k].owner # 0 <=> mailbox[k].state = "leased"
               /\ mailbox[k].generation \in 0 .. MaxClaims + MaxServers
    <3>1. PICK g \in Nat : g = mailbox[k].generation
      BY DEF Base, LaneInv, TablesOK, MailboxRow
    <3>2. Worn(mailbox[k], worker)
      BY DEF CountsOK
    <3>3. g + 1 <= MaxClaims + worker
      BY <2>1, <3>1, <3>2, LanesAssumption DEF Worn
    <3> QED BY <2>1, <3>1, <3>2, <3>3, LanesAssumption DEF Worn, CountsOK
  <2> QED BY <2>1, <2>2, <2>3 DEF TypeOK, CountsOK
<1> QED BY <1>1, <1>2, <1>3, DebtInvariant, PTL DEF Spec
=============================================================================
