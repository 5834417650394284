-------------------------- MODULE ChannelProjection --------------------------
(***************************************************************************)
(* The delivery projection of one channel: delivery-projection.ts of       *)
(* src/workers/pubsub-channel.                                             *)
(*                                                                         *)
(* The channel log, which another object keeps, holds messages and facts   *)
(* about the participants' relationships to the channel.  The channel's    *)
(* Durable Object folds it, event by event, into two tables of its own:    *)
(* the relationships, and a mailbox with a row for each delivery it owes.  *)
(* A relationship that is detached stops owing deliveries; the one that    *)
(* takes it up again first recovers the range that was missed.             *)
(*                                                                         *)
(* A message carries the set of participants it is derived for: interest,  *)
(* audience and sender are folded into it.  A joined fact is an opened or  *)
(* a revised one, which the fold does not tell apart.  Session endpoints,  *)
(* which own no rows, receipts and fork prefixes are left out.             *)
(***************************************************************************)
EXTENDS Integers, Sequences, FiniteSets, FiniteSetsExt

CONSTANTS
  Participants,   \* entities that join the channel
  Routes          \* invocation routes a join may ask for

ASSUME RoutesAssumption == Routes \subseteq {"direct", "mailbox"}

VARIABLES
  log,            \* the channel log
  cursor,         \* the last event folded
  relationship,   \* channel_relationships: a row for each participant
  mailbox,        \* channel_delivery_mailbox: rows by <<event, participant, revision>>
  answered        \* history: the events each recipient has answered

projection == <<cursor, relationship, mailbox>>

Message(S) == [type |-> "message", to |-> S]
Joined(p, r, route) == [type |-> "joined", who |-> p, revision |-> r, route |-> route]
Detached(p, r, after) == [type |-> "detached", who |-> p, revision |-> r, after |-> after]
Ended(p, r) == [type |-> "ended", who |-> p, revision |-> r]

\* A participant that never joined.  A range after..through is recovered when
\* through is not 0.
Absent == [revision |-> 0, active |-> FALSE, attached |-> FALSE, route |-> "none",
           detachedAt |-> 0, after |-> 0, through |-> 0]

FreshRow == [state |-> "ready", generation |-> 0, owner |-> 0, claimedRevision |-> 0]

LiveStates == {"ready", "leased", "retrying"}

LiveRows(p) == {k \in DOMAIN mailbox : k[2] = p /\ mailbox[k].state \in LiveStates}

\* Mutant: the lease's owner stays.
MovedOwned(row, state) == [row EXCEPT !.state = state, !.claimedRevision = 0]

\* A row that leaves its claim.  Only a leased row's claimedRevision is read.
\* The terminal states (completed, retired, departed, integrity) are one.
Moved(row, state) == [row EXCEPT !.state = state, !.owner = 0, !.claimedRevision = 0]

Close(S, state) ==
  [k \in DOMAIN mailbox |-> IF k \in S THEN Moved(mailbox[k], state) ELSE mailbox[k]]

-----------------------------------------------------------------------------
(* Deriving rows *)

\* Mutant: a delivery is identified without the relationship's revision.
DeliveriesOnce(f, e, S) ==
  {<<e, p, 1>> : p \in {x \in S : /\ f.type = "message" /\ x \in f.to
                                  /\ relationship[x].active /\ relationship[x].attached}}

\* The rows event e, which is f, gives rise to for participants of S.
Deliveries(f, e, S) ==
  {<<e, p, relationship[p].revision>> :
     p \in {x \in S : /\ f.type = "message" /\ x \in f.to
                      /\ relationship[x].active /\ relationship[x].attached}}

\* deriveEvent leaves a row that exists alone ...
Insert(keys) ==
  [k \in DOMAIN mailbox \cup keys |-> IF k \in DOMAIN mailbox THEN mailbox[k] ELSE FreshRow]

\* ... unless it redelivers, which starts a terminal row anew.
Rearm(keys) ==
  [k \in DOMAIN mailbox \cup keys |->
     IF k \in DOMAIN mailbox /\ (k \notin keys \/ mailbox[k].state \in LiveStates)
     THEN mailbox[k] ELSE FreshRow]

-----------------------------------------------------------------------------
(* Folding *)

\* Any other relationship fact is skipped as poison.
Applies(f) ==
  LET r == relationship[f.who] IN
  /\ f.revision = r.revision + 1
  /\ f.type \in {"detached", "ended"} => r.active
  /\ f.type = "detached" => r.attached

FoldedRelationship(f, e) ==
  LET r == relationship[f.who]
      reattaching == r.active /\ ~r.attached
  IN
  CASE f.type = "detached" ->
         [r EXCEPT !.revision = f.revision, !.attached = FALSE,
                   !.detachedAt = f.after, !.after = 0, !.through = 0]
    [] f.type = "ended" ->
         [r EXCEPT !.revision = f.revision, !.active = FALSE, !.attached = FALSE,
                   !.after = 0, !.through = 0]
    [] f.type = "joined" ->
         [revision |-> f.revision, active |-> TRUE, attached |-> TRUE,
          route |-> f.route, detachedAt |-> 0,
          after |-> IF reattaching THEN r.detachedAt ELSE 0,
          through |-> IF reattaching THEN e - 1 ELSE 0]

\* Rows outlive a revision unless the participant's address changes.
FoldedMailbox(f) ==
  LET r == relationship[f.who] IN
  CASE f.type = "detached" -> Close(LiveRows(f.who), "terminal")
    [] f.type = "ended" -> Close(LiveRows(f.who), "terminal")
    [] f.type = "joined" ->
         IF r.revision # 0 /\ r.route # f.route
         THEN Close(LiveRows(f.who), "terminal") ELSE mailbox

\* Folds event e, which is f.  Callers check that no recovery is pending.
Fold(f, e) ==
  /\ cursor' = e
  /\ IF f.type = "message"
     THEN mailbox' = Insert(Deliveries(f, e, Participants)) /\ UNCHANGED relationship
     ELSE IF Applies(f)
     THEN /\ relationship' = [relationship EXCEPT ![f.who] = FoldedRelationship(f, e)]
          /\ mailbox' = FoldedMailbox(f)
     ELSE UNCHANGED <<relationship, mailbox>>

-----------------------------------------------------------------------------
(* Recovering *)

\* pendingReattachBackfills
Recovering(rel) == {p \in Participants : rel[p].through # 0}

\* Mutant: the range is not ended with its last event.
AdvanceOnly(p, from, last) ==
  LET r == relationship[p]
      range == IF r.through = 0 THEN {}
               ELSE Max({from, r.after + 1}) .. Min({last, r.through})
  IN
  /\ mailbox' = Insert(UNION {Deliveries(log[e], e, {p}) : e \in range})
  /\ relationship' =
       IF range = {} THEN relationship ELSE [relationship EXCEPT ![p].after = Max(range)]
  /\ UNCHANGED cursor

\* advanceReattachBackfill over the events from..last of the log: those the
\* range no longer covers are ignored.
Advance(p, from, last) ==
  LET r == relationship[p]
      range == IF r.through = 0 THEN {}
               ELSE Max({from, r.after + 1}) .. Min({last, r.through})
  IN
  /\ mailbox' = Insert(UNION {Deliveries(log[e], e, {p}) : e \in range})
  /\ relationship' =
       IF range = {} THEN relationship
       ELSE IF Max(range) = r.through
       THEN [relationship EXCEPT ![p].after = 0, ![p].through = 0]
       ELSE [relationship EXCEPT ![p].after = Max(range)]
  /\ UNCHANGED cursor

\* Mutant: a detachment recovers from where it happens.
BoundaryAtDetach(p, upper) == upper

\* detachRecoveryBoundary: every outstanding row lies beyond it.
Boundary(p, upper) ==
  LET outstanding == {k[1] : k \in LiveRows(p)} IN
  IF outstanding = {} THEN upper ELSE Min({upper, Min(outstanding) - 1})

-----------------------------------------------------------------------------
(* Claiming *)

\* Mutant: a leased row holds back no later one.
ClaimableBesideLeases(box) ==
  LET ready == {k \in DOMAIN box : /\ box[k].state \in {"ready", "retrying"}
                                   /\ relationship[k[2]].active
                                   /\ relationship[k[2]].attached}
  IN {k \in ready : \A j \in ready : j[2] = k[2] => j[1] >= k[1]}

\* A row may be claimed when its participant is attached and no earlier row
\* of the participant is live.
Claimable(box) ==
  {k \in DOMAIN box :
     /\ box[k].state \in {"ready", "retrying"}
     /\ relationship[k[2]].active /\ relationship[k[2]].attached
     /\ \A j \in DOMAIN box :
          j[2] = k[2] /\ j[1] < k[1] => box[j].state \notin LiveStates}

-----------------------------------------------------------------------------
(* What the log says of a participant *)

IsFactOf(i, p) == log[i].type # "message" /\ log[i].who = p

\* The last relationship fact of p among the first n events, 0 if none.
LastFact(p, n) ==
  LET facts == {i \in 1..n : IsFactOf(i, p)} IN IF facts = {} THEN 0 ELSE Max(facts)

\* The folded messages the channel owes p: those that fall into its
\* relationship, which a detachment only suspends.
Owed(p) ==
  {e \in 1..cursor : /\ log[e].type = "message" /\ p \in log[e].to
                     /\ LastFact(p, e) # 0 /\ log[LastFact(p, e)].type # "ended"}

\* Two facts end a debt: the relationship is over, or an attached participant
\* moves to another address.
Forgiven(p, e) ==
  \E j \in e..cursor :
    /\ IsFactOf(j, p)
    /\ \/ log[j].type = "ended"
       \/ LET i == LastFact(p, j - 1) IN
          /\ i # 0 /\ log[i].type = "joined" /\ log[j].type = "joined"
          /\ log[i].route # log[j].route

\* A message p is owed is in one place or another: in a live row, in the range
\* a reattachment is to replay or in the one it is replaying.
Outstanding(p, e) ==
  \/ \E k \in LiveRows(p) : k[1] = e
  \/ ~relationship[p].attached /\ relationship[p].detachedAt < e
  \/ relationship[p].after < e /\ e <= relationship[p].through

Unsettled(p) == {e \in Owed(p) : e \notin answered[p] /\ ~Forgiven(p, e)}

-----------------------------------------------------------------------------
(* Properties of every specification over the projection *)

\* A folded message that falls into a participant's relationship is answered,
\* or something still remembers it: a row, or a range that a reattachment
\* recovers.  Each transition of the relationship retires rows (foldRelationship,
\* closeLiveRows) and must leave the range that covers them behind.
NoDebtIsLost ==
  \A p \in Participants : \A e \in Unsettled(p) : Outstanding(p, e)

\* A recipient answers nothing while an earlier message it is owed is neither
\* answered nor forgiven: head-of-line blocking in claimReadyWork holds across
\* detachments, recovered ranges, revisions and retries.
InOrder ==
  [][\A p \in Participants : \A e \in answered'[p] \ answered[p] :
       \A d \in Owed(p) : d < e => d \in answered[p] \/ Forgiven(p, d)]_answered
=============================================================================
