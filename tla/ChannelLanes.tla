----------------------------- MODULE ChannelLanes -----------------------------
(***************************************************************************)
(* The host's claims on a channel's mailbox, beside the requests that move *)
(* the relationships: claimReadyWork, settleReadyWork and failReadyWork in *)
(* channel-do.ts, redeliverPendingCallsTo in calls.ts.                     *)
(*                                                                         *)
(* A participant is a lane: its deliveries are to arrive in the order of   *)
(* the log.  The host leases rows, hands them to the recipients, which     *)
(* answer or fail, and reports.  Meanwhile the participant may leave,      *)
(* detach, come back or change its address, and the server may stop.       *)
(*                                                                         *)
(* A request appends its fact and folds it in one step here; what happens  *)
(* between the two is the subject of ChannelRequests.  Recovery and the    *)
(* tail of a join, which await reads of the log, keep steps of their own.  *)
(***************************************************************************)
EXTENDS ChannelProjection

CONSTANTS
  MaxLog,         \* bound: length of the log
  MaxServers,     \* bound: server generations
  MaxClaims,      \* bound: failing claims of a row and one more
  MaxRejoins      \* bound: joins that find the relationship as it is

ASSUME LanesAssumption ==
  /\ {MaxLog, MaxServers, MaxClaims} \subseteq Nat \ {0}
  /\ MaxRejoins \in Nat

VARIABLES
  joining,        \* the last event a join in progress redelivered, or NotJoining
  rejoins,        \* joins so far that found the relationship as it is
  held,           \* claims the host holds
  server,         \* the server generation that runs
  worker,         \* the generation the channel has adopted
  ready           \* the host knows of ready work

host == <<held, answered, server, worker>>
joins == <<joining, rejoins>>
vars == <<log, projection, joins, host, ready>>

NotJoining == -1

-----------------------------------------------------------------------------
(* Requests *)

\* Nothing is folded while a recovery is pending.
AppendAndFold(f) ==
  /\ Len(log) < MaxLog
  /\ Recovering(relationship) = {}
  /\ log' = Append(log, f)
  /\ Fold(f, Len(log) + 1)
  /\ ready' = (ready \/ DOMAIN mailbox' # DOMAIN mailbox)

\* A message for nobody in the channel only moves the log.
Publish(S) ==
  /\ \A p \in S : relationship[p].active
  /\ AppendAndFold(Message(S))
  /\ UNCHANGED <<joins, host>>

\* withRelationshipMutation: a join holds the lock until it has redelivered.
Unlocked(p) == joining[p] = NotJoining

\* A join opens, revises or resumes the relationship, or finds it as it is.
Join(p, route) ==
  LET r == relationship[p] IN
  /\ Unlocked(p)
  /\ IF r.attached /\ r.route = route
     THEN /\ rejoins < MaxRejoins
          /\ rejoins' = rejoins + 1
          /\ UNCHANGED <<log, projection, ready>>
     ELSE AppendAndFold(Joined(p, r.revision + 1, route)) /\ UNCHANGED rejoins
  /\ joining' = [joining EXCEPT ![p] = 0]
  /\ UNCHANGED host

\* Interest, metadata or configuration change under the same address.
Revise(p) ==
  LET r == relationship[p] IN
  /\ Unlocked(p)
  /\ r.attached
  /\ AppendAndFold(Joined(p, r.revision + 1, r.route))
  /\ joining' = [joining EXCEPT ![p] = 0]
  /\ UNCHANGED <<rejoins, host>>

\* A page of the range a reattachment missed.
Recover(p) ==
  /\ p \in Recovering(relationship)
  /\ Advance(p, relationship[p].after + 1, relationship[p].through)
  /\ ready' = (ready \/ DOMAIN mailbox' # DOMAIN mailbox)
  /\ UNCHANGED <<log, joins, host>>

\* rearmRetryingFor, when the join's fact is folded and its range recovered.
RearmRetrying(p) ==
  LET retrying == {k \in LiveRows(p) : mailbox[k].state = "retrying"} IN
  /\ joining[p] = 0
  /\ p \notin Recovering(relationship)
  /\ retrying # {}
  /\ mailbox' = Close(retrying, "ready")
  /\ ready' = TRUE
  /\ UNCHANGED <<log, cursor, relationship, joins, host>>

\* redeliverPendingCallsTo derives the start of a call that is still pending
\* once more, under the revision of the moment.  Any message may be one.
Redeliver(p, e) ==
  LET keys == Deliveries(log[e], e, {p}) IN
  /\ joining[p] # NotJoining /\ joining[p] < e
  /\ p \notin Recovering(relationship)
  /\ relationship[p].route = "mailbox"
  /\ keys # {}
  /\ mailbox' = Rearm(keys)
  /\ ready' = (ready \/ mailbox' # mailbox)
  /\ joining' = [joining EXCEPT ![p] = e]
  /\ UNCHANGED <<log, cursor, relationship, rejoins, host>>

EndJoin(p) ==
  /\ joining[p] # NotJoining
  /\ p \notin Recovering(relationship)
  /\ joining' = [joining EXCEPT ![p] = NotJoining]
  /\ UNCHANGED <<log, projection, rejoins, host, ready>>

\* A leave takes no lock.
Leave(p) ==
  /\ relationship[p].active
  /\ AppendAndFold(Ended(p, relationship[p].revision + 1))
  /\ UNCHANGED <<joins, host>>

DetachAfter(p, bound) ==
  AppendAndFold(Detached(p, relationship[p].revision + 1, Boundary(p, bound)))

Detach(p) ==
  /\ Unlocked(p)
  /\ relationship[p].attached
  /\ DetachAfter(p, cursor)
  /\ UNCHANGED <<joins, host>>

\* A row in state retrying backs off; once due it is as good as a ready one.
Due(box) == {k \in Claimable(box) : box[k].state = "ready"}

\* The alarm is armed for the time a retry falls due.
Alarm ==
  \E k \in DOMAIN mailbox :
    /\ mailbox[k].state = "retrying"
    /\ mailbox' = Close({k}, "ready")
    /\ ready' = (ready \/ Due(mailbox') # {})
    /\ UNCHANGED <<log, cursor, relationship, joins, host>>

-----------------------------------------------------------------------------
(* Claims *)

\* releaseDurableWorkClaims, when another worker generation is adopted.
Released ==
  IF worker = server THEN mailbox
  ELSE Close({k \in DOMAIN mailbox :
                mailbox[k].state = "leased" /\ mailbox[k].owner = worker}, "ready")

Leased(row, p) ==
  [state |-> "leased", generation |-> row.generation + 1, owner |-> server,
   claimedRevision |-> relationship[p].revision]

\* A pass leases all that may be claimed, or less when the host asks for less.
ClaimReadyWork ==
  /\ ready
  /\ \E S \in SUBSET Due(Released) :
       /\ S = {} => Due(Released) = {}
       /\ mailbox' = [k \in DOMAIN mailbox |->
                        IF k \in S THEN Leased(Released[k], k[2]) ELSE Released[k]]
       /\ held' = held \cup {[row |-> k, generation |-> mailbox'[k].generation,
                              done |-> FALSE] : k \in S}
  /\ worker' = server
  /\ ready' = (Due(mailbox') # {})
  /\ UNCHANGED <<log, cursor, relationship, joins, answered, server>>

\* The recipient of a claimed row answers.
Answer(c) ==
  /\ ~c.done
  /\ held' = (held \ {c}) \cup {[c EXCEPT !.done = TRUE]}
  /\ answered' = [answered EXCEPT ![c.row[2]] = @ \cup {c.row[1]}]
  /\ UNCHANGED <<log, projection, joins, server, worker, ready>>

\* Mutant: the fence asks for the revision the claim was made under, too.
CurrentRevision(c) ==
  LET row == mailbox[c.row] IN
  /\ row.state = "leased" /\ row.owner = server /\ row.generation = c.generation
  /\ row.claimedRevision = relationship[c.row[2]].revision

\* The fence of every report.
Current(c) ==
  LET row == mailbox[c.row] IN
  row.state = "leased" /\ row.owner = server /\ row.generation = c.generation

\* A report gives the claim up and, if it is current, moves the row.  The host
\* goes on claiming while there is ready work.
Report(c, state) ==
  /\ held' = held \ {c}
  /\ mailbox' = IF Current(c) THEN Close({c.row}, state) ELSE mailbox
  /\ ready' = (ready \/ Due(mailbox') # {})
  /\ UNCHANGED <<log, cursor, relationship, joins, answered, server, worker>>

SettleReadyWork(c) == c.done /\ Report(c, "terminal")

\* The recipient declares the delivery impossible; a refusal counts as an answer.
FailPermanently(c) ==
  /\ ~c.done
  /\ held' = held \ {c}
  /\ mailbox' = IF Current(c) THEN Close({c.row}, "terminal") ELSE mailbox
  /\ answered' = IF Current(c) THEN [answered EXCEPT ![c.row[2]] = @ \cup {c.row[1]}]
                 ELSE answered
  /\ ready' = (ready \/ Due(mailbox') # {})
  /\ UNCHANGED <<log, cursor, relationship, joins, server, worker>>

\* An answer may be lost on its way to the host, too.
FailReadyWork(c) == c.generation < MaxClaims /\ Report(c, "retrying")

\* ResidentSessionUnavailable: the recipient is gone.  A claim made under an
\* earlier revision is made again; otherwise the participant is detached, and
\* what it was owed from this row on is recovered when it comes back.
FailUnavailable(c) ==
  LET p == c.row[2] IN
  /\ c.generation < MaxClaims
  /\ Unlocked(p)
  /\ held' = held \ {c}
  /\ IF ~Current(c) THEN UNCHANGED <<log, projection, ready>>
     ELSE IF mailbox[c.row].claimedRevision # relationship[p].revision
     THEN /\ mailbox' = Close({c.row}, "ready")
          /\ ready' = TRUE
          /\ UNCHANGED <<log, cursor, relationship>>
     ELSE DetachAfter(p, c.row[1] - 1)
  /\ UNCHANGED <<joins, answered, server, worker>>

-----------------------------------------------------------------------------
(* Failures *)

\* The server stops, with the host's claims and the requests it was running.
Restart ==
  /\ server < MaxServers
  /\ server' = server + 1
  /\ held' = {}
  /\ joining' = [p \in Participants |-> NotJoining]
  /\ UNCHANGED <<log, projection, rejoins, answered, worker, ready>>

\* Mutant: the new server is not told of the work it finds.
AdoptQuietly ==
  /\ worker # server
  /\ worker' = server
  /\ mailbox' = Released
  /\ UNCHANGED <<log, cursor, relationship, joins, held, answered, server, ready>>

\* adoptDurableWorkWorker; the host then asks for the status.
Adopt ==
  /\ worker # server
  /\ worker' = server
  /\ mailbox' = Released
  /\ ready' = (ready \/ Due(mailbox') # {})
  /\ UNCHANGED <<log, cursor, relationship, joins, held, answered, server>>

-----------------------------------------------------------------------------
Init ==
  /\ log = <<>>
  /\ cursor = 0
  /\ relationship = [p \in Participants |-> Absent]
  /\ mailbox = <<>>
  /\ joining = [p \in Participants |-> NotJoining]
  /\ rejoins = 0
  /\ held = {}
  /\ answered = [p \in Participants |-> {}]
  /\ server = 1 /\ worker = 1
  /\ ready = FALSE

ContinueJoin(p) ==
  Recover(p) \/ RearmRetrying(p) \/ EndJoin(p) \/ \E e \in 1..cursor : Redeliver(p, e)

Outcome(c) ==
  \/ Answer(c) \/ SettleReadyWork(c)
  \/ FailPermanently(c) \/ FailReadyWork(c) \/ FailUnavailable(c)

Next ==
  \/ \E S \in (SUBSET Participants) \ {{}} : Publish(S)
  \/ \E p \in Participants :
       \/ \E route \in Routes : Join(p, route)
       \/ Revise(p) \/ Leave(p) \/ Detach(p) \/ ContinueJoin(p)
  \/ Alarm
  \/ ClaimReadyWork
  \/ \E c \in held : Outcome(c)
  \/ Restart
  \/ Adopt

Spec == Init /\ [][Next]_vars

\* Reads of the log are answered, a due alarm fires, a new server adopts its
\* channels, the host claims and reports, and recipients answer or fail.
Fairness ==
  /\ \A p \in Participants : WF_vars(ContinueJoin(p))
  /\ WF_vars(Alarm) /\ WF_vars(Adopt) /\ WF_vars(ClaimReadyWork)
  /\ WF_vars(\E c \in held : Answer(c) \/ SettleReadyWork(c))

FairSpec == Spec /\ Fairness

-----------------------------------------------------------------------------
(* Properties *)

\* The fold keeps up with the log, only leased rows have an owner, and claims
\* of a row are bounded by what fails and by what restarts.
TypeOK ==
  /\ cursor = Len(log)
  /\ worker \in 1..server
  /\ \A k \in DOMAIN mailbox :
       LET row == mailbox[k] IN
       /\ row.owner # 0 <=> row.state = "leased"
       /\ row.generation \in 0 .. MaxClaims + MaxServers
  /\ \A p \in Participants : joining[p] \in {NotJoining} \cup 0..cursor

\* A row leased to the server that runs is in the hands of its host, under the
\* lease's generation: no revision, detachment, redelivery or stale report
\* leaves a lease that nobody will ever report on.
LeasedRowsAreHeld ==
  \A k \in DOMAIN mailbox :
    mailbox[k].state = "leased" /\ mailbox[k].owner = server =>
      \E c \in held : c.row = k /\ c.generation = mailbox[k].generation

\* A new lease carries a generation that no claim of the row the host still
\* holds has, although a redelivery starts a row's generations anew: reports of
\* the older claim stay recognizable (the fence of settleReadyWork).
ClaimsAreNew ==
  [][\A k \in DOMAIN mailbox :
       mailbox'[k].state = "leased" /\ mailbox[k] # mailbox'[k] =>
         ~\E c \in held : c.row = k /\ c.generation = mailbox'[k].generation]_vars

\* What an attached participant is owed is answered at last, or it detaches.
\* Ready edges, the alarm and the adoption by a new server must between them
\* never leave claimable work of which the host has not been told.
DebtsAreSettled ==
  \A p \in Participants :
    Unsettled(p) # {} ~> (Unsettled(p) = {} \/ ~relationship[p].attached)

\* A pass leases at most one row of a participant, as claimReadyWork says and
\* the host's driver expects.  A redelivery under a new revision gives an event
\* a second live row, and one pass takes both.
OneClaimPerLane ==
  [][\A p \in Participants :
       Cardinality({c \in held' \ held : c.row[2] = p /\ ~c.done}) <= 1]_vars
=============================================================================
