--------------------------- MODULE ChannelRequests ---------------------------
(***************************************************************************)
(* The requests that move a channel's projection: publish, join, leave,    *)
(* detach, the alarm and the adoption by a new server, in channel-do.ts of *)
(* src/workers/pubsub-channel.                                             *)
(*                                                                         *)
(* A request runs alone until it awaits a remote call; then others run.    *)
(* It catches the projection up, decides what to append, appends it, and   *)
(* folds it.  A read of the log is answered with the log as it was at some *)
(* moment between request and answer; answers keep no order.  Log and      *)
(* tables survive a crash, requests do not.                                *)
(*                                                                         *)
(* The host is reduced here to the outcome of a claim: a row is answered,  *)
(* fails for now, or its participant turns out to be unreachable.  The     *)
(* claims themselves are the subject of ChannelLanes.                      *)
(***************************************************************************)
EXTENDS ChannelProjection, SequencesExt

CONSTANTS
  Requests,       \* slots for the requests served at a time
  PageLimit,      \* events in a page of the log (500 in the code)
  MaxLog,         \* bound: length of the log
  MaxServers,     \* bound: server generations
  MaxEvictions    \* bound: activations lost without a server restart

ASSUME RequestsAssumption ==
  /\ IsFiniteSet(Participants)
  /\ {PageLimit, MaxLog, MaxServers} \subseteq Nat \ {0}
  /\ MaxEvictions \in Nat

VARIABLES
  request,        \* what each slot is serving
  adopted,        \* the server generation that runs has adopted the channel
  servers,        \* server generations so far
  ready,          \* a ready edge the host has not drained
  alarm,          \* an alarm is armed
  evictions       \* activations lost so far

control == <<ready, alarm>>
faults == <<adopted, servers, evictions>>
vars == <<log, projection, request, answered, control, faults>>

-----------------------------------------------------------------------------
(* The life of a request *)

Idle == [op |-> "idle"]

NoRoute == "none"
NoBound == -1

\* step names what the request awaits or does next, event the log event its
\* append was answered with, todo the recoveries it still works through and
\* then the step that follows them; from, upto and full describe the page it
\* folds, fresh whether it derived rows it has to mark ready.
New(op, who, revision, route, bound) ==
  [op |-> op, who |-> who, revision |-> revision, route |-> route, bound |-> bound,
   fact |-> <<>>, step |-> "read", then |-> "read", todo |-> <<>>, since |-> 0,
   from |-> 0, upto |-> 0, full |-> FALSE, event |-> 0, fresh |-> FALSE]

\* pendingReattachBackfills: the snapshot a request works through.
Recoveries(rel) ==
  SetToSeq({[who |-> p, after |-> rel[p].after, through |-> rel[p].through] :
              p \in Recovering(rel)})

\* A request at its next step: a read of the log starts where the fold is.
At(d, next, cur) ==
  IF next = "read"
  THEN [d EXCEPT !.step = "read", !.then = "read", !.since = Len(log), !.from = cur]
  ELSE [d EXCEPT !.step = next, !.then = "read", !.since = 0]

\* resumeReattachBackfills, with the fold at cur, before step next.
Resume(d, rel, cur, next) ==
  LET todo == Recoveries(rel) IN
  IF todo = <<>> THEN At(d, next, cur)
  ELSE [d EXCEPT !.todo = todo, !.step = "page", !.since = Len(log), !.then = next]

\* Where a request goes on when the projection has caught up.
Done(d) == IF d.event # 0 \/ d.op \in {"alarm", "adopt"} THEN "finish" ELSE "decide"

Serve(q, d) == request[q] = Idle /\ request' = [request EXCEPT ![q] = d]

\* nextAlarmAfterRequest: a request that ends arms the alarm for what is pending.
Arm(now, box) ==
  alarm' = (now \/ \E k \in DOMAIN box : box[k].state = "retrying")

End(q, now, box) ==
  /\ request' = [request EXCEPT ![q] = Idle]
  /\ ready' = now
  /\ Arm(now, box)

\* A request that throws marks nothing ready and sets no alarm.  The server
\* fires again an alarm that throws.
Throw(q) ==
  /\ request' = [request EXCEPT ![q] = Idle]
  /\ alarm' = (alarm \/ request[q].op = "alarm")
  /\ UNCHANGED <<projection, ready>>

Goto(q, d) == request' = [request EXCEPT ![q] = d] /\ UNCHANGED control

\* A join has more to do when its fact is folded, every other request ends.
Proceed(q, d, box) ==
  IF d.step = "finish" /\ d.op # "join" THEN End(q, ready \/ d.fresh, box) ELSE Goto(q, d)

-----------------------------------------------------------------------------
(* Arrivals *)

\* withRelationshipMutation: joins and detaches of a participant exclude each
\* other; a leave takes no part.
Unlocked(p) ==
  \A q \in Requests : request[q] # Idle /\ request[q].op \in {"join", "detach"} => request[q].who # p

Publish(q, S) ==
  /\ Len(log) < MaxLog
  /\ Serve(q, [New("publish", CHOOSE p \in S : TRUE, 0, NoRoute, NoBound)
                 EXCEPT !.fact = Message(S), !.step = "append"])
  /\ UNCHANGED <<log, projection, answered, control, faults>>

\* A caller names the revision it has seen or the one after it.
Join(q, p, route) ==
  /\ Len(log) < MaxLog
  /\ Unlocked(p)
  /\ \E r \in {relationship[p].revision, relationship[p].revision + 1} \ {0} :
       Serve(q, Resume(New("join", p, r, route, NoBound), relationship, cursor, "read"))
  /\ UNCHANGED <<log, projection, answered, control, faults>>

Leave(q, p) ==
  /\ Len(log) < MaxLog
  /\ relationship[p].active
  /\ Serve(q, Resume(New("leave", p, relationship[p].revision + 1, NoRoute, NoBound),
                     relationship, cursor, "read"))
  /\ UNCHANGED <<log, projection, answered, control, faults>>

\* bound is the last event a detachment may retire.
Detach(q, p, bound) ==
  /\ Len(log) < MaxLog
  /\ relationship[p].active
  /\ Unlocked(p)
  /\ Serve(q, Resume(New("detach", p, 0, NoRoute, bound), relationship, cursor, "read"))
  /\ UNCHANGED <<log, cursor, relationship, answered, control, faults>>

Alarm(q) ==
  /\ alarm
  /\ alarm' = FALSE
  /\ Serve(q, Resume([New("alarm", CHOOSE p \in Participants : TRUE, 0, NoRoute, NoBound)
                        EXCEPT !.fresh = (Claimable(mailbox) # {})],
                     relationship, cursor, "read"))
  /\ UNCHANGED <<log, projection, answered, ready, faults>>

-----------------------------------------------------------------------------
(* deriveDeliveries and resumeReattachBackfills *)

\* A page of the range that is recovered first is answered.
RecoveryPage(q) ==
  LET d == request[q]
      h == Head(d.todo)
      r == relationship[h.who]
  IN
  /\ d # Idle /\ d.step = "page"
  /\ IF r.through # 0 /\ h.after >= r.through
     THEN Throw(q)  \* advanced beyond the range
     ELSE \E n \in d.since..Len(log) :
       LET last == Min({h.after + PageLimit, h.through, n})
           todo == IF last = h.through THEN Tail(d.todo)
                   ELSE <<[h EXCEPT !.after = last]>> \o Tail(d.todo)
           further == [d EXCEPT !.todo = todo, !.fresh = @ \/ DOMAIN mailbox' # DOMAIN mailbox]
       IN
       /\ Advance(h.who, h.after + 1, last)
       /\ Proceed(q, IF todo = <<>> THEN At(further, d.then, cursor)
                     ELSE [further EXCEPT !.since = Len(log)], mailbox')
  /\ UNCHANGED <<log, answered, faults>>

\* A fold throws while a recovery is pending.
FoldAndResume(q, d, e, next) ==
  IF Recovering(relationship) # {} THEN Throw(q)
  ELSE /\ Fold(log[e], e)
       /\ Proceed(q, Resume([d EXCEPT !.fresh = @ \/ DOMAIN mailbox' # DOMAIN mailbox],
                            relationship', e, next), mailbox')

\* The event just appended is folded from memory when it is the next one.
DeriveAppended(q) ==
  LET d == request[q] IN
  /\ d # Idle /\ d.step = "derive"
  /\ IF d.event = cursor + 1 THEN FoldAndResume(q, d, d.event, "finish")
     ELSE /\ Proceed(q, At(d, IF d.event <= cursor THEN "finish" ELSE "read", cursor), mailbox)
          /\ UNCHANGED projection
  /\ UNCHANGED <<log, answered, faults>>

\* A page of the log after the cursor is answered.
ReadReply(q) ==
  LET d == request[q] IN
  /\ d # Idle /\ d.step = "read"
  /\ \E n \in d.since..Len(log) :
       LET upto == Min({d.from + PageLimit, n}) IN
       Proceed(q, IF upto = d.from THEN [At(d, Done(d), cursor) EXCEPT !.from = 0]
                  ELSE [At(d, "fold", cursor) EXCEPT
                          !.upto = upto, !.full = (upto = d.from + PageLimit)], mailbox)
  /\ UNCHANGED <<log, projection, answered, faults>>

\* The next event of the page; a full page is followed by another read.
FoldNext(q) ==
  LET d == request[q]
      e == d.from + 1
      more == e < d.upto
      next == IF more THEN "fold" ELSE IF d.full THEN "read" ELSE Done(d)
      after == [d EXCEPT !.from = IF more THEN e ELSE 0, !.upto = IF more THEN @ ELSE 0,
                         !.full = more /\ @]
  IN
  /\ d # Idle /\ d.step = "fold"
  /\ IF e > cursor THEN FoldAndResume(q, after, e, next)
     ELSE /\ Proceed(q, Resume(after, relationship, cursor, next), mailbox)
          /\ UNCHANGED projection
  /\ UNCHANGED <<log, answered, faults>>

-----------------------------------------------------------------------------
(* What a request does once the projection has caught up *)

\* The fact the request is for, or the end of it.
Decide(q) ==
  LET d == request[q]
      r == relationship[d.who]
      fact == CASE d.op = "join" -> Joined(d.who, d.revision, d.route)
                [] d.op = "leave" -> Ended(d.who, d.revision)
                [] d.op = "detach" ->
                     Detached(d.who, r.revision + 1,
                              Boundary(d.who, IF d.bound = NoBound THEN cursor ELSE d.bound))
      retained == d.op = "join" /\ r.attached /\ r.revision = d.revision
      due == /\ fact.revision = r.revision + 1
             /\ d.op = "leave" => r.active
             /\ d.op = "detach" => r.attached
  IN
  /\ d # Idle /\ d.step = "decide"
  /\ IF retained /\ r.route = d.route THEN Goto(q, At(d, "finish", cursor))
     ELSE IF due THEN Goto(q, [At(d, "append", cursor) EXCEPT !.fact = fact])
     ELSE End(q, ready \/ d.fresh, mailbox)
  /\ UNCHANGED <<log, projection, answered, faults>>

\* Mutant: relationship facts get ids of their own.
NoTwins(f) == {}

\* Relationship facts are appended idempotent-by-id under their participant
\* and revision: the first one wins, and a later one is answered with it.
Twins(f) ==
  {i \in 1..Len(log) : /\ f.type # "message"
                       /\ log[i].type # "message"
                       /\ <<log[i].who, log[i].revision>> = <<f.who, f.revision>>}

AppendFact(q) ==
  LET d == request[q]
      twins == Twins(d.fact)
      reply(e) == Goto(q, [d EXCEPT !.step = "reply", !.fact = <<>>, !.event = e])
  IN
  /\ d # Idle /\ d.step = "append"
  /\ IF twins = {}
     THEN Len(log) < MaxLog /\ log' = Append(log, d.fact) /\ reply(Len(log) + 1)
     ELSE reply(Min(twins)) /\ UNCHANGED log
  /\ UNCHANGED <<projection, answered, faults>>

AppendReply(q) ==
  LET d == request[q] IN
  /\ d # Idle /\ d.step = "reply"
  /\ Goto(q, Resume(d, relationship, cursor, "derive"))
  /\ UNCHANGED <<log, projection, answered, faults>>

\* A join ends with rearmRetryingFor.
RearmRetrying(q) ==
  LET d == request[q]
      retrying == {k \in LiveRows(d.who) : mailbox[k].state = "retrying"}
  IN
  /\ d # Idle /\ d.step = "finish"
  /\ mailbox' = Close(retrying, "ready")
  /\ End(q, ready \/ d.fresh \/ retrying # {}, mailbox')
  /\ UNCHANGED <<log, cursor, relationship, answered, faults>>

-----------------------------------------------------------------------------
(* Claims, by their outcome *)

\* The recipient answers, and the host settles its claim.
Deliver(k) ==
  /\ k \in Claimable(mailbox)
  /\ mailbox' = Close({k}, "terminal")
  /\ answered' = [answered EXCEPT ![k[2]] = @ \cup {k[1]}]
  /\ ready' = (Claimable(mailbox') # {})
  /\ Arm(ready', mailbox')
  /\ UNCHANGED <<log, cursor, relationship, request, faults>>

\* The recipient cannot be reached this time.
Retry(k) ==
  /\ k \in Claimable(mailbox)
  /\ mailbox[k].state = "ready"
  /\ mailbox' = Close({k}, "retrying")
  /\ ready' = (Claimable(mailbox') # {})
  /\ Arm(ready', mailbox')
  /\ UNCHANGED <<log, cursor, relationship, request, answered, faults>>

\* ResidentSessionUnavailable: the participant is detached before the event,
\* whose row stays leased meanwhile.
Unavailable(q, k) ==
  /\ k \in Claimable(mailbox)
  /\ mailbox' = Close({k}, "leased")
  /\ Detach(q, k[2], k[1] - 1)

-----------------------------------------------------------------------------
(* Failures *)

\* The server stops with all it was running, and a new one starts.
Restart ==
  /\ servers < MaxServers
  /\ servers' = servers + 1
  /\ adopted' = FALSE
  /\ request' = [q \in Requests |-> Idle]
  /\ UNCHANGED <<log, projection, answered, control, evictions>>

\* adoptDurableWorkWorker: the claims of the former server are released.
Adopt(q) ==
  /\ ~adopted
  /\ adopted' = TRUE
  /\ mailbox' = Close({k \in DOMAIN mailbox : mailbox[k].state = "leased"}, "ready")
  /\ Serve(q, Resume([New("adopt", CHOOSE p \in Participants : TRUE, 0, NoRoute, NoBound)
                        EXCEPT !.fresh = TRUE],
                     relationship, cursor, "read"))
  /\ UNCHANGED <<log, cursor, relationship, answered, control, servers, evictions>>

\* The object's activation is lost under a server that goes on.
Evict ==
  /\ evictions < MaxEvictions
  /\ \E q \in Requests : request[q] # Idle
  /\ evictions' = evictions + 1
  /\ request' = [q \in Requests |-> Idle]
  /\ UNCHANGED <<log, projection, answered, control, adopted, servers>>

-----------------------------------------------------------------------------
Init ==
  /\ log = <<>>
  /\ cursor = 0
  /\ relationship = [p \in Participants |-> Absent]
  /\ mailbox = <<>>
  /\ request = [q \in Requests |-> Idle]
  /\ answered = [p \in Participants |-> {}]
  /\ adopted = TRUE /\ servers = 1
  /\ ready = FALSE /\ alarm = FALSE
  /\ evictions = 0

Continue(q) ==
  \/ RecoveryPage(q) \/ DeriveAppended(q) \/ ReadReply(q) \/ FoldNext(q)
  \/ Decide(q) \/ AppendFact(q) \/ AppendReply(q) \/ RearmRetrying(q)

Arrive(q) ==
  \/ \E S \in (SUBSET Participants) \ {{}} : Publish(q, S)
  \/ \E p \in Participants, route \in Routes : Join(q, p, route)
  \/ \E p \in Participants : Leave(q, p)
  \/ \E p \in Participants : Detach(q, p, NoBound) /\ UNCHANGED mailbox

Next ==
  \/ \E q \in Requests :
       \/ Arrive(q) \/ Continue(q) \/ Alarm(q) \/ Adopt(q)
       \/ \E k \in DOMAIN mailbox : Unavailable(q, k)
  \/ \E k \in DOMAIN mailbox : Deliver(k) \/ Retry(k)
  \/ Restart
  \/ Evict

Spec == Init /\ [][Next]_vars

\* Answers come, a due alarm fires, a new server adopts, and the host claims
\* while it knows of ready work.  Nothing obliges anyone to send a request.
Fairness ==
  /\ \A q \in Requests : WF_vars(Continue(q)) /\ WF_vars(Alarm(q)) /\ WF_vars(Adopt(q))
  /\ WF_vars(ready /\ \E k \in DOMAIN mailbox : Deliver(k))

FairSpec == Spec /\ Fairness

-----------------------------------------------------------------------------
(* Properties *)

\* The cursor is a position in the log, a range that is recovered lies inside
\* what is folded and its participant is attached, and requests refer to events
\* that exist.
TypeOK ==
  /\ cursor \in 0..Len(log)
  /\ \A p \in Participants :
       LET r == relationship[p] IN
       r.through # 0 => r.active /\ r.attached /\ r.after < r.through /\ r.through < cursor
  /\ \A q \in Requests : request[q] # Idle => request[q].event \in 0..Len(log)

\* The relationship table is the last relationship fact the cursor has passed:
\* no fact that reached the log is skipped as poison, whatever raced its append
\* (foldRelationship refuses a fact that is not the next revision).
RelationshipFollowsLog ==
  \A p \in Participants :
    LET i == LastFact(p, cursor)
        r == relationship[p]
    IN i # 0 => /\ r.revision = log[i].revision
                /\ r.active = (log[i].type # "ended")
                /\ r.attached = (log[i].type = "joined")

\* A leave whose append was answered has ended the relationship.  It has not
\* when a join or a detach that raced it took the same revision: the append is
\* answered with their fact (leave, appendDurable).
LeaveEndsRelationship ==
  \A q \in Requests :
    request[q] # Idle /\ request[q].op = "leave" /\ request[q].event # 0
      => log[request[q].event].type = "ended"

\* What is in the log is folded at last, also when no request follows (alarm).
\* An activation lost between append and fold, without a restart, leaves the
\* fold to the next request.
ProjectionCatchesUp == \A n \in 1..MaxLog : Len(log) >= n ~> cursor >= n
=============================================================================
