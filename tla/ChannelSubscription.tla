------------------------- MODULE ChannelSubscription -------------------------
(***************************************************************************)
(* A client of a channel and the responses on which it reads it: subscribe *)
(* and its streams in channel-do.ts, connectViaRpc in rpc-client.ts.       *)
(*                                                                         *)
(* Each subscribe call opens a response: its acknowledgment carries the    *)
(* events since the client's cursor, then come the live ones.  The client  *)
(* opens a replacement when a response ends or the host reconnects, and    *)
(* reads the old response until the new one is acknowledged.  A hole in    *)
(* the live events is read from the log.                                   *)
(*                                                                         *)
(* Every event takes the client an await (its stored values are fetched),  *)
(* during which the readers of other responses run.                        *)
(***************************************************************************)
EXTENDS Integers, Sequences, FiniteSetsExt

CONSTANTS
  MaxLog,         \* bound: length of the log
  MaxOpens,       \* bound: subscribe calls; under the last one only a refusal
  Shared,         \* a person's account: several responses side by side
  LiveReadsFail   \* the values of a live event may fail to be fetched

ASSUME SubscriptionAssumption ==
  /\ {MaxLog, MaxOpens} \subseteq Nat \ {0}
  /\ {Shared, LiveReadsFail} \subseteq BOOLEAN

Events == 1..MaxLog
Calls == 1..MaxOpens

VARIABLES
  logged,         \* the last event of the log
  owed,           \* events appended whose publishers have yet to broadcast them
  listed,         \* the participant has a row in participants
  streams,        \* the participant's responses in subscriptionStreams
  call,           \* where each subscribe call is
  mark,           \* the last event that the replay of a call covers
  pipe,           \* what is on its way on each response
  link            \* whether a response is open, ended by the channel or broken

channel == <<logged, owed, listed, streams, call, mark>>

VARIABLES
  opened,         \* subscriptionGeneration
  active,         \* the generation of activeSubscription
  previous,       \* of each generation, the one it replaces
  since,          \* of each generation, the cursor it sent
  acknowledged,   \* generations whose acknowledgment has been read
  aborted,        \* generations whose controller has been aborted
  recovering,     \* recoverSubscription runs
  wanted,         \* a recovery has been requested
  offline         \* the host will ask for a recovery

control == <<opened, active, previous, since, aborted, recovering>>

VARIABLES
  reader,         \* what the reader of each response is doing
  lastSeen,       \* lastSeenSeq, or 0
  shown,          \* events that the client has handed out
  replayed,       \* events in replayMessageKeys
  complete,       \* replayComplete
  liveBuffer,     \* replayLiveBuffer
  repairing,      \* repairingGap
  gapBuffer,
  leapt           \* history: events that a flush of a buffer has passed over

view == <<reader, lastSeen, shown, replayed, complete, liveBuffer, repairing, gapBuffer,
          leapt>>
vars == <<channel, pipe, link, control, acknowledged, wanted, offline, view>>

Ack == 0
Idle == [job |-> "idle", next |-> 0, upto |-> 0, queue |-> <<>>]
Dead == [Idle EXCEPT !.job = "dead"]
Flushing(q) == IF q = <<>> THEN Idle ELSE [Idle EXCEPT !.job = "flush", !.queue = q]
Spare == opened < MaxOpens

-----------------------------------------------------------------------------
(* The channel *)

\* Some events are appended without a broadcast.
AppendEvent(announced) ==
  /\ logged < MaxLog
  /\ logged' = logged + 1
  /\ owed' = IF announced THEN owed \cup {logged + 1} ELSE owed
  /\ UNCHANGED <<listed, streams, call, mark, pipe, link, control, acknowledged,
                 wanted, offline, view>>

\* The row goes with the last response.
Close(S) ==
  /\ streams' = streams \ S
  /\ listed' = (listed /\ streams' # {})

\* What is sent on a response that nobody reads is left out.
Read(g) == link[g] # "broken" /\ reader[g] # Dead /\ g \notin aborted

\* Publishers come back from their appends in any order.  Responses whose
\* buffers are full are terminated.
Broadcast(e, full) ==
  /\ e \in owed
  /\ owed' = owed \ {e}
  /\ full # {} => listed /\ Spare
  /\ pipe' = [g \in Calls |-> IF g \in full THEN <<>>
                              ELSE IF listed /\ g \in streams /\ Read(g) THEN Append(pipe[g], e)
                              ELSE pipe[g]]
  /\ link' = [g \in Calls |-> IF g \in full THEN "broken" ELSE link[g]]
  /\ IF full = {} THEN UNCHANGED <<streams, listed>> ELSE Close(full)
  /\ UNCHANGED <<logged, call, mark, control, acknowledged, wanted, offline, view>>

\* subscribe, up to the read of the replay
Admit(g) ==
  /\ call[g] = "asked"
  /\ call' = [call EXCEPT ![g] = "admitted"]
  /\ listed' = TRUE
  /\ UNCHANGED <<logged, owed, streams, mark, pipe, link, control, acknowledged,
                 wanted, offline, view>>

\* The log answers the read.
ReadReplay(g) ==
  /\ call[g] = "admitted"
  /\ call' = [call EXCEPT ![g] = "read"]
  /\ mark' = [mark EXCEPT ![g] = logged]
  /\ UNCHANGED <<logged, owed, listed, streams, pipe, link, control, acknowledged,
                 wanted, offline, view>>

\* openSubscriptionResponse: an entity has one response, an account several.
Register(g) ==
  LET replaced == IF Shared THEN {} ELSE streams IN
  /\ call[g] = "read"
  /\ call' = [call EXCEPT ![g] = "answered"]
  /\ streams' = (streams \ replaced) \cup {g}
  /\ pipe' = [pipe EXCEPT ![g] = IF Read(g) THEN <<Ack>> ELSE <<>>]
  /\ link' = [h \in Calls |-> IF h \in replaced /\ link[h] = "open" THEN "ended" ELSE link[h]]
  /\ UNCHANGED <<logged, owed, listed, mark, control, acknowledged, wanted, offline, view>>

\* The read fails: the row stays.
Refuse(g) ==
  /\ call[g] = "admitted"
  /\ call' = [call EXCEPT ![g] = "refused"]
  /\ link' = [link EXCEPT ![g] = IF @ = "open" THEN "ended" ELSE @]
  /\ UNCHANGED <<logged, owed, listed, streams, mark, pipe, control, acknowledged,
                 wanted, offline, view>>

\* The channel learns that nobody reads a response any more.
Cancel(g) ==
  /\ g \in streams
  /\ ~Read(g)
  /\ Close({g})
  /\ UNCHANGED <<logged, owed, call, mark, pipe, link, control, acknowledged,
                 wanted, offline, view>>

Answering(g) == call[g] \in {"asked", "admitted", "read"}

\* A new activation: no responses, no rows; publishers are cut off.
Restart ==
  /\ Spare
  /\ owed' = {}
  /\ streams' = {}
  /\ listed' = FALSE
  /\ link' = [g \in Calls |-> IF g \in streams \/ Answering(g) THEN "broken" ELSE link[g]]
  /\ pipe' = [g \in Calls |-> IF link'[g] = "broken" THEN <<>> ELSE pipe[g]]
  /\ call' = [g \in Calls |-> IF Answering(g) THEN "refused" ELSE call[g]]
  /\ UNCHANGED <<logged, mark, control, acknowledged, wanted, offline, view>>

LoseConnection(g) ==
  /\ Spare
  /\ g <= opened
  /\ link[g] = "open"
  /\ Read(g)
  /\ link' = [link EXCEPT ![g] = "broken"]
  /\ pipe' = [pipe EXCEPT ![g] = <<>>]
  /\ UNCHANGED <<channel, control, acknowledged, wanted, offline, view>>

-----------------------------------------------------------------------------
(* The client opens responses *)

\* The host's recovery coordinator, after a reconnection or a failed recovery
HostRecovers ==
  /\ Spare
  /\ ~wanted
  /\ wanted' = TRUE
  /\ offline' = FALSE
  /\ UNCHANGED <<channel, pipe, link, control, acknowledged, view>>

\* recoverSubscription and openSubscription, up to the acknowledgment
Open ==
  LET g == opened + 1 IN
  /\ wanted
  /\ ~recovering
  /\ Spare
  /\ recovering' = TRUE
  /\ wanted' = FALSE
  /\ opened' = g
  /\ active' = g
  /\ previous' = [previous EXCEPT ![g] = active]
  /\ since' = [since EXCEPT ![g] = lastSeen]
  /\ call' = [call EXCEPT ![g] = "asked"]
  /\ UNCHANGED <<logged, owed, listed, streams, mark, pipe, link, aborted, acknowledged,
                 offline, view>>

\* Mutant: nobody is told that the response has failed.
FailQuietly(g, byTransport) ==
  /\ complete' = (complete /\ (g # active \/ g \in aborted))
  /\ UNCHANGED <<wanted, offline>>

\* The response of the current generation has failed.
Fail(g, byTransport) ==
  IF g = active /\ g \notin aborted
  THEN /\ complete' = FALSE
       /\ IF byTransport THEN offline' = TRUE /\ UNCHANGED wanted
                         ELSE wanted' = TRUE /\ UNCHANGED offline
  ELSE UNCHANGED <<complete, wanted, offline>>

Stop(g) ==
  /\ reader' = [reader EXCEPT ![g] = Dead]
  /\ pipe' = [pipe EXCEPT ![g] = <<>>]

Reading(g) == g <= opened /\ reader[g] = Idle
Finished(g) == link[g] = "broken" \/ (link[g] = "ended" /\ pipe[g] = <<>>)

\* A response ends before its acknowledgment: its opener takes the one before
\* back.  The first opener asks for a recovery; the others leave it to the host.
OpenFails(g) ==
  /\ Reading(g)
  /\ g \notin acknowledged \cup aborted
  /\ Finished(g)
  /\ Stop(g)
  /\ aborted' = aborted \cup {g}
  /\ complete' = (complete /\ g # active)
  /\ active' = IF g = active THEN previous[g] ELSE active
  /\ recovering' = (recovering /\ g = 1)
  /\ \/ /\ link[g] = "broken" \/ g > 1
        /\ offline' = TRUE
        /\ UNCHANGED wanted
     \/ /\ g = 1
        /\ wanted' = TRUE
        /\ UNCHANGED offline
  /\ UNCHANGED <<channel, link, opened, previous, since, acknowledged, lastSeen,
                 shown, replayed, liveBuffer, repairing, gapBuffer, leapt>>

\* A response ends after its acknowledgment.
ResponseEnds(g) ==
  /\ Reading(g)
  /\ g \in acknowledged \ aborted
  /\ Finished(g)
  /\ Stop(g)
  /\ \E byTransport \in BOOLEAN :
       /\ byTransport => link[g] = "broken"
       /\ Fail(g, byTransport)
  /\ UNCHANGED <<channel, link, control, acknowledged, lastSeen, shown, replayed,
                 liveBuffer, repairing, gapBuffer, leapt>>

\* An aborted response, after what it had read: the first opener takes its end for a failure.
ReaderStops(g) ==
  /\ g \in aborted
  /\ reader[g] = Idle
  /\ Stop(g)
  /\ wanted' = (wanted \/ g \notin acknowledged)
  /\ UNCHANGED <<channel, link, control, acknowledged, offline, lastSeen, shown,
                 replayed, complete, liveBuffer, repairing, gapBuffer, leapt>>

-----------------------------------------------------------------------------
(* The client reads them *)

\* Mutant: the replay goes on past its end.
RestPastMark(g, n, known) == {e \in n..mark[g] + 1 : e \notin known}

\* Mutant: the last event of the replay is left out.
RestBeforeMark(g, n, known) == {e \in n..mark[g] - 1 : e \notin known}

\* Events that another replay has handled are passed over.
Rest(g, n, known) == {e \in n..mark[g] : e \notin known}

\* ingestReplayEnvelope goes on at event n.  After the last one come the
\* buffered live events.
Ingest(g, n, known, ready, buffer) ==
  LET rest == Rest(g, n, known) IN
  IF rest # {}
  THEN /\ reader' = [reader EXCEPT ![g] = [Idle EXCEPT !.job = "replay", !.next = Min(rest)]]
       /\ complete' = ready
       /\ liveBuffer' = buffer
  ELSE /\ reader' = [reader EXCEPT ![g] = Flushing(buffer)]
       /\ complete' = TRUE
       /\ liveBuffer' = <<>>

Arrives(g, e) ==
  /\ Reading(g)
  /\ pipe[g] # <<>>
  /\ Head(pipe[g]) = e
  /\ pipe' = [pipe EXCEPT ![g] = Tail(@)]

\* The acknowledgment: the response replaced is aborted, and a replacement
\* resets the projection (resetReplayProjectionForRecovery).
TakeAck(g) ==
  /\ Arrives(g, Ack)
  /\ g \notin aborted
  /\ acknowledged' = acknowledged \cup {g}
  /\ aborted' = aborted \cup ({previous[g]} \ {0})
  /\ recovering' = (recovering /\ g = 1)
  /\ IF g = 1 THEN Ingest(g, since[g] + 1, replayed, complete, liveBuffer)
              ELSE Ingest(g, since[g] + 1, replayed, FALSE, <<>>)
  /\ UNCHANGED <<channel, link, opened, active, previous, since, wanted, offline,
                 lastSeen, shown, replayed, repairing, gapBuffer, leapt>>

\* handleServerMessage, at the end of its await
Handle(e) ==
  /\ shown' = shown \cup {e}
  /\ lastSeen' = Max({lastSeen, e})

unread == <<channel, pipe, link, control, acknowledged, wanted, offline>>

ShowReplayed(g) ==
  LET e == reader[g].next IN
  /\ reader[g].job = "replay"
  /\ Handle(e)
  /\ replayed' = replayed \cup {e}
  /\ Ingest(g, e + 1, replayed', complete, liveBuffer)
  /\ UNCHANGED <<unread, repairing, gapBuffer, leapt>>

\* Live events of a response whose replacement is acknowledged are dropped.
Superseded(g) == g # active /\ active \in acknowledged

DropLive(g, e) ==
  /\ Arrives(g, e)
  /\ Superseded(g)
  /\ UNCHANGED <<channel, link, control, acknowledged, wanted, offline, view>>

HoldLive(g, e) ==
  /\ Arrives(g, e)
  /\ ~Superseded(g)
  /\ ~complete
  /\ liveBuffer' = Append(liveBuffer, e)
  /\ UNCHANGED <<channel, link, control, acknowledged, wanted, offline, reader, lastSeen,
                 shown, replayed, complete, repairing, gapBuffer, leapt>>

BufferLive(g, e) ==
  /\ Arrives(g, e)
  /\ ~Superseded(g)
  /\ complete
  /\ repairing
  /\ gapBuffer' = Append(gapBuffer, e)
  /\ UNCHANGED <<channel, link, control, acknowledged, wanted, offline, reader, lastSeen,
                 shown, replayed, complete, liveBuffer, repairing, leapt>>

Due(g, e) ==
  /\ Arrives(g, e)
  /\ ~Superseded(g)
  /\ complete
  /\ ~repairing

\* Mutant: a single missing event goes unnoticed.
FollowsNearly(e) == lastSeen = 0 \/ e <= lastSeen + 2

Follows(e) == lastSeen = 0 \/ e <= lastSeen + 1

\* Mutant: the first missing event is left out.
RepairAfterNext(e) == [Idle EXCEPT !.job = "repair", !.next = lastSeen + 2, !.upto = e - 1]

Repair(e) == [Idle EXCEPT !.job = "repair", !.next = lastSeen + 1, !.upto = e - 1]

\* An event beyond the next one: those between are read from the log first.
DetectGap(g, e) ==
  /\ Due(g, e)
  /\ ~Follows(e)
  /\ repairing' = TRUE
  /\ reader' = [reader EXCEPT ![g] = Repair(e)]
  /\ UNCHANGED <<channel, link, control, acknowledged, wanted, offline, lastSeen, shown,
                 replayed, complete, liveBuffer, gapBuffer, leapt>>

\* The cursor moves before the event's values are fetched.
TakeLive(g, e) ==
  /\ Due(g, e)
  /\ Follows(e)
  /\ lastSeen' = Max({lastSeen, e})
  /\ reader' = [reader EXCEPT ![g] = [Idle EXCEPT !.job = "live", !.next = e]]
  /\ UNCHANGED <<channel, link, control, acknowledged, wanted, offline, shown, replayed,
                 complete, liveBuffer, repairing, gapBuffer, leapt>>

ShowLive(g) ==
  /\ reader[g].job = "live"
  /\ Handle(reader[g].next)
  /\ reader' = [reader EXCEPT ![g] = Idle]
  /\ UNCHANGED <<unread, replayed, complete, liveBuffer, repairing, gapBuffer, leapt>>

\* The next missing event, unless the cursor has moved past it; then the event
\* that revealed the gap.
ShowRepaired(g) ==
  LET e == reader[g].next
      rest == {f \in e + 1..reader[g].upto : f > lastSeen'} IN
  /\ reader[g].job = "repair"
  /\ Handle(e)
  /\ IF rest # {}
     THEN /\ reader' = [reader EXCEPT ![g].next = Min(rest)]
          /\ UNCHANGED repairing
     ELSE /\ reader' = [reader EXCEPT ![g].job = "trigger", ![g].next = @ + 1]
          /\ repairing' = FALSE
  /\ UNCHANGED <<unread, replayed, complete, liveBuffer, gapBuffer, leapt>>

ShowTrigger(g) ==
  /\ reader[g].job = "trigger"
  /\ Handle(reader[g].upto + 1)
  /\ reader' = [reader EXCEPT ![g] = Flushing(gapBuffer)]
  /\ gapBuffer' = <<>>
  /\ UNCHANGED <<unread, replayed, complete, liveBuffer, repairing, leapt>>

\* A buffered event is handed out whether or not it is the next one.
ShowBuffered(g) ==
  LET e == Head(reader[g].queue) IN
  /\ reader[g].job = "flush"
  /\ Handle(e)
  /\ leapt' = leapt \cup (lastSeen + 1..e - 1)
  /\ reader' = [reader EXCEPT ![g] = Flushing(Tail(@.queue))]
  /\ UNCHANGED <<unread, replayed, complete, liveBuffer, repairing, gapBuffer>>

\* A page of the log or the values of an event cannot be fetched.
ReadFails(g) ==
  /\ reader[g] \notin {Idle, Dead}
  /\ Spare
  /\ reader[g].job = "live" => LiveReadsFail
  /\ Stop(g)
  /\ repairing' = (repairing /\ reader[g].job # "repair")
  /\ \E byTransport \in BOOLEAN : Fail(g, byTransport)
  /\ UNCHANGED <<channel, link, control, acknowledged, lastSeen, shown, replayed,
                 liveBuffer, gapBuffer, leapt>>

-----------------------------------------------------------------------------

\* The client has asked for its first response.  The log holds the event that
\* announces the participant.
Init ==
  /\ logged = 1
  /\ owed = {}
  /\ listed = FALSE
  /\ streams = {}
  /\ call = [g \in Calls |-> IF g = 1 THEN "asked" ELSE "none"]
  /\ mark = [g \in Calls |-> 0]
  /\ pipe = [g \in Calls |-> <<>>]
  /\ link = [g \in Calls |-> "open"]
  /\ opened = 1
  /\ active = 1
  /\ previous = [g \in Calls |-> 0]
  /\ since = [g \in Calls |-> 0]
  /\ acknowledged = {}
  /\ aborted = {}
  /\ recovering = FALSE
  /\ wanted = FALSE
  /\ offline = FALSE
  /\ reader = [g \in Calls |-> Idle]
  /\ lastSeen = 0
  /\ shown = {}
  /\ replayed = {}
  /\ complete = FALSE
  /\ liveBuffer = <<>>
  /\ repairing = FALSE
  /\ gapBuffer = <<>>
  /\ leapt = {}

ChannelActs ==
  \/ \E announced \in BOOLEAN : AppendEvent(announced)
  \/ \E e \in Events, full \in SUBSET streams : Broadcast(e, full)
  \/ \E g \in Calls : Admit(g) \/ ReadReplay(g) \/ Register(g) \/ Refuse(g) \/ Cancel(g)
  \/ Restart
  \/ \E g \in Calls : LoseConnection(g)

ClientOpens ==
  \/ HostRecovers
  \/ Open
  \/ \E g \in Calls : OpenFails(g) \/ ResponseEnds(g) \/ ReaderStops(g)

Receives(g) ==
  \/ TakeAck(g)
  \/ \E e \in Events : \/ DropLive(g, e) \/ HoldLive(g, e) \/ BufferLive(g, e)
                       \/ DetectGap(g, e) \/ TakeLive(g, e)

Shows(g) ==
  \/ ShowReplayed(g) \/ ShowLive(g) \/ ShowRepaired(g) \/ ShowTrigger(g) \/ ShowBuffered(g)

Next ==
  \/ ChannelActs
  \/ ClientOpens
  \/ \E g \in Calls : Receives(g) \/ Shows(g) \/ ReadFails(g)

\* What is on its way arrives, and the host recovers a client that is offline.
Fairness ==
  /\ \A e \in Events : WF_vars(Broadcast(e, {}))
  /\ \A g \in Calls :
       /\ WF_vars(Admit(g) \/ ReadReplay(g) \/ Register(g) \/ Cancel(g))
       /\ WF_vars(OpenFails(g) \/ ResponseEnds(g) \/ ReaderStops(g))
       /\ WF_vars(Receives(g) \/ Shows(g))
  /\ WF_vars(Open)
  /\ WF_vars(offline /\ HostRecovers)

Spec == Init /\ [][Next]_vars
FairSpec == Spec /\ Fairness

-----------------------------------------------------------------------------
(* Properties *)

Jobs == {"idle", "dead", "replay", "live", "repair", "trigger", "flush"}

\* Every variable has its type.
TypeOK ==
  /\ logged \in 0..MaxLog
  /\ owed \subseteq Events
  /\ listed \in BOOLEAN
  /\ streams \subseteq Calls
  /\ call \in [Calls -> {"none", "asked", "admitted", "read", "answered", "refused"}]
  /\ mark \in [Calls -> 0..MaxLog]
  /\ pipe \in [Calls -> Seq(0..MaxLog)]
  /\ link \in [Calls -> {"open", "ended", "broken"}]
  /\ opened \in Calls
  /\ active \in 0..MaxOpens
  /\ previous \in [Calls -> 0..MaxOpens]
  /\ since \in [Calls -> 0..MaxLog]
  /\ acknowledged \subseteq Calls
  /\ aborted \subseteq Calls
  /\ {recovering, wanted, offline, complete, repairing} \subseteq BOOLEAN
  /\ reader \in [Calls -> [job : Jobs, next : 0..MaxLog + 1, upto : 0..MaxLog,
                           queue : Seq(Events)]]
  /\ lastSeen \in 0..MaxLog
  /\ shown \subseteq Events
  /\ replayed \subseteq Events
  /\ liveBuffer \in Seq(Events)
  /\ gapBuffer \in Seq(Events)
  /\ leapt \subseteq Events

InHand(e) == \E g \in Calls : reader[g].job = "live" /\ reader[g].next = e

\* The cursor from which a client recovers never passes an event that it has
\* neither handed out nor has in hand: what it passes, no replay brings back.
\* Only the flush of a buffer does (handleSubscriptionPayload,
\* recoverSubscription).
CursorIsSound == \A e \in 1..lastSeen : e \in shown \cup leapt \/ InHand(e)

\* Events held back during a gap repair are processed "after the gap is
\* filled": no event is passed over (gapBuffer).
NothingIsLeapt == leapt = {}

\* The bound is reached and the last response has ended all the same.
Exhausted == ~Spare /\ link[MaxOpens] # "open"

Got(e) == e \in shown \cup leapt \/ Exhausted

\* The response that the client keeps
Current(g) == g = active /\ g \in acknowledged

\* Once the current response is acknowledged, the client gets all that the log
\* held when its replay was read, whatever fails meanwhile and however often
\* the response is replaced (ingestReplayEnvelope).
ReplacementCatchesUp ==
  \A e \in Events : (\E g \in Calls : Current(g) /\ e <= mark[g]) ~> Got(e)

\* An event that reaches the current response brings everything before it,
\* also when the response ends before it is read (the gap repair of
\* handleSubscriptionPayload, recoverSubscription).
LiveEventsReveal ==
  \A e \in Events :
    (\E g \in Calls : Current(g) /\ \E i \in DOMAIN pipe[g] : pipe[g][i] >= e) ~> Got(e)

Connected ==
  active \in acknowledged /\ active \notin aborted /\ reader[active] # Dead /\ complete

\* A client that has lost its response is connected again at last
\* (requestSubscriptionRecovery, recoverSubscription).
Reconnects == ~Connected ~> (Connected \/ Exhausted)

\* Who has a response is listed, so that the channel delivers to it (subscribe,
\* unsubscribeParticipant).
RespondersAreListed == streams # {} => listed

\* Everything that is broadcast arrives.
EverythingArrives == \A e \in Events : (e \in owed) ~> (e \in shown \/ Exhausted)

=============================================================================
