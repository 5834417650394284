---------------------- MODULE ChannelSubscriptionProofs ----------------------
(***************************************************************************)
(* The cursor of a channel's client is sound for every length of the log   *)
(* and every number of replacements, as long as the values of a live event *)
(* can be fetched: TakeLive moves the cursor before they are.              *)
(***************************************************************************)
EXTENDS ChannelSubscription, SequenceTheorems, WellFoundedInduction, TLAPS

LEMMA LeastElement ==
  ASSUME NEW S \in SUBSET Nat, S # {}
  PROVE  Min(S) \in S /\ \A n \in S : Min(S) <= n
<1> DEFINE R == OpToRel(<, Nat)
<1>1. PICK m \in S : \A n \in S : <<n, m>> \notin R
  BY NatLessThanWellFounded, WFMin
<1>2. ASSUME NEW n \in S
      PROVE  m <= n
  <2>1. ~(n < m)
    BY <1>1 DEF OpToRel
  <2> QED
    BY <2>1
<1> QED
  BY <1>2 DEF Min

LEMMA MaxPair ==
  ASSUME NEW a \in Nat, NEW b \in Nat
  PROVE  /\ Max({a, b}) \in Nat
         /\ a <= Max({a, b})
         /\ b <= Max({a, b})
         /\ Max({a, b}) \in {a, b}
<1>1. CASE a >= b
  BY <1>1 DEF Max
<1>2. CASE b >= a
  BY <1>2 DEF Max
<1> QED
  BY <1>1, <1>2

(***************************************************************************)
(* The inductive invariant.                                                *)
(***************************************************************************)

Reader == [job : Jobs, next : 0..MaxLog + 1, upto : 0..MaxLog, queue : Seq(Events)]

\* Where a reader that is not idle stands, against the cursor.
JobOK(r, cursor) ==
  /\ r.job \in {"replay", "repair"} => r.next \in Events /\ r.next <= cursor + 1
  /\ r.job \in {"repair", "trigger"} => r.upto + 1 \in Events
  /\ r.job = "trigger" => r.upto <= cursor
  /\ r.job = "live" => r.next \in 1..cursor
  /\ r.job = "flush" => r.queue # <<>>

JobsOK == \A g \in Calls : JobOK(reader[g], lastSeen)

\* What the client has lies behind its cursor, and so does every cursor it sent.
BehindCursor ==
  /\ shown \subseteq 1..lastSeen
  /\ replayed \subseteq shown
  /\ \A g \in Calls : since[g] <= lastSeen

\* A replay holds the event that announces the client, so that a client that
\* has read one has a cursor.
ReplaysHoldAnEvent ==
  /\ logged >= 1
  /\ \A g \in Calls : call[g] = "read" => mark[g] >= 1
  /\ \A g \in Calls : \A i \in DOMAIN pipe[g] : pipe[g][i] = Ack => mark[g] >= 1
  /\ complete => lastSeen >= 1

IInv == TypeOK /\ JobsOK /\ BehindCursor /\ ReplaysHoldAnEvent /\ CursorIsSound

LEMMA EventFacts ==
  /\ MaxLog \in Nat /\ MaxLog >= 1
  /\ MaxOpens \in Nat /\ MaxOpens >= 1 /\ 1 \in Calls
  /\ Events \subseteq Nat /\ Calls \subseteq Nat
  BY SubscriptionAssumption DEF Events, Calls

LEMMA ReadersHaveTypes ==
  /\ Idle \in Reader /\ Dead \in Reader
  /\ \A c \in 0..MaxLog : JobOK(Idle, c) /\ JobOK(Dead, c)
  /\ Idle.job = "idle" /\ Dead.job = "dead"
<1>1. Dead = [job |-> "dead", next |-> 0, upto |-> 0, queue |-> <<>>]
  BY DEF Dead, Idle
<1>2. Idle = [job |-> "idle", next |-> 0, upto |-> 0, queue |-> <<>>]
  BY DEF Idle
<1>3. Idle \in Reader /\ Dead \in Reader
  BY <1>1, <1>2, EventFacts DEF Reader, Jobs
<1> QED
  BY <1>1, <1>2, <1>3 DEF JobOK

LEMMA FlushingOK ==
  ASSUME NEW q \in Seq(Events), NEW c \in 0..MaxLog
  PROVE  /\ Flushing(q) \in Reader
         /\ JobOK(Flushing(q), c)
         /\ Flushing(q).job \in {"idle", "flush"}
<1>1. CASE q = <<>>
  BY <1>1, ReadersHaveTypes DEF Flushing
<1>2. CASE q # <<>>
  <2>1. Flushing(q) = [job |-> "flush", next |-> 0, upto |-> 0, queue |-> q]
    BY <1>2 DEF Flushing, Idle
  <2> QED
    BY <1>2, <2>1, EventFacts DEF Reader, Jobs, JobOK
<1> QED
  BY <1>1, <1>2

LEMMA CursorsRise ==
  ASSUME NEW r \in Reader, NEW c \in 0..MaxLog, NEW d \in 0..MaxLog, c <= d, JobOK(r, c)
  PROVE  JobOK(r, d)
  BY EventFacts DEF Reader, JobOK, Events

(***************************************************************************)
(* One reader moves, and the cursor with it.                               *)
(***************************************************************************)

LEMMA ReaderMoves ==
  ASSUME TypeOK, JobsOK, NEW g \in Calls, NEW r \in Reader,
         lastSeen' \in 0..MaxLog, lastSeen <= lastSeen', JobOK(r, lastSeen'),
         reader' = [reader EXCEPT ![g] = r]
  PROVE  reader' \in [Calls -> Reader] /\ JobsOK'
<1>1. reader \in [Calls -> Reader] /\ lastSeen \in 0..MaxLog
  BY DEF TypeOK, Reader
<1>2. ASSUME NEW h \in Calls
      PROVE  JobOK(reader'[h], lastSeen')
  <2>1. CASE h = g
    BY <1>1, <2>1
  <2>2. CASE h # g
    <3>1. reader'[h] = reader[h] /\ reader[h] \in Reader
      BY <1>1, <2>2
    <3>2. JobOK(reader[h], lastSeen)
      BY DEF JobsOK
    <3> QED
      BY <1>1, <3>1, <3>2, CursorsRise
  <2> QED
    BY <2>1, <2>2
<1> QED
  BY <1>1, <1>2 DEF JobsOK

LEMMA CursorMoves ==
  ASSUME TypeOK, CursorIsSound, NEW g \in Calls, NEW r \in Reader,
         reader' = [reader EXCEPT ![g] = r],
         lastSeen' \in Nat, shown \subseteq shown', leapt \subseteq leapt',
         reader[g].job = "live" => reader[g].next \in shown',
         \A e \in lastSeen + 1..lastSeen' :
           e \in shown' \cup leapt' \/ (r.job = "live" /\ r.next = e)
  PROVE  CursorIsSound'
<1>1. reader \in [Calls -> Reader] /\ lastSeen \in Nat
  BY DEF TypeOK, Reader
<1>2. ASSUME NEW e \in 1..lastSeen', e <= lastSeen
      PROVE  e \in shown' \cup leapt' \/ InHand(e)'
  <2>1. e \in shown \cup leapt \/ InHand(e)
    BY <1>1, <1>2 DEF CursorIsSound
  <2>2. ASSUME NEW h \in Calls, reader[h].job = "live", reader[h].next = e
        PROVE  e \in shown' \cup leapt' \/ InHand(e)'
    <3>1. CASE h = g
      BY <2>2, <3>1
    <3>2. CASE h # g
      <4>1. reader'[h] = reader[h]
        BY <1>1, <3>2
      <4> QED
        BY <2>2, <4>1 DEF InHand
    <3> QED
      BY <3>1, <3>2
  <2> QED
    BY <2>1, <2>2 DEF InHand
<1>3. ASSUME NEW e \in 1..lastSeen', ~(e <= lastSeen)
      PROVE  e \in shown' \cup leapt' \/ InHand(e)'
  <2>1. e \in lastSeen + 1..lastSeen'
    BY <1>1, <1>3
  <2>2. reader'[g] = r
    BY <1>1
  <2> QED
    BY <2>1, <2>2 DEF InHand
<1> QED
  BY <1>2, <1>3 DEF CursorIsSound

\* A replay goes on within the cursor's reach, and does not end on an empty log.
LEMMA IngestOK ==
  ASSUME TypeOK, NEW g \in Calls, NEW n \in Nat, NEW known \in SUBSET Events,
         NEW ready \in BOOLEAN, NEW buffer \in Seq(Events), NEW c \in 0..MaxLog,
         n >= 1, n <= c + 1, known \subseteq 1..c, ready => c >= 1,
         c >= 1 \/ mark[g] >= 1,
         Ingest(g, n, known, ready, buffer)
  PROVE  /\ \E r \in Reader : /\ reader' = [reader EXCEPT ![g] = r]
                              /\ r.job # "live"
                              /\ JobOK(r, c)
         /\ complete' \in BOOLEAN /\ (complete' => c >= 1)
         /\ liveBuffer' \in Seq(Events)
<1> DEFINE rest == Rest(g, n, known)
<1>1. mark[g] \in 0..MaxLog
  BY DEF TypeOK
<1>2. rest = {e \in n..mark[g] : e \notin known}
  BY DEF Rest
<1>3. CASE rest # {}
  <2> DEFINE m == Min(rest)
             r == [job |-> "replay", next |-> m, upto |-> 0, queue |-> <<>>]
  <2>1. rest \in SUBSET Nat
    BY <1>1, <1>2, EventFacts
  <2>2. m \in rest /\ \A e \in rest : m <= e
    BY <1>3, <2>1, LeastElement
  <2>3. m \in Events /\ n <= m /\ m <= mark[g]
    BY <1>1, <1>2, <2>2, EventFacts DEF Events
  <2>4. m <= c + 1
    <3> HIDE DEF m
    <3>1. SUFFICES ASSUME m > c + 1
                   PROVE  FALSE
      BY <2>3, EventFacts
    <3>2. c + 1 \in n..mark[g] /\ c + 1 \notin known
      BY <1>1, <2>3, <3>1, EventFacts
    <3>3. c + 1 \in rest
      BY <1>2, <3>2
    <3> QED
      BY <2>2, <2>3, <3>1, <3>3, EventFacts
  <2>5. reader' = [reader EXCEPT ![g] = r] /\ complete' = ready /\ liveBuffer' = buffer
    BY <1>3 DEF Ingest, Idle
  <2>6. r \in Reader /\ r.job # "live" /\ JobOK(r, c)
    <3> HIDE DEF m
    <3> QED
      BY <2>3, <2>4, EventFacts DEF Reader, Jobs, JobOK, Events
  <2> QED
    BY <2>5, <2>6
<1>4. CASE rest = {}
  <2>1. /\ reader' = [reader EXCEPT ![g] = Flushing(buffer)]
        /\ complete' = TRUE
        /\ liveBuffer' = <<>>
    BY <1>4 DEF Ingest
  <2>2. c >= 1
    <3>1. SUFFICES ASSUME c = 0, mark[g] >= 1
                   PROVE  FALSE
      BY EventFacts
    <3>2. 1 \in n..mark[g] /\ 1 \notin known
      BY <1>1, <3>1, EventFacts
    <3> QED
      BY <1>2, <1>4, <3>2
  <2>3. Flushing(buffer) \in Reader /\ JobOK(Flushing(buffer), c)
        /\ Flushing(buffer).job # "live"
    BY FlushingOK
  <2>4. \E r \in Reader : /\ reader' = [reader EXCEPT ![g] = r]
                         /\ r.job # "live"
                         /\ JobOK(r, c)
    BY <2>1, <2>3
  <2>5. complete' \in BOOLEAN /\ (complete' => c >= 1)
    BY <2>1, <2>2
  <2>6. liveBuffer' \in Seq(Events)
    BY <2>1
  <2> QED
    BY <2>4, <2>5, <2>6
<1> QED
  BY <1>3, <1>4

(***************************************************************************)
(* Steps that hand out nothing.                                            *)
(***************************************************************************)

handed == <<lastSeen, shown, replayed, leapt>>

LEMMA NothingHanded ==
  ASSUME IInv, UNCHANGED handed, UNCHANGED reader,
         since' = since \/ \E g \in Calls : since' = [since EXCEPT ![g] = lastSeen]
  PROVE  JobsOK' /\ BehindCursor' /\ CursorIsSound'
<1>1. /\ reader \in [Calls -> Reader] /\ since \in [Calls -> 0..MaxLog]
      /\ lastSeen \in 0..MaxLog
  BY DEF IInv, TypeOK, Reader
<1>2. JobsOK'
  BY DEF IInv, JobsOK, handed
<1>3. BehindCursor'
  BY <1>1, EventFacts DEF IInv, BehindCursor, handed
<1>4. CursorIsSound'
  BY DEF IInv, CursorIsSound, InHand, handed
<1> QED
  BY <1>2, <1>3, <1>4

LEMMA ReaderStopped ==
  ASSUME IInv, UNCHANGED handed, UNCHANGED since,
         NEW g \in Calls, reader[g].job # "live",
         NEW r \in Reader, r.job # "live", JobOK(r, lastSeen),
         reader' = [reader EXCEPT ![g] = r]
  PROVE  reader' \in [Calls -> Reader] /\ JobsOK' /\ BehindCursor' /\ CursorIsSound'
<1>1. /\ lastSeen \in 0..MaxLog /\ lastSeen' = lastSeen
      /\ lastSeen' \in 0..MaxLog /\ lastSeen <= lastSeen' /\ JobOK(r, lastSeen')
  BY EventFacts DEF IInv, TypeOK, handed
<1>2. reader' \in [Calls -> Reader] /\ JobsOK'
  BY <1>1, ReaderMoves DEF IInv
<1>3. BehindCursor'
  BY DEF IInv, BehindCursor, handed
<1>4. CursorIsSound'
  <2>1. lastSeen' \in Nat /\ shown \subseteq shown' /\ leapt \subseteq leapt'
    BY <1>1, EventFacts DEF handed
  <2>2. \A e \in lastSeen + 1..lastSeen' :
          e \in shown' \cup leapt' \/ (r.job = "live" /\ r.next = e)
    BY <1>1, EventFacts
  <2> QED
    BY <2>1, <2>2, CursorMoves DEF IInv
<1> QED
  BY <1>2, <1>3, <1>4

\* What is on its way may be cut off or arrive.
LEMMA PipesShrink ==
  ASSUME IInv, UNCHANGED mark, NEW g \in Calls,
         \/ pipe'[g] = <<>>
         \/ pipe'[g] = pipe[g]
         \/ pipe[g] # <<>> /\ pipe'[g] = Tail(pipe[g])
  PROVE  /\ pipe'[g] \in Seq(0..MaxLog)
         /\ \A i \in DOMAIN pipe'[g] : pipe'[g][i] = Ack => mark'[g] >= 1
<1>1. pipe[g] \in Seq(0..MaxLog)
  BY DEF IInv, TypeOK
<1>2. \A i \in DOMAIN pipe[g] : pipe[g][i] = Ack => mark[g] >= 1
  BY DEF IInv, ReplaysHoldAnEvent
<1>3. CASE pipe'[g] = <<>>
  BY <1>3
<1>4. CASE pipe'[g] = pipe[g]
  BY <1>1, <1>2, <1>4
<1>5. CASE pipe[g] # <<>> /\ pipe'[g] = Tail(pipe[g])
  <2>1. Tail(pipe[g]) \in Seq(0..MaxLog) /\ Len(Tail(pipe[g])) = Len(pipe[g]) - 1
    BY <1>1, <1>5, HeadTailProperties
  <2>2. ASSUME NEW i \in 1..Len(pipe[g]) - 1
        PROVE  i + 1 \in DOMAIN pipe[g] /\ Tail(pipe[g])[i] = pipe[g][i + 1]
    BY <1>1, <1>5
  <2>3. mark' = mark /\ DOMAIN Tail(pipe[g]) = 1..Len(pipe[g]) - 1
    BY <2>1
  <2> QED
    BY <1>2, <1>5, <2>1, <2>2, <2>3
<1> QED
  BY <1>3, <1>4, <1>5

\* The channel does not touch what the client has.
LEMMA ChannelStep ==
  ASSUME IInv, ChannelActs
  PROVE  IInv'
<1>1. UNCHANGED handed /\ UNCHANGED reader /\ UNCHANGED since /\ UNCHANGED complete
  BY DEF ChannelActs, AppendEvent, Broadcast, Admit, ReadReplay, Register, Refuse, Cancel,
     Restart, LoseConnection, control, view, handed, channel
<1>2. JobsOK' /\ BehindCursor' /\ CursorIsSound'
  BY <1>1, NothingHanded
<1>3. ASSUME NEW announced \in BOOLEAN, AppendEvent(announced)
      PROVE  TypeOK' /\ ReplaysHoldAnEvent'
  <2>0. logged' \in 0..MaxLog /\ owed' \subseteq Events
    <3>1. logged \in 0..MaxLog /\ logged < MaxLog /\ logged' = logged + 1
      BY <1>3 DEF IInv, TypeOK, AppendEvent
    <3>2. logged' \in 0..MaxLog /\ logged' \in Events
      BY <3>1, EventFacts DEF Events
    <3>3. owed \subseteq Events /\ (owed' = owed \/ owed' = owed \cup {logged'})
      BY <1>3, <3>1 DEF IInv, TypeOK, AppendEvent
    <3> QED
      BY <3>2, <3>3
  <2>1. TypeOK'
    BY <1>3, <2>0 DEF IInv, TypeOK, AppendEvent, control, view
  <2>2. ReplaysHoldAnEvent'
    BY <1>3 DEF IInv, TypeOK, ReplaysHoldAnEvent, AppendEvent, control, view
  <2> QED
    BY <2>1, <2>2
<1>4. ASSUME NEW e \in Events, NEW full \in SUBSET streams, Broadcast(e, full)
      PROVE  TypeOK' /\ ReplaysHoldAnEvent'
  <2>1. ASSUME NEW g \in Calls
        PROVE  /\ pipe'[g] \in Seq(0..MaxLog)
               /\ \A i \in DOMAIN pipe'[g] : pipe'[g][i] = Ack => mark[g] >= 1
    <3>0. pipe[g] \in Seq(0..MaxLog)
      BY DEF IInv, TypeOK
    <3>1. e \in 0..MaxLog /\ e # Ack
      BY EventFacts DEF Ack, Events
    <3>2. CASE pipe'[g] = <<>>
      BY <3>2
    <3>3. CASE pipe'[g] = pipe[g]
      BY <3>0, <3>1, <3>3 DEF IInv, ReplaysHoldAnEvent
    <3>4. CASE pipe'[g] = Append(pipe[g], e)
      BY <3>0, <3>1, <3>4 DEF IInv, ReplaysHoldAnEvent
    <3> QED
      BY <1>4, <3>2, <3>3, <3>4 DEF Broadcast
  <2>2. pipe' \in [Calls -> Seq(0..MaxLog)]
    BY <1>4, <2>1 DEF Broadcast
  <2>3. listed' \in BOOLEAN
    BY <1>4 DEF IInv, TypeOK, Broadcast, Close
  <2>4. TypeOK'
    BY <1>4, <2>2, <2>3 DEF IInv, TypeOK, Broadcast, Close, control, view
  <2>5. ReplaysHoldAnEvent'
    BY <1>4, <2>1 DEF IInv, ReplaysHoldAnEvent, Broadcast, control, view
  <2> QED
    BY <2>4, <2>5
<1>5. ASSUME NEW g \in Calls, Admit(g)
      PROVE  TypeOK' /\ ReplaysHoldAnEvent'
  <2>1. TypeOK'
    BY <1>5 DEF IInv, TypeOK, Admit, control, view
  <2>2. ReplaysHoldAnEvent'
    BY <1>5 DEF IInv, TypeOK, ReplaysHoldAnEvent, Admit, control, view
  <2> QED
    BY <2>1, <2>2
<1>6. ASSUME NEW g \in Calls, ReadReplay(g)
      PROVE  TypeOK' /\ ReplaysHoldAnEvent'
  <2>1. TypeOK'
    BY <1>6 DEF IInv, TypeOK, ReadReplay, control, view
  <2>2. ReplaysHoldAnEvent'
    BY <1>6 DEF IInv, TypeOK, ReplaysHoldAnEvent, ReadReplay, control, view
  <2> QED
    BY <2>1, <2>2
<1>7. ASSUME NEW g \in Calls, Register(g)
      PROVE  TypeOK' /\ ReplaysHoldAnEvent'
  <2>1. ASSUME NEW h \in Calls
        PROVE  /\ pipe'[h] \in Seq(0..MaxLog)
               /\ \A i \in DOMAIN pipe'[h] : pipe'[h][i] = Ack => mark[h] >= 1
    <3>1. CASE h # g
      BY <1>7, <3>1 DEF IInv, TypeOK, ReplaysHoldAnEvent, Register
    <3>2. CASE h = g
      <4>1. pipe'[g] = <<Ack>> \/ pipe'[g] = <<>>
        BY <1>7 DEF IInv, TypeOK, Register
      <4>2. mark[g] >= 1
        BY <1>7 DEF IInv, ReplaysHoldAnEvent, Register
      <4>3. <<Ack>> \in Seq(0..MaxLog) /\ <<>> \in Seq(0..MaxLog)
        BY EventFacts DEF Ack
      <4> QED
        BY <3>2, <4>1, <4>2, <4>3
    <3> QED
      BY <3>1, <3>2
  <2>2. pipe' \in [Calls -> Seq(0..MaxLog)]
    BY <1>7, <2>1 DEF IInv, TypeOK, Register
  <2>3. streams' \subseteq Calls
    BY <1>7 DEF IInv, TypeOK, Register
  <2>4. TypeOK'
    BY <1>7, <2>2, <2>3 DEF IInv, TypeOK, Register, control, view
  <2>5. ReplaysHoldAnEvent'
    BY <1>7, <2>1 DEF IInv, TypeOK, ReplaysHoldAnEvent, Register, control, view
  <2> QED
    BY <2>4, <2>5
<1>8. ASSUME NEW g \in Calls, Refuse(g)
      PROVE  TypeOK' /\ ReplaysHoldAnEvent'
  <2>1. TypeOK'
    BY <1>8 DEF IInv, TypeOK, Refuse, control, view
  <2>2. ReplaysHoldAnEvent'
    BY <1>8 DEF IInv, TypeOK, ReplaysHoldAnEvent, Refuse, control, view
  <2> QED
    BY <2>1, <2>2
<1>9. ASSUME NEW g \in Calls, Cancel(g)
      PROVE  TypeOK' /\ ReplaysHoldAnEvent'
  <2>1. listed' \in BOOLEAN
    BY <1>9 DEF IInv, TypeOK, Cancel, Close
  <2>2. TypeOK'
    BY <1>9, <2>1 DEF IInv, TypeOK, Cancel, Close, control, view
  <2>3. ReplaysHoldAnEvent'
    BY <1>9 DEF IInv, ReplaysHoldAnEvent, Cancel, control, view
  <2> QED
    BY <2>2, <2>3
<1>10. ASSUME Restart
       PROVE  TypeOK' /\ ReplaysHoldAnEvent'
  <2>1. mark' = mark /\ complete' = complete /\ logged' = logged /\ lastSeen' = lastSeen
    BY <1>10 DEF Restart, view
  <2>2. ASSUME NEW g \in Calls
        PROVE  /\ pipe'[g] \in Seq(0..MaxLog)
               /\ \A i \in DOMAIN pipe'[g] : pipe'[g][i] = Ack => mark'[g] >= 1
    BY <1>10, <2>1, PipesShrink DEF Restart
  <2>3. pipe' \in [Calls -> Seq(0..MaxLog)]
    BY <1>10, <2>2 DEF Restart
  <2>4. TypeOK'
    BY <1>10, <2>3 DEF IInv, TypeOK, Restart, control, view
  <2>5. \A g \in Calls : call'[g] = "read" => call[g] = "read"
    BY <1>10 DEF IInv, TypeOK, Restart
  <2>6. ReplaysHoldAnEvent'
    BY <2>1, <2>2, <2>5 DEF IInv, ReplaysHoldAnEvent
  <2> QED
    BY <2>4, <2>6
<1>11. ASSUME NEW g \in Calls, LoseConnection(g)
       PROVE  TypeOK' /\ ReplaysHoldAnEvent'
  <2>1. /\ mark' = mark /\ complete' = complete /\ logged' = logged /\ lastSeen' = lastSeen
        /\ call' = call
    BY <1>11 DEF LoseConnection, channel, view
  <2>2. ASSUME NEW h \in Calls
        PROVE  /\ pipe'[h] \in Seq(0..MaxLog)
               /\ \A i \in DOMAIN pipe'[h] : pipe'[h][i] = Ack => mark'[h] >= 1
    <3>1. pipe'[h] = <<>> \/ pipe'[h] = pipe[h]
      BY <1>11 DEF IInv, TypeOK, LoseConnection
    <3> QED
      BY <2>1, <3>1, PipesShrink
  <2>3. pipe' \in [Calls -> Seq(0..MaxLog)]
    BY <1>11, <2>2 DEF IInv, TypeOK, LoseConnection
  <2>4. TypeOK'
    BY <1>11, <2>3 DEF IInv, TypeOK, LoseConnection, channel, control, view
  <2>5. ReplaysHoldAnEvent'
    BY <2>1, <2>2 DEF IInv, ReplaysHoldAnEvent
  <2> QED
    BY <2>4, <2>5
<1> QED
  BY <1>2, <1>3, <1>4, <1>5, <1>6, <1>7, <1>8, <1>9, <1>10, <1>11 DEF ChannelActs, IInv

(***************************************************************************)
(* Steps of the client that hand out nothing.                              *)
(***************************************************************************)

LEMMA HostRecoversStep ==
  ASSUME IInv, HostRecovers
  PROVE  IInv'
<1>1. UNCHANGED <<handed, reader, since, logged, call, mark, pipe, complete>>
  BY DEF HostRecovers, channel, control, view, handed
<1>2. JobsOK' /\ BehindCursor' /\ CursorIsSound'
  BY <1>1, NothingHanded
<1>3. TypeOK'
  BY DEF IInv, TypeOK, HostRecovers, channel, control, view
<1>4. ReplaysHoldAnEvent'
  BY <1>1 DEF IInv, ReplaysHoldAnEvent, handed
<1> QED
  BY <1>2, <1>3, <1>4 DEF IInv

LEMMA OpenStep ==
  ASSUME IInv, Open
  PROVE  IInv'
<1>1. /\ UNCHANGED <<handed, reader, logged, mark, pipe, complete>>
      /\ since' = [since EXCEPT ![opened + 1] = lastSeen]
  BY DEF Open, view, handed
<1>2. opened + 1 \in Calls
  BY EventFacts DEF IInv, TypeOK, Open, Spare, Calls
<1>3. JobsOK' /\ BehindCursor' /\ CursorIsSound'
  BY <1>1, <1>2, NothingHanded
<1>4. TypeOK'
  <2>1. opened' = opened + 1 /\ active' = opened + 1 /\ recovering' = TRUE /\ wanted' = FALSE
    BY DEF Open
  <2>2. opened' \in Calls /\ active' \in 0..MaxOpens
    BY <1>2, <2>1, EventFacts DEF Calls
  <2>3. /\ previous' \in [Calls -> 0..MaxOpens] /\ since' \in [Calls -> 0..MaxLog]
        /\ call' \in [Calls -> {"none", "asked", "admitted", "read", "answered", "refused"}]
    BY SMTT(20), <1>1, <1>2 DEF IInv, TypeOK, Open
  <2> QED
    BY ZenonT(40), <1>1, <2>1, <2>2, <2>3 DEF IInv, TypeOK, Open, view
<1>5. \A g \in Calls : call'[g] = "read" => call[g] = "read"
  BY DEF IInv, TypeOK, Open
<1>6. ReplaysHoldAnEvent'
  BY <1>1, <1>5 DEF IInv, ReplaysHoldAnEvent, handed
<1> QED
  BY <1>3, <1>4, <1>6 DEF IInv

\* A response whose reader is done is not read further.
LEMMA StopStep ==
  ASSUME IInv, NEW g \in Calls, Stop(g), reader[g].job # "live",
         UNCHANGED <<handed, since, logged, call, mark>>,
         complete' \in BOOLEAN, complete' => complete
  PROVE  /\ reader' \in [Calls -> Reader] /\ pipe' \in [Calls -> Seq(0..MaxLog)]
         /\ JobsOK' /\ BehindCursor' /\ CursorIsSound' /\ ReplaysHoldAnEvent'
<1>1. JobOK(Dead, lastSeen) /\ Dead.job # "live" /\ Dead \in Reader
  BY ReadersHaveTypes DEF IInv, TypeOK
<1>2. reader' \in [Calls -> Reader] /\ JobsOK' /\ BehindCursor' /\ CursorIsSound'
  BY <1>1, ReaderStopped DEF Stop
<1>3. ASSUME NEW h \in Calls
      PROVE  /\ pipe'[h] \in Seq(0..MaxLog)
             /\ \A i \in DOMAIN pipe'[h] : pipe'[h][i] = Ack => mark'[h] >= 1
  <2>1. pipe'[h] = <<>> \/ pipe'[h] = pipe[h]
    BY DEF IInv, TypeOK, Stop
  <2> QED
    BY <2>1, PipesShrink
<1>4. pipe' \in [Calls -> Seq(0..MaxLog)]
  BY <1>3 DEF IInv, TypeOK, Stop
<1>5. ReplaysHoldAnEvent'
  BY <1>3 DEF IInv, ReplaysHoldAnEvent, handed
<1> QED
  BY <1>2, <1>4, <1>5

LEMMA FailFacts ==
  ASSUME IInv, NEW g \in Calls, NEW byTransport \in BOOLEAN, Fail(g, byTransport)
  PROVE  /\ complete' \in BOOLEAN /\ (complete' => complete)
         /\ wanted' \in BOOLEAN /\ offline' \in BOOLEAN
<1>1. complete \in BOOLEAN /\ wanted \in BOOLEAN /\ offline \in BOOLEAN
  BY DEF IInv, TypeOK
<1>2. CASE g = active /\ g \notin aborted
  BY <1>1, <1>2 DEF Fail
<1>3. CASE ~(g = active /\ g \notin aborted)
  BY <1>1, <1>3 DEF Fail
<1> QED
  BY <1>2, <1>3

LEMMA OpenFailsStep ==
  ASSUME IInv, NEW g \in Calls, OpenFails(g)
  PROVE  IInv'
<1>1. /\ reader[g] = Idle /\ Stop(g)
      /\ UNCHANGED <<handed, since, logged, call, mark>>
  BY DEF OpenFails, Reading, channel, handed
<1>2. complete' \in BOOLEAN /\ (complete' => complete)
  BY DEF OpenFails
<1>3. recovering' \in BOOLEAN /\ wanted' \in BOOLEAN /\ offline' \in BOOLEAN
  BY DEF IInv, TypeOK, OpenFails
<1>4. active' \in 0..MaxOpens /\ aborted' \subseteq Calls
  BY DEF IInv, TypeOK, OpenFails
<1>5. /\ reader' \in [Calls -> Reader] /\ pipe' \in [Calls -> Seq(0..MaxLog)]
      /\ JobsOK' /\ BehindCursor' /\ CursorIsSound' /\ ReplaysHoldAnEvent'
  BY <1>1, <1>2, StopStep, ReadersHaveTypes
<1>6. TypeOK'
  BY <1>2, <1>3, <1>4, <1>5 DEF IInv, TypeOK, OpenFails, Stop, channel, Reader
<1> QED
  BY <1>5, <1>6 DEF IInv

LEMMA ResponseEndsStep ==
  ASSUME IInv, NEW g \in Calls, ResponseEnds(g)
  PROVE  IInv'
<1>1. /\ reader[g] = Idle /\ Stop(g)
      /\ UNCHANGED <<handed, since, logged, call, mark>>
  BY DEF ResponseEnds, Reading, channel, control, handed
<1>2. /\ complete' \in BOOLEAN /\ (complete' => complete)
      /\ wanted' \in BOOLEAN /\ offline' \in BOOLEAN
  BY FailFacts DEF ResponseEnds
<1>3. /\ reader' \in [Calls -> Reader] /\ pipe' \in [Calls -> Seq(0..MaxLog)]
      /\ JobsOK' /\ BehindCursor' /\ CursorIsSound' /\ ReplaysHoldAnEvent'
  BY <1>1, <1>2, StopStep, ReadersHaveTypes
<1>4. TypeOK'
  BY <1>2, <1>3 DEF IInv, TypeOK, ResponseEnds, Stop, channel, control, Reader
<1> QED
  BY <1>3, <1>4 DEF IInv

LEMMA ReaderStopsStep ==
  ASSUME IInv, NEW g \in Calls, ReaderStops(g)
  PROVE  IInv'
<1>1. /\ reader[g] = Idle /\ Stop(g)
      /\ UNCHANGED <<handed, since, logged, call, mark, complete>>
  BY DEF ReaderStops, channel, control, handed
<1>2. complete' \in BOOLEAN /\ (complete' => complete) /\ wanted' \in BOOLEAN
  BY <1>1 DEF IInv, TypeOK, ReaderStops
<1>3. /\ reader' \in [Calls -> Reader] /\ pipe' \in [Calls -> Seq(0..MaxLog)]
      /\ JobsOK' /\ BehindCursor' /\ CursorIsSound' /\ ReplaysHoldAnEvent'
  BY <1>1, <1>2, StopStep, ReadersHaveTypes
<1>4. TypeOK'
  BY <1>2, <1>3 DEF IInv, TypeOK, ReaderStops, Stop, channel, control, Reader
<1> QED
  BY <1>3, <1>4 DEF IInv

\* A read that fails has no event in hand but one whose values were fetched.
LEMMA ReadFailsStep ==
  ASSUME IInv, LiveReadsFail = FALSE, NEW g \in Calls, ReadFails(g)
  PROVE  IInv'
<1>1. /\ reader[g].job # "live" /\ Stop(g)
      /\ UNCHANGED <<handed, since, logged, call, mark>>
  BY DEF ReadFails, channel, control, handed
<1>2. /\ complete' \in BOOLEAN /\ (complete' => complete)
      /\ wanted' \in BOOLEAN /\ offline' \in BOOLEAN
  BY FailFacts DEF ReadFails
<1>3. repairing' \in BOOLEAN
  BY DEF ReadFails
<1>4. /\ reader' \in [Calls -> Reader] /\ pipe' \in [Calls -> Seq(0..MaxLog)]
      /\ JobsOK' /\ BehindCursor' /\ CursorIsSound' /\ ReplaysHoldAnEvent'
  BY <1>1, <1>2, StopStep
<1>5. TypeOK'
  BY <1>2, <1>3, <1>4 DEF IInv, TypeOK, ReadFails, Stop, channel, control, Reader
<1> QED
  BY <1>4, <1>5 DEF IInv

(***************************************************************************)
(* What arrives.                                                           *)
(***************************************************************************)

LEMMA ArrivesOK ==
  ASSUME IInv, NEW g \in Calls, NEW e, Arrives(g, e), UNCHANGED mark
  PROVE  /\ reader[g] = Idle /\ pipe' \in [Calls -> Seq(0..MaxLog)]
         /\ \A h \in Calls : \A i \in DOMAIN pipe'[h] : pipe'[h][i] = Ack => mark'[h] >= 1
         /\ e = Ack => mark[g] >= 1
<1>1. ASSUME NEW h \in Calls
      PROVE  /\ pipe'[h] \in Seq(0..MaxLog)
             /\ \A i \in DOMAIN pipe'[h] : pipe'[h][i] = Ack => mark'[h] >= 1
  <2>1. pipe'[h] = pipe[h] \/ (pipe[h] # <<>> /\ pipe'[h] = Tail(pipe[h]))
    BY DEF IInv, TypeOK, Arrives
  <2> QED
    BY <2>1, PipesShrink
<1>2. pipe' \in [Calls -> Seq(0..MaxLog)]
  BY <1>1 DEF IInv, TypeOK, Arrives
<1>3. pipe[g] \in Seq(0..MaxLog) /\ 1 \in DOMAIN pipe[g] /\ pipe[g][1] = e
  <2>1. pipe[g] \in Seq(0..MaxLog) /\ pipe[g] # <<>> /\ Head(pipe[g]) = e
    BY DEF IInv, TypeOK, Arrives
  <2> QED
    BY <2>1
<1>4. e = Ack => mark[g] >= 1
  BY <1>3 DEF IInv, ReplaysHoldAnEvent
<1> QED
  BY <1>1, <1>2, <1>4 DEF Arrives, Reading

\* The replay of a response begins at the cursor that the client sent.
LEMMA TakeAckStep ==
  ASSUME IInv, NEW g \in Calls, TakeAck(g)
  PROVE  IInv'
<1>1. /\ Arrives(g, Ack) /\ lastSeen' = lastSeen
      /\ UNCHANGED <<handed, since, logged, call, mark>>
  BY DEF TakeAck, channel, handed
<1>2. /\ reader[g] = Idle /\ pipe' \in [Calls -> Seq(0..MaxLog)] /\ mark[g] >= 1
      /\ \A h \in Calls : \A i \in DOMAIN pipe'[h] : pipe'[h][i] = Ack => mark'[h] >= 1
  BY <1>1, ArrivesOK
<1>3. /\ lastSeen \in 0..MaxLog /\ since[g] \in 0..MaxLog /\ since[g] <= lastSeen
      /\ replayed \in SUBSET Events /\ replayed \subseteq 1..lastSeen
      /\ complete \in BOOLEAN /\ (complete => lastSeen >= 1)
      /\ liveBuffer \in Seq(Events) /\ <<>> \in Seq(Events)
  BY SMTT(20) DEF IInv, TypeOK, BehindCursor, ReplaysHoldAnEvent
<1>4. since[g] + 1 \in Nat /\ since[g] + 1 >= 1 /\ since[g] + 1 <= lastSeen + 1
  BY <1>3, EventFacts
<1>5. PICK ready \in BOOLEAN, buffer \in Seq(Events) :
        /\ ready => lastSeen >= 1
        /\ Ingest(g, since[g] + 1, replayed, ready, buffer)
  BY <1>3 DEF TakeAck
<1>6. /\ \E r \in Reader : /\ reader' = [reader EXCEPT ![g] = r]
                           /\ r.job # "live"
                           /\ JobOK(r, lastSeen)
      /\ complete' \in BOOLEAN /\ (complete' => lastSeen >= 1)
      /\ liveBuffer' \in Seq(Events)
  BY <1>2, <1>3, <1>4, <1>5, IngestOK DEF IInv
<1>7. reader' \in [Calls -> Reader] /\ JobsOK' /\ BehindCursor' /\ CursorIsSound'
  BY <1>1, <1>2, <1>6, ReaderStopped, ReadersHaveTypes
<1>8. ReplaysHoldAnEvent'
  BY <1>1, <1>2, <1>6 DEF IInv, ReplaysHoldAnEvent
<1>9. acknowledged' \subseteq Calls /\ aborted' \subseteq Calls
  <2>1. previous[g] \in 0..MaxOpens
    BY DEF IInv, TypeOK
  <2>2. {previous[g]} \ {0} \subseteq Calls
    BY <2>1, EventFacts DEF Calls
  <2> QED
    BY <2>2 DEF IInv, TypeOK, TakeAck
<1>10. recovering' \in BOOLEAN
  BY DEF TakeAck
<1>11. TypeOK'
  BY <1>2, <1>6, <1>7, <1>9, <1>10 DEF IInv, TypeOK, TakeAck, channel, Reader
<1> QED
  BY <1>7, <1>8, <1>11 DEF IInv

LEMMA DropLiveStep ==
  ASSUME IInv, NEW g \in Calls, NEW e \in Events, DropLive(g, e)
  PROVE  IInv'
<1>1. /\ Arrives(g, e)
      /\ UNCHANGED <<handed, reader, since, logged, call, mark, complete>>
  BY DEF DropLive, channel, control, view, handed
<1>2. /\ pipe' \in [Calls -> Seq(0..MaxLog)]
      /\ \A h \in Calls : \A i \in DOMAIN pipe'[h] : pipe'[h][i] = Ack => mark'[h] >= 1
  BY <1>1, ArrivesOK
<1>3. JobsOK' /\ BehindCursor' /\ CursorIsSound'
  BY <1>1, NothingHanded
<1>4. ReplaysHoldAnEvent'
  BY <1>1, <1>2 DEF IInv, ReplaysHoldAnEvent, handed
<1>5. TypeOK'
  BY <1>2 DEF IInv, TypeOK, DropLive, channel, control, view
<1> QED
  BY <1>3, <1>4, <1>5 DEF IInv

LEMMA HoldLiveStep ==
  ASSUME IInv, NEW g \in Calls, NEW e \in Events, HoldLive(g, e)
  PROVE  IInv'
<1>1. /\ Arrives(g, e)
      /\ UNCHANGED <<handed, reader, since, logged, call, mark, complete>>
  BY DEF HoldLive, channel, control, handed
<1>2. /\ pipe' \in [Calls -> Seq(0..MaxLog)]
      /\ \A h \in Calls : \A i \in DOMAIN pipe'[h] : pipe'[h][i] = Ack => mark'[h] >= 1
  BY <1>1, ArrivesOK
<1>3. JobsOK' /\ BehindCursor' /\ CursorIsSound'
  BY <1>1, NothingHanded
<1>4. ReplaysHoldAnEvent'
  BY <1>1, <1>2 DEF IInv, ReplaysHoldAnEvent, handed
<1>5. liveBuffer' \in Seq(Events)
  BY DEF IInv, TypeOK, HoldLive
<1>6. TypeOK'
  BY <1>2, <1>5 DEF IInv, TypeOK, HoldLive, channel, control
<1> QED
  BY <1>3, <1>4, <1>6 DEF IInv

LEMMA BufferLiveStep ==
  ASSUME IInv, NEW g \in Calls, NEW e \in Events, BufferLive(g, e)
  PROVE  IInv'
<1>1. /\ Arrives(g, e)
      /\ UNCHANGED <<handed, reader, since, logged, call, mark, complete>>
  BY DEF BufferLive, channel, control, handed
<1>2. /\ pipe' \in [Calls -> Seq(0..MaxLog)]
      /\ \A h \in Calls : \A i \in DOMAIN pipe'[h] : pipe'[h][i] = Ack => mark'[h] >= 1
  BY <1>1, ArrivesOK
<1>3. JobsOK' /\ BehindCursor' /\ CursorIsSound'
  BY <1>1, NothingHanded
<1>4. ReplaysHoldAnEvent'
  BY <1>1, <1>2 DEF IInv, ReplaysHoldAnEvent, handed
<1>5. gapBuffer' \in Seq(Events)
  BY DEF IInv, TypeOK, BufferLive
<1>6. TypeOK'
  BY <1>2, <1>5 DEF IInv, TypeOK, BufferLive, channel, control
<1> QED
  BY <1>3, <1>4, <1>6 DEF IInv

\* The events that a repair reads begin right behind the cursor.
LEMMA DetectGapStep ==
  ASSUME IInv, NEW g \in Calls, NEW e \in Events, DetectGap(g, e)
  PROVE  IInv'
<1>1. /\ Arrives(g, e) /\ repairing' = TRUE
      /\ UNCHANGED <<handed, since, logged, call, mark, complete>>
  BY DEF DetectGap, Due, channel, control, handed
<1>2. /\ reader[g] = Idle /\ pipe' \in [Calls -> Seq(0..MaxLog)]
      /\ \A h \in Calls : \A i \in DOMAIN pipe'[h] : pipe'[h][i] = Ack => mark'[h] >= 1
  BY <1>1, ArrivesOK
<1> DEFINE r == Repair(e)
<1>3. lastSeen \in 0..MaxLog /\ e > lastSeen + 1 /\ e <= MaxLog /\ e \in Nat
  BY EventFacts DEF IInv, TypeOK, DetectGap, Follows, Events
<1>4. r \in Reader /\ JobOK(r, lastSeen) /\ r.job # "live"
  <2>1. /\ lastSeen + 1 \in 0..MaxLog + 1 /\ e - 1 \in 0..MaxLog /\ lastSeen + 1 \in Events
        /\ (e - 1) + 1 \in Events /\ "repair" \in Jobs
    BY <1>3, EventFacts DEF Events, Jobs
  <2>2. /\ r \in Reader
        /\ r.job = "repair" /\ r.next = lastSeen + 1 /\ r.upto = e - 1
    BY <2>1, ReadersHaveTypes DEF Reader, Repair
  <2> QED
    BY <1>3, <2>1, <2>2 DEF JobOK
<1>5. reader' = [reader EXCEPT ![g] = r]
  BY DEF DetectGap
<1>6. reader' \in [Calls -> Reader] /\ JobsOK' /\ BehindCursor' /\ CursorIsSound'
  <2> HIDE DEF r
  <2> QED
    BY <1>1, <1>2, <1>4, <1>5, ReaderStopped, ReadersHaveTypes
<1>7. ReplaysHoldAnEvent'
  BY <1>1, <1>2 DEF IInv, ReplaysHoldAnEvent, handed
<1>8. TypeOK'
  BY <1>1, <1>2, <1>6 DEF IInv, TypeOK, DetectGap, channel, control, Reader
<1> QED
  BY <1>6, <1>7, <1>8 DEF IInv

\* The cursor moves to the event that the reader now has in hand.
LEMMA TakeLiveStep ==
  ASSUME IInv, NEW g \in Calls, NEW e \in Events, TakeLive(g, e)
  PROVE  IInv'
<1>1. /\ Arrives(g, e) /\ lastSeen' = Max({lastSeen, e})
      /\ UNCHANGED <<shown, replayed, leapt, since, logged, call, mark, complete>>
  BY DEF TakeLive, Due, channel, control
<1>2. /\ reader[g] = Idle /\ pipe' \in [Calls -> Seq(0..MaxLog)]
      /\ \A h \in Calls : \A i \in DOMAIN pipe'[h] : pipe'[h][i] = Ack => mark'[h] >= 1
  BY <1>1, ArrivesOK
<1>3. lastSeen \in 0..MaxLog /\ lastSeen >= 1 /\ e <= lastSeen + 1
  BY EventFacts DEF IInv, TypeOK, ReplaysHoldAnEvent, TakeLive, Due, Follows
<1>4. /\ lastSeen' \in 0..MaxLog /\ lastSeen <= lastSeen' /\ e <= lastSeen'
      /\ lastSeen' \in {lastSeen, e}
  BY <1>1, <1>3, MaxPair, EventFacts DEF Events
<1> DEFINE r == [Idle EXCEPT !.job = "live", !.next = e]
<1>5. r \in Reader /\ JobOK(r, lastSeen') /\ r.job = "live" /\ r.next = e
  <2>1. e \in 0..MaxLog + 1 /\ "live" \in Jobs /\ e \in 1..lastSeen'
    BY <1>4, EventFacts DEF Events, Jobs
  <2>2. r \in Reader /\ r.job = "live" /\ r.next = e
    BY <2>1, ReadersHaveTypes DEF Reader
  <2> QED
    BY <2>1, <2>2 DEF JobOK
<1>6. reader' = [reader EXCEPT ![g] = r]
  BY DEF TakeLive
<1>7. reader' \in [Calls -> Reader] /\ JobsOK'
  <2> HIDE DEF r
  <2> QED
    BY <1>4, <1>5, <1>6, ReaderMoves DEF IInv
<1>8. \A f \in lastSeen + 1..lastSeen' : f = e
  BY <1>3, <1>4, EventFacts DEF Events
<1>9. CursorIsSound'
  <2> HIDE DEF r
  <2>1. lastSeen' \in Nat /\ shown \subseteq shown' /\ leapt \subseteq leapt'
    BY <1>1, <1>4, EventFacts
  <2>2. reader[g].job # "live"
    BY <1>2, ReadersHaveTypes
  <2>3. \A f \in lastSeen + 1..lastSeen' :
          f \in shown' \cup leapt' \/ (r.job = "live" /\ r.next = f)
    BY <1>5, <1>8
  <2> QED
    BY <1>6, <1>5, <2>1, <2>2, <2>3, CursorMoves DEF IInv
<1>10. BehindCursor'
  <2>1. since \in [Calls -> 0..MaxLog]
    BY DEF IInv, TypeOK
  <2> QED
    BY <1>1, <1>3, <1>4, <2>1, EventFacts DEF IInv, BehindCursor
<1>11. ReplaysHoldAnEvent'
  <2>1. lastSeen' >= 1
    BY <1>3, <1>4, EventFacts
  <2> QED
    BY <1>1, <1>2, <2>1 DEF IInv, ReplaysHoldAnEvent
<1>12. TypeOK'
  BY <1>2, <1>4, <1>7 DEF IInv, TypeOK, TakeLive, channel, control, Reader
<1> QED
  BY <1>7, <1>9, <1>10, <1>11, <1>12 DEF IInv

(***************************************************************************)
(* Steps that hand out an event.                                           *)
(***************************************************************************)

LEMMA HandledOK ==
  ASSUME IInv, NEW e \in Events, Handle(e)
  PROVE  /\ lastSeen' \in 0..MaxLog /\ lastSeen' >= 1
         /\ lastSeen <= lastSeen' /\ e <= lastSeen' /\ lastSeen' \in {lastSeen, e}
         /\ shown' \subseteq Events
<1>1. lastSeen \in 0..MaxLog /\ e \in 1..MaxLog /\ lastSeen' = Max({lastSeen, e})
  BY DEF IInv, TypeOK, Handle, Events
<1>2. /\ lastSeen' \in Nat /\ lastSeen <= lastSeen' /\ e <= lastSeen'
      /\ lastSeen' \in {lastSeen, e}
  BY <1>1, MaxPair, EventFacts
<1>3. shown' \subseteq Events
  BY DEF IInv, TypeOK, Handle
<1> QED
  BY <1>1, <1>2, <1>3, EventFacts

\* A reader hands out an event and passes over none, unless it has leapt them.
LEMMA HandOutStep ==
  ASSUME IInv, NEW e \in Events, Handle(e), NEW g \in Calls,
         reader[g].job = "live" => reader[g].next = e,
         NEW r \in Reader, r.job # "live", JobOK(r, lastSeen'),
         reader' = [reader EXCEPT ![g] = r],
         leapt \subseteq leapt', lastSeen + 1..e - 1 \subseteq leapt',
         replayed' \subseteq replayed \cup {e},
         UNCHANGED <<since, logged, call, mark, pipe>>
  PROVE  /\ reader' \in [Calls -> Reader]
         /\ JobsOK' /\ BehindCursor' /\ CursorIsSound' /\ ReplaysHoldAnEvent'
<1>1. /\ lastSeen' \in 0..MaxLog /\ lastSeen' >= 1
      /\ lastSeen <= lastSeen' /\ e <= lastSeen' /\ lastSeen' \in {lastSeen, e}
  BY HandledOK
<1>2. lastSeen \in 0..MaxLog /\ since \in [Calls -> 0..MaxLog]
  BY DEF IInv, TypeOK
<1>3. shown' = shown \cup {e}
  BY DEF Handle
<1>4. reader' \in [Calls -> Reader] /\ JobsOK'
  BY <1>1, ReaderMoves DEF IInv
<1>5. BehindCursor'
  <2>1. shown' \subseteq 1..lastSeen'
    BY <1>1, <1>2, <1>3, EventFacts DEF IInv, BehindCursor, Events
  <2>2. replayed' \subseteq shown'
    BY <1>3 DEF IInv, BehindCursor
  <2>3. \A h \in Calls : since'[h] <= lastSeen'
    BY <1>1, <1>2, EventFacts DEF IInv, BehindCursor
  <2> QED
    BY <2>1, <2>2, <2>3 DEF BehindCursor
<1>6. \A f \in lastSeen + 1..lastSeen' : f = e \/ f \in lastSeen + 1..e - 1
  BY <1>1, <1>2, EventFacts
<1>7. CursorIsSound'
  <2>1. lastSeen' \in Nat /\ shown \subseteq shown' /\ leapt \subseteq leapt'
    BY <1>1, <1>3, EventFacts
  <2>2. \A f \in lastSeen + 1..lastSeen' :
          f \in shown' \cup leapt' \/ (r.job = "live" /\ r.next = f)
    BY <1>3, <1>6
  <2>3. reader[g].job = "live" => reader[g].next \in shown'
    BY <1>3
  <2> QED
    BY <2>1, <2>2, <2>3, CursorMoves DEF IInv
<1>8. ReplaysHoldAnEvent'
  BY <1>1 DEF IInv, ReplaysHoldAnEvent
<1> QED
  BY <1>4, <1>5, <1>7, <1>8

\* An event next to the cursor leaves none between.
LEMMA NoneBetween ==
  ASSUME TypeOK, NEW e \in Events, e <= lastSeen + 1
  PROVE  lastSeen + 1..e - 1 = {}
<1>1. lastSeen \in 0..MaxLog /\ e \in Nat
  BY EventFacts DEF TypeOK
<1> QED
  BY <1>1

LEMMA ShowReplayedStep ==
  ASSUME IInv, NEW g \in Calls, ShowReplayed(g)
  PROVE  IInv'
<1>0. PICK e : e = reader[g].next
  OBVIOUS
<1>1. /\ reader[g].job = "replay" /\ Handle(e) /\ replayed' = replayed \cup {e}
      /\ Ingest(g, e + 1, replayed', complete, liveBuffer)
      /\ UNCHANGED <<leapt, since, logged, call, mark, pipe>>
  BY <1>0 DEF ShowReplayed, unread, channel, control
<1>2. e \in Events /\ e <= lastSeen + 1
  BY <1>0, <1>1 DEF IInv, JobsOK, JobOK
<1>3. /\ lastSeen' \in 0..MaxLog /\ lastSeen' >= 1
      /\ lastSeen <= lastSeen' /\ e <= lastSeen' /\ lastSeen' \in {lastSeen, e}
      /\ shown' \subseteq Events
  BY <1>1, <1>2, HandledOK
<1>4. /\ lastSeen \in 0..MaxLog /\ complete \in BOOLEAN /\ liveBuffer \in Seq(Events)
      /\ replayed \subseteq 1..lastSeen
  BY DEF IInv, TypeOK, BehindCursor
<1>5. /\ e + 1 \in Nat /\ e + 1 >= 1 /\ e + 1 <= lastSeen' + 1
      /\ replayed' \in SUBSET Events /\ replayed' \subseteq 1..lastSeen'
  <2>1. e \in Nat /\ e >= 1
    BY <1>2 DEF Events
  <2>2. replayed' \subseteq 1..lastSeen'
    BY <1>1, <1>3, <1>4, <2>1, EventFacts
  <2>3. replayed' \subseteq Events
    BY <1>1, <1>2 DEF IInv, TypeOK
  <2>4. PICK c \in Nat : c = lastSeen'
    BY <1>3, EventFacts
  <2>5. e <= c
    BY <1>3, <2>4
  <2>6. e + 1 \in Nat /\ e + 1 >= 1 /\ e + 1 <= c + 1
    BY <2>1, <2>5
  <2> QED
    BY <2>2, <2>3, <2>4, <2>6
<1>6. /\ \E r \in Reader : /\ reader' = [reader EXCEPT ![g] = r]
                           /\ r.job # "live"
                           /\ JobOK(r, lastSeen')
      /\ complete' \in BOOLEAN /\ liveBuffer' \in Seq(Events)
  BY <1>1, <1>3, <1>4, <1>5, IngestOK DEF IInv
<1>7. lastSeen + 1..e - 1 \subseteq leapt'
  BY <1>2, NoneBetween DEF IInv
<1>8. /\ reader' \in [Calls -> Reader]
      /\ JobsOK' /\ BehindCursor' /\ CursorIsSound' /\ ReplaysHoldAnEvent'
  BY <1>1, <1>2, <1>6, <1>7, HandOutStep
<1>9. TypeOK'
  BY <1>3, <1>5, <1>6, <1>8
     DEF IInv, TypeOK, ShowReplayed, unread, channel, control, Reader
<1> QED
  BY <1>8, <1>9 DEF IInv

LEMMA ShowLiveStep ==
  ASSUME IInv, NEW g \in Calls, ShowLive(g)
  PROVE  IInv'
<1> DEFINE e == reader[g].next
<1>1. /\ reader[g].job = "live" /\ Handle(e) /\ reader' = [reader EXCEPT ![g] = Idle]
      /\ UNCHANGED <<leapt, replayed, since, logged, call, mark, pipe>>
  BY DEF ShowLive, unread, channel, control
<1>2. e \in Events /\ e <= lastSeen + 1
  <2>1. e \in 1..lastSeen /\ lastSeen \in 0..MaxLog
    BY <1>1 DEF IInv, TypeOK, JobsOK, JobOK
  <2> QED
    BY <2>1, EventFacts DEF Events
<1>3. lastSeen' \in 0..MaxLog /\ shown' \subseteq Events
  BY <1>1, <1>2, HandledOK
<1>4. lastSeen + 1..e - 1 \subseteq leapt'
  BY <1>2, NoneBetween DEF IInv
<1>5. Idle \in Reader /\ Idle.job # "live" /\ JobOK(Idle, lastSeen')
  BY <1>3, ReadersHaveTypes
<1>6. /\ reader' \in [Calls -> Reader]
      /\ JobsOK' /\ BehindCursor' /\ CursorIsSound' /\ ReplaysHoldAnEvent'
  BY <1>1, <1>2, <1>4, <1>5, HandOutStep
<1>7. TypeOK'
  BY <1>3, <1>6 DEF IInv, TypeOK, ShowLive, unread, channel, control, Reader
<1> QED
  BY <1>6, <1>7 DEF IInv

\* The missing events that lie behind the cursor begin right behind it.
LEMMA MissingFacts ==
  ASSUME NEW e \in Nat, NEW u \in Nat, NEW c \in Nat, e <= c, NEW rest,
         rest = {f \in e + 1..u : f > c}
  PROVE  /\ rest # {} => Min(rest) \in e + 1..u /\ Min(rest) <= c + 1
         /\ rest = {} => u <= c
<1>1. ASSUME rest # {}
      PROVE  Min(rest) \in e + 1..u /\ Min(rest) <= c + 1
  <2>1. PICK m : m = Min(rest)
    OBVIOUS
  <2>2. rest \in SUBSET Nat
    OBVIOUS
  <2>3. m \in rest /\ \A f \in rest : m <= f
    BY <1>1, <2>1, <2>2, LeastElement
  <2>4. m \in e + 1..u
    BY <2>3
  <2>5. m > c + 1 => c + 1 \in rest
    BY <2>4
  <2> QED
    BY <2>1, <2>3, <2>4, <2>5
<1>2. ASSUME rest = {}, u > c
      PROVE  FALSE
  <2>1. u \in rest
    BY <1>2
  <2> QED
    BY <1>2, <2>1
<1> QED
  BY <1>1, <1>2

\* What a repair has left begins right behind the cursor.
LEMMA ShowRepairedStep ==
  ASSUME IInv, NEW g \in Calls, ShowRepaired(g)
  PROVE  IInv'
<1> DEFINE e == reader[g].next
           u == reader[g].upto
           rest == {f \in e + 1..u : f > lastSeen'}
<1>1. /\ reader[g].job = "repair" /\ Handle(e)
      /\ UNCHANGED <<leapt, replayed, since, logged, call, mark, pipe>>
  BY DEF ShowRepaired, unread, channel, control
<1>2. e \in Events /\ e <= lastSeen + 1 /\ u + 1 \in Events /\ u \in 0..MaxLog
  BY <1>1 DEF IInv, TypeOK, JobsOK, JobOK
<1>3. /\ lastSeen' \in 0..MaxLog /\ e <= lastSeen' /\ shown' \subseteq Events
  BY <1>1, <1>2, HandledOK
<1>4. lastSeen + 1..e - 1 \subseteq leapt'
  BY <1>2, NoneBetween DEF IInv
<1>5. /\ reader[g] \in Reader
      /\ rest # {} => Min(rest) \in e + 1..u /\ Min(rest) <= lastSeen' + 1
      /\ rest = {} => u <= lastSeen'
  <2>1. reader[g] \in Reader
    BY DEF IInv, TypeOK, Reader
  <2>2. e \in Nat /\ u \in Nat
    <3>1. e \in Events /\ u \in 0..MaxLog
      BY <1>2
    <3> HIDE DEF e, u
    <3> QED
      BY <3>1, EventFacts
  <2>3. lastSeen' \in Nat
    BY <1>3, EventFacts
  <2> QED
    BY <1>3, <2>1, <2>2, <2>3, MissingFacts
<1>6. PICK r \in Reader : /\ reader' = [reader EXCEPT ![g] = r]
                          /\ r.job # "live" /\ JobOK(r, lastSeen')
  <2>1. CASE rest # {}
    <3>1. PICK m : m = Min(rest)
      OBVIOUS
    <3> DEFINE r == [reader[g] EXCEPT !.next = m]
    <3>2. m \in Events /\ m \in 0..MaxLog + 1 /\ m <= lastSeen' + 1
      BY <1>2, <1>5, <2>1, <3>1, EventFacts DEF Events
    <3>3. r \in Reader /\ r.job = "repair" /\ r.next = m /\ r.upto = u
      BY <1>1, <1>5, <3>2 DEF Reader
    <3>4. reader' = [reader EXCEPT ![g] = r]
      BY <2>1, <3>1 DEF ShowRepaired
    <3>5. r.job # "live" /\ JobOK(r, lastSeen')
      BY <1>2, <3>2, <3>3 DEF JobOK
    <3> HIDE DEF r
    <3> QED
      BY <3>3, <3>4, <3>5
  <2>2. CASE rest = {}
    <3> DEFINE r == [reader[g] EXCEPT !.job = "trigger", !.next = @ + 1]
    <3>1. e + 1 \in 0..MaxLog + 1 /\ "trigger" \in Jobs
      BY <1>2, EventFacts DEF Events, Jobs
    <3>2. r \in Reader /\ r.job = "trigger" /\ r.upto = u
      BY <1>5, <3>1 DEF Reader
    <3>3. reader' = [reader EXCEPT ![g] = r]
      BY <2>2 DEF ShowRepaired
    <3>4. r.job # "live" /\ JobOK(r, lastSeen')
      BY <1>2, <1>5, <2>2, <3>2 DEF JobOK
    <3> HIDE DEF r
    <3> QED
      BY <3>2, <3>3, <3>4
  <2> QED
    BY <2>1, <2>2
<1> HIDE DEF e, u, rest
<1>7. repairing' \in BOOLEAN
  BY DEF IInv, TypeOK, ShowRepaired
<1>8. /\ reader' \in [Calls -> Reader]
      /\ JobsOK' /\ BehindCursor' /\ CursorIsSound' /\ ReplaysHoldAnEvent'
  <2>1. reader[g].job # "live"
    BY <1>1
  <2> QED
    BY <1>1, <1>2, <1>4, <1>6, <2>1, HandOutStep
<1>9. TypeOK'
  BY <1>3, <1>7, <1>8 DEF IInv, TypeOK, ShowRepaired, unread, channel, control, Reader
<1> QED
  BY <1>8, <1>9 DEF IInv

LEMMA ShowTriggerStep ==
  ASSUME IInv, NEW g \in Calls, ShowTrigger(g)
  PROVE  IInv'
<1> DEFINE e == reader[g].upto + 1
<1>1. /\ reader[g].job = "trigger" /\ Handle(e)
      /\ reader' = [reader EXCEPT ![g] = Flushing(gapBuffer)] /\ gapBuffer' = <<>>
      /\ UNCHANGED <<leapt, replayed, since, logged, call, mark, pipe>>
  BY DEF ShowTrigger, unread, channel, control
<1>2. e \in Events /\ e <= lastSeen + 1
  <2>1. e \in Events /\ reader[g].upto <= lastSeen
    BY <1>1 DEF IInv, JobsOK, JobOK
  <2>2. lastSeen \in 0..MaxLog /\ reader[g].upto \in 0..MaxLog
    BY DEF IInv, TypeOK
  <2> QED
    BY <2>1, <2>2, EventFacts
<1> HIDE DEF e
<1>3. lastSeen' \in 0..MaxLog /\ shown' \subseteq Events
  BY <1>1, <1>2, HandledOK
<1>4. lastSeen + 1..e - 1 \subseteq leapt'
  BY <1>2, NoneBetween DEF IInv
<1>5. /\ Flushing(gapBuffer) \in Reader /\ Flushing(gapBuffer).job # "live"
      /\ JobOK(Flushing(gapBuffer), lastSeen')
  BY <1>3, FlushingOK DEF IInv, TypeOK
<1>6. /\ reader' \in [Calls -> Reader]
      /\ JobsOK' /\ BehindCursor' /\ CursorIsSound' /\ ReplaysHoldAnEvent'
  BY <1>1, <1>2, <1>4, <1>5, HandOutStep
<1>7. <<>> \in Seq(Events)
  OBVIOUS
<1>8. TypeOK'
  BY <1>1, <1>3, <1>6, <1>7
     DEF IInv, TypeOK, ShowTrigger, unread, channel, control, Reader
<1> QED
  BY <1>6, <1>8 DEF IInv

LEMMA ShowBufferedStep ==
  ASSUME IInv, NEW g \in Calls, ShowBuffered(g)
  PROVE  IInv'
<1> DEFINE q == reader[g].queue
           e == Head(q)
<1>1. /\ reader[g].job = "flush" /\ Handle(e)
      /\ leapt' = leapt \cup (lastSeen + 1..e - 1)
      /\ reader' = [reader EXCEPT ![g] = Flushing(Tail(q))]
      /\ UNCHANGED <<replayed, since, logged, call, mark, pipe>>
  BY DEF IInv, TypeOK, ShowBuffered, unread, channel, control
<1>2. q \in Seq(Events) /\ q # <<>>
  BY <1>1 DEF IInv, TypeOK, JobsOK, JobOK
<1> HIDE DEF q
<1>3. e \in Events /\ Tail(q) \in Seq(Events)
  BY <1>2, HeadTailProperties
<1> HIDE DEF e
<1>4. lastSeen' \in 0..MaxLog /\ shown' \subseteq Events
  BY <1>1, <1>3, HandledOK
<1>5. leapt' \subseteq Events
  <2>1. lastSeen \in 0..MaxLog /\ leapt \subseteq Events
    BY DEF IInv, TypeOK
  <2> QED
    BY <1>1, <1>3, <2>1, EventFacts DEF Events
<1>6. /\ Flushing(Tail(q)) \in Reader /\ Flushing(Tail(q)).job # "live"
      /\ JobOK(Flushing(Tail(q)), lastSeen')
  BY <1>3, <1>4, FlushingOK
<1>7. /\ reader' \in [Calls -> Reader]
      /\ JobsOK' /\ BehindCursor' /\ CursorIsSound' /\ ReplaysHoldAnEvent'
  BY <1>1, <1>3, <1>6, HandOutStep
<1>8. TypeOK'
  BY <1>4, <1>5, <1>7 DEF IInv, TypeOK, ShowBuffered, unread, channel, control, Reader
<1> QED
  BY <1>7, <1>8 DEF IInv

(***************************************************************************)
(* The theorems.                                                           *)
(***************************************************************************)

LEMMA InitInv == Init => IInv
<1> SUFFICES ASSUME Init
             PROVE  IInv
  OBVIOUS
<1>1. /\ \A g \in Calls : reader[g] = Idle
      /\ Idle \in [job : Jobs, next : 0..MaxLog + 1, upto : 0..MaxLog, queue : Seq(Events)]
      /\ Idle.job = "idle" /\ JobOK(Idle, 0)
  BY ReadersHaveTypes, EventFacts DEF Init, Reader
<1>2. TypeOK
  <2>1. <<>> \in Seq(Events) /\ <<>> \in Seq(0..MaxLog)
    OBVIOUS
  <2>2. 0 \in 0..MaxLog /\ 0 \in 0..MaxOpens /\ 1 \in 0..MaxLog /\ 1 \in 0..MaxOpens
    BY EventFacts
  <2>3. /\ call \in [Calls -> {"none", "asked", "admitted", "read", "answered", "refused"}]
        /\ link \in [Calls -> {"open", "ended", "broken"}]
    BY DEF Init
  <2>4. /\ pipe \in [Calls -> Seq(0..MaxLog)] /\ mark \in [Calls -> 0..MaxLog]
        /\ previous \in [Calls -> 0..MaxOpens] /\ since \in [Calls -> 0..MaxLog]
    BY <2>1, <2>2 DEF Init
  <2>5. reader \in [Calls -> [job : Jobs, next : 0..MaxLog + 1, upto : 0..MaxLog,
                              queue : Seq(Events)]]
    BY <1>1 DEF Init
  <2> QED
    BY <2>1, <2>2, <2>3, <2>4, <2>5, EventFacts DEF Init, TypeOK
<1>3. JobsOK
  BY <1>1 DEF Init, JobsOK
<1>4. BehindCursor /\ CursorIsSound
  BY DEF Init, BehindCursor, CursorIsSound
<1>5. ReplaysHoldAnEvent
  BY DEF Init, ReplaysHoldAnEvent
<1> QED
  BY <1>2, <1>3, <1>4, <1>5 DEF IInv

LEMMA NextInv ==
  ASSUME IInv, LiveReadsFail = FALSE, [Next]_vars
  PROVE  IInv'
<1>1. CASE ChannelActs
  BY <1>1, ChannelStep
<1>2. CASE ClientOpens
  BY <1>2, HostRecoversStep, OpenStep, OpenFailsStep, ResponseEndsStep, ReaderStopsStep
     DEF ClientOpens
<1>3. ASSUME NEW g \in Calls, Receives(g)
      PROVE  IInv'
  BY <1>3, TakeAckStep, DropLiveStep, HoldLiveStep, BufferLiveStep, DetectGapStep,
     TakeLiveStep
     DEF Receives
<1>4. ASSUME NEW g \in Calls, Shows(g)
      PROVE  IInv'
  BY <1>4, ShowReplayedStep, ShowLiveStep, ShowRepairedStep, ShowTriggerStep,
     ShowBufferedStep
     DEF Shows
<1>5. ASSUME NEW g \in Calls, ReadFails(g)
      PROVE  IInv'
  BY <1>5, ReadFailsStep
<1>6. CASE UNCHANGED vars
  BY <1>6 DEF vars, channel, control, view, IInv, TypeOK, JobsOK, BehindCursor,
     ReplaysHoldAnEvent, CursorIsSound, InHand
<1> QED
  BY <1>1, <1>2, <1>3, <1>4, <1>5, <1>6 DEF Next

LEMMA SubscriptionInvariant ==
  ASSUME LiveReadsFail = FALSE
  PROVE  Spec => []IInv
<1>1. IInv /\ [Next]_vars => IInv'
  BY NextInv
<1> QED
  BY <1>1, InitInv, PTL DEF Spec

\* Every variable of the client and its channel keeps its type.
THEOREM SubscriptionTypes ==
  ASSUME LiveReadsFail = FALSE
  PROVE  Spec => []TypeOK
<1>1. IInv => TypeOK
  BY DEF IInv
<1> QED
  BY <1>1, SubscriptionInvariant, PTL

\* However often the response is replaced and in whatever order the readers of
\* its responses run, the cursor from which the client recovers passes no event
\* that it has neither handed out nor has in hand (handleSubscriptionPayload,
\* recoverSubscription).
THEOREM CursorsAreSound ==
  ASSUME LiveReadsFail = FALSE
  PROVE  Spec => []CursorIsSound
<1>1. IInv => CursorIsSound
  BY DEF IInv
<1> QED
  BY <1>1, SubscriptionInvariant, PTL
==============================================================================
