------------------------- MODULE TurnLifecycleProofs -------------------------
(***************************************************************************)
(* EffectSettlement implements TurnLifecycle, for any calls, gates,        *)
(* steers, faults and bounds, as long as no preparation is given up.       *)
(*                                                                         *)
(* LifeInv is the invariant.  TurnInv says how the events of a turn stand  *)
(* in the log.  RowsIntended and JobIntended say that what is executed or  *)
(* settled is intended by the log, so that its outcome answers something.  *)
(* HeadsOK says that the event an activation handles next is still true of *)
(* the log: a decided approval is logged, and an answer without calls      *)
(* finds the turn idle.  From it every batch is Legal, and a legal batch   *)
(* is one step of TurnLifecycle.                                           *)
(*                                                                         *)
(* Two more invariants rest on it.  OutboxInv says when the rows and the   *)
(* effects the log derives agree, and from what an activation still has to *)
(* do, when they will.  Numbered says that model calls are numbered        *)
(* without gaps.  Together they give OutboxIsDerived.  PathInv says that   *)
(* an outcome which waits for its cascade is fresh, and that no row asks   *)
(* for what has its outcome: with it an open turn has something left to    *)
(* do, which is OpenTurnHasPath.                                           *)
(***************************************************************************)
EXTENDS EffectSettlementProofs

(***************************************************************************)
(* The promises of TurnLifecycle.                                          *)
(***************************************************************************)

Begun == Logged(log, "message.started")
Answered == Logged(log, "message.terminal")
Called == Logged(log, "invocation.started")
Ended == Logged(log, "invocation.terminal")
Asked == Logged(log, "approval.requested")
Ruled == Logged(log, "approval.resolved")

TurnIsIdle == Begun \subseteq Answered /\ Called \subseteq Ended /\ Asked \subseteq Ruled

\* A model call begins when the earlier ones are answered, and is answered behind its
\* start; while one is in flight, nothing else is open.
ModelCallsAlternate ==
  /\ \A i, j \in 1 .. Len(log) :
       log[i].kind = "message.started" /\ log[j].kind = "message.started" /\ i < j =>
         log[i].of \in Answered
  /\ \A i \in 1 .. Len(log) :
       log[i].kind = "message.terminal" =>
         \E j \in 1 .. Len(log) :
           j < i /\ log[j].kind = "message.started" /\ log[j].of = log[i].of
  /\ Begun \subseteq Answered \/ (Called \subseteq Ended /\ Asked \subseteq Ruled)

\* A gated call asks for its approval and ends behind it.
CallsAreLegal ==
  /\ Called \subseteq Tools /\ Asked = Called \cap Gated
  /\ Ruled \subseteq Asked /\ Ended \subseteq Called /\ Ended \cap Gated \subseteq Ruled

\* A call whose approval is decided and that is pending follows the last answer.
DecisionsComeLast ==
  \A i, j \in 1 .. Len(log) :
    /\ log[i].kind = "approval.resolved" /\ log[i].of \notin Ended
    /\ log[j].kind = "message.terminal"
    => j < i

PreparationsSucceed ==
  \A i \in 1 .. Len(log) : log[i].kind \notin {"diagnostic", "artifacts.failed"}

\* A completed answer.
HasAnswer(L) == \E i \in At(L, {"message.terminal"}) : L[i].how = "completed"

\* Only an answer starts calls.
CallsFollowAnswers ==
  \A j \in 1 .. Len(log) :
    log[j].kind \in {"invocation.started", "invocation.terminal"} =>
      \E i \in 1 .. Len(log) :
        i < j /\ log[i].kind = "message.terminal" /\ log[i].how = "completed"

SteersAreReceived == Logged(log, "received") \subseteq Steers

TurnInv ==
  /\ ModelCallsAlternate /\ CallsAreLegal /\ DecisionsComeLast /\ PreparationsSucceed
  /\ CallsFollowAnswers /\ SteersAreReceived

\* What a batch writes of a kind.
Wrote(items, kind) == {items[k].of : k \in {i \in 1 .. Len(items) : items[i].kind = kind}}

LEMMA LoggedOf ==
  ASSUME NEW L \in Seq(Event), NEW kind
  PROVE  \A x : x \in Logged(L, kind) <=>
                  \E i \in 1 .. Len(L) : L[i].kind = kind /\ L[i].of = x
<1>1. DOMAIN L = 1 .. Len(L)
  OBVIOUS
<1> QED
  BY <1>1 DEF Logged, At

LEMMA WroteOf ==
  ASSUME NEW items, NEW kind
  PROVE  \A x : x \in Wrote(items, kind) <=>
                  \E i \in 1 .. Len(items) : items[i].kind = kind /\ items[i].of = x
BY DEF Wrote

\* The log after a batch, event by event.
LEMMA Grown ==
  ASSUME LogOK, LogOK', NEW items, Writes(items), log' = Appended(items)
  PROVE  /\ Len(log) \in Nat /\ Len(log') \in Nat /\ Len(log) <= Len(log')
         /\ \A i \in 1 .. Len(log) : i \in 1 .. Len(log') /\ log'[i] = log[i]
         /\ \A i \in 1 .. Len(log') :
              i \in 1 .. Len(log)
                \/ \E k \in 1 .. Len(items) : log'[i] = items[k] /\ ~Known(items[k])
         /\ \A k \in 1 .. Len(items) : \E i \in 1 .. Len(log') : SameId(log'[i], items[k])
<1> DEFINE m == Len(log)
           n == Len(New(items))
<1>1. m \in Nat /\ n \in Nat /\ 0 < m
  BY NewEvents DEF Writes, LogOK
<1>2. /\ log' \in Seq(Event) /\ Len(log') = m + n
      /\ \A i \in 1 .. m : log'[i] = log[i]
      /\ \A j \in 1 .. n : log'[m + j] = New(items)[j]
  BY AppendedIs DEF Writes, LogOK
<1>3. PICK f : Picks(f, items)
  BY NewEvents DEF Writes
<1>4. \A i \in 1 .. (m + n) : i \in 1 .. m \/ \E j \in 1 .. n : i = m + j
  <2> SUFFICES ASSUME NEW i \in 1 .. (m + n), i \notin 1 .. m
               PROVE  \E j \in 1 .. n : i = m + j
    OBVIOUS
  <2>1. i - m \in 1 .. n /\ i = m + (i - m)
    BY <1>1
  <2> QED
    BY <2>1
<1>5. \A j \in 1 .. n : \E k \in 1 .. Len(items) : log'[m + j] = items[k] /\ ~Known(items[k])
  <2>1. ASSUME NEW j \in 1 .. n
        PROVE  /\ f[j] \in 1 .. Len(items)
               /\ log'[m + j] = items[f[j]] /\ ~Known(items[f[j]])
    BY <1>2, <1>3 DEF Picks
  <2> QED
    BY <2>1
<1>6. ASSUME NEW k \in 1 .. Len(items)
      PROVE  \E i \in 1 .. (m + n) : SameId(log'[i], items[k])
  <2>1. CASE Known(items[k])
    <3>1. PICK i \in DOMAIN log : SameId(log[i], items[k])
      BY <2>1 DEF Known
    <3>2. i \in 1 .. m
      BY DEF LogOK
    <3> QED
      BY <1>1, <1>2, <3>1, <3>2
  <2>2. CASE ~Known(items[k])
    <3>1. PICK j \in 1 .. n : f[j] = k
      BY <1>3, <2>2 DEF Picks
    <3>2. log'[m + j] = items[k] /\ m + j \in 1 .. (m + n)
      BY <1>1, <1>2, <1>3, <3>1 DEF Picks
    <3> QED
      BY <3>2 DEF SameId
  <2> QED
    BY <2>1, <2>2
<1>7. \A i \in 1 .. m : i \in 1 .. (m + n)
  BY <1>1
<1>8. \A i \in 1 .. (m + n) :
        i \in 1 .. m \/ \E k \in 1 .. Len(items) : log'[i] = items[k] /\ ~Known(items[k])
  BY <1>4, <1>5
<1>9. Len(log') \in Nat /\ m <= Len(log')
  BY <1>1, <1>2
<1>10. 1 .. Len(log') = 1 .. (m + n)
  BY <1>2
<1> QED
  BY <1>1, <1>2, <1>6, <1>7, <1>8, <1>9, <1>10

\* Of each kind, the log has what it had and what the batch writes.
LEMMA LoggedGrows ==
  ASSUME LogOK, LogOK', NEW items, Writes(items), log' = Appended(items), NEW kind
  PROVE  Logged(log, kind)' = Logged(log, kind) \cup Wrote(items, kind)
<1>1. log \in Seq(Event) /\ log' \in Seq(Event)
  BY DEF LogOK
<1>2. \A x : x \in Logged(log, kind)' <=>
               \E i \in 1 .. Len(log') : log'[i].kind = kind /\ log'[i].of = x
  BY <1>1, LoggedOf
<1>3. \A x : x \in Logged(log, kind) <=>
               \E i \in 1 .. Len(log) : log[i].kind = kind /\ log[i].of = x
  BY <1>1, LoggedOf
<1>4. ASSUME NEW x, x \in Logged(log, kind)'
      PROVE  x \in Logged(log, kind) \cup Wrote(items, kind)
  <2>1. PICK i \in 1 .. Len(log') : log'[i].kind = kind /\ log'[i].of = x
    BY <1>2, <1>4
  <2>2. CASE i \in 1 .. Len(log)
    <3>1. log'[i] = log[i]
      BY <2>2, Grown
    <3> QED
      BY <1>3, <2>1, <2>2, <3>1
  <2>3. CASE \E k \in 1 .. Len(items) : log'[i] = items[k]
    BY <2>1, <2>3, WroteOf
  <2> QED
    BY <2>2, <2>3, Grown
<1>5. ASSUME NEW x, x \in Logged(log, kind)
      PROVE  x \in Logged(log, kind)'
  <2>1. PICK i \in 1 .. Len(log) : log[i].kind = kind /\ log[i].of = x
    BY <1>3, <1>5
  <2>2. i \in 1 .. Len(log') /\ log'[i] = log[i]
    BY Grown
  <2> QED
    BY <1>2, <2>1, <2>2
<1>6. ASSUME NEW x, x \in Wrote(items, kind)
      PROVE  x \in Logged(log, kind)'
  <2>1. PICK k \in 1 .. Len(items) : items[k].kind = kind /\ items[k].of = x
    BY <1>6, WroteOf
  <2>2. PICK i \in 1 .. Len(log') : SameId(log'[i], items[k])
    BY Grown
  <2> QED
    BY <1>2, <2>1, <2>2 DEF SameId
<1> QED
  BY <1>4, <1>5, <1>6

\* What a batch may log of the turn: outcomes of what was pending, new calls while every
\* model call is answered, and a model call or the end of the turn while nothing is open.
Legal(items) ==
  /\ Writes(items)
  /\ Wrote(items, "message.terminal") \subseteq Begun
  /\ Wrote(items, "invocation.started") \subseteq Tools
  /\ Wrote(items, "invocation.started") = {} \/ HasAnswer(log)
  /\ Wrote(items, "received") \subseteq Steers
  /\ Wrote(items, "approval.requested") = Wrote(items, "invocation.started") \cap Gated
  /\ Wrote(items, "approval.resolved") \subseteq Asked
  /\ Wrote(items, "invocation.terminal") \subseteq Called
  /\ Wrote(items, "invocation.terminal") \cap Gated
       \subseteq Ruled \cup Wrote(items, "approval.resolved")
  /\ Wrote(items, "diagnostic") = {} /\ Wrote(items, "artifacts.failed") = {}
  /\ Wrote(items, "approval.resolved") = {} \/ Wrote(items, "message.terminal") = {}
  /\ \/ Wrote(items, "message.started") \cup Wrote(items, "turn.closed")
          \cup Wrote(items, "invocation.started") = {}
     \/ Open(log) /\ Begun \subseteq Answered \cup Wrote(items, "message.terminal")
  /\ \/ Wrote(items, "message.started") \cup Wrote(items, "turn.closed") = {}
     \/ /\ Wrote(items, "invocation.started") = {}
        /\ Called \subseteq Ended \cup Wrote(items, "invocation.terminal")
        /\ Asked \subseteq Ruled \cup Wrote(items, "approval.resolved")
  /\ Wrote(items, "message.started") = {} \/ Wrote(items, "turn.closed") = {}
  /\ \A x, y \in Wrote(items, "message.started") : x = y

\* What the log has of the turn after it.
LEMMA SetsGrow ==
  ASSUME LogOK, LogOK', NEW items, Writes(items), log' = Appended(items)
  PROVE  /\ Begun' = Begun \cup Wrote(items, "message.started")
         /\ Answered' = Answered \cup Wrote(items, "message.terminal")
         /\ Called' = Called \cup Wrote(items, "invocation.started")
         /\ Ended' = Ended \cup Wrote(items, "invocation.terminal")
         /\ Asked' = Asked \cup Wrote(items, "approval.requested")
         /\ Ruled' = Ruled \cup Wrote(items, "approval.resolved")
BY LoggedGrows DEF Begun, Answered, Called, Ended, Asked, Ruled

\* A legal batch keeps the turn legal.
LEMMA LegalKeepsSets ==
  ASSUME LogOK, LogOK', TurnInv, NEW items, Legal(items), log' = Appended(items)
  PROVE  /\ CallsAreLegal'
         /\ (Begun \subseteq Answered \/ (Called \subseteq Ended /\ Asked \subseteq Ruled))'
<1>1. Writes(items)
  BY DEF Legal
<1> DEFINE b == Wrote(items, "message.started")
           a == Wrote(items, "message.terminal")
           c == Wrote(items, "invocation.started")
           e == Wrote(items, "invocation.terminal")
           q == Wrote(items, "approval.requested")
           r == Wrote(items, "approval.resolved")
<1>2. /\ Begun' = Begun \cup b /\ Answered' = Answered \cup a /\ Called' = Called \cup c
      /\ Ended' = Ended \cup e /\ Asked' = Asked \cup q /\ Ruled' = Ruled \cup r
  BY <1>1, SetsGrow
<1>3. /\ c \subseteq Tools /\ q = c \cap Gated /\ r \subseteq Asked /\ e \subseteq Called
      /\ e \cap Gated \subseteq Ruled \cup r
  BY DEF Legal
<1>4. /\ b \cup c = {} \/ Begun \subseteq Answered \cup a
      /\ b = {} \/ (c = {} /\ Called \subseteq Ended \cup e /\ Asked \subseteq Ruled \cup r)
  BY DEF Legal
<1>5. /\ CallsAreLegal
      /\ Begun \subseteq Answered \/ (Called \subseteq Ended /\ Asked \subseteq Ruled)
  BY DEF TurnInv, ModelCallsAlternate
<1> HIDE DEF b, a, c, e, q, r
<1>6. CallsAreLegal'
  BY <1>2, <1>3, <1>5 DEF CallsAreLegal
<1>7. \/ Begun \cup b \subseteq Answered \cup a
      \/ (Called \cup c \subseteq Ended \cup e /\ Asked \cup q \subseteq Ruled \cup r)
  <2>1. CASE b # {}
    BY <1>3, <1>4, <2>1
  <2>2. CASE b = {} /\ c # {}
    BY <1>4, <2>2
  <2>3. CASE b = {} /\ c = {}
    BY <1>3, <1>5, <2>3
  <2> QED
    BY <2>1, <2>2, <2>3
<1> QED
  BY <1>2, <1>6, <1>7

\* An event of a batch that the log does not have yet.
LEMMA WrittenIs ==
  ASSUME LogOK, NEW items, NEW k \in 1 .. Len(items), NEW ev, ev = items[k], ~Known(ev)
  PROVE  /\ ev.of \in Wrote(items, ev.kind)
         /\ ev.of \notin Logged(log, ev.kind)
<1>1. ev.of \in Wrote(items, ev.kind)
  BY WroteOf
<1>2. ASSUME ev.of \in Logged(log, ev.kind)
      PROVE  FALSE
  <2>1. PICK i \in 1 .. Len(log) : log[i].kind = ev.kind /\ log[i].of = ev.of
    BY <1>2, LoggedOf DEF LogOK
  <2>2. i \in DOMAIN log
    BY DEF LogOK
  <2> QED
    BY <2>1, <2>2 DEF Known, SameId
<1> QED
  BY <1>1, <1>2

LEMMA LegalKeepsOrder ==
  ASSUME LogOK, LogOK', TurnInv, NEW items, Legal(items), log' = Appended(items)
  PROVE  ModelCallsAlternate' /\ DecisionsComeLast' /\ PreparationsSucceed'
<1>1. Writes(items)
  BY DEF Legal
<1>2. /\ Answered' = Answered \cup Wrote(items, "message.terminal")
      /\ Ended' = Ended \cup Wrote(items, "invocation.terminal")
  BY <1>1, SetsGrow
<1>3. /\ Len(log) \in Nat /\ Len(log') \in Nat /\ Len(log) <= Len(log')
      /\ \A i \in 1 .. Len(log) : i \in 1 .. Len(log') /\ log'[i] = log[i]
  BY <1>1, Grown
<1> DEFINE Gained(i) == i \in 1 .. Len(log') /\ i > Len(log)
<1>4. ASSUME NEW i \in 1 .. Len(log')
      PROVE  \/ i \in 1 .. Len(log) /\ log'[i] = log[i]
             \/ /\ Gained(i) /\ log'[i].of \in Wrote(items, log'[i].kind)
                /\ log'[i].of \notin Logged(log, log'[i].kind)
  <2>1. CASE i \in 1 .. Len(log)
    BY <1>3, <2>1
  <2>2. CASE i \notin 1 .. Len(log)
    <3>1. PICK k \in 1 .. Len(items) : log'[i] = items[k] /\ ~Known(items[k])
      BY <1>1, <2>2, Grown
    <3>2. /\ log'[i].of \in Wrote(items, log'[i].kind)
          /\ log'[i].of \notin Logged(log, log'[i].kind)
      BY <3>1, WrittenIs
    <3> QED
      BY <1>3, <2>2, <3>2
  <2> QED
    BY <2>1, <2>2
<1>5. ASSUME NEW i \in 1 .. Len(log'), NEW j \in 1 .. Len(log'), i < j,
             log'[i].kind = "message.started", log'[j].kind = "message.started"
      PROVE  log'[i].of \in Answered'
  <2>1. CASE j \in 1 .. Len(log)
    <3>1. i \in 1 .. Len(log)
      BY <1>3, <1>5, <2>1
    <3>2. log[i].of \in Answered
      BY <1>3, <1>5, <2>1, <3>1 DEF TurnInv, ModelCallsAlternate
    <3> QED
      BY <1>2, <1>3, <3>1, <3>2
  <2>2. CASE log'[j].of \in Wrote(items, "message.started")
    <3>1. Begun \subseteq Answered \cup Wrote(items, "message.terminal")
      BY <2>2 DEF Legal
    <3>2. CASE i \in 1 .. Len(log)
      <4>1. log'[i].of \in Begun
        BY <1>3, <1>5, <3>2, LoggedOf DEF Begun, LogOK
      <4> QED
        BY <1>2, <3>1, <4>1
    <3>3. CASE log'[i].of \in Wrote(items, "message.started")
      <4>1. log'[i].of = log'[j].of
        BY <2>2, <3>3 DEF Legal
      <4>2. SameId(log'[i], log'[j])
        BY <1>5, <4>1 DEF SameId
      <4>3. i = j
        BY <4>2 DEF LogOK, IdsAreUnique
      <4> QED
        BY <1>5, <4>3
    <3> QED
      BY <1>4, <1>5, <3>2, <3>3
  <2> QED
    BY <1>4, <1>5, <2>1, <2>2
<1>6. ASSUME NEW i \in 1 .. Len(log'), log'[i].kind = "message.terminal"
      PROVE  \E j \in 1 .. Len(log') :
               j < i /\ log'[j].kind = "message.started" /\ log'[j].of = log'[i].of
  <2>1. CASE i \in 1 .. Len(log)
    <3>1. PICK j \in 1 .. Len(log) :
            j < i /\ log[j].kind = "message.started" /\ log[j].of = log[i].of
      BY <1>3, <1>6, <2>1 DEF TurnInv, ModelCallsAlternate
    <3> QED
      BY <1>3, <2>1, <3>1
  <2>2. CASE Gained(i) /\ log'[i].of \in Wrote(items, "message.terminal")
    <3>1. log'[i].of \in Begun
      BY <2>2 DEF Legal
    <3>2. PICK j \in 1 .. Len(log) : log[j].kind = "message.started" /\ log[j].of = log'[i].of
      BY <3>1, LoggedOf DEF Begun, LogOK
    <3>3. j < i
      BY <1>3, <2>2
    <3> QED
      BY <1>3, <3>2, <3>3
  <2> QED
    BY <1>4, <1>6, <2>1, <2>2
<1>7. ASSUME NEW i \in 1 .. Len(log'), NEW j \in 1 .. Len(log'),
             log'[i].kind = "approval.resolved", log'[i].of \notin Ended',
             log'[j].kind = "message.terminal"
      PROVE  j < i
  <2>1. CASE Gained(i) /\ log'[i].of \in Wrote(items, "approval.resolved")
    <3>1. Wrote(items, "message.terminal") = {}
      BY <2>1 DEF Legal
    <3>2. j \in 1 .. Len(log)
      BY <1>4, <1>7, <3>1
    <3> QED
      BY <1>3, <2>1, <3>2
  <2>2. CASE i \in 1 .. Len(log)
    <3>1. log'[i] = log[i] /\ log[i].of \in Ruled /\ log[i].of \notin Ended
      BY <1>2, <1>3, <1>7, <2>2, LoggedOf DEF Ruled, LogOK
    <3>2. CASE j \in 1 .. Len(log)
      BY <1>3, <1>7, <2>2, <3>1, <3>2 DEF TurnInv, DecisionsComeLast
    <3>3. CASE /\ log'[j].of \in Wrote(items, "message.terminal")
               /\ log'[j].of \notin Logged(log, "message.terminal")
      <4>1. ~(Begun \subseteq Answered)
        BY <3>3 DEF Legal, Answered
      <4>2. Called \subseteq Ended
        BY <4>1 DEF TurnInv, ModelCallsAlternate
      <4>3. log[i].of \in Called
        BY <3>1 DEF TurnInv, CallsAreLegal
      <4> QED
        BY <3>1, <4>2, <4>3
    <3> QED
      BY <1>4, <1>7, <3>2, <3>3
  <2> QED
    BY <1>4, <1>7, <2>1, <2>2
<1>8. ASSUME NEW i \in 1 .. Len(log'), log'[i].kind \in {"diagnostic", "artifacts.failed"}
      PROVE  FALSE
  <2>1. CASE i \in 1 .. Len(log)
    BY <1>3, <1>8, <2>1 DEF TurnInv, PreparationsSucceed
  <2>2. CASE log'[i].of \in Wrote(items, log'[i].kind)
    BY <1>8, <2>2 DEF Legal
  <2> QED
    BY <1>4, <2>1, <2>2
<1>9. (Begun \subseteq Answered \/ (Called \subseteq Ended /\ Asked \subseteq Ruled))'
  BY LegalKeepsSets
<1> QED
  BY <1>5, <1>6, <1>7, <1>8, <1>9
     DEF ModelCallsAlternate, DecisionsComeLast, PreparationsSucceed

LEMMA HasAnswerIs ==
  ASSUME NEW L \in Seq(Event)
  PROVE  HasAnswer(L) <=> \E i \in 1 .. Len(L) :
                            L[i].kind = "message.terminal" /\ L[i].how = "completed"
BY DEF HasAnswer, At

\* Calls follow an answer, and steers are received.
LEMMA LegalKeepsSources ==
  ASSUME LogOK, LogOK', TurnInv, NEW items, Legal(items), log' = Appended(items)
  PROVE  CallsFollowAnswers' /\ SteersAreReceived'
<1>1. Writes(items)
  BY DEF Legal
<1>2. /\ Len(log) \in Nat /\ Len(log') \in Nat /\ Len(log) <= Len(log')
      /\ \A i \in 1 .. Len(log) : i \in 1 .. Len(log') /\ log'[i] = log[i]
  BY <1>1, Grown
<1>3. ASSUME NEW j \in 1 .. Len(log'),
             log'[j].kind \in {"invocation.started", "invocation.terminal"}
      PROVE  \E i \in 1 .. Len(log') :
               i < j /\ log'[i].kind = "message.terminal" /\ log'[i].how = "completed"
  <2>1. CASE j \in 1 .. Len(log)
    <3>1. PICK i \in 1 .. Len(log) :
            i < j /\ log[i].kind = "message.terminal" /\ log[i].how = "completed"
      BY <1>2, <1>3, <2>1 DEF TurnInv, CallsFollowAnswers
    <3> QED
      BY <1>2, <3>1
  <2>2. CASE j \notin 1 .. Len(log)
    <3>1. PICK k \in 1 .. Len(items) : log'[j] = items[k] /\ ~Known(items[k])
      BY <1>1, <2>2, Grown
    <3>2. items[k].of \in Wrote(items, items[k].kind)
      BY <3>1, WrittenIs
    <3>3. \E i \in 1 .. Len(log) : log[i].kind = "message.terminal" /\ log[i].how = "completed"
      <4>1. CASE items[k].kind = "invocation.started"
        BY <3>2, <4>1, HasAnswerIs DEF Legal, LogOK
      <4>2. CASE items[k].kind = "invocation.terminal"
        <5>1. items[k].of \in Called
          BY <3>2, <4>2 DEF Legal
        <5>2. PICK i \in 1 .. Len(log) : log[i].kind = "invocation.started"
          BY <5>1, LoggedOf DEF Called, LogOK
        <5> QED
          BY <5>2 DEF TurnInv, CallsFollowAnswers
      <4> QED
        BY <1>3, <3>1, <4>1, <4>2
    <3>4. \A i \in 1 .. Len(log) : i < j
      BY <1>2, <2>2
    <3> QED
      BY <1>2, <3>3, <3>4
  <2> QED
    BY <2>1, <2>2
<1>4. Logged(log, "received")' = Logged(log, "received") \cup Wrote(items, "received")
  BY <1>1, LoggedGrows
<1>5. SteersAreReceived'
  BY <1>4 DEF TurnInv, SteersAreReceived, Legal
<1> QED
  BY <1>3, <1>5 DEF CallsFollowAnswers

LEMMA LegalKeepsTurn ==
  ASSUME LogOK, LogOK', TurnInv, NEW items, Legal(items), log' = Appended(items)
  PROVE  TurnInv'
BY LegalKeepsSets, LegalKeepsOrder, LegalKeepsSources DEF TurnInv

\* The started model calls are counted by their ids.
LEMMA StartsAreCounted ==
  ASSUME NEW L \in Seq(Event), \A i, j \in 1 .. Len(L) : SameId(L[i], L[j]) => i = j
  PROVE  /\ ModelCallCount(L) = Cardinality(Logged(L, "message.started"))
         /\ IsFiniteSet(Logged(L, "message.started"))
<1> DEFINE I == At(L, {"message.started"})
           S == Logged(L, "message.started")
           f == [i \in I |-> L[i].of]
<1>1. IsFiniteSet(1 .. Len(L)) /\ I \subseteq 1 .. Len(L)
  BY FS_Interval DEF At
<1>2. IsFiniteSet(I)
  BY <1>1, FS_Subset
<1>3. f \in Surjection(I, S)
  BY DEF Surjection, Logged
<1>4. \A i, j \in I : f[i] = f[j] => i = j
  <2> SUFFICES ASSUME NEW i \in I, NEW j \in I, L[i].of = L[j].of
               PROVE  i = j
    OBVIOUS
  <2>1. SameId(L[i], L[j])
    BY DEF At, SameId
  <2> QED
    BY <1>1, <2>1
<1>5. f \in Bijection(I, S)
  <2>1. f \in [I -> S]
    BY DEF Logged
  <2> HIDE DEF f, I, S
  <2> QED
    BY <1>3, <1>4, <2>1 DEF Bijection, Injection, IsInjective, Surjection
<1> HIDE DEF f, I, S
<1>6. ExistsBijection(I, S)
  BY <1>5 DEF ExistsBijection
<1>7. IsFiniteSet(S) /\ Cardinality(S) = Cardinality(I)
  BY <1>2, <1>6, FS_Bijection
<1> QED
  BY <1>7 DEF ModelCallCount, S, I

\* The intentions of calls and of approvals.
Tasks(calls, forms) == {Call(c) : c \in calls} \cup {Form(c) : c \in forms}

LEMMA TaskIs ==
  ASSUME NEW A, NEW B
  PROVE  \A x : x \in Tasks(A, B) <=> \/ \E c \in A : x = Call(c)
                                     \/ \E c \in B : x = Form(c)
BY DEF Tasks

LEMMA TasksUnite ==
  ASSUME NEW I, NEW J, NEW F, NEW G
  PROVE  Tasks(I, F) \cup Tasks(J, G) = Tasks(I \cup J, F \cup G)
BY TaskIs

LEMMA TasksPart ==
  ASSUME NEW I, NEW J, NEW F, NEW G
  PROVE  Tasks(I, F) \ Tasks(J, G) = Tasks(I \ J, F \ G)
<1>1. \A c, d : /\ Call(c) = Call(d) => c = d
                /\ Form(c) = Form(d) => c = d
                /\ Call(c) # Form(d)
  BY DEF Call, Form
<1>2. \A x : x \in Tasks(I, F) \ Tasks(J, G) <=> x \in Tasks(I \ J, F \ G)
  BY <1>1, TaskIs
<1> QED
  BY <1>2

LEMMA TasksNest ==
  ASSUME NEW I, NEW J, NEW F, NEW G
  PROVE  /\ I \subseteq J /\ F \subseteq G => Tasks(I, F) \subseteq Tasks(J, G)
         /\ Tasks(I, F) = {} <=> I = {} /\ F = {}
<1>1. I \subseteq J /\ F \subseteq G => Tasks(I, F) \subseteq Tasks(J, G)
  BY TaskIs
<1>2. ASSUME Tasks(I, F) = {}, NEW c, c \in I \cup F
      PROVE  FALSE
  <2>1. Call(c) \in Tasks(I, F) \/ Form(c) \in Tasks(I, F)
    BY <1>2 DEF Tasks
  <2> QED
    BY <1>2, <2>1
<1>3. I = {} /\ F = {} => Tasks(I, F) = {}
  BY DEF Tasks
<1> QED
  BY <1>1, <1>2, <1>3

LEMMA OpenIs ==
  ASSUME NEW L \in Seq(Event)
  PROVE  Open(L) <=> Logged(L, "turn.closed") = {}
BY DEF Open, Logged

\* The tasks before and after a batch that logs calls c and requests q, and ends of
\* calls e and decisions r.
TaskChange(C, E, Q, R, c, e, q, r, work, done, next, over, outcomes, new) ==
  /\ E \subseteq C /\ R \subseteq Q /\ e \subseteq C /\ r \subseteq Q
  /\ work = Tasks(C \ E, Q \ R) /\ done = Tasks(E, R)
  /\ next = Tasks((C \cup c) \ (E \cup e), (Q \cup q) \ (R \cup r))
  /\ over = Tasks(E \cup e, R \cup r)
  /\ outcomes = Tasks(e \ E, r \ R) /\ new = Tasks(c \ C, q \ Q)

LEMMA BatchTasks ==
  ASSUME NEW C, NEW E, NEW Q, NEW R, NEW c, NEW e, NEW q, NEW r,
         NEW work, NEW done, NEW next, NEW over, NEW outcomes, NEW new,
         TaskChange(C, E, Q, R, c, e, q, r, work, done, next, over, outcomes, new)
  PROVE  /\ outcomes \subseteq work /\ next = (work \ outcomes) \cup new
         /\ over = done \cup outcomes /\ new \ (work \cup done) = new
<1>1. /\ E \subseteq C /\ R \subseteq Q /\ e \subseteq C /\ r \subseteq Q
      /\ work = Tasks(C \ E, Q \ R) /\ done = Tasks(E, R)
      /\ next = Tasks((C \cup c) \ (E \cup e), (Q \cup q) \ (R \cup r))
      /\ over = Tasks(E \cup e, R \cup r)
      /\ outcomes = Tasks(e \ E, r \ R) /\ new = Tasks(c \ C, q \ Q)
  BY DEF TaskChange
<1>2. PICK W, V, X, Y, I, F : /\ W = C \ E /\ V = Q \ R /\ X = e \ E /\ Y = r \ R
                              /\ I = c \ C /\ F = q \ Q
  OBVIOUS
<1>3. /\ X \subseteq W /\ Y \subseteq V
      /\ (C \cup c) \ (E \cup e) = (W \ X) \cup I /\ (Q \cup q) \ (R \cup r) = (V \ Y) \cup F
      /\ E \cup e = E \cup X /\ R \cup r = R \cup Y
      /\ I \ (W \cup E) = I /\ F \ (V \cup R) = F
  BY <1>1, <1>2
<1>4. /\ work = Tasks(W, V) /\ outcomes = Tasks(X, Y) /\ new = Tasks(I, F)
      /\ next = Tasks((W \ X) \cup I, (V \ Y) \cup F) /\ over = Tasks(E \cup X, R \cup Y)
  BY <1>1, <1>2, <1>3
<1>5. outcomes \subseteq work
  BY <1>3, <1>4, TasksNest
<1>6. next = (work \ outcomes) \cup new
  <2>1. PICK J, G : J = W \ X /\ G = V \ Y
    OBVIOUS
  <2>2. Tasks(W, V) \ Tasks(X, Y) = Tasks(W \ X, V \ Y)
    BY TasksPart
  <2>3. Tasks(J, G) \cup Tasks(I, F) = Tasks(J \cup I, G \cup F)
    BY TasksUnite
  <2> QED
    BY <1>4, <2>1, <2>2, <2>3
<1>7. over = done \cup outcomes
  <2>1. Tasks(E, R) \cup Tasks(X, Y) = Tasks(E \cup X, R \cup Y)
    BY TasksUnite
  <2> QED
    BY <1>1, <1>4, <2>1
<1>8. new \ (work \cup done) = new
  <2>1. Tasks(W, V) \cup Tasks(E, R) = Tasks(W \cup E, V \cup R)
    BY TasksUnite
  <2>2. PICK J, G : J = W \cup E /\ G = V \cup R
    OBVIOUS
  <2>3. Tasks(I, F) \ Tasks(J, G) = Tasks(I \ J, F \ G)
    BY TasksPart
  <2>4. I \ J = I /\ F \ G = F
    BY <1>3, <2>2
  <2>5. work \cup done = Tasks(J, G)
    BY <1>1, <1>4, <2>1, <2>2
  <2> QED
    BY <1>4, <2>3, <2>4, <2>5
<1> QED
  BY <1>5, <1>6, <1>7, <1>8

\* The turn of the log, as TurnLifecycle sees it.
LEMMA TurnIs ==
  /\ {Call(c) : c \in PendingInvocations(log)} \cup {Form(c) : c \in PendingApprovals(log)}
       = Tasks(Called \ Ended, Asked \ Ruled)
  /\ {Call(c) : c \in Logged(log, "invocation.terminal")}
       \cup {Form(c) : c \in Logged(log, "approval.resolved")} = Tasks(Ended, Ruled)
  /\ {Call(c) : c \in Tools} \cup {Form(c) : c \in Gated} = Tasks(Tools, Gated)
BY DEF Tasks, PendingInvocations, PendingApprovals, Called, Ended, Asked, Ruled

\* The model calls of a log, counted.
LEMMA CountsAre ==
  ASSUME NEW L \in Seq(Event), \A i, j \in 1 .. Len(L) : SameId(L[i], L[j]) => i = j,
         NEW B, B = Logged(L, "message.started"), NEW A, A = Logged(L, "message.terminal")
  PROVE  /\ IsFiniteSet(A) /\ IsFiniteSet(B) /\ ModelCallCount(L) = Cardinality(B)
         /\ Cardinality(A) \in Nat /\ Cardinality(B) \in Nat
BY StartsAreCounted, LoggedIsFinite, FS_CardinalityType

LEMMA AnswersFollow ==
  ASSUME LogOK, TurnInv
  PROVE  Answered \subseteq Begun
<1> SUFFICES ASSUME NEW n \in Answered
             PROVE  n \in Begun
  OBVIOUS
<1>1. PICK i \in 1 .. Len(log) : log[i].kind = "message.terminal" /\ log[i].of = n
  BY LoggedOf DEF Answered, LogOK
<1>2. PICK j \in 1 .. Len(log) : log[j].kind = "message.started" /\ log[j].of = n
  BY <1>1 DEF TurnInv, ModelCallsAlternate
<1> QED
  BY <1>2, LoggedOf DEF Begun, LogOK

\* The step of TurnLifecycle that a change of these sets is.
LEMMA SetsStep ==
  ASSUME NEW B, NEW A, NEW b, NEW a, IsFiniteSet(B), A \subseteq B, a \subseteq B,
         \A x, y \in b : x = y
  PROVE  /\ Cardinality(A \cup a) \in Cardinality(A) .. Cardinality(B)
         /\ B \subseteq A \cup a => Cardinality(A \cup a) = Cardinality(B)
         /\ b \subseteq B => Cardinality(B \cup b) = Cardinality(B)
         /\ ~(b \subseteq B) => Cardinality(B \cup b) = Cardinality(B) + 1
<1>1. A \cup a \in SUBSET B /\ IsFiniteSet(A \cup a) /\ A \in SUBSET (A \cup a)
  BY FS_Subset
<1>2. /\ IsFiniteSet(A) /\ Cardinality(A) <= Cardinality(A \cup a)
      /\ Cardinality(A \cup a) <= Cardinality(B)
  BY <1>1, FS_Subset
<1>3. Cardinality(A) \in Nat /\ Cardinality(A \cup a) \in Nat /\ Cardinality(B) \in Nat
  BY <1>1, <1>2, FS_CardinalityType
<1>4. B \subseteq A \cup a => A \cup a = B
  BY <1>1
<1>5. b \subseteq B => B \cup b = B
  OBVIOUS
<1>6. ASSUME ~(b \subseteq B)
      PROVE  Cardinality(B \cup b) = Cardinality(B) + 1
  <2>1. PICK n \in b : n \notin B
    BY <1>6
  <2>2. B \cup b = B \cup {n}
    <3>1. b = {n}
      BY <2>1
    <3> QED
      BY <3>1
  <2> QED
    BY <2>1, <2>2, FS_AddElement
<1> QED
  BY <1>2, <1>3, <1>4, <1>5, <1>6

(***************************************************************************)
(* A legal batch is a step of TurnLifecycle.                               *)
(***************************************************************************)

LEMMA TurnIsNext ==
  /\ ({Call(c) : c \in PendingInvocations(log)} \cup {Form(c) : c \in PendingApprovals(log)})'
       = Tasks(Called \ Ended, Asked \ Ruled)'
  /\ ({Call(c) : c \in Logged(log, "invocation.terminal")}
       \cup {Form(c) : c \in Logged(log, "approval.resolved")})' = Tasks(Ended, Ruled)'
BY DEF Tasks, PendingInvocations, PendingApprovals, Called, Ended, Asked, Ruled

\* A legal batch is a step of TurnLifecycle.
LEMMA BatchIsAStep ==
  ASSUME LogOK, LogOK', TurnInv, NEW items, Legal(items), log' = Appended(items)
  PROVE  Lifecycle!Next
<1> DEFINE b == Wrote(items, "message.started")
           a == Wrote(items, "message.terminal")
           c == Wrote(items, "invocation.started")
           e == Wrote(items, "invocation.terminal")
           q == Wrote(items, "approval.requested")
           r == Wrote(items, "approval.resolved")
           z == Wrote(items, "turn.closed")
<1>1. /\ Writes(items)
      /\ c \subseteq Tools /\ q = c \cap Gated /\ r \subseteq Asked /\ e \subseteq Called
      /\ a \subseteq Begun
      /\ b \cup z \cup c = {} \/ (Open(log) /\ Begun \subseteq Answered \cup a)
      /\ b \cup z = {} \/ (c = {} /\ Called \subseteq Ended \cup e /\ Asked \subseteq Ruled \cup r)
      /\ b = {} \/ z = {}
      /\ \A x, y \in b : x = y
  BY DEF Legal
<1>2. /\ Begun' = Begun \cup b /\ Answered' = Answered \cup a /\ Called' = Called \cup c
      /\ Ended' = Ended \cup e /\ Asked' = Asked \cup q /\ Ruled' = Ruled \cup r
  BY <1>1, SetsGrow
<1>3. Logged(log, "turn.closed")' = Logged(log, "turn.closed") \cup z
  BY <1>1, LoggedGrows
<1>4. /\ Ended \subseteq Called /\ Ruled \subseteq Asked /\ Answered \subseteq Begun
  BY AnswersFollow DEF TurnInv, CallsAreLegal
<1> HIDE DEF b, a, c, e, q, r, z
<1>5. PICK outcomes, new : outcomes = Tasks(e \ Ended, r \ Ruled) /\ new = Tasks(c \ Called, q \ Asked)
  OBVIOUS
<1>6. PICK work, done : work = Tasks(Called \ Ended, Asked \ Ruled) /\ done = Tasks(Ended, Ruled)
  OBVIOUS
<1>7. PICK next, over : /\ next = Tasks(Called \ Ended, Asked \ Ruled)'
                        /\ over = Tasks(Ended, Ruled)'
  OBVIOUS
<1>8. /\ next = Tasks((Called \cup c) \ (Ended \cup e), (Asked \cup q) \ (Ruled \cup r))
      /\ over = Tasks(Ended \cup e, Ruled \cup r)
  BY <1>2, <1>7
<1>9. /\ outcomes \subseteq work /\ next = (work \ outcomes) \cup new
      /\ over = done \cup outcomes /\ new \ (work \cup done) = new
  <2>1. PICK C, E, Q, R, cc, ee, qq, rr :
           /\ C = Called /\ E = Ended /\ Q = Asked /\ R = Ruled
           /\ cc = c /\ ee = e /\ qq = q /\ rr = r
    OBVIOUS
  <2>2. TaskChange(C, E, Q, R, cc, ee, qq, rr, work, done, next, over, outcomes, new)
    BY <1>1, <1>4, <1>5, <1>6, <1>8, <2>1 DEF TaskChange
  <2> QED
    BY <2>2, BatchTasks
<1>10. new \subseteq Tasks(Tools, Gated) /\ (new # {} => c # {})
  <2>1. PICK d, f : d = c \ Called /\ f = q \ Asked
    OBVIOUS
  <2>2. d \subseteq Tools /\ f \subseteq Gated /\ (d # {} \/ f # {} => c # {})
    BY <1>1, <2>1
  <2> QED
    BY <1>5, <2>1, <2>2, TasksNest
<1>11. PICK B, A : B = Begun /\ A = Answered
  OBVIOUS
<1>12. /\ IsFiniteSet(B) /\ ModelCallCount(log) = Cardinality(B)
       /\ Cardinality(A) \in Nat /\ Cardinality(B) \in Nat
  BY <1>11, CountsAre DEF LogOK, IdsAreUnique, Begun, Answered
<1>13. ModelCallCount(log)' = Cardinality(B \cup b)
  <2>1. PICK L : L = log'
    OBVIOUS
  <2>2. L \in Seq(Event) /\ \A i, j \in 1 .. Len(L) : SameId(L[i], L[j]) => i = j
    BY <2>1 DEF LogOK, IdsAreUnique, SameId
  <2>3. Logged(L, "message.started") = B \cup b
    BY <1>2, <1>11, <2>1 DEF Begun
  <2>4. ModelCallCount(L) = Cardinality(B \cup b)
    BY <2>2, <2>3, CountsAre
  <2> QED
    BY <2>1, <2>4
<1>14. /\ Cardinality(A \cup a) \in Cardinality(A) .. Cardinality(B)
       /\ B \subseteq A \cup a => Cardinality(A \cup a) = Cardinality(B)
       /\ b \subseteq B => Cardinality(B \cup b) = Cardinality(B)
       /\ ~(b \subseteq B) => Cardinality(B \cup b) = Cardinality(B) + 1
  BY <1>1, <1>4, <1>11, <1>12, SetsStep
<1>15. Cardinality(Answered)' = Cardinality(A \cup a)
  BY <1>2, <1>11
<1>16. /\ Open(log) <=> Logged(log, "turn.closed") = {}
       /\ Open(log)' <=> Logged(log, "turn.closed") \cup z = {}
  <2>1. PICK L : L = log'
    OBVIOUS
  <2>2. L \in Seq(Event) /\ log \in Seq(Event)
    BY <2>1 DEF LogOK
  <2>3. Open(L) <=> Logged(L, "turn.closed") = {}
    BY <2>2, OpenIs
  <2>4. Open(log) <=> Logged(log, "turn.closed") = {}
    BY <2>2, OpenIs
  <2> QED
    BY <1>3, <2>1, <2>3, <2>4
<1>17. Open(log) \in BOOLEAN /\ Open(log)' \in BOOLEAN
  BY DEF Open
<1>18. ASSUME b \cup z # {}
       PROVE  next = {}
  <2>1. PICK d, f : /\ d = (Called \cup c) \ (Ended \cup e)
                    /\ f = (Asked \cup q) \ (Ruled \cup r)
    OBVIOUS
  <2>2. d = {} /\ f = {}
    BY <1>1, <1>18, <2>1
  <2> QED
    BY <1>8, <2>1, <2>2, TasksNest
<1>19. /\ new # {} => Open(log) /\ Cardinality(A \cup a) = Cardinality(B)
       /\ \/ /\ Open(log) /\ Cardinality(A \cup a) = Cardinality(B) /\ next = {}
             /\ \/ /\ Cardinality(B \cup b) = Cardinality(B) + 1 /\ Open(log)' = Open(log)
                \/ Open(log)' = FALSE /\ Cardinality(B \cup b) = Cardinality(B)
          \/ Cardinality(B \cup b) = Cardinality(B) /\ Open(log)' = Open(log)
  <2>1. b \cup z \cup c # {} => Open(log) /\ Cardinality(A \cup a) = Cardinality(B)
    BY <1>1, <1>11, <1>14
  <2>2. new # {} => Open(log) /\ Cardinality(A \cup a) = Cardinality(B)
    BY <1>10, <2>1
  <2>3. CASE ~(b \subseteq B)
    <3>1. b # {} /\ z = {}
      BY <1>1, <2>3
    <3>2. Open(log)' = Open(log)
      BY <1>16, <1>17, <3>1
    <3> QED
      BY <1>14, <1>18, <2>1, <2>2, <2>3, <3>1, <3>2
  <2>4. CASE b \subseteq B /\ z # {}
    <3>1. Open(log)' = FALSE
      BY <1>16, <1>17, <2>4
    <3> QED
      BY <1>14, <1>18, <2>1, <2>2, <2>4, <3>1
  <2>5. CASE b \subseteq B /\ z = {}
    <3>1. Open(log)' = Open(log)
      BY <1>16, <1>17, <2>5
    <3> QED
      BY <1>14, <2>2, <2>5, <3>1
  <2> QED
    BY <2>3, <2>4, <2>5
<1>20. PICK an, ao, nn, n : /\ an = Cardinality(A \cup a) /\ ao = Cardinality(A)
                            /\ nn = Cardinality(B \cup b) /\ n = Cardinality(B)
  OBVIOUS
<1>21. /\ an = Cardinality(Answered)' /\ ao = Cardinality(Answered)
       /\ nn = ModelCallCount(log)' /\ n = ModelCallCount(log)
  BY <1>11, <1>12, <1>13, <1>15, <1>20
<1>22. /\ an \in ao .. n
       /\ new # {} => Open(log) /\ an = n
       /\ \/ /\ Open(log) /\ an = n /\ next = {}
             /\ \/ nn = n + 1 /\ Open(log)' = Open(log)
                \/ Open(log)' = FALSE /\ nn = n
          \/ nn = n /\ Open(log)' = Open(log)
  BY <1>14, <1>19, <1>20
<1>23. /\ outcomes \in SUBSET work
       /\ new \in SUBSET (Tasks(Tools, Gated) \ (work \cup done))
       /\ new \subseteq Tasks(Tools, Gated) \ (work \cup done)
  BY <1>9, <1>10
<1>24. Lifecycle!Append(outcomes, new)
  BY <1>6, <1>7, <1>9, <1>21, <1>22, <1>23, TurnIs, TurnIsNext DEF Lifecycle!Append, Answered
<1>25. \/ Lifecycle!BeginModel \/ Lifecycle!Close
       \/ UNCHANGED <<ModelCallCount(log), Open(log)>>
  BY <1>7, <1>21, <1>22, TurnIsNext
     DEF Lifecycle!BeginModel, Lifecycle!Close, Lifecycle!Idle, Answered
<1> QED
  BY <1>6, <1>23, <1>24, <1>25, TurnIs DEF Lifecycle!Next

(***************************************************************************)
(* What other writers append is none of the turn; what the driver appends is*)
(* legal.                                                                  *)
(***************************************************************************)

\* What other writers append is no part of the turn.
LEMMA OthersKeepSets ==
  ASSUME LogOK, LogOK', OthersAppend, NEW kind, kind # "foreign"
  PROVE  Logged(log, kind)' = Logged(log, kind)
<1>1. log \in Seq(Event) /\ log' \in Seq(Event)
  BY DEF LogOK
<1>2. \A x : x \in Logged(log, kind)' <=>
               \E i \in 1 .. Len(log') : log'[i].kind = kind /\ log'[i].of = x
  BY <1>1, LoggedOf
<1>3. \A x : x \in Logged(log, kind) <=>
               \E i \in 1 .. Len(log) : log[i].kind = kind /\ log[i].of = x
  BY <1>1, LoggedOf
<1>4. /\ Len(log) \in Nat /\ Len(log') \in Nat /\ Len(log) <= Len(log')
      /\ \A i \in 1 .. Len(log) : log'[i] = log[i]
      /\ \A i \in 1 .. Len(log') : i > Len(log) => log'[i].kind = "foreign"
  BY DEF OthersAppend
<1>5. \A i \in 1 .. Len(log) : i \in 1 .. Len(log')
  BY <1>4
<1>6. \A i \in 1 .. Len(log') : i \in 1 .. Len(log) \/ i > Len(log)
  BY <1>4
<1>7. ASSUME NEW x, x \in Logged(log, kind)'
      PROVE  x \in Logged(log, kind)
  <2>1. PICK i \in 1 .. Len(log') : log'[i].kind = kind /\ log'[i].of = x
    BY <1>2, <1>7
  <2>2. i \in 1 .. Len(log) /\ log'[i] = log[i]
    BY <1>4, <1>6, <2>1
  <2> QED
    BY <1>3, <2>1, <2>2
<1>8. ASSUME NEW x, x \in Logged(log, kind)
      PROVE  x \in Logged(log, kind)'
  <2>1. PICK i \in 1 .. Len(log) : log[i].kind = kind /\ log[i].of = x
    BY <1>3, <1>8
  <2> QED
    BY <1>2, <1>4, <1>5, <2>1
<1> QED
  BY <1>7, <1>8

LEMMA SetsRest ==
  ASSUME LogOK, LogOK', OthersAppend
  PROVE  UNCHANGED <<Begun, Answered, Called, Ended, Asked, Ruled>>
BY OthersKeepSets DEF Begun, Answered, Called, Ended, Asked, Ruled

LEMMA TurnStays ==
  ASSUME LogOK, LogOK', OthersAppend, TurnInv
  PROVE  TurnInv' /\ UNCHANGED Lifecycle!vars
<1>1. UNCHANGED <<Begun, Answered, Called, Ended, Asked, Ruled>>
  BY SetsRest
<1>2. /\ Len(log) \in Nat /\ Len(log') \in Nat /\ Len(log) <= Len(log')
      /\ \A i \in 1 .. Len(log) : log'[i] = log[i]
      /\ \A i \in 1 .. Len(log') : log'[i].kind # "foreign" => i \in 1 .. Len(log)
      /\ \A i \in 1 .. Len(log) : i \in 1 .. Len(log')
  BY DEF OthersAppend
<1>3. CallsAreLegal'
  BY <1>1 DEF TurnInv, CallsAreLegal
<1>4. ModelCallsAlternate'
  <2>1. ASSUME NEW i \in 1 .. Len(log'), NEW j \in 1 .. Len(log'), i < j,
               log'[i].kind = "message.started", log'[j].kind = "message.started"
        PROVE  log'[i].of \in Answered'
    <3>1. /\ i \in 1 .. Len(log) /\ j \in 1 .. Len(log)
          /\ log'[i] = log[i] /\ log'[j] = log[j]
      BY <1>2, <2>1
    <3> QED
      BY <1>1, <2>1, <3>1 DEF TurnInv, ModelCallsAlternate
  <2>2. ASSUME NEW i \in 1 .. Len(log'), log'[i].kind = "message.terminal"
        PROVE  \E j \in 1 .. Len(log') :
                 j < i /\ log'[j].kind = "message.started" /\ log'[j].of = log'[i].of
    <3>1. i \in 1 .. Len(log) /\ log'[i] = log[i]
      BY <1>2, <2>2
    <3>2. PICK j \in 1 .. Len(log) :
            j < i /\ log[j].kind = "message.started" /\ log[j].of = log[i].of
      BY <2>2, <3>1 DEF TurnInv, ModelCallsAlternate
    <3> QED
      BY <1>2, <3>1, <3>2
  <2>3. (Begun \subseteq Answered \/ (Called \subseteq Ended /\ Asked \subseteq Ruled))'
    BY <1>1 DEF TurnInv, ModelCallsAlternate
  <2> QED
    BY <2>1, <2>2, <2>3 DEF ModelCallsAlternate
<1>5. DecisionsComeLast'
  <2>1. ASSUME NEW i \in 1 .. Len(log'), NEW j \in 1 .. Len(log'),
               log'[i].kind = "approval.resolved", log'[i].of \notin Ended',
               log'[j].kind = "message.terminal"
        PROVE  j < i
    <3>1. /\ i \in 1 .. Len(log) /\ j \in 1 .. Len(log)
          /\ log'[i] = log[i] /\ log'[j] = log[j]
      BY <1>2, <2>1
    <3> QED
      BY <1>1, <2>1, <3>1 DEF TurnInv, DecisionsComeLast
  <2> QED
    BY <2>1 DEF DecisionsComeLast
<1>6. PreparationsSucceed'
  <2>1. ASSUME NEW i \in 1 .. Len(log')
        PROVE  log'[i].kind \notin {"diagnostic", "artifacts.failed"}
    BY <1>2 DEF TurnInv, PreparationsSucceed
  <2> QED
    BY <2>1 DEF PreparationsSucceed
<1>11. CallsFollowAnswers' /\ SteersAreReceived'
  <2>1. ASSUME NEW j \in 1 .. Len(log'),
               log'[j].kind \in {"invocation.started", "invocation.terminal"}
        PROVE  \E i \in 1 .. Len(log') :
                 i < j /\ log'[i].kind = "message.terminal" /\ log'[i].how = "completed"
    <3>1. j \in 1 .. Len(log) /\ log'[j] = log[j]
      BY <1>2, <2>1
    <3>2. PICK i \in 1 .. Len(log) :
            i < j /\ log[i].kind = "message.terminal" /\ log[i].how = "completed"
      BY <2>1, <3>1 DEF TurnInv, CallsFollowAnswers
    <3> QED
      BY <1>2, <3>1, <3>2
  <2>2. Logged(log, "received")' = Logged(log, "received")
    BY OthersKeepSets
  <2> QED
    BY <2>1, <2>2 DEF TurnInv, CallsFollowAnswers, SteersAreReceived
<1>7. UNCHANGED <<ModelCallCount(log), Open(log)>>
  <2>1. PICK L, B : L = log' /\ B = Begun
    OBVIOUS
  <2>2. /\ L \in Seq(Event) /\ \A i, j \in 1 .. Len(L) : SameId(L[i], L[j]) => i = j
        /\ log \in Seq(Event) /\ \A i, j \in 1 .. Len(log) : SameId(log[i], log[j]) => i = j
    BY <2>1 DEF LogOK, IdsAreUnique, SameId
  <2>3. Logged(L, "message.started") = B /\ Logged(log, "message.started") = B
    BY <1>1, <2>1 DEF Begun
  <2>4. ModelCallCount(L) = Cardinality(B)
    BY <2>2, <2>3, CountsAre
  <2>5. ModelCallCount(log) = Cardinality(B)
    BY <2>2, <2>3, CountsAre
  <2>6. Logged(L, "turn.closed") = Logged(log, "turn.closed")
    BY <2>1, OthersKeepSets
  <2>7. Open(L) <=> Open(log)
    BY <2>2, <2>6, OpenIs
  <2>8. Open(L) \in BOOLEAN /\ Open(log) \in BOOLEAN
    BY DEF Open
  <2> QED
    BY <2>1, <2>4, <2>5, <2>7, <2>8
<1>8. Cardinality(Logged(log, "message.terminal"))' = Cardinality(Logged(log, "message.terminal"))
  BY <1>1 DEF Answered
<1>9. /\ Tasks(Called \ Ended, Asked \ Ruled)' = Tasks(Called \ Ended, Asked \ Ruled)
      /\ Tasks(Ended, Ruled)' = Tasks(Ended, Ruled)
  BY <1>1
<1>10. UNCHANGED Lifecycle!vars
  BY <1>7, <1>8, <1>9, TurnIs, TurnIsNext DEF Lifecycle!vars
<1> QED
  BY <1>3, <1>4, <1>5, <1>6, <1>10, <1>11 DEF TurnInv

\* A batch of which nothing is new, or that is legal.
LEMMA AppendIsAStep ==
  ASSUME LogOK, LogOK', TurnInv, NEW items, Writes(items), log' = Appended(items),
         New(items) = <<>> \/ Legal(items)
  PROVE  TurnInv' /\ [Lifecycle!Next]_Lifecycle!vars
<1>1. CASE New(items) = <<>>
  <2>1. log' = log
    BY <1>1 DEF Appended, LogOK
  <2>2. OthersAppend
    BY <2>1, LogRests
  <2> QED
    BY <2>2, TurnStays
<1>2. CASE Legal(items)
  BY <1>2, LegalKeepsTurn, BatchIsAStep
<1> QED
  BY <1>1, <1>2

(***************************************************************************)
(* What is legal.                                                          *)
(***************************************************************************)

LEMMA WroteOne ==
  ASSUME NEW ev, NEW items, items = <<ev>>, NEW kind
  PROVE  /\ ev.kind = kind => Wrote(items, kind) = {ev.of}
         /\ ev.kind # kind => Wrote(items, kind) = {}
<1>1. Len(items) = 1 /\ items[1] = ev /\ \A i \in 1 .. 1 : i = 1
  OBVIOUS
<1> QED
  BY <1>1, WroteOf

LEMMA WroteNone ==
  ASSUME NEW kind
  PROVE  Wrote(<<>>, kind) = {}
BY WroteOf

LEMMA WroteBoth ==
  ASSUME NEW s \in Seq(Event), NEW t \in Seq(Event), NEW kind
  PROVE  Wrote(s \o t, kind) = Wrote(s, kind) \cup Wrote(t, kind)
<1>1. PICK m \in Nat, n \in Nat : m = Len(s) /\ n = Len(t)
  OBVIOUS
<1>2. ASSUME NEW both, Len(both) = m + n, \A i \in 1 .. m : both[i] = s[i],
             \A i \in m + 1 .. m + n : both[i] = t[i - m]
      PROVE  Wrote(both, kind) = Wrote(s, kind) \cup Wrote(t, kind)
  <2>1. \A x : x \in Wrote(both, kind) <=>
                 \E k \in 1 .. m + n : both[k].kind = kind /\ both[k].of = x
    BY <1>1, <1>2, WroteOf
  <2>2. \A x : x \in Wrote(s, kind) <=> \E k \in 1 .. m : s[k].kind = kind /\ s[k].of = x
    BY <1>1, <1>2, WroteOf
  <2>3. \A x : x \in Wrote(t, kind) <=> \E k \in 1 .. n : t[k].kind = kind /\ t[k].of = x
    BY <1>1, <1>2, WroteOf
  <2>4. ASSUME NEW x, x \in Wrote(both, kind)
        PROVE  x \in Wrote(s, kind) \cup Wrote(t, kind)
    <3>1. PICK i \in 1 .. m + n : both[i].kind = kind /\ both[i].of = x
      BY <2>1, <2>4
    <3>2. CASE i \in 1 .. m
      BY <1>2, <2>2, <3>1, <3>2
    <3>3. CASE i \in m + 1 .. m + n
      <4>1. PICK k \in 1 .. n : k = i - m
        BY <1>2, <3>3
      <4>2. both[i] = t[k]
        BY <1>2, <3>3, <4>1
      <4> QED
        BY <2>3, <3>1, <4>2
    <3> QED
      BY <3>1, <3>2, <3>3
  <2>5. ASSUME NEW x, x \in Wrote(s, kind)
        PROVE  x \in Wrote(both, kind)
    <3>1. PICK i \in 1 .. m : s[i].kind = kind /\ s[i].of = x
      BY <2>2, <2>5
    <3>2. i \in 1 .. m + n
      OBVIOUS
    <3>3. both[i] = s[i]
      BY <1>2
    <3> QED
      BY <2>1, <3>1, <3>2, <3>3
  <2>6. ASSUME NEW x, x \in Wrote(t, kind)
        PROVE  x \in Wrote(both, kind)
    <3>1. PICK i \in 1 .. n : t[i].kind = kind /\ t[i].of = x
      BY <2>3, <2>6
    <3>2. PICK k \in m + 1 .. m + n : k = m + i
      OBVIOUS
    <3>3. k \in 1 .. m + n /\ k - m = i
      BY <3>2
    <3>4. both[k] = t[i]
      BY <1>2, <3>3
    <3> QED
      BY <2>1, <3>1, <3>3, <3>4
  <2> QED
    BY <2>4, <2>5, <2>6
<1>3. /\ Len(s \o t) = m + n
      /\ \A i \in 1 .. m : (s \o t)[i] = s[i]
      /\ \A i \in m + 1 .. m + n : (s \o t)[i] = t[i - m]
  BY <1>1
<1> QED
  BY <1>2, <1>3

LEMMA NoneIsLegal == Legal(<<>>)
BY NoneSuits, WroteNone DEF Legal

\* One event that may be logged now.
OneMay(ev) ==
  /\ ev \in Event
  /\ ev.kind \in {"message.started", "message.terminal", "invocation.terminal",
                  "approval.resolved", "received", "artifacts.ready", "turn.waiting",
                  "turn.closed"}
  /\ ev.kind = "message.terminal" => ev.of \in Begun
  /\ ev.kind = "approval.resolved" => ev.of \in Asked
  /\ ev.kind = "invocation.terminal" =>
       ev.of \in Called /\ (ev.of \in Gated => ev.of \in Ruled)
  /\ ev.kind \in {"message.started", "turn.closed"} => Open(log) /\ TurnIsIdle
  /\ ev.kind = "received" => ev.of \in Steers

LEMMA OneIsLegal ==
  ASSUME NEW ev, OneMay(ev)
  PROVE  Legal(<<ev>>)
<1>1. PICK items : items = <<ev>>
  OBVIOUS
<1>2. Writes(items)
  <2>1. \A i, j \in 1 .. Len(items) : i = j
    BY <1>1
  <2>2. items \in Seq(Event) /\ \A k \in 1 .. Len(items) : items[k].kind # "foreign"
    BY <1>1 DEF OneMay
  <2> QED
    BY <2>1, <2>2 DEF Writes
<1>3. \A kind : /\ ev.kind = kind => Wrote(items, kind) = {ev.of}
                /\ ev.kind # kind => Wrote(items, kind) = {}
  BY <1>1, WroteOne
<1>4. ASSUME ev.kind = "message.started"
      PROVE  Legal(items)
  BY <1>2, <1>3, <1>4 DEF OneMay, Legal, TurnIsIdle
<1>5. ASSUME ev.kind = "message.terminal"
      PROVE  Legal(items)
  BY <1>2, <1>3, <1>5 DEF OneMay, Legal
<1>6. ASSUME ev.kind = "invocation.terminal"
      PROVE  Legal(items)
  BY <1>2, <1>3, <1>6 DEF OneMay, Legal
<1>7. ASSUME ev.kind = "approval.resolved"
      PROVE  Legal(items)
  BY <1>2, <1>3, <1>7 DEF OneMay, Legal
<1>8. ASSUME ev.kind \in {"received", "artifacts.ready", "turn.waiting"}
      PROVE  Legal(items)
  BY <1>2, <1>3, <1>8 DEF OneMay, Legal
<1>9. ASSUME ev.kind = "turn.closed"
      PROVE  Legal(items)
  BY <1>2, <1>3, <1>9 DEF OneMay, Legal, TurnIsIdle
<1> QED
  BY <1>1, <1>4, <1>5, <1>6, <1>7, <1>8, <1>9 DEF OneMay

\* While a turn is open, what is in flight is the last model call, or none.
LEMMA InFlightIsLast ==
  ASSUME LogOK, TurnInv
  PROVE  /\ \A n \in InFlight(log) : n \in Begun /\ Begun \subseteq Answered \cup {n}
         /\ Open(log) /\ InFlight(log) = {} => Begun \subseteq Answered
<1>1. PICK start : start = LastAt(log, {"message.started"})
  OBVIOUS
<1>2. /\ start \in 1 .. Len(log) /\ log[start].kind = "message.started"
      /\ \A j \in 1 .. Len(log) : log[j].kind = "message.started" => j <= start
  <2>1. 1 \in At(log, {"message.started"})
    BY DEF LogOK, At
  <2>2. \A j \in 1 .. Len(log) :
          log[j].kind = "message.started" => j \in At(log, {"message.started"})
    BY DEF LogOK, At
  <2> QED
    BY <1>1, <2>1, <2>2, LastAtIs DEF LogOK
<1>3. PICK n : n = log[start].of
  OBVIOUS
<1>4. n \in Begun
  BY <1>2, <1>3, LoggedOf DEF Begun, LogOK
<1>5. Begun \subseteq Answered \cup {n}
  <2> SUFFICES ASSUME NEW m \in Begun, m # n
               PROVE  m \in Answered
    OBVIOUS
  <2>1. PICK i \in 1 .. Len(log) : log[i].kind = "message.started" /\ log[i].of = m
    BY LoggedOf DEF Begun, LogOK
  <2>2. i <= start /\ i # start
    BY <1>2, <1>3, <2>1
  <2>3. i < start
    BY <1>2, <2>2
  <2> QED
    BY <1>2, <2>1, <2>3 DEF TurnInv, ModelCallsAlternate
<1>6. \A m \in InFlight(log) : m = n
  BY <1>1, <1>3 DEF InFlight
<1>7. ASSUME Open(log), InFlight(log) = {}
      PROVE  n \in Answered
  <2>1. n \notin InFlight(log)
    BY <1>7
  <2>2. PICK i \in At(log, {"message.terminal", "turn.closed"}) :
           i > start /\ (log[i].kind = "message.terminal" => log[i].of = n)
    BY <1>1, <1>3, <2>1 DEF InFlight
  <2>3. i \in 1 .. Len(log) /\ log[i].kind # "turn.closed"
    BY <1>7, <2>2 DEF Open, At, LogOK
  <2>4. log[i].kind = "message.terminal" /\ log[i].of = n
    BY <2>2, <2>3 DEF At
  <2> QED
    BY <2>3, <2>4, LoggedOf DEF Answered, LogOK
<1> QED
  BY <1>4, <1>5, <1>6, <1>7

\* Then a turn without pending invocations is idle.
LEMMA GuardIs ==
  ASSUME LogOK, TurnInv, Begun \subseteq Answered, PendingInvocations(log) = {}
  PROVE  TurnIsIdle
BY DEF TurnIsIdle, TurnInv, CallsAreLegal, PendingInvocations, Called, Ended, Asked, Ruled

LEMMA WakeGuardIs ==
  ASSUME LogOK, TurnInv, Open(log), WakeGuard(log)
  PROVE  TurnIsIdle
BY InFlightIsLast, GuardIs DEF WakeGuard

\* The one unanswered model call, once it has its answer.
LEMMA OneUnanswered ==
  ASSUME LogOK, TurnInv, NEW n \in Begun, n \notin Answered
  PROVE  /\ Begun \subseteq Answered \cup {n}
         /\ Called \subseteq Ended /\ Asked \subseteq Ruled
<1>1. Called \subseteq Ended /\ Asked \subseteq Ruled
  BY DEF TurnInv, ModelCallsAlternate
<1>2. ASSUME NEW m \in Begun, m # n, m \notin Answered
      PROVE  FALSE
  <2>1. PICK i \in 1 .. Len(log) : log[i].kind = "message.started" /\ log[i].of = m
    BY LoggedOf DEF Begun, LogOK
  <2>2. PICK j \in 1 .. Len(log) : log[j].kind = "message.started" /\ log[j].of = n
    BY LoggedOf DEF Begun, LogOK
  <2>3. i < j \/ j < i
    BY <1>2, <2>1, <2>2
  <2> QED
    BY <1>2, <2>1, <2>2, <2>3 DEF TurnInv, ModelCallsAlternate
<1> QED
  BY <1>1, <1>2

(***************************************************************************)
(* What step answers is legal, whatever it is given.                       *)
(***************************************************************************)

\* No part of a step's output looks like the answer of an executor; only an effect that is
\* given up fails.
Unlike(ev) ==
  /\ ev.kind = "message.terminal" => ev.how = "interrupted"
  /\ ev.kind = "invocation.terminal" => ev.how = "denied" \/ job.op = "failed"
  /\ ev.kind = "approval.resolved" => job.op = "failed"
  /\ ev.kind # "artifacts.ready"

NoAnswer(items) == \A k \in 1 .. Len(items) : Unlike(items[k])

Proper(out) == Legal(out.append) /\ NoAnswer(out.append)

LEMMA NothingIsProper == Proper(Nothing)
BY NoneIsLegal DEF Proper, NoAnswer, Nothing, Output

LEMMA OneIsProper ==
  ASSUME NEW ev, OneMay(ev), Unlike(ev), NEW effects
  PROVE  Proper(Output(<<ev>>, effects))
<1>1. PICK items : items = <<ev>>
  OBVIOUS
<1>2. \A k \in 1 .. Len(items) : items[k] = ev
  BY <1>1
<1>3. Legal(items)
  BY <1>1, OneIsLegal
<1> QED
  BY <1>1, <1>2, <1>3 DEF Proper, NoAnswer, Output

LEMMA NextIsProper ==
  ASSUME Open(log), TurnIsIdle, NEW out, NEW n, NextIs(out.append, n)
  PROVE  Proper(out)
<1>1. CASE out.append = <<>>
  BY <1>1, NoneIsLegal DEF Proper, NoAnswer
<1>2. CASE \E ev \in Event : /\ out.append = <<ev>>
                             /\ ev.kind \in {"message.started", "turn.closed"}
  <2>1. PICK ev \in Event : /\ out.append = <<ev>>
                            /\ ev.kind \in {"message.started", "turn.closed"}
    BY <1>2
  <2>2. OneMay(ev)
    BY <2>1 DEF OneMay
  <2>3. Proper(Output(<<ev>>, {}))
    BY <2>1, <2>2, OneIsProper DEF Unlike
  <2> QED
    BY <2>1, <2>3 DEF Proper, Output
<1> QED
  BY <1>1, <1>2 DEF NextIs

LEMMA NextCallIsProper ==
  ASSUME LogOK, Open(log), TurnIsIdle
  PROVE  /\ Proper(NextModelCall(log))
         /\ \A reason \in Hows : Proper(CloseTurn(reason))
<1>1. log \in Seq(Event) /\ Len(log) \in Nat
  BY DEF LogOK
<1> QED
  BY <1>1, NextModelCallIs, CloseIs, NextIsProper

\* What an expansion writes.
LEMMA ExpandWrites ==
  ASSUME NEW todo, CallList(todo), NEW items, items = ExpandToolCalls(todo).append
  PROVE  /\ Expands(items) /\ items \in Seq(Event)
         /\ Wrote(items, "invocation.started") = {todo[i] : i \in 1 .. Len(todo)}
         /\ Wrote(items, "invocation.started") \subseteq Tools
         /\ Wrote(items, "approval.requested") = Wrote(items, "invocation.started") \cap Gated
         /\ \A kind : kind \notin {"invocation.started", "approval.requested"} =>
              Wrote(items, kind) = {}
<1>1. Expands(items) /\ Starts(items, todo)
  BY ExpandIs
<1>2. \A kind, x : x \in Wrote(items, kind) <=>
                     \E k \in 1 .. Len(items) : items[k].kind = kind /\ items[k].of = x
  BY WroteOf
<1>3. \A i \in 1 .. Len(todo) : todo[i] \in Tools
  BY DEF CallList
<1>4. ASSUME NEW x
      PROVE  x \in Wrote(items, "invocation.started") <=> \E i \in 1 .. Len(todo) : todo[i] = x
  <2>1. x \in Wrote(items, "invocation.started") <=>
          \E k \in 1 .. Len(items) : items[k].kind = "invocation.started" /\ items[k].of = x
    BY <1>2
  <2>2. (\E k \in 1 .. Len(items) : items[k].kind = "invocation.started" /\ items[k].of = x)
          <=> \E i \in 1 .. Len(todo) : todo[i] = x
    BY <1>1 DEF Starts
  <2> QED
    BY <2>1, <2>2
<1>5. ASSUME NEW x
      PROVE  x \in Wrote(items, "approval.requested")
               <=> x \in Gated /\ \E i \in 1 .. Len(todo) : todo[i] = x
  <2>1. x \in Wrote(items, "approval.requested") <=>
          \E k \in 1 .. Len(items) : items[k].kind = "approval.requested" /\ items[k].of = x
    BY <1>2
  <2>2. (\E k \in 1 .. Len(items) : items[k].kind = "approval.requested" /\ items[k].of = x)
          <=> x \in Gated /\ \E i \in 1 .. Len(todo) : todo[i] = x
    BY <1>1 DEF Starts
  <2> QED
    BY <2>1, <2>2
<1>6. \A kind : kind \notin {"invocation.started", "approval.requested"} =>
              Wrote(items, kind) = {}
  BY <1>1, <1>2 DEF Expands
<1>7. items \in Seq(Event)
  BY <1>1 DEF Expands
<1> QED
  BY <1>1, <1>3, <1>4, <1>5, <1>6, <1>7

LEMMA ExpandIsProper ==
  ASSUME Open(log), Begun \subseteq Answered, NEW todo, CallList(todo),
         todo # <<>> => HasAnswer(log)
  PROVE  Proper(ExpandToolCalls(todo))
<1>1. PICK items : items = ExpandToolCalls(todo).append
  OBVIOUS
<1>2. /\ Expands(items)
      /\ Wrote(items, "invocation.started") \subseteq Tools
      /\ Wrote(items, "approval.requested") = Wrote(items, "invocation.started") \cap Gated
      /\ \A kind : kind \notin {"invocation.started", "approval.requested"} =>
              Wrote(items, kind) = {}
  BY <1>1, ExpandWrites
<1>3. Writes(items)
  BY <1>2, ExpandSuits DEF Expands, Writes
<1>4. /\ Wrote(items, "message.started") = {} /\ Wrote(items, "message.terminal") = {}
      /\ Wrote(items, "invocation.terminal") = {} /\ Wrote(items, "approval.resolved") = {}
      /\ Wrote(items, "diagnostic") = {} /\ Wrote(items, "artifacts.failed") = {}
      /\ Wrote(items, "turn.closed") = {} /\ Wrote(items, "received") = {}
  BY <1>2
<1>7. Wrote(items, "invocation.started") = {} \/ HasAnswer(log)
  <2>1. Wrote(items, "invocation.started") = {todo[i] : i \in 1 .. Len(todo)}
    BY <1>1, ExpandWrites
  <2>2. todo = <<>> => {todo[i] : i \in 1 .. Len(todo)} = {}
    OBVIOUS
  <2> QED
    BY <2>1, <2>2
<1>5. Legal(items)
  BY <1>2, <1>3, <1>4, <1>7 DEF Legal
<1>6. NoAnswer(items)
  BY <1>2 DEF Expands, NoAnswer, Unlike
<1> QED
  BY <1>1, <1>5, <1>6 DEF Proper

\* An answer, or the end of an invocation, goes on from an idle turn.
LEMMA AnswerIsProper ==
  ASSUME LogOK, Open(log), TurnIsIdle, NEW todo, CallList(todo), todo # <<>> => HasAnswer(log)
  PROVE  Proper(AfterAnswer(log, todo))
<1>1. Proper(ExpandToolCalls(todo))
  BY ExpandIsProper DEF TurnIsIdle
<1>2. Proper(NextModelCall(log)) /\ Proper(CloseTurn("completed"))
  BY NextCallIsProper DEF Hows
<1> QED
  BY <1>1, <1>2 DEF AfterAnswer

LEMMA ParkIsProper ==
  ASSUME LogOK
  PROVE  Proper(ParkTurn(log))
<1>1. PICK n : n = Cardinality(At(log, {"turn.waiting"}))
  OBVIOUS
<1>2. PICK t : t = Ev("turn.waiting", n, "suspended")
  OBVIOUS
<1>3. n \in Ofs
  BY <1>1, WaitsAre DEF LogOK, Ofs
<1>4. t \in Event /\ t.kind = "turn.waiting"
  BY <1>2, <1>3, EvIs DEF Kinds, Hows
<1>5. OneMay(t)
  BY <1>4 DEF OneMay
<1>6. ParkTurn(log) = Output(<<t>>, {})
  BY <1>1, <1>2 DEF ParkTurn
<1> QED
  BY <1>4, <1>5, <1>6, OneIsProper DEF Unlike

LEMMA InvocationIsProper ==
  ASSUME LogOK, TurnInv, Open(log), NEW how
  PROVE  Proper(AfterInvocation(log, how))
<1>1. CASE InFlight(log) = {} /\ PendingInvocations(log) = {}
  <2>1. TurnIsIdle
    BY <1>1, InFlightIsLast, GuardIs
  <2>2. Proper(ParkTurn(log))
    BY ParkIsProper
  <2>3. /\ Proper(NextModelCall(log)) /\ Proper(CloseTurn("work_failed"))
        /\ Proper(CloseTurn("tool_terminated"))
    BY <2>1, NextCallIsProper DEF Hows
  <2>4. Proper(AfterBatch(log, how))
    BY <2>2, <2>3, BatchLeads DEF BatchEnds
  <2> QED
    BY <2>4, NothingIsProper DEF AfterInvocation
<1>2. CASE ~(InFlight(log) = {} /\ PendingInvocations(log) = {})
  BY <1>2, NothingIsProper DEF AfterInvocation
<1> QED
  BY <1>1, <1>2

\* What the innermost activation may have to step.
HeadOK(ev) ==
  /\ ev.kind = "approval.resolved" => ev.of \in Ruled
  /\ ev.kind = "message.terminal" /\ ev.how \in {"completed", "fatal"} => TurnIsIdle
  /\ ev.kind \notin {"diagnostic", "artifacts.failed"}
  /\ ev.kind = "effect-failed" => job.op = "failed"
  /\ ev.kind = "steer" => ev.of \in Steers

\* The intention of an effect is logged; a gated call runs once its approval is decided.
Intended(e) ==
  /\ e[1] = "model" => e[2] \in Begun
  /\ e[1] = "call" => e[2] \in Called /\ (e[2] \in Gated => e[2] \in Ruled)
  /\ e[1] = "form" => e[2] \in Asked

LEMMA PendingAre ==
  ASSUME NEW fold, Folds(fold), LogOK
  PROVE  /\ PendingInvocations(fold) \subseteq Called
         /\ PendingApprovals(fold) \subseteq Asked
         /\ Granted(fold) \subseteq Ruled
<1>1. \A i \in 1 .. Len(fold) : i \in 1 .. Len(log) /\ fold[i] = log[i]
  BY DEF Folds, LogOK
<1>2. fold \in Seq(Event) /\ log \in Seq(Event)
  BY DEF Folds, LogOK
<1>3. ASSUME NEW kind
      PROVE  Logged(fold, kind) \subseteq Logged(log, kind)
  <2>1. \A x : x \in Logged(fold, kind) <=>
                 \E i \in 1 .. Len(fold) : fold[i].kind = kind /\ fold[i].of = x
    BY <1>2, LoggedOf
  <2>2. \A x : x \in Logged(log, kind) <=>
                 \E i \in 1 .. Len(log) : log[i].kind = kind /\ log[i].of = x
    BY <1>2, LoggedOf
  <2> QED
    BY <1>1, <2>1, <2>2
<1>4. Granted(fold) \subseteq Logged(fold, "approval.resolved")
  BY DEF Granted, Logged
<1> QED
  BY <1>3, <1>4 DEF PendingInvocations, PendingApprovals, Called, Asked, Ruled

LEMMA LogFolds ==
  ASSUME LogOK
  PROVE  Folds(log)
BY LogIsCurrent DEF Current

\* Only a completed answer carries calls.
LEMMA CallsOfAnswer ==
  ASSUME NEW L, NEW n, CallsOf(L, n) # <<>>
  PROVE  HasAnswer(L)
BY DEF CallsOf, HasAnswer

LEMMA EventIsProper ==
  ASSUME LogOK, TurnInv, NEW ev \in Event, HeadOK(ev)
  PROVE  Proper(EventStep(log, ev))
<1>1. CASE ~Open(log)
  BY <1>1, NothingIsProper DEF EventStep
<1>2. CASE Open(log) /\ ev.kind \in {"message.terminal", "diagnostic"}
  <2>1. ev.kind = "message.terminal"
    BY <1>2 DEF HeadOK
  <2>2. CASE ev.how = "completed"
    <3>1. Proper(AfterAnswer(log, CallsOf(log, ev.of)))
      <4>1. TurnIsIdle
        BY <2>1, <2>2 DEF HeadOK
      <4>2. PICK todo : todo = CallsOf(log, ev.of)
        OBVIOUS
      <4>3. CallList(todo) /\ (todo # <<>> => HasAnswer(log))
        BY <4>2, CallsOfIs, CallsOfAnswer
      <4> QED
        BY <1>2, <4>1, <4>2, <4>3, AnswerIsProper
    <3> QED
      BY <1>2, <2>1, <2>2, <3>1 DEF EventStep
  <2>3. CASE ev.how = "fatal"
    <3>1. Proper(CloseTurn("work_failed"))
      BY <1>2, <2>1, <2>3, NextCallIsProper DEF HeadOK, Hows
    <3> QED
      BY <1>2, <2>1, <2>3, <3>1 DEF EventStep
  <2>4. CASE ev.how \notin {"completed", "fatal"} /\ WakeGuard(log)
    <3>1. Proper(NextModelCall(log))
      BY <1>2, <2>4, WakeGuardIs, NextCallIsProper
    <3> QED
      BY <1>2, <2>1, <2>4, <3>1 DEF EventStep
  <2>5. CASE ev.how \notin {"completed", "fatal"} /\ ~WakeGuard(log)
    BY <1>2, <2>1, <2>5, NothingIsProper DEF EventStep
  <2> QED
    BY <2>2, <2>3, <2>4, <2>5
<1>3. CASE Open(log) /\ ev.kind = "invocation.terminal"
  BY <1>3, InvocationIsProper DEF EventStep
<1>4. CASE Open(log) /\ ev.kind = "approval.resolved"
  <2>1. CASE ev.of \notin PendingInvocations(log)
    BY <1>4, <2>1, NothingIsProper DEF EventStep
  <2>2. CASE ev.of \in PendingInvocations(log) /\ ev.how = "granted"
    <3>1. Proper(Output(<<>>, {Call(ev.of)}))
      BY NoneIsLegal DEF Proper, NoAnswer, Output
    <3> QED
      BY <1>4, <2>2, <3>1 DEF EventStep
  <2>3. CASE ev.of \in PendingInvocations(log) /\ ev.how # "granted"
    <3>1. PICK t : t = Ev("invocation.terminal", ev.of, "denied")
      OBVIOUS
    <3>2. ev.of \in Called /\ ev.of \in Ruled
      BY <1>4, <2>3, PendingAre, LogFolds DEF HeadOK
    <3>3. t \in Event /\ t.kind = "invocation.terminal" /\ t.of = ev.of /\ t.how = "denied"
      <4>1. ev.of \in Ofs
        BY EventIs
      <4>2. t.how = "denied"
        BY <3>1 DEF Ev
      <4> QED
        BY <3>1, <4>1, <4>2, EvIs DEF Kinds, Hows
    <3>4. OneMay(t)
      BY <3>2, <3>3 DEF OneMay
    <3>5. Proper(Output(<<t>>, {}))
      BY <3>3, <3>4, OneIsProper DEF Unlike
    <3> QED
      BY <1>4, <2>3, <3>1, <3>5 DEF EventStep
  <2> QED
    BY <2>1, <2>2, <2>3
<1>5. CASE Open(log) /\ ev.kind = "artifacts.ready"
  <2>1. WakeGuard(log) => Proper(NextModelCall(log))
    BY <1>5, WakeGuardIs, NextCallIsProper
  <2> QED
    BY <1>5, <2>1, NothingIsProper DEF EventStep
<1>6. CASE ev.kind \notin {"message.terminal", "diagnostic", "invocation.terminal",
                           "approval.resolved", "artifacts.ready", "artifacts.failed"}
  BY <1>6, NothingIsProper DEF EventStep
<1> QED
  BY <1>1, <1>2, <1>3, <1>4, <1>5, <1>6 DEF HeadOK

LEMMA SteerIsProper ==
  ASSUME NEW s \in Steers
  PROVE  Proper(Steer(log, s))
<1>1. PICK ev : ev = Ev("received", s, "steer")
  OBVIOUS
<1>2. ev \in Event /\ ev.kind = "received" /\ ev.of \in Steers
  <2>1. s \in Ofs /\ "received" \in Kinds /\ "steer" \in Hows
    BY DEF Ofs, Kinds, Hows
  <2> QED
    BY <1>1, <2>1, EvIs
<1>3. Proper(Output(<<ev>>, {}))
  BY <1>2, OneIsProper DEF OneMay, Unlike
<1> QED
  BY <1>1, <1>3, NothingIsProper DEF Steer

LEMMA FailureIsProper ==
  ASSUME LogOK, job.op = "failed", NEW e, Intended(e), e[1] # "prep"
  PROVE  Proper(EffectFailed(log, e))
<1>1. PendingInvocations(log) \subseteq Called /\ PendingApprovals(log) \subseteq Asked
  BY PendingAre, LogFolds
<1>2. CASE e[1] = "call" /\ e[2] \in PendingInvocations(log)
  <2>1. PICK ev : ev = Ev("invocation.terminal", e[2], "failed")
    OBVIOUS
  <2>2. e[2] \in Ofs
    BY <1>2, LoggedIs DEF LogOK, PendingInvocations
  <2>3. ev \in Event /\ ev.kind = "invocation.terminal" /\ ev.of = e[2]
    BY <2>1, <2>2, EvIs DEF Kinds, Hows
  <2>4. OneMay(ev)
    BY <1>2, <2>3 DEF OneMay, Intended
  <2>5. Proper(Output(<<ev>>, {}))
    BY <2>3, <2>4, OneIsProper DEF Unlike
  <2> QED
    BY <1>2, <2>1, <2>5 DEF EffectFailed
<1>3. CASE e[1] = "form" /\ e[2] \in PendingApprovals(log)
  <2>1. PICK ev : ev = Ev("approval.resolved", e[2], "denied")
    OBVIOUS
  <2>2. e[2] \in Ofs
    BY <1>3, LoggedIs DEF LogOK, PendingApprovals
  <2>3. ev \in Event /\ ev.kind = "approval.resolved" /\ ev.of = e[2]
    BY <2>1, <2>2, EvIs DEF Kinds, Hows
  <2>4. OneMay(ev)
    BY <1>1, <1>3, <2>3 DEF OneMay
  <2>5. Proper(Output(<<ev>>, {}))
    BY <2>3, <2>4, OneIsProper DEF Unlike
  <2> QED
    BY <1>3, <2>1, <2>5 DEF EffectFailed
<1>4. CASE /\ ~(e[1] = "call" /\ e[2] \in PendingInvocations(log))
           /\ ~(e[1] = "form" /\ e[2] \in PendingApprovals(log))
  BY <1>4, NothingIsProper DEF EffectFailed
<1> QED
  BY <1>2, <1>3, <1>4

\* What a wake does: it ends the orphan, and goes on from the log behind that.
Orphans(L) ==
  IF InFlight(L) = {} THEN <<>>
  ELSE <<Ev("message.terminal", CHOOSE n \in InFlight(L) : TRUE, "interrupted")>>

Resumes(out, L, after, todo) ==
  /\ after = L \o Orphans(L) /\ CallList(todo)
  /\ todo # <<>> => HasAnswer(after)
  /\ \A i \in 1 .. Len(todo) : todo[i] \notin Logged(after, "invocation.started")
  /\ \/ out = Output(Orphans(L), {})
     \/ /\ Open(after)
        /\ \/ out = Output(Orphans(L) \o Nothing.append, Nothing.effects)
           \/ out = Output(Orphans(L) \o ExpandToolCalls(todo).append,
                           ExpandToolCalls(todo).effects)
           \/ /\ WakeGuard(after)
              /\ out = Output(Orphans(L) \o NextModelCall(after).append,
                              NextModelCall(after).effects)

LEMMA WakeIs ==
  ASSUME NEW L
  PROVE  \E after, todo : Resumes(Wake(L), L, after, todo)
<1> DEFINE orphans == Orphans(L)
           after == L \o orphans
           answered == {i \in Answers(after) : after[i].kind = "message.terminal"}
           lastCalls == IF answered = {} THEN <<>>
                        ELSE LET last == CHOOSE i \in answered :
                                             \A j \in answered : j <= i
                             IN CallsOf(after, after[last].of)
           unprocessed == Kept(lastCalls,
                               {i \in DOMAIN lastCalls :
                                  lastCalls[i] \notin Logged(after, "invocation.started")})
           next == IF unprocessed # <<>> THEN ExpandToolCalls(unprocessed)
                   ELSE IF /\ WakeGuard(after)
                           /\ \/ SteeringQueue(after) # {}
                              \/ EndsInToolResult(after)
                              \/ orphans # <<>>
                   THEN NextModelCall(after)
                   ELSE Nothing
<1>1. CallList(<<>>)
  BY DEF CallList
<1>2. CallList(lastCalls)
  BY <1>1, CallsOfIs
<1>3. CallList(unprocessed)
  <2> HIDE DEF lastCalls
  <2> QED
    BY <1>2, KeptCalls
<1>8. unprocessed # <<>> => HasAnswer(after)
  <2>1. lastCalls # <<>> => HasAnswer(after)
    <3> HIDE DEF after
    <3> QED
      BY CallsOfAnswer
  <2>2. lastCalls = <<>> => unprocessed = <<>>
    <3> HIDE DEF lastCalls, after
    <3> QED
      BY KeptEmpty
  <2> HIDE DEF lastCalls, unprocessed, after
  <2> QED
    BY <2>1, <2>2
<1>9. \A i \in 1 .. Len(unprocessed) : unprocessed[i] \notin Logged(after, "invocation.started")
  <2> HIDE DEF lastCalls, after
  <2>1. PICK all, fresh, logged :
          /\ all = lastCalls /\ logged = Logged(after, "invocation.started")
          /\ fresh = {i \in DOMAIN lastCalls : lastCalls[i] \notin logged}
    OBVIOUS
  <2>2. unprocessed = Kept(all, fresh)
    BY <2>1 DEF unprocessed
  <2>3. all \in Seq(Tools)
    BY <1>2, <2>1 DEF CallList
  <2> HIDE DEF unprocessed
  <2>4. PICK kept, f : kept = Kept(all, fresh) /\ Selects(f, kept, all, fresh, Len(all))
    BY <2>3, KeptSelects
  <2>5. \A i \in 1 .. Len(kept) : kept[i] = all[f[i]] /\ f[i] \in fresh
    BY <2>4 DEF Selects
  <2> QED
    BY <2>1, <2>2, <2>4, <2>5
<1>4. Wake(L) = IF Open(after) THEN Output(orphans \o next.append, next.effects)
                ELSE Output(orphans, {})
  BY DEF Wake, WithOrphans, Orphans
<1>5. \/ next = ExpandToolCalls(unprocessed)
      \/ next = NextModelCall(after) /\ WakeGuard(after)
      \/ next = Nothing
  <2> HIDE DEF unprocessed, orphans, after
  <2> QED
    OBVIOUS
<1> HIDE DEF next, unprocessed, after
<1>6. after = L \o Orphans(L)
  BY DEF after
<1>7. Resumes(Wake(L), L, after, unprocessed)
  BY <1>3, <1>4, <1>5, <1>6, <1>8, <1>9 DEF Resumes
<1> QED
  BY <1>7

\* The log with the end of the orphan behind it.
LEMMA AfterOrphan ==
  ASSUME LogOK, NEW t \in Event, t.kind = "message.terminal", t.how = "interrupted",
         NEW after, after = log \o <<t>>
  PROVE  /\ HasAnswer(after) => HasAnswer(log)
         /\ \A c : c \in Called => c \in Logged(after, "invocation.started")
         /\ after \in Seq(Event) /\ Len(after) \in Nat
         /\ Open(after) => Open(log)
         /\ WakeGuard(after) => PendingInvocations(log) = {}
<1>1. log \in Seq(Event)
  BY DEF LogOK
<1>2. PICK m \in Nat : m = Len(log)
  BY <1>1
<1>3. /\ after \in Seq(Event) /\ Len(after) = m + 1 /\ after[m + 1] = t
      /\ \A i \in 1 .. m : after[i] = log[i]
  BY <1>1, <1>2
<1>4. ASSUME NEW kind, kind # "message.terminal"
      PROVE  Logged(after, kind) = Logged(log, kind)
  <2>1. \A x : x \in Logged(after, kind) <=>
                 \E i \in 1 .. m + 1 : after[i].kind = kind /\ after[i].of = x
    <3>1. DOMAIN after = 1 .. m + 1
      BY <1>3
    <3> QED
      BY <3>1 DEF Logged, At
  <2>2. \A x : x \in Logged(log, kind) <=>
                 \E i \in 1 .. m : log[i].kind = kind /\ log[i].of = x
    BY <1>1, <1>2, LoggedOf
  <2>3. \A i \in 1 .. m + 1 : i \in 1 .. m \/ i = m + 1
    OBVIOUS
  <2>4. \A i \in 1 .. m : i \in 1 .. m + 1
    OBVIOUS
  <2>5. after[m + 1].kind # kind
    BY <1>3, <1>4
  <2>6. ASSUME NEW x, x \in Logged(after, kind)
        PROVE  x \in Logged(log, kind)
    <3>1. PICK i \in 1 .. m + 1 : after[i].kind = kind /\ after[i].of = x
      BY <2>1, <2>6
    <3>2. i \in 1 .. m
      BY <2>3, <2>5, <3>1
    <3> QED
      BY <1>3, <2>2, <3>1, <3>2
  <2>7. ASSUME NEW x, x \in Logged(log, kind)
        PROVE  x \in Logged(after, kind)
    <3>1. PICK i \in 1 .. m : log[i].kind = kind /\ log[i].of = x
      BY <2>2, <2>7
    <3> QED
      BY <1>3, <2>1, <2>4, <3>1
  <2> QED
    BY <2>6, <2>7
<1>5. Open(after) <=> Open(log)
  BY <1>1, <1>3, <1>4, OpenIs
<1>6. PendingInvocations(after) = PendingInvocations(log)
  BY <1>4 DEF PendingInvocations
<1>7. ASSUME HasAnswer(after)
      PROVE  HasAnswer(log)
  <2>1. PICK i \in 1 .. m + 1 : after[i].kind = "message.terminal" /\ after[i].how = "completed"
    BY <1>3, <1>7, HasAnswerIs
  <2>2. i \in 1 .. m
    BY <1>3, <2>1
  <2> QED
    BY <1>1, <1>2, <1>3, <2>1, <2>2, HasAnswerIs
<1> QED
  <2>1. \A c : c \in Called => c \in Logged(after, "invocation.started")
    <3>1. Logged(after, "invocation.started") = Called
      BY <1>4 DEF Called
    <3> QED
      BY <3>1
  <2>2. WakeGuard(after) => PendingInvocations(log) = {}
    BY <1>6 DEF WakeGuard
  <2> QED
    BY <1>3, <1>5, <1>7, <2>1, <2>2

\* The end of the orphan, and what follows it in its batch.
LEMMA PairIsLegal ==
  ASSUME LogOK, TurnInv, NEW n \in InFlight(log), NEW t \in Event,
         t.kind = "message.terminal", t.of = n, t.how = "interrupted",
         NEW rest \in Seq(Event), NEW items, items = <<t>> \o rest, Writes(items),
         Open(log),
         \/ \E todo : /\ CallList(todo) /\ (todo # <<>> => HasAnswer(log))
                      /\ rest = ExpandToolCalls(todo).append
         \/ /\ PendingInvocations(log) = {}
            /\ \E ev \in Event : rest = <<ev>> /\ ev.kind \in {"message.started", "turn.closed"}
  PROVE  Legal(items) /\ NoAnswer(items)
<1>1. n \in Begun /\ Begun \subseteq Answered \cup {n}
  BY InFlightIsLast
<1>2. PICK first : first = <<t>>
  OBVIOUS
<1>3. first \in Seq(Event) /\ items = first \o rest
  BY <1>2
<1>4. \A kind : Wrote(items, kind) = Wrote(first, kind) \cup Wrote(rest, kind)
  BY <1>3, WroteBoth
<1>5. /\ Wrote(first, "message.terminal") = {n}
      /\ \A kind : kind # "message.terminal" => Wrote(first, kind) = {}
  BY <1>2, WroteOne
<1>6. ASSUME NEW kind, kind # "message.terminal"
      PROVE  Wrote(items, kind) = Wrote(rest, kind)
  <2>1. Wrote(items, kind) = Wrote(first, kind) \cup Wrote(rest, kind)
    BY <1>4
  <2>2. Wrote(first, kind) = {}
    BY <1>5, <1>6
  <2> QED
    BY <2>1, <2>2
<1>7. NoAnswer(items)
  <2>1. \A k \in 1 .. Len(rest) : Unlike(rest[k])
    <3>1. CASE \E todo : CallList(todo) /\ rest = ExpandToolCalls(todo).append
      BY <3>1, ExpandWrites DEF Expands, Unlike
    <3>2. CASE \E ev \in Event : rest = <<ev>> /\ ev.kind \in {"message.started", "turn.closed"}
      BY <3>2 DEF Unlike
    <3> QED
      BY <3>1, <3>2
  <2>2. PICK m \in Nat : m = Len(rest)
    OBVIOUS
  <2>3. Len(items) = m + 1 /\ items[1] = t
    BY <2>2
  <2>4. ASSUME NEW k \in 1 .. m + 1, k # 1
        PROVE  Unlike(items[k])
    <3>1. PICK l \in 1 .. m : l = k - 1
      BY <2>4
    <3>2. items[k] = rest[l]
      BY <2>2, <2>4, <3>1
    <3> QED
      BY <2>1, <2>2, <3>2
  <2> QED
    <3>1. Unlike(t)
      BY DEF Unlike
    <3> QED
      BY <2>3, <2>4, <3>1 DEF NoAnswer
<1>8. CASE \E todo : /\ CallList(todo) /\ (todo # <<>> => HasAnswer(log))
                     /\ rest = ExpandToolCalls(todo).append
  <2>1. PICK todo : /\ CallList(todo) /\ (todo # <<>> => HasAnswer(log))
                    /\ rest = ExpandToolCalls(todo).append
    BY <1>8
  <2>2. /\ Wrote(rest, "invocation.started") \subseteq Tools
        /\ Wrote(rest, "approval.requested") = Wrote(rest, "invocation.started") \cap Gated
        /\ \A kind : kind \notin {"invocation.started", "approval.requested"} =>
             Wrote(rest, kind) = {}
    BY <2>1, ExpandWrites
  <2>3. /\ Wrote(items, "message.terminal") = {n}
        /\ Wrote(items, "message.started") = {} /\ Wrote(items, "turn.closed") = {}
        /\ Wrote(items, "invocation.terminal") = {} /\ Wrote(items, "approval.resolved") = {}
        /\ Wrote(items, "diagnostic") = {} /\ Wrote(items, "artifacts.failed") = {}
        /\ Wrote(items, "received") = {}
    BY <1>4, <1>5, <1>6, <2>2
  <2>6. Wrote(items, "invocation.started") = {} \/ HasAnswer(log)
    <3>1. Wrote(rest, "invocation.started") = {todo[i] : i \in 1 .. Len(todo)}
      BY <2>1, ExpandWrites
    <3>2. todo = <<>> => {todo[i] : i \in 1 .. Len(todo)} = {}
      OBVIOUS
    <3> QED
      BY <1>6, <2>1, <3>1, <3>2
  <2>4. /\ Wrote(items, "invocation.started") \subseteq Tools
        /\ Wrote(items, "approval.requested") = Wrote(items, "invocation.started") \cap Gated
    BY <1>6, <2>2
  <2>5. Legal(items)
    BY <1>1, <2>3, <2>4, <2>6 DEF Legal
  <2> QED
    BY <1>7, <2>5
<1>9. CASE /\ PendingInvocations(log) = {}
           /\ \E ev \in Event : rest = <<ev>> /\ ev.kind \in {"message.started", "turn.closed"}
  <2>1. PICK ev \in Event : rest = <<ev>> /\ ev.kind \in {"message.started", "turn.closed"}
    BY <1>9
  <2>2. \A kind : /\ ev.kind = kind => Wrote(rest, kind) = {ev.of}
                  /\ ev.kind # kind => Wrote(rest, kind) = {}
    BY <2>1, WroteOne
  <2>3. Called \subseteq Ended /\ Asked \subseteq Ruled
    BY <1>9 DEF TurnInv, CallsAreLegal, PendingInvocations, Called, Ended, Asked, Ruled
  <2>4. /\ Wrote(items, "message.terminal") = {n}
        /\ Wrote(items, "invocation.started") = {} /\ Wrote(items, "approval.requested") = {}
        /\ Wrote(items, "invocation.terminal") = {} /\ Wrote(items, "approval.resolved") = {}
        /\ Wrote(items, "diagnostic") = {} /\ Wrote(items, "artifacts.failed") = {}
        /\ Wrote(items, "received") = {}
    BY <1>4, <1>5, <1>6, <2>1, <2>2
  <2>5. /\ Wrote(items, "message.started") = {} \/ Wrote(items, "turn.closed") = {}
        /\ \A x, y \in Wrote(items, "message.started") : x = y
    <3>1. /\ Wrote(items, "message.started") = Wrote(rest, "message.started")
          /\ Wrote(items, "turn.closed") = Wrote(rest, "turn.closed")
      BY <1>6
    <3>2. Wrote(rest, "message.started") = {} \/ Wrote(rest, "turn.closed") = {}
      BY <2>1, <2>2
    <3>3. Wrote(rest, "message.started") \subseteq {ev.of}
      BY <2>2
    <3> QED
      BY <3>1, <3>2, <3>3
  <2>6. Legal(items)
    BY <1>1, <2>3, <2>4, <2>5 DEF Legal
  <2> QED
    BY <1>7, <2>6
<1> QED
  BY <1>8, <1>9

LEMMA WakeIsProper ==
  ASSUME LogOK, TurnInv
  PROVE  Proper(Wake(log))
<1>1. PICK after, todo : Resumes(Wake(log), log, after, todo)
  BY WakeIs
<1>2. PICK out : out = Wake(log)
  OBVIOUS
<1> SUFFICES Proper(out)
  BY <1>2
<1>3. Resumes(out, log, after, todo) /\ CallList(todo)
  BY <1>1, <1>2 DEF Resumes
<1>4. log \in Seq(Event)
  BY DEF LogOK
<1>5. CASE InFlight(log) = {}
  <2>1. Orphans(log) = <<>> /\ after = log
    BY <1>3, <1>4, <1>5 DEF Resumes, Orphans
  <2>2. ASSUME NEW more, Proper(more), more.append \in Seq(Event),
               out = Output(<<>> \o more.append, more.effects)
        PROVE  Proper(out)
    BY <2>2 DEF Proper, Output
  <2>3. CASE out = Output(<<>>, {})
    BY <2>3, NothingIsProper DEF Nothing
  <2>4. CASE out = Output(<<>> \o Nothing.append, Nothing.effects)
    BY <2>2, <2>4, NothingIsProper DEF Nothing, Output
  <2>5. CASE /\ Open(log)
             /\ out = Output(<<>> \o ExpandToolCalls(todo).append, ExpandToolCalls(todo).effects)
    <3>1. Proper(ExpandToolCalls(todo))
      <4>1. todo # <<>> => HasAnswer(log)
        BY <1>3, <2>1 DEF Resumes
      <4> QED
        BY <1>3, <1>5, <2>5, <4>1, InFlightIsLast, ExpandIsProper
    <3>2. ExpandToolCalls(todo).append \in Seq(Event)
      BY <1>3, ExpandWrites
    <3> QED
      BY <2>2, <2>5, <3>1, <3>2
  <2>6. CASE /\ Open(log) /\ WakeGuard(log)
             /\ out = Output(<<>> \o NextModelCall(log).append, NextModelCall(log).effects)
    <3>1. Proper(NextModelCall(log))
      BY <2>6, WakeGuardIs, NextCallIsProper
    <3>2. NextModelCall(log).append \in Seq(Event)
      BY <3>1 DEF Proper, Legal, Writes
    <3> QED
      BY <2>2, <2>6, <3>1, <3>2
  <2> QED
    BY <1>3, <2>1, <2>3, <2>4, <2>5, <2>6 DEF Resumes
<1>6. CASE InFlight(log) # {}
  <2>1. PICK n \in InFlight(log) : n = CHOOSE m \in InFlight(log) : TRUE
    BY <1>6
  <2>2. PICK t : t = Ev("message.terminal", n, "interrupted")
    OBVIOUS
  <2>3. n \in Ofs
    <3>1. TurnLog(log)
      BY FoldIsTurnLog, LogFolds
    <3> QED
      BY <3>1, InFlightIs
  <2>4. /\ t \in Event /\ t.kind = "message.terminal" /\ t.of = n
        /\ t.how = "interrupted"
    <3>1. t.how = "interrupted"
      BY <2>2 DEF Ev
    <3> QED
      BY <2>2, <2>3, <3>1, EvIs DEF Kinds, Hows
  <2>5. Orphans(log) = <<t>> /\ after = log \o <<t>>
    BY <1>3, <1>6, <2>1, <2>2 DEF Orphans, Resumes
  <2>6. /\ after \in Seq(Event) /\ Len(after) \in Nat
        /\ Open(after) => Open(log)
        /\ WakeGuard(after) => PendingInvocations(log) = {}
        /\ HasAnswer(after) => HasAnswer(log)
    BY <2>4, <2>5, AfterOrphan
  <2>7. Writes(out.append)
    <3>1. TurnLog(log)
      BY FoldIsTurnLog, LogFolds
    <3> QED
      BY <1>2, <3>1, WakeSuits DEF OutputSuits
  <2>8. Proper(Output(<<t>>, {}))
    <3>1. n \in Begun
      BY InFlightIsLast
    <3>2. OneMay(t)
      BY <2>4, <3>1 DEF OneMay
    <3> QED
      BY <2>4, <3>2, OneIsProper DEF Unlike
  <2>9. CASE out = Output(<<t>>, {})
    BY <2>8, <2>9
  <2>10. CASE out = Output(<<t>> \o Nothing.append, Nothing.effects)
    <3>1. <<t>> \o Nothing.append = <<t>>
      BY <2>4 DEF Nothing, Output
    <3> QED
      BY <2>8, <2>10, <3>1 DEF Proper, Output
  <2>11. CASE /\ Open(after)
              /\ out = Output(<<t>> \o ExpandToolCalls(todo).append, ExpandToolCalls(todo).effects)
    <3>1. PICK rest, items : rest = ExpandToolCalls(todo).append /\ items = <<t>> \o rest
      OBVIOUS
    <3>2. rest \in Seq(Event)
      BY <1>3, <3>1, ExpandWrites
    <3>3. items = out.append
      BY <2>11, <3>1 DEF Output
    <3>4. Writes(items)
      BY <2>7, <3>3
    <3>6. todo # <<>> => HasAnswer(log)
      BY <1>3, <2>6 DEF Resumes
    <3>5. Legal(items) /\ NoAnswer(items)
      BY <1>3, <2>4, <2>6, <2>11, <3>1, <3>2, <3>4, <3>6, PairIsLegal
    <3> QED
      BY <3>3, <3>5 DEF Proper
  <2>12. CASE /\ Open(after) /\ WakeGuard(after)
              /\ out = Output(<<t>> \o NextModelCall(after).append, NextModelCall(after).effects)
    <3>1. PICK rest, items : rest = NextModelCall(after).append /\ items = <<t>> \o rest
      OBVIOUS
    <3>2. items = out.append
      BY <2>12, <3>1 DEF Output
    <3>3. Writes(items)
      BY <2>7, <3>2
    <3>4. NextIs(rest, Len(after))
      BY <2>6, <3>1, NextModelCallIs
    <3>5. CASE rest = <<>>
      <4>1. items = <<t>>
        BY <2>4, <3>1, <3>5
      <4> QED
        BY <2>8, <3>2, <4>1 DEF Proper, Output
    <3>6. CASE \E ev \in Event : rest = <<ev>> /\ ev.kind \in {"message.started", "turn.closed"}
      <4>1. rest \in Seq(Event)
        BY <3>6
      <4>2. Legal(items) /\ NoAnswer(items)
        BY <2>4, <2>6, <2>12, <3>1, <3>3, <3>6, <4>1, PairIsLegal
      <4> QED
        BY <3>2, <4>2 DEF Proper
    <3> QED
      BY <3>4, <3>5, <3>6 DEF NextIs
  <2> QED
    BY <1>3, <2>5, <2>9, <2>10, <2>11, <2>12 DEF Resumes
<1> QED
  BY <1>5, <1>6

\* The outputs of the step function.
LEMMA StepIsProper ==
  ASSUME LogOK, TurnInv, NEW ev \in Incoming, HeadOK(ev),
         job.op = "failed" => Intended(job.effect) /\ job.effect[1] # "prep"
  PROVE  Proper(StepOutput(log, ev))
<1>1. CASE ev.kind = "wake"
  BY <1>1, WakeIsProper DEF StepOutput
<1>2. CASE ev.kind = "steer"
  BY <1>2, SteerIsProper DEF StepOutput, HeadOK
<1>3. CASE ev.kind = "effect-failed"
  BY <1>3, FailureIsProper DEF StepOutput, HeadOK
<1>4. CASE ev.kind \notin {"wake", "steer", "effect-failed"}
  <2>1. ev \in Event
    BY <1>4, IncomingIs
  <2> QED
    BY <1>4, <2>1, EventIsProper DEF StepOutput
<1> QED
  BY <1>1, <1>2, <1>3, <1>4

(***************************************************************************)
(* The effects of what step answers are intended by the log.               *)
(***************************************************************************)

\* The effects of an output are those of what it writes, or of a decided call.
Founded(out) ==
  \A e \in out.effects :
    \/ e[1] = "model" /\ e[2] \in Wrote(out.append, "message.started")
    \/ /\ e[1] = "call" /\ e[2] \notin Gated
       /\ e[2] \in Wrote(out.append, "invocation.started")
    \/ e[1] = "call" /\ e[2] \in Called /\ e[2] \in Ruled

LEMMA NoEffectsAreFounded ==
  ASSUME NEW out, out.effects = {}
  PROVE  Founded(out)
BY DEF Founded

LEMMA NextIsFounded ==
  ASSUME NEW L \in Seq(Event)
  PROVE  Founded(NextModelCall(L)) /\ NextModelCall(L).append \in Seq(Event)
<1>1. NextIs(NextModelCall(L).append, Len(L))
  BY NextModelCallIs
<1>2. NextModelCall(L).append \in Seq(Event)
  <2>1. <<>> \in Seq(Event) /\ \A ev \in Event : <<ev>> \in Seq(Event)
    OBVIOUS
  <2> QED
    BY <1>1, <2>1 DEF NextIs
<1>3. CASE NextModelCall(L).effects = {}
  BY <1>2, <1>3, NoEffectsAreFounded
<1>4. CASE NextModelCall(L) = Request(ModelCallCount(L) + 1, Len(L))
  <2>1. PICK n, upTo : n = ModelCallCount(L) + 1 /\ upTo = Len(L)
    OBVIOUS
  <2>2. PICK ev : ev = [Ev("message.started", n, "request") EXCEPT !.upTo = upTo]
    OBVIOUS
  <2>3. ev.kind = "message.started" /\ ev.of = n
    BY <2>2 DEF Ev
  <2>4. PICK items : items = <<ev>>
    OBVIOUS
  <2>5. Wrote(items, "message.started") = {n}
    BY <2>3, <2>4, WroteOne
  <2>6. /\ NextModelCall(L).append = items /\ NextModelCall(L).effects = {Model(n)}
    BY <1>4, <2>1, <2>2, <2>4 DEF Request, Output
  <2>7. Model(n)[1] = "model" /\ Model(n)[2] = n
    BY DEF Model
  <2>8. Founded(NextModelCall(L))
    BY <2>5, <2>6, <2>7 DEF Founded
  <2> QED
    BY <1>2, <2>8
<1> QED
  BY <1>3, <1>4 DEF NextModelCall, Nothing, CloseTurn, Output

LEMMA ExpandIsFounded ==
  ASSUME NEW todo, CallList(todo)
  PROVE  Founded(ExpandToolCalls(todo))
<1>1. PICK out : out = ExpandToolCalls(todo)
  OBVIOUS
<1>2. Wrote(out.append, "invocation.started") = {todo[i] : i \in 1 .. Len(todo)}
  BY <1>1, ExpandWrites
<1>3. DOMAIN todo = 1 .. Len(todo)
  BY DEF CallList
<1>4. out.effects = {Call(todo[i]) : i \in {j \in DOMAIN todo : todo[j] \notin Gated}}
  BY <1>1 DEF ExpandToolCalls, Output
<1>5. ASSUME NEW e \in out.effects
      PROVE  /\ e[1] = "call" /\ e[2] \notin Gated
             /\ e[2] \in Wrote(out.append, "invocation.started")
  <2>1. PICK i \in 1 .. Len(todo) : todo[i] \notin Gated /\ e = Call(todo[i])
    BY <1>3, <1>4
  <2>2. e[1] = "call" /\ e[2] = todo[i]
    BY <2>1 DEF Call
  <2> QED
    BY <1>2, <2>1, <2>2
<1> QED
  BY <1>1, <1>5 DEF Founded

\* What stands before the events of an output does not matter.
LEMMA BehindIsFounded ==
  ASSUME NEW s \in Seq(Event), NEW more, more.append \in Seq(Event), Founded(more)
  PROVE  Founded(Output(s \o more.append, more.effects))
<1>1. PICK t, effects : t = more.append /\ effects = more.effects
  OBVIOUS
<1>2. PICK both : both = s \o t
  OBVIOUS
<1>3. \A kind : Wrote(both, kind) = Wrote(s, kind) \cup Wrote(t, kind)
  BY <1>1, <1>2, WroteBoth
<1>4. PICK out : out = Output(both, effects)
  OBVIOUS
<1>5. out.append = both /\ out.effects = effects
  BY <1>4, AppendOf
<1>6. Founded(out)
  BY <1>1, <1>3, <1>5 DEF Founded
<1> QED
  BY <1>1, <1>2, <1>4, <1>6

LEMMA WakeIsFounded ==
  ASSUME NEW L, TurnLog(L)
  PROVE  Founded(Wake(L))
<1>1. PICK after, todo : Resumes(Wake(L), L, after, todo)
  BY WakeIs
<1>2. PICK out : out = Wake(L)
  OBVIOUS
<1>3. Resumes(out, L, after, todo)
  BY <1>1, <1>2
<1>4. PICK first : first = Orphans(L)
  OBVIOUS
<1>5. first \in Seq(Event)
  <2>1. CASE InFlight(L) = {}
    BY <1>4, <2>1 DEF Orphans
  <2>2. CASE InFlight(L) # {}
    <3>1. PICK n \in InFlight(L) : n = CHOOSE m \in InFlight(L) : TRUE
      BY <2>2
    <3>2. n \in Ofs
      BY InFlightIs
    <3>3. Ev("message.terminal", n, "interrupted") \in Event
      BY <3>2, EvIs DEF Kinds, Hows
    <3> QED
      BY <1>4, <2>2, <3>1, <3>3 DEF Orphans
  <2> QED
    BY <2>1, <2>2
<1>6. L \in Seq(Event) /\ after = L \o first /\ CallList(todo)
  BY <1>3, <1>4 DEF Resumes, TurnLog
<1>7. after \in Seq(Event)
  BY <1>5, <1>6
<1>8. Founded(NextModelCall(after)) /\ NextModelCall(after).append \in Seq(Event)
  BY <1>7, NextIsFounded
<1>9. Founded(ExpandToolCalls(todo)) /\ ExpandToolCalls(todo).append \in Seq(Event)
  BY <1>6, ExpandIsFounded, ExpandWrites
<1>10. Founded(Nothing) /\ Nothing.append \in Seq(Event)
  BY DEF Founded, Nothing, Output
<1>11. Founded(Output(first, {}))
  BY DEF Founded, Output
<1>12. /\ Founded(Output(first \o NextModelCall(after).append, NextModelCall(after).effects))
       /\ Founded(Output(first \o ExpandToolCalls(todo).append, ExpandToolCalls(todo).effects))
       /\ Founded(Output(first \o Nothing.append, Nothing.effects))
  BY <1>5, <1>8, <1>9, <1>10, BehindIsFounded
<1>13. Founded(out)
  BY <1>3, <1>4, <1>11, <1>12 DEF Resumes
<1> QED
  BY <1>2, <1>13

LEMMA EventIsFounded ==
  ASSUME LogOK, NEW fold, Folds(fold), NEW ev, HeadOK(ev)
  PROVE  Founded(EventStep(fold, ev))
<1>1. fold \in Seq(Event)
  BY DEF Folds
<1>2. Founded(NextModelCall(fold)) /\ Founded(Nothing)
  BY <1>1, NextIsFounded, NoEffectsAreFounded DEF Nothing, Output
<1>3. \A reason : Founded(CloseTurn(reason))
  BY NoEffectsAreFounded DEF CloseTurn, Output
<1>4. \A todo : CallList(todo) => Founded(AfterAnswer(fold, todo))
  BY <1>2, <1>3, ExpandIsFounded DEF AfterAnswer
<1>5. CallList(<<>>) /\ CallList(CallsOf(fold, ev.of))
  BY CallsOfIs DEF CallList
<1>6. CASE ~Open(fold)
  BY <1>2, <1>6 DEF EventStep
<1>7. CASE Open(fold) /\ ev.kind \in {"message.terminal", "diagnostic"}
  <2>1. \/ EventStep(fold, ev) = AfterAnswer(fold, <<>>)
        \/ EventStep(fold, ev) = AfterAnswer(fold, CallsOf(fold, ev.of))
        \/ EventStep(fold, ev) = CloseTurn("work_failed")
        \/ EventStep(fold, ev) = NextModelCall(fold)
        \/ EventStep(fold, ev) = Nothing
    BY <1>7 DEF EventStep
  <2> QED
    BY <1>2, <1>3, <1>4, <1>5, <2>1
<1>8. CASE Open(fold) /\ ev.kind = "invocation.terminal"
  <2>1. EventStep(fold, ev) = AfterInvocation(fold, ev.how)
    BY <1>8 DEF EventStep
  <2>2. Founded(ParkTurn(fold))
    BY NoEffectsAreFounded DEF ParkTurn, Output
  <2>3. Founded(AfterBatch(fold, ev.how))
    BY <1>2, <1>3, <2>2, BatchLeads DEF BatchEnds
  <2> QED
    BY <1>2, <2>1, <2>3 DEF AfterInvocation
<1>9. CASE Open(fold) /\ ev.kind = "approval.resolved"
  <2>1. CASE ev.of \notin PendingInvocations(fold)
    BY <1>2, <1>9, <2>1 DEF EventStep
  <2>2. CASE ev.of \in PendingInvocations(fold) /\ ev.how = "granted"
    <3>1. EventStep(fold, ev) = Output(<<>>, {Call(ev.of)})
      BY <1>9, <2>2 DEF EventStep
    <3>2. ev.of \in Called /\ ev.of \in Ruled
      BY <1>9, <2>2, PendingAre DEF HeadOK
    <3>3. Call(ev.of)[1] = "call" /\ Call(ev.of)[2] = ev.of
      BY DEF Call
    <3> QED
      BY <3>1, <3>2, <3>3 DEF Founded, Output
  <2>3. CASE ev.of \in PendingInvocations(fold) /\ ev.how # "granted"
    BY <1>9, <2>3, NoEffectsAreFounded DEF EventStep, Output
  <2> QED
    BY <2>1, <2>2, <2>3
<1>10. CASE Open(fold) /\ ev.kind = "artifacts.ready"
  BY <1>2, <1>10 DEF EventStep
<1>11. CASE ev.kind \notin {"message.terminal", "diagnostic", "invocation.terminal",
                            "approval.resolved", "artifacts.ready", "artifacts.failed"}
  BY <1>2, <1>11 DEF EventStep
<1> QED
  BY <1>6, <1>7, <1>8, <1>9, <1>10, <1>11 DEF HeadOK

LEMMA StepIsFounded ==
  ASSUME LogOK, NEW fold, Folds(fold), NEW ev \in Incoming, HeadOK(ev)
  PROVE  Founded(StepOutput(fold, ev))
<1>1. Founded(Wake(fold))
  BY FoldIsTurnLog, WakeIsFounded
<1>2. Founded(Steer(fold, ev.of))
  BY NoEffectsAreFounded DEF Steer, Nothing, Output
<1>3. Founded(EffectFailed(fold, job.effect))
  BY NoEffectsAreFounded DEF EffectFailed, Nothing, Output
<1> QED
  BY <1>1, <1>2, <1>3, EventIsFounded DEF StepOutput

\* The effects that a fold derives.
LEMMA DerivedAreIntended ==
  ASSUME LogOK, NEW fold, Folds(fold), NEW e \in Derived(fold)
  PROVE  Intended(e)
<1>1. /\ PendingInvocations(fold) \subseteq Called
      /\ PendingApprovals(fold) \subseteq Asked
      /\ Granted(fold) \subseteq Ruled
  BY PendingAre
<1>2. CASE \E n \in InFlight(fold) : e = Model(n)
  <2>1. PICK n \in InFlight(fold) : e = Model(n)
    BY <1>2
  <2>2. PICK start : start = LastAt(fold, {"message.started"})
    OBVIOUS
  <2>3. fold \in Seq(Event) /\ 1 \in At(fold, {"message.started"})
    BY DEF Folds, LogOK, At
  <2>4. start \in 1 .. Len(fold) /\ fold[start].kind = "message.started"
    BY <2>2, <2>3, LastAtIs
  <2>5. n = fold[start].of
    BY <2>2 DEF InFlight
  <2>6. start \in 1 .. Len(log) /\ fold[start] = log[start]
    BY <2>4 DEF Folds, LogOK
  <2>7. n \in Begun
    BY <2>4, <2>5, <2>6, LoggedOf DEF Begun, LogOK
  <2> QED
    BY <2>1, <2>7 DEF Intended, Model
<1>3. CASE \E c \in PendingInvocations(fold) :
             e = Call(c) /\ (c \in Gated => c \in Granted(fold))
  BY <1>1, <1>3 DEF Intended, Call
<1>4. CASE \E c \in PendingApprovals(fold) : e = Form(c)
  BY <1>1, <1>4 DEF Intended, Form
<1>5. CASE \E s : e = Prep(s)
  BY <1>5 DEF Intended, Prep
<1> QED
  BY <1>2, <1>3, <1>4, <1>5 DEF Derived

(***************************************************************************)
(* The invariant of the turn: the log, and what the rows and the job may   *)
(* still add to it.                                                        *)
(***************************************************************************)

RowsIntended == \A e \in Effects : rows[e] # "none" => Intended(e)

JobIntended ==
  /\ job.at = "append" => Intended(job.effect)
  /\ job.op = "failed" => Intended(job.effect) /\ job.effect[1] # "prep"
  /\ job.due => job.op \in {"steer", "failed"}
  /\ job.at = "commit" => job.frames[1].live

HeadsOK(frames) ==
  \A i \in 1 .. Len(frames) :
    frames[i].live /\ frames[i].todo # <<>> => HeadOK(frames[i].todo[1])

LifeInv == TurnInv /\ RowsIntended /\ JobIntended /\ HeadsOK(job.frames)

\* What is logged stays logged.
LoggedStays ==
  Begun \subseteq Begun' /\ Called \subseteq Called' /\ Asked \subseteq Asked' /\ Ruled \subseteq Ruled'

LEMMA IntendedStays ==
  ASSUME LoggedStays, NEW e, Intended(e)
  PROVE  Intended(e)'
BY DEF LoggedStays, Intended

LEMMA SetsStay ==
  ASSUME LogOK, LogOK', OthersAppend
  PROVE  LoggedStays /\ (TurnIsIdle => TurnIsIdle')
BY SetsRest DEF LoggedStays, TurnIsIdle

LEMMA HeadStays ==
  ASSUME LogOK, LogOK', OthersAppend, job'.op = job.op, NEW ev, HeadOK(ev)
  PROVE  HeadOK(ev)'
BY SetsStay DEF LoggedStays, HeadOK

\* Nothing of these kinds is expected of the log.
LEMMA InertIsOK ==
  ASSUME NEW ev, ev.kind \in InertKinds
  PROVE  HeadOK(ev) /\ HeadOK(ev)'
BY DEF HeadOK, InertKinds

\* Where other writers append at most, the turn stays as it is.
LEMMA QuietTurn ==
  ASSUME LogOK, LogOK', OthersAppend, TurnInv
  PROVE  TurnInv' /\ LoggedStays /\ [Lifecycle!Next]_Lifecycle!vars
BY TurnStays, SetsStay

LEMMA RestingTurn ==
  ASSUME LogOK, UNCHANGED log, TurnInv
  PROVE  /\ LogOK' /\ OthersAppend
         /\ TurnInv' /\ LoggedStays /\ [Lifecycle!Next]_Lifecycle!vars
BY LogRests, QuietTurn

LEMMA RowsShrink ==
  ASSUME LoggedStays, RowsIntended, \A e \in Effects : rows'[e] # "none" => rows[e] # "none"
  PROVE  RowsIntended'
<1>1. ASSUME NEW e \in Effects, rows'[e] # "none"
      PROVE  Intended(e)'
  BY <1>1, IntendedStays DEF RowsIntended
<1> QED
  BY <1>1 DEF RowsIntended

LEMMA RowsReconciled ==
  ASSUME LogOK, LoggedStays, NEW fold, Folds(fold), NEW table, rows' = Reconciled(fold, table)
  PROVE  RowsIntended'
<1>1. ASSUME NEW e \in Effects, rows'[e] # "none"
      PROVE  Intended(e)'
  <2>1. e \in Derived(fold)
    BY <1>1 DEF Reconciled
  <2> QED
    BY <2>1, DerivedAreIntended, IntendedStays
<1> QED
  BY <1>1 DEF RowsIntended

LEMMA JobKeeps ==
  ASSUME LoggedStays, JobIntended, job'.at = "append" => job.at = "append",
         job'.op = job.op, job'.effect = job.effect, job'.due => job.due,
         job'.at = "commit" => job'.frames[1].live
  PROVE  JobIntended'
<1>1. ASSUME NEW e, e = job.effect, Intended(e)
      PROVE  Intended(job.effect)'
  <2>1. Intended(e)'
    BY <1>1, IntendedStays
  <2>2. e = job'.effect
    BY <1>1
  <2> QED
    BY <2>1, <2>2 DEF Intended
<1> QED
  BY <1>1 DEF JobIntended

LEMMA NoJobIsIntended ==
  ASSUME job' = NoJob
  PROVE  JobIntended' /\ HeadsOK(job.frames)'
BY DEF NoJob, JobIntended, HeadsOK

LEMMA NoHeads ==
  ASSUME job'.frames = <<>>
  PROVE  HeadsOK(job.frames)'
BY DEF HeadsOK

LEMMA OneHead ==
  ASSUME NEW fold, NEW todo, NEW tries, todo # <<>> => HeadOK(todo[1])',
         NEW frames, frames = <<Frame(fold, todo, tries, TRUE)>>
  PROVE  HeadsOK(frames)'
<1>1. PICK f : f = Frame(fold, todo, tries, TRUE)
  OBVIOUS
<1>2. f.todo = todo
  BY <1>1 DEF Frame
<1>3. Len(frames) = 1 /\ frames[1] = f /\ \A i \in 1 .. 1 : i = 1
  BY <1>1
<1> QED
  BY <1>2, <1>3 DEF HeadsOK

LEMMA ReturnedHeads ==
  ASSUME NEW frames \in Seq(FrameType), HeadsOK(frames)'
  PROVE  HeadsOK(Returned(frames))'
<1> DEFINE I == {i \in DOMAIN frames : frames[i].todo # <<>>}
<1>1. Returned(frames) = Kept(frames, I)
  BY DEF Returned
<1> HIDE DEF I
<1>2. PICK rest, g : rest = Returned(frames) /\ Selects(g, rest, frames, I, Len(frames))
  BY <1>1, KeptSelects
<1>3. \A i \in 1 .. Len(rest) : \E j \in 1 .. Len(frames) : rest[i] = frames[j]
  BY <1>2 DEF Selects
<1>4. HeadsOK(rest)'
  <2> SUFFICES ASSUME NEW i \in 1 .. Len(rest), rest[i].live, rest[i].todo # <<>>
               PROVE  HeadOK(rest[i].todo[1])'
    BY DEF HeadsOK
  <2>1. PICK j \in 1 .. Len(frames) : rest[i] = frames[j]
    BY <1>3
  <2>2. HeadOK(frames[j].todo[1])'
    BY <2>1 DEF HeadsOK
  <2> QED
    BY <2>1, <2>2
<1> QED
  BY <1>2, <1>4

LEMMA TopHeads ==
  ASSUME JobTypes, NEW frames, frames = job.frames, FramesOK(frames), 0 < Len(frames),
         NEW top \in FrameType, top.live /\ top.todo # <<>> => HeadOK(top.todo[1])',
         job' = WithTop(top)
  PROVE  /\ HeadsOK(job.frames)'
         /\ job'.op = job.op /\ job'.effect = job.effect /\ job'.due = job.due
         /\ job'.at = job.at
<1> DEFINE new == [frames EXCEPT ![Len(frames)] = top]
<1>1. frames \in Seq(FrameType) /\ Len(frames) \in Nat \ {0}
  BY DEF FramesOK
<1>2. /\ new \in Seq(FrameType) /\ Len(new) = Len(frames) /\ new[Len(frames)] = top
      /\ \A i \in 1 .. Len(frames) : i # Len(frames) => new[i] = frames[i]
  BY <1>1
<1>3. job' = [job EXCEPT !.frames = Returned(new)]
  BY DEF WithTop
<1> HIDE DEF new
<1>4. \A i \in 1 .. Len(frames) : i # Len(frames) => ~frames[i].live
  BY DEF FramesOK, FrameOK
<1>5. HeadsOK(new)'
  BY <1>1, <1>2, <1>4 DEF HeadsOK
<1>6. HeadsOK(Returned(new))'
  BY <1>2, <1>5, ReturnedHeads
<1>7. /\ job'.frames = Returned(new) /\ job'.op = job.op /\ job'.effect = job.effect
      /\ job'.due = job.due /\ job'.at = job.at
  BY <1>3 DEF JobTypes, Job
<1> QED
  BY <1>6, <1>7

\* The invariant of the turn, part by part.
LEMMA LifeParts ==
  ASSUME SettlementInv, LifeInv
  PROVE  /\ LogOK /\ JobOK /\ JobTypes /\ RestTypes /\ RowTypes
         /\ TurnInv /\ RowsIntended /\ JobIntended /\ HeadsOK(job.frames)
BY Parts DEF LifeInv

LEMMA LifeIs ==
  ASSUME TurnInv', RowsIntended', JobIntended', HeadsOK(job.frames)'
  PROVE  LifeInv'
BY DEF LifeInv

\* A job goes on, without activations, in a log that others append to at most.
LEMMA Goes ==
  ASSUME SettlementInv, LifeInv, NEW phase, phase \notin {"append", "commit"}, Goto(phase),
         LoggedStays
  PROVE  JobIntended' /\ HeadsOK(job.frames)'
<1>1. JobTypes /\ JobIntended
  BY LifeParts
<1>2. /\ job'.op = job.op /\ job'.effect = job.effect /\ job'.due = job.due
      /\ job'.at = phase /\ job'.frames = <<>>
  BY <1>1 DEF JobTypes, Job, Goto
<1> QED
  BY <1>1, <1>2, JobKeeps, NoHeads

LEMMA QuietAdvance ==
  ASSUME SettlementInv, LifeInv, NEW e \in Effects,
         Claim(e) \/ Park(e) \/ Discard(e) \/ FreeLease(e) \/ ClaimWake(e)
  PROVE  LifeInv' /\ [Lifecycle!Next]_Lifecycle!vars
<1>1. /\ LogOK /\ JobTypes /\ RowTypes
      /\ TurnInv /\ RowsIntended /\ JobIntended /\ HeadsOK(job.frames)
  BY LifeParts
<1>2. UNCHANGED <<log, job>>
  BY DEF Claim, Park, Discard, FreeLease, ClaimWake, durable, volatile
<1>3. /\ LogOK' /\ OthersAppend
      /\ TurnInv' /\ LoggedStays /\ [Lifecycle!Next]_Lifecycle!vars
  BY <1>1, <1>2, RestingTurn
<1>4. \A d \in Effects : rows'[d] # "none" => rows[d] # "none"
  BY <1>1 DEF Claim, Park, Discard, FreeLease, ClaimWake, RowTypes, durable
<1>5. RowsIntended'
  BY <1>1, <1>3, <1>4, RowsShrink
<1>6. JobIntended'
  BY <1>1, <1>2, <1>3, JobKeeps DEF JobIntended
<1>7. HeadsOK(job.frames)'
  <2>1. PICK frames : frames = job.frames
    OBVIOUS
  <2>2. HeadsOK(frames)'
    BY <1>1, <1>2, <1>3, <2>1, HeadStays DEF HeadsOK
  <2> QED
    BY <1>2, <2>1, <2>2
<1> QED
  BY <1>3, <1>5, <1>6, <1>7, LifeIs

(***************************************************************************)
(* One lemma per action.                                                   *)
(***************************************************************************)

LEMMA ForeignAppends ==
  ASSUME LogOK, Foreign
  PROVE  OthersAppend
<1>1. PICK ev : ev = Ev("foreign", Foreigns + 1, "foreign")
  OBVIOUS
<1>2. ev \in Event /\ ev.kind = "foreign"
  <2>1. Foreigns \in Nat
    BY ForeignsIs DEF LogOK
  <2>2. "foreign" \in Kinds /\ "foreign" \in Hows /\ Foreigns + 1 \in Ofs
    BY <2>1 DEF Kinds, Hows, Ofs
  <2> QED
    BY <1>1, <2>2, EvIs
<1>3. PICK n \in Nat : n = Len(log)
  BY DEF LogOK
<1>4. /\ log' \in Seq(Event) /\ Len(log') = n + 1
      /\ \A i \in 1 .. n : log'[i] = log[i]
      /\ log'[n + 1] = ev
  BY <1>1, <1>2, <1>3 DEF LogOK, Foreign
<1> QED
  BY <1>2, <1>3, <1>4 DEF OthersAppend

LEMMA ForeignAdvances ==
  ASSUME SettlementInv, SettlementInv', LifeInv, Foreign
  PROVE  LifeInv' /\ [Lifecycle!Next]_Lifecycle!vars
<1>1. /\ LogOK /\ JobTypes /\ RowTypes
      /\ TurnInv /\ RowsIntended /\ JobIntended /\ HeadsOK(job.frames)
  BY LifeParts
<1>2. UNCHANGED <<rows, job>>
  BY DEF Foreign, volatile
<1>3. LogOK' /\ OthersAppend
  BY <1>1, ForeignAppends DEF SettlementInv
<1>4. TurnInv' /\ LoggedStays /\ [Lifecycle!Next]_Lifecycle!vars
  BY <1>1, <1>3, QuietTurn
<1>5. RowsIntended'
  BY <1>1, <1>2, <1>4, RowsShrink
<1>6. JobIntended'
  BY <1>1, <1>2, <1>4, JobKeeps DEF JobIntended
<1>7. HeadsOK(job.frames)'
  <2>1. PICK frames : frames = job.frames
    OBVIOUS
  <2>2. HeadsOK(frames)'
    BY <1>1, <1>2, <1>3, <2>1, HeadStays DEF HeadsOK
  <2> QED
    BY <1>2, <2>1, <2>2
<1> QED
  BY <1>4, <1>5, <1>6, <1>7, LifeIs

LEMMA BeginAdvances ==
  ASSUME SettlementInv, LifeInv, NEW op, NEW at, NEW e, NEW how, Begin(op, at, e, how),
         at # "commit",
         at = "append" \/ op = "failed" => Intended(e), op = "failed" => e[1] # "prep"
  PROVE  LifeInv' /\ [Lifecycle!Next]_Lifecycle!vars
<1>1. LogOK /\ TurnInv /\ RowsIntended
  BY LifeParts
<1>2. UNCHANGED <<log, rows>>
  BY DEF Begin, durable
<1>3. TurnInv' /\ LoggedStays /\ [Lifecycle!Next]_Lifecycle!vars
  BY <1>1, <1>2, RestingTurn
<1>4. RowsIntended'
  BY <1>1, <1>2, <1>3, RowsShrink
<1> DEFINE due == op \in {"steer", "failed"}
<1>5. due => op \in {"steer", "failed"}
  OBVIOUS
<1>6. job' = [NoJob EXCEPT !.op = op, !.at = at, !.effect = e, !.how = how, !.due = due]
  BY DEF Begin
<1> HIDE DEF due
<1>7. /\ job'.op = op /\ job'.at = at /\ job'.effect = e /\ job'.due = due
      /\ job'.frames = <<>>
  BY <1>6 DEF NoJob
<1>8. Intended(e) => Intended(job.effect)'
  BY <1>3, <1>7, IntendedStays DEF Intended
<1>9. JobIntended'
  BY <1>5, <1>7, <1>8 DEF JobIntended
<1>10. HeadsOK(job.frames)'
  BY <1>7, NoHeads
<1> QED
  BY <1>3, <1>4, <1>9, <1>10, LifeIs

LEMMA StartAdvances ==
  ASSUME SettlementInv, LifeInv, "prep" \notin ExhaustKinds,
         \/ \E e \in Effects : Answer(e) \/ Push(e) \/ StartFailed(e) \/ StartWake(e)
         \/ \E s \in Steers : StartSteer(s)
         \/ StartAdoption
  PROVE  LifeInv' /\ [Lifecycle!Next]_Lifecycle!vars
<1>1. RowsIntended
  BY LifeParts
<1>2. ASSUME NEW op \in {"outcome", "push"}, NEW e \in Effects, NEW how, Settling(op, e, how)
      PROVE  LifeInv' /\ [Lifecycle!Next]_Lifecycle!vars
  <2>1. PICK at : at = IF rows[e] = "none" THEN "recover" ELSE "append"
    OBVIOUS
  <2>2. Begin(op, at, e, how)
    BY <1>2, <2>1 DEF Settling
  <2>3. at = "append" => Intended(e)
    BY <1>1, <2>1 DEF RowsIntended
  <2> QED
    BY <1>2, <2>1, <2>2, <2>3, BeginAdvances
<1>3. ASSUME NEW e \in Effects, Answer(e) \/ Push(e)
      PROVE  LifeInv' /\ [Lifecycle!Next]_Lifecycle!vars
  <2>1. PICK how \in Outcomes(e) : Settling("outcome", e, how) \/ Settling("push", e, how)
    BY <1>3 DEF Answer, Push, StartOutcome, StartPush
  <2> QED
    BY <1>2, <2>1
<1>4. ASSUME NEW e \in Effects, StartFailed(e)
      PROVE  LifeInv' /\ [Lifecycle!Next]_Lifecycle!vars
  <2>1. Begin("failed", "recover", e, "failed") /\ rows[e] = "leased" /\ e[1] # "prep"
    BY <1>4 DEF StartFailed
  <2>2. Intended(e)
    BY <1>1, <2>1 DEF RowsIntended
  <2> QED
    BY <2>1, <2>2, BeginAdvances
<1>5. ASSUME NEW e \in Effects, StartWake(e)
      PROVE  LifeInv' /\ [Lifecycle!Next]_Lifecycle!vars
  <2>1. Begin("wake", "reload", e, "wake")
    BY <1>5 DEF StartWake
  <2> QED
    BY <2>1, BeginAdvances
<1>6. ASSUME NEW s \in Steers, StartSteer(s)
      PROVE  LifeInv' /\ [Lifecycle!Next]_Lifecycle!vars
  <2>1. Begin("steer", "recover", NoEffect, s)
    BY <1>6 DEF StartSteer
  <2> QED
    BY <2>1, BeginAdvances
<1>7. ASSUME StartAdoption
      PROVE  LifeInv' /\ [Lifecycle!Next]_Lifecycle!vars
  <2>1. Begin("adoption", "reload", NoEffect, "wake")
    BY <1>7 DEF StartAdoption
  <2> QED
    BY <2>1, BeginAdvances
<1> QED
  BY <1>3, <1>4, <1>5, <1>6, <1>7

LEMMA ClearAdvances ==
  ASSUME SettlementInv, LifeInv, ClearOutcome
  PROVE  LifeInv' /\ [Lifecycle!Next]_Lifecycle!vars
<1>1. LogOK /\ TurnInv /\ RowsIntended
  BY LifeParts
<1>2. UNCHANGED <<log, rows>> /\ job' = NoJob
  BY DEF ClearOutcome
<1>3. TurnInv' /\ LoggedStays /\ [Lifecycle!Next]_Lifecycle!vars
  BY <1>1, <1>2, RestingTurn
<1>4. RowsIntended'
  BY <1>1, <1>2, <1>3, RowsShrink
<1> QED
  BY <1>2, <1>3, <1>4, NoJobIsIntended, LifeIs

\* The loop in use is a fold, wherever nothing waits for a commit.
LEMMA LoopFolds ==
  ASSUME LogOK, JobOK, job.at # "commit"
  PROVE  Current(Loop) /\ Folds(Loop)
<1>1. LoopOK(cached)
  BY DEF JobOK
<1> QED
  BY <1>1, LoopIs DEF Current

LEMMA DropAdvances ==
  ASSUME SettlementInv, LifeInv, DropOutcome
  PROVE  LifeInv' /\ [Lifecycle!Next]_Lifecycle!vars
<1>1. LogOK /\ JobOK /\ TurnInv
  BY LifeParts
<1>2. /\ UNCHANGED log /\ job.at = "drop" /\ Goto("recover")
      /\ rows' = Reconciled(Loop, Deleted(rows, job.effect))
  BY DEF DropOutcome
<1>3. TurnInv' /\ LoggedStays /\ [Lifecycle!Next]_Lifecycle!vars
  BY <1>1, <1>2, RestingTurn
<1>4. PICK fold, table : fold = Loop /\ table = Deleted(rows, job.effect)
  OBVIOUS
<1>5. RowsIntended'
  BY <1>1, <1>2, <1>3, <1>4, LoopFolds, RowsReconciled
<1>6. JobIntended' /\ HeadsOK(job.frames)'
  BY <1>2, <1>3, Goes
<1> QED
  BY <1>3, <1>5, <1>6, LifeIs

LEMMA SettleAdvances ==
  ASSUME SettlementInv, LifeInv, Settle
  PROVE  LifeInv' /\ [Lifecycle!Next]_Lifecycle!vars
<1>1. LogOK /\ JobOK /\ TurnInv
  BY LifeParts
<1>2. UNCHANGED log /\ job.at # "commit" /\ rows' = Reconciled(Loop, rows)
  BY DEF Settle
<1>3. PICK phase \in {"clear", "recover", "giveup"} : Goto(phase)
  BY DEF Settle
<1>4. TurnInv' /\ LoggedStays /\ [Lifecycle!Next]_Lifecycle!vars
  BY <1>1, <1>2, RestingTurn
<1>5. PICK fold, table : fold = Loop /\ table = rows
  OBVIOUS
<1>6. RowsIntended'
  BY <1>1, <1>2, <1>4, <1>5, LoopFolds, RowsReconciled
<1>7. JobIntended' /\ HeadsOK(job.frames)'
  BY <1>3, <1>4, Goes
<1> QED
  BY <1>4, <1>6, <1>7, LifeIs

\* A job that starts an activation on the log.
LEMMA RunsFrom ==
  ASSUME SettlementInv, LifeInv, LoggedStays, NEW phase \in {"run", "refeed"},
         NEW ev, HeadOK(ev)', RunAt(phase, log, <<ev>>)
  PROVE  JobIntended' /\ HeadsOK(job.frames)'
<1>1. JobTypes /\ JobIntended
  BY LifeParts
<1>2. PICK fold, todo, frames :
        /\ fold = log /\ todo = <<ev>>
        /\ frames = <<Frame(fold, todo, AppendRetries, TRUE)>>
  OBVIOUS
<1>3. todo[1] = ev
  BY <1>2
<1>4. HeadsOK(frames)'
  BY <1>2, <1>3, OneHead
<1>5. job' = [job EXCEPT !.at = phase, !.frames = frames]
  BY <1>2 DEF RunAt
<1>6. /\ job'.op = job.op /\ job'.effect = job.effect /\ job'.due = job.due
      /\ job'.at = phase /\ job'.frames = frames
  BY <1>1, <1>5 DEF JobTypes, Job
<1>7. JobIntended'
  BY <1>1, <1>6, JobKeeps
<1> QED
  BY <1>4, <1>6, <1>7

LEMMA ReloadAdvances ==
  ASSUME SettlementInv, LifeInv, ReloadForWake
  PROVE  LifeInv' /\ [Lifecycle!Next]_Lifecycle!vars
<1>1. LogOK /\ TurnInv /\ RowsIntended
  BY LifeParts
<1>2. UNCHANGED <<log, rows>>
  BY DEF ReloadForWake
<1>3. TurnInv' /\ LoggedStays /\ [Lifecycle!Next]_Lifecycle!vars
  BY <1>1, <1>2, RestingTurn
<1>4. RowsIntended'
  BY <1>1, <1>2, <1>3, RowsShrink
<1>5. CASE Goto("settle")
  BY <1>3, <1>4, <1>5, Goes, LifeIs
<1>6. CASE RunAt("run", log, <<Ev("wake", 0, "wake")>>)
  <2>1. PICK ev : ev = Ev("wake", 0, "wake")
    OBVIOUS
  <2>2. HeadOK(ev)'
    BY <2>1 DEF HeadOK, Ev
  <2>3. RunAt("run", log, <<ev>>)
    BY <1>6, <2>1
  <2>4. JobIntended' /\ HeadsOK(job.frames)'
    BY <1>3, <2>2, <2>3, RunsFrom
  <2> QED
    BY <1>3, <1>4, <2>4, LifeIs
<1> QED
  BY <1>5, <1>6 DEF ReloadForWake

LEMMA ReturnAdvances ==
  ASSUME SettlementInv, LifeInv, RunReturns
  PROVE  LifeInv' /\ [Lifecycle!Next]_Lifecycle!vars
<1>1. LogOK /\ TurnInv /\ RowsIntended
  BY LifeParts
<1>2. UNCHANGED <<log, rows>>
  BY DEF RunReturns
<1>3. TurnInv' /\ LoggedStays /\ [Lifecycle!Next]_Lifecycle!vars
  BY <1>1, <1>2, RestingTurn
<1>4. RowsIntended'
  BY <1>1, <1>2, <1>3, RowsShrink
<1>5. PICK phase \in {"settle", "resettle"} : Goto(phase)
  BY DEF RunReturns
<1>6. JobIntended' /\ HeadsOK(job.frames)'
  BY <1>3, <1>5, Goes
<1> QED
  BY <1>3, <1>4, <1>6, LifeIs

LEMMA AfterRecoveryAdvances ==
  ASSUME SettlementInv, LifeInv, UNCHANGED log, AfterRecovery
  PROVE  LifeInv' /\ [Lifecycle!Next]_Lifecycle!vars
<1>1. LogOK /\ JobTypes /\ RowTypes /\ TurnInv /\ RowsIntended /\ JobIntended
  BY LifeParts
<1>2. TurnInv' /\ LoggedStays /\ [Lifecycle!Next]_Lifecycle!vars
  BY <1>1, RestingTurn
<1>3. CASE job.due
  <2>1. PICK ev, fold, todo, frames :
          /\ ev = Command /\ fold = log /\ todo = <<ev>>
          /\ frames = <<Frame(fold, todo, AppendRetries, TRUE)>>
    OBVIOUS
  <2>2. job' = [job EXCEPT !.at = "run", !.due = FALSE, !.frames = frames]
        /\ UNCHANGED rows
    BY <1>3, <2>1 DEF AfterRecovery
  <2>3. /\ job'.op = job.op /\ job'.effect = job.effect /\ job'.due = FALSE
        /\ job'.at = "run" /\ job'.frames = frames
    BY <1>1, <2>2 DEF JobTypes, Job
  <2>4. HeadOK(ev)'
    <3>1. CASE job.op = "steer"
      <4>1. ev.kind = "steer" /\ ev.of \in Steers
        BY <1>1, <2>1, <3>1 DEF Command, Ev, JobTypes
      <4> QED
        BY <4>1 DEF HeadOK
    <3>2. CASE job.op = "failed"
      <4>1. ev.kind = "effect-failed" /\ job'.op = "failed"
        BY <2>1, <2>3, <3>2 DEF Command, Ev
      <4> QED
        BY <4>1 DEF HeadOK
    <3> QED
      BY <1>1, <1>3, <3>1, <3>2 DEF JobIntended
  <2>5. todo[1] = ev
    BY <2>1
  <2>6. HeadsOK(frames)'
    BY <2>1, <2>4, <2>5, OneHead
  <2>7. JobIntended' /\ HeadsOK(job.frames)'
    BY <1>1, <1>2, <2>3, <2>6, JobKeeps
  <2>8. RowsIntended'
    BY <1>1, <1>2, <2>2, RowsShrink
  <2> QED
    BY <1>2, <2>7, <2>8, LifeIs
<1>4. CASE ~job.due
  <2>1. /\ job' = NoJob
        /\ rows' = IF job.op = "failed" THEN Deleted(rows, job.effect) ELSE rows
    BY <1>4 DEF AfterRecovery, JobDone
  <2>2. \A e \in Effects : rows'[e] # "none" => rows[e] # "none"
    BY <1>1, <2>1 DEF Deleted, RowTypes
  <2>3. RowsIntended'
    BY <1>1, <1>2, <2>2, RowsShrink
  <2> QED
    BY <1>2, <2>1, <2>3, NoJobIsIntended, LifeIs
<1> QED
  BY <1>3, <1>4

\* A stranded turn has no model call in flight, no approval to wait for, and every call
\* that is pending is gated and decided.
LEMMA StrandedTurn ==
  ASSUME LogOK, TurnInv, Stranded(log, rows)
  PROVE  /\ Open(log) /\ Begun \subseteq Answered /\ Asked \subseteq Ruled
         /\ PendingApprovals(log) = {}
         /\ \A c \in Called \ Ended : c \in Gated /\ c \in Ruled
<1>1. Open(log) /\ InFlight(log) = {} /\ Derived(log) = {}
  BY DEF Stranded
<1>2. Begun \subseteq Answered
  BY <1>1, InFlightIsLast
<1>3. PendingApprovals(log) = {}
  <2>1. \A c \in PendingApprovals(log) : Form(c) \in Derived(log)
    BY DEF Derived
  <2> QED
    BY <1>1, <2>1
<1>4. Asked \subseteq Ruled
  BY <1>3 DEF PendingApprovals, Asked, Ruled
<1>5. ASSUME NEW c \in Called \ Ended
      PROVE  c \in Gated /\ c \in Ruled
  <2>1. c \in PendingInvocations(log)
    BY DEF Called, Ended, PendingInvocations
  <2>2. c \in Gated
    <3>1. c \notin Gated => Call(c) \in Derived(log)
      BY <2>1 DEF Derived
    <3> QED
      BY <1>1, <3>1
  <2> QED
    BY <1>4, <2>2 DEF TurnInv, CallsAreLegal
<1> QED
  BY <1>1, <1>2, <1>3, <1>4, <1>5

\* What a stranded turn is fed again.
LEMMA CascadeHead ==
  ASSUME LogOK, TurnInv, Stranded(log, rows), NEW ev, LatestCascade(log) = <<ev>>
  PROVE  HeadOK(ev)
<1>1. PICK k : k = LastAt(log, CascadeKinds)
  OBVIOUS
<1>2. At(log, CascadeKinds) # {} /\ ev = log[k]
  BY <1>1 DEF LatestCascade
<1>3. /\ k \in 1 .. Len(log) /\ log[k].kind \in CascadeKinds
      /\ \A j \in 1 .. Len(log) : log[j].kind \in CascadeKinds => j <= k
  <2>1. log \in Seq(Event)
    BY DEF LogOK
  <2>2. \A j \in 1 .. Len(log) : log[j].kind \in CascadeKinds => j \in At(log, CascadeKinds)
    BY <2>1 DEF At
  <2> QED
    BY <1>1, <1>2, <2>1, <2>2, LastAtIs
<1>4. ev.kind = "approval.resolved" => ev.of \in Ruled
  BY <1>2, <1>3, LoggedOf DEF Ruled, LogOK
<1>5. /\ ev.kind \notin {"diagnostic", "artifacts.failed"}
      /\ ev.kind \notin {"effect-failed", "steer"}
  BY <1>2, <1>3 DEF TurnInv, PreparationsSucceed, CascadeKinds
<1>6. ASSUME ev.kind = "message.terminal"
      PROVE  TurnIsIdle
  <2>1. ASSUME NEW c \in Called \ Ended
        PROVE  FALSE
    <3>1. c \in Ruled
      BY StrandedTurn
    <3>2. PICK i \in 1 .. Len(log) : log[i].kind = "approval.resolved" /\ log[i].of = c
      BY <3>1, LoggedOf DEF Ruled, LogOK
    <3>3. k < i
      BY <1>2, <1>3, <1>6, <2>1, <3>2 DEF TurnInv, DecisionsComeLast
    <3>4. i <= k
      BY <1>3, <3>2 DEF CascadeKinds
    <3> QED
      BY <1>3, <3>3, <3>4
  <2> QED
    BY <2>1, StrandedTurn DEF TurnIsIdle
<1> QED
  BY <1>4, <1>5, <1>6 DEF HeadOK

LEMMA RecoverAdvances ==
  ASSUME SettlementInv, LifeInv, Recover
  PROVE  LifeInv' /\ [Lifecycle!Next]_Lifecycle!vars
<1>1. LogOK /\ JobTypes /\ TurnInv /\ RowsIntended
  BY LifeParts
<1>2. UNCHANGED log
  BY DEF Recover
<1>3. CASE ~Stranded(log, rows)
  BY <1>2, <1>3, AfterRecoveryAdvances DEF Recover
<1>4. CASE Stranded(log, rows)
  <2>1. UNCHANGED rows
    BY <1>4 DEF Recover
  <2>2. OthersAppend /\ LogOK' /\ TurnInv' /\ LoggedStays /\ [Lifecycle!Next]_Lifecycle!vars
    BY <1>1, <1>2, RestingTurn
  <2>3. RowsIntended'
    BY <1>1, <2>1, <2>2, RowsShrink
  <2>4. CASE LatestCascade(log) # <<>>
    <3>1. PICK ev : LatestCascade(log) = <<ev>>
      BY <2>4 DEF LatestCascade
    <3>2. RunAt("refeed", log, <<ev>>)
      BY <1>4, <2>4, <3>1 DEF Recover
    <3>3. HeadOK(ev)
      BY <1>1, <1>4, <3>1, CascadeHead
    <3>4. job'.op = job.op
      BY <1>1, <3>2 DEF RunAt, JobTypes, Job
    <3>5. HeadOK(ev)'
      BY <1>1, <2>2, <3>3, <3>4, HeadStays
    <3>6. JobIntended' /\ HeadsOK(job.frames)'
      BY <2>2, <3>2, <3>5, RunsFrom
    <3> QED
      BY <2>2, <2>3, <3>6, LifeIs
  <2>5. CASE LatestCascade(log) = <<>>
    <3>1. Goto("giveup")
      BY <1>4, <2>5 DEF Recover
    <3>2. JobIntended' /\ HeadsOK(job.frames)'
      BY <2>2, <3>1, Goes
    <3> QED
      BY <2>2, <2>3, <3>2, LifeIs
  <2> QED
    BY <2>4, <2>5
<1> QED
  BY <1>3, <1>4

\* What the ends of what is pending write.
LEMMA PendingWrites ==
  ASSUME NEW S, IsFiniteSet(S), S \subseteq Ofs, NEW kind \in Kinds, NEW how \in Hows,
         NEW items, items = PendingItems(S, kind, how)
  PROVE  /\ items \in Seq(Event) /\ Wrote(items, kind) = S
         /\ \A other : other # kind => Wrote(items, other) = {}
<1>1. /\ EachOnce(items, kind)
      /\ \A x : x \in S <=> \E i \in 1 .. Len(items) : items[i].of = x
  BY PendingItemsAre
<1>2. items \in Seq(Event) /\ \A k \in 1 .. Len(items) : items[k].kind = kind
  BY <1>1 DEF EachOnce
<1>3. \A x : x \in Wrote(items, kind) <=> x \in S
  BY <1>1, <1>2, WroteOf
<1>4. \A other : other # kind => \A x : x \notin Wrote(items, other)
  BY <1>2, WroteOf
<1> QED
  BY <1>2, <1>3, <1>4

\* The end of a stranded turn.
LEMMA StrandedIsLegal ==
  ASSUME LogOK, TurnInv, Stranded(log, rows), NEW items, items = StrandedFailure(log)
  PROVE  /\ Legal(items) /\ Wrote(items, "message.started") = {}
         /\ Wrote(items, "turn.closed") # {}
<1> DEFINE calls == PendingInvocations(log)
           forms == PendingApprovals(log)
<1>1. /\ IsFiniteSet(calls) /\ calls \subseteq Ofs /\ IsFiniteSet(forms) /\ forms \subseteq Ofs
  <2>1. /\ calls \subseteq Logged(log, "invocation.started")
        /\ forms \subseteq Logged(log, "approval.requested") /\ log \in Seq(Event)
    BY DEF PendingInvocations, PendingApprovals, LogOK
  <2> QED
    BY <2>1, LoggedIs, LoggedIsFinite, FS_Subset
<1>2. PICK one, two, end :
        /\ one = PendingItems(calls, "invocation.terminal", "abandoned")
        /\ two = PendingItems(forms, "approval.resolved", "denied")
        /\ end = Ev("turn.closed", 0, "stranded")
  OBVIOUS
<1>3. items = one \o two \o <<end>>
  BY <1>2 DEF StrandedFailure, PendingItems
<1>4. calls = Called \ Ended /\ forms = Asked \ Ruled
  BY DEF PendingInvocations, PendingApprovals, Called, Ended, Asked, Ruled
<1> HIDE DEF calls, forms
<1>5. /\ one \in Seq(Event) /\ Wrote(one, "invocation.terminal") = calls
      /\ \A kind : kind # "invocation.terminal" => Wrote(one, kind) = {}
  <2>1. "invocation.terminal" \in Kinds /\ "abandoned" \in Hows
    BY DEF Kinds, Hows
  <2> QED
    BY <1>1, <1>2, <2>1, PendingWrites
<1>6. /\ two \in Seq(Event) /\ Wrote(two, "approval.resolved") = forms
      /\ \A kind : kind # "approval.resolved" => Wrote(two, kind) = {}
  <2>1. "approval.resolved" \in Kinds /\ "denied" \in Hows
    BY DEF Kinds, Hows
  <2> QED
    BY <1>1, <1>2, <2>1, PendingWrites
<1>7. end \in Event /\ end.kind = "turn.closed"
  <2>1. "turn.closed" \in Kinds /\ "stranded" \in Hows /\ 0 \in Ofs
    BY DEF Kinds, Hows, Ofs
  <2> QED
    BY <1>2, <2>1, EvIs
<1>8. PICK last, both : last = <<end>> /\ both = one \o two
  OBVIOUS
<1>9. last \in Seq(Event) /\ both \in Seq(Event)
  BY <1>5, <1>6, <1>7, <1>8
<1>10. \A kind : kind # "turn.closed" => Wrote(last, kind) = {}
  BY <1>7, <1>8, WroteOne
<1>11. ASSUME NEW kind
       PROVE  Wrote(items, kind)
                = Wrote(one, kind) \cup Wrote(two, kind) \cup Wrote(last, kind)
  <2>1. Wrote(both, kind) = Wrote(one, kind) \cup Wrote(two, kind)
    BY <1>5, <1>6, <1>8, WroteBoth
  <2>2. items = both \o last
    BY <1>3, <1>8
  <2>3. Wrote(items, kind) = Wrote(both, kind) \cup Wrote(last, kind)
    BY <1>9, <2>2, WroteBoth
  <2> QED
    BY <2>1, <2>3
<1>12. /\ Wrote(items, "invocation.terminal") = calls
       /\ Wrote(items, "approval.resolved") = forms
  BY <1>5, <1>6, <1>10, <1>11
<1>13. /\ Wrote(items, "message.terminal") = {} /\ Wrote(items, "message.started") = {}
       /\ Wrote(items, "invocation.started") = {} /\ Wrote(items, "approval.requested") = {}
       /\ Wrote(items, "diagnostic") = {} /\ Wrote(items, "artifacts.failed") = {}
       /\ Wrote(items, "received") = {}
  BY <1>5, <1>6, <1>10, <1>11
<1>14. Writes(items)
  BY StrandedWrites DEF LogOK
<1>15. /\ Open(log) /\ Begun \subseteq Answered /\ Asked \subseteq Ruled
       /\ \A c \in Called \ Ended : c \in Gated /\ c \in Ruled
  BY StrandedTurn
<1>16. Wrote(items, "turn.closed") # {}
  <2>1. Wrote(last, "turn.closed") = {end.of}
    BY <1>7, <1>8, WroteOne
  <2> QED
    BY <1>11, <2>1
<1>17. Legal(items)
  BY <1>4, <1>12, <1>13, <1>14, <1>15 DEF Legal
<1> QED
  BY <1>13, <1>16, <1>17

LEMMA GiveUpAdvances ==
  ASSUME SettlementInv, SettlementInv', LifeInv, GiveUp
  PROVE  LifeInv' /\ [Lifecycle!Next]_Lifecycle!vars
<1>1. LogOK /\ JobTypes /\ TurnInv /\ RowsIntended
  BY LifeParts
<1>2. LogOK'
  BY DEF SettlementInv
<1>3. CASE Stranded(Loop, rows)
  <2>1. UNCHANGED rows /\ Goto("giveupsettle")
    BY <1>3 DEF GiveUp
  <2>2. CASE Stranded(log, rows)
    <3>1. PICK items : items = StrandedFailure(log)
      OBVIOUS
    <3>2. log' = Appended(items)
      BY <1>3, <2>2, <3>1 DEF GiveUp
    <3>3. Legal(items) /\ Writes(items)
      BY <1>1, <2>2, <3>1, StrandedIsLegal DEF Legal
    <3>4. TurnInv' /\ [Lifecycle!Next]_Lifecycle!vars
      BY <1>1, <1>2, <3>2, <3>3, AppendIsAStep
    <3>5. LoggedStays
      BY <1>1, <1>2, <3>2, <3>3, SetsGrow DEF LoggedStays
    <3>6. RowsIntended' /\ JobIntended' /\ HeadsOK(job.frames)'
      BY <1>1, <2>1, <3>5, RowsShrink, Goes
    <3> QED
      BY <3>4, <3>6, LifeIs
  <2>3. CASE ~Stranded(log, rows)
    <3>1. UNCHANGED log
      BY <1>3, <2>3 DEF GiveUp
    <3>2. TurnInv' /\ LoggedStays /\ [Lifecycle!Next]_Lifecycle!vars
      BY <1>1, <3>1, RestingTurn
    <3>3. RowsIntended' /\ JobIntended' /\ HeadsOK(job.frames)'
      BY <1>1, <2>1, <3>2, RowsShrink, Goes
    <3> QED
      BY <3>2, <3>3, LifeIs
  <2> QED
    BY <2>2, <2>3
<1>4. CASE ~Stranded(Loop, rows)
  BY <1>4, AfterRecoveryAdvances DEF GiveUp
<1> QED
  BY <1>3, <1>4

\* The event of an outcome: what may be logged now, and what its cascade may assume.
LEMMA OutcomeMay ==
  ASSUME NEW e \in Effects, NEW how \in Hows, Intended(e),
         NEW items, items = OutcomeEvents(e, how)
  PROVE  \E ev : /\ items = <<ev>> /\ OneMay(ev)
                 /\ ev.kind \in {"message.terminal", "invocation.terminal",
                                 "approval.resolved", "artifacts.ready"}
<1>1. e[1] \in {"model", "call", "form", "prep"} /\ e[2] \in Ofs
  BY EffectIs
<1>2. PICK kind : /\ e[1] = "model" => kind = "message.terminal"
                  /\ e[1] = "call" => kind = "invocation.terminal"
                  /\ e[1] = "form" => kind = "approval.resolved"
                  /\ e[1] = "prep" => kind = "artifacts.ready"
                  /\ items = <<Ev(kind, e[2], how)>>
  BY <1>1 DEF OutcomeEvents
<1>3. PICK ev : ev = Ev(kind, e[2], how)
  OBVIOUS
<1>4. kind \in Kinds
  BY <1>1, <1>2 DEF Kinds
<1>5. ev \in Event /\ ev.kind = kind /\ ev.of = e[2]
  BY <1>1, <1>3, <1>4, EvIs
<1>6. OneMay(ev)
  BY <1>1, <1>2, <1>5 DEF OneMay, Intended
<1> QED
  BY <1>1, <1>2, <1>3, <1>5, <1>6

\* An outcome that the log did not have: the turn it answers.
LEMMA OutcomeHead ==
  ASSUME LogOK, LogOK', TurnInv, NEW ev, OneMay(ev), NEW items, items = <<ev>>,
         log' = Appended(items), ~Known(ev),
         ev.kind \in {"message.terminal", "invocation.terminal", "approval.resolved",
                      "artifacts.ready"}
  PROVE  HeadOK(ev)'
<1>1. Legal(items) /\ Writes(items)
  <2>1. Legal(items)
    BY OneIsLegal
  <2> QED
    BY <2>1 DEF Legal
<1>2. /\ Begun' = Begun \cup Wrote(items, "message.started")
      /\ Answered' = Answered \cup Wrote(items, "message.terminal")
      /\ Called' = Called \cup Wrote(items, "invocation.started")
      /\ Ended' = Ended \cup Wrote(items, "invocation.terminal")
      /\ Asked' = Asked \cup Wrote(items, "approval.requested")
      /\ Ruled' = Ruled \cup Wrote(items, "approval.resolved")
  BY <1>1, SetsGrow
<1>3. \A kind : /\ ev.kind = kind => Wrote(items, kind) = {ev.of}
                /\ ev.kind # kind => Wrote(items, kind) = {}
  BY WroteOne
<1>4. ev.kind = "approval.resolved" => ev.of \in Ruled'
  BY <1>2, <1>3
<1>5. ASSUME ev.kind = "message.terminal"
      PROVE  TurnIsIdle'
  <2>1. PICK n : n = ev.of
    OBVIOUS
  <2>2. n \in Begun
    BY <1>5, <2>1 DEF OneMay
  <2>3. n \notin Answered
    <3>1. 1 \in 1 .. Len(items) /\ ev = items[1]
      OBVIOUS
    <3> QED
      BY <1>5, <2>1, <3>1, WrittenIs DEF Answered
  <2>4. Begun \subseteq Answered \cup {n} /\ Called \subseteq Ended /\ Asked \subseteq Ruled
    BY <2>2, <2>3, OneUnanswered
  <2>5. /\ Begun' = Begun /\ Called' = Called /\ Asked' = Asked
        /\ Answered' = Answered \cup {n} /\ Ended \subseteq Ended' /\ Ruled \subseteq Ruled'
    BY <1>2, <1>3, <1>5, <2>1
  <2> QED
    BY <2>4, <2>5 DEF TurnIsIdle
<1> QED
  BY <1>4, <1>5 DEF HeadOK

\* The first of the events that a batch adds is new to the log.
LEMMA FirstIsNew ==
  ASSUME NEW items \in Seq(Event), NEW fresh, fresh = New(items), fresh # <<>>
  PROVE  \E k \in 1 .. Len(items) : fresh[1] = items[k] /\ ~Known(items[k])
<1>1. fresh \in Seq(Event) /\ 1 \in 1 .. Len(fresh)
  BY NewEvents
<1>2. PICK f : Picks(f, items)
  BY NewEvents
<1> QED
  BY <1>1, <1>2 DEF Picks

LEMMA AppendAdvances ==
  ASSUME SettlementInv, SettlementInv', LifeInv, AppendOutcome
  PROVE  LifeInv' /\ [Lifecycle!Next]_Lifecycle!vars
<1>1. LogOK /\ JobOK /\ JobTypes /\ TurnInv /\ RowsIntended /\ JobIntended /\ LogOK'
  BY LifeParts DEF SettlementInv
<1>2. /\ UNCHANGED rows /\ job.at = "append"
      /\ job.effect \in Effects /\ job.how \in Hows /\ Intended(job.effect)
  BY <1>1 DEF AppendOutcome, JobTypes, JobIntended
<1>3. PICK items, fold : items = OutcomeEvents(job.effect, job.how) /\ fold = Loop
  OBVIOUS
<1>4. Current(fold) /\ Folds(fold)
  BY <1>1, <1>2, <1>3, LoopFolds
<1>5. CASE /\ Refusal(items, fold) = "none" /\ log' = Appended(items)
           /\ RunAt("commit", fold, Envelopes(items, fold))
  <2>1. PICK ev : /\ items = <<ev>> /\ OneMay(ev)
                  /\ ev.kind \in {"message.terminal", "invocation.terminal",
                                  "approval.resolved", "artifacts.ready"}
    BY <1>2, <1>3, OutcomeMay
  <2>2. Legal(items) /\ Writes(items) /\ items \in Seq(Event)
    <3>1. Legal(items)
      BY <2>1, OneIsLegal
    <3> QED
      BY <3>1 DEF Legal, Writes
  <2>3. TurnInv' /\ [Lifecycle!Next]_Lifecycle!vars
    BY <1>1, <1>5, <2>2, AppendIsAStep
  <2>4. LoggedStays
    BY <1>1, <1>5, <2>2, SetsGrow DEF LoggedStays
  <2>5. RowsIntended'
    BY <1>1, <1>2, <2>4, RowsShrink
  <2>6. PICK todo : todo = New(items)
    OBVIOUS
  <2>7. todo = Envelopes(items, fold)
    BY <1>1, <1>4, <2>2, <2>6, EnvelopesAreNew
  <2>8. ASSUME todo # <<>>
        PROVE  HeadOK(todo[1])'
    <3>1. PICK k \in 1 .. Len(items) : todo[1] = items[k] /\ ~Known(items[k])
      BY <2>2, <2>6, <2>8, FirstIsNew
    <3>2. todo[1] = ev /\ ~Known(ev)
      BY <2>1, <3>1
    <3>3. HeadOK(ev)'
      BY <1>1, <1>5, <2>1, <3>2, OutcomeHead
    <3>4. PICK first : first = todo[1]
      OBVIOUS
    <3>5. HeadOK(first)'
      BY <3>2, <3>3, <3>4
    <3> QED
      BY <3>4, <3>5
  <2>9. PICK f, frames : f = Frame(fold, todo, AppendRetries, TRUE) /\ frames = <<f>>
    OBVIOUS
  <2>10. HeadsOK(frames)'
    BY <2>8, <2>9, OneHead
  <2>11. job' = [job EXCEPT !.at = "commit", !.frames = frames]
    BY <1>5, <2>7, <2>9 DEF RunAt
  <2>12. /\ job'.op = job.op /\ job'.effect = job.effect /\ job'.due = job.due
         /\ job'.at = "commit" /\ job'.frames = frames
    BY <1>1, <2>11 DEF JobTypes, Job
  <2>13. frames[1].live
    BY <2>9 DEF Frame
  <2>14. JobIntended'
    BY <1>1, <2>4, <2>12, <2>13, JobKeeps
  <2>15. HeadsOK(job.frames)'
    BY <2>10, <2>12
  <2> QED
    BY <2>3, <2>5, <2>14, <2>15, LifeIs
<1>6. ASSUME UNCHANGED log, JobIntended', HeadsOK(job.frames)'
      PROVE  LifeInv' /\ [Lifecycle!Next]_Lifecycle!vars
  <2>1. TurnInv' /\ LoggedStays /\ [Lifecycle!Next]_Lifecycle!vars
    BY <1>1, <1>6, RestingTurn
  <2>2. RowsIntended'
    BY <1>1, <1>2, <2>1, RowsShrink
  <2> QED
    BY <1>6, <2>1, <2>2, LifeIs
<1>7. CASE job' = [job EXCEPT !.tries = @ + 1] /\ UNCHANGED log
  <2>1. /\ job'.op = job.op /\ job'.effect = job.effect /\ job'.due = job.due
        /\ job'.at = "append" /\ job'.frames = job.frames
    BY <1>1, <1>2, <1>7 DEF JobTypes, Job
  <2>2. job'.frames = <<>>
    BY <1>1, <1>2, <2>1 DEF JobOK, RunningAt
  <2>3. LoggedStays
    BY <1>1, <1>7, RestingTurn
  <2>4. JobIntended'
    BY <1>1, <1>2, <2>1, <2>3, JobKeeps
  <2> QED
    BY <1>6, <1>7, <2>2, <2>4, NoHeads
<1>8. CASE JobThrown /\ UNCHANGED log
  BY <1>6, <1>8, NoJobIsIntended DEF JobThrown
<1>9. CASE Goto("drop") /\ UNCHANGED log
  <2>1. LoggedStays
    BY <1>1, <1>9, RestingTurn
  <2> QED
    BY <1>6, <1>9, <2>1, Goes
<1> QED
  BY <1>3, <1>5, <1>7, <1>8, <1>9 DEF AppendOutcome

LEMMA CommitAdvances ==
  ASSUME SettlementInv, LifeInv, CommitOutcome
  PROVE  LifeInv' /\ [Lifecycle!Next]_Lifecycle!vars
<1>1. /\ LogOK /\ JobOK /\ JobTypes /\ RowTypes
      /\ TurnInv /\ RowsIntended /\ JobIntended /\ HeadsOK(job.frames)
  BY LifeParts
<1>2. UNCHANGED log /\ job.at = "commit" /\ rows' = Deleted(rows, job.effect)
  BY DEF CommitOutcome
<1>3. /\ LogOK' /\ OthersAppend
      /\ TurnInv' /\ LoggedStays /\ [Lifecycle!Next]_Lifecycle!vars
  BY <1>1, <1>2, RestingTurn
<1>4. RowsIntended'
  <2>1. \A e \in Effects : rows'[e] # "none" => rows[e] # "none"
    BY <1>1, <1>2 DEF Deleted, RowTypes
  <2> QED
    BY <1>1, <1>3, <2>1, RowsShrink
<1>5. PICK fold, frames, todo, next :
        /\ fold = cached /\ frames = job.frames /\ todo = frames[1].todo
        /\ next = cached'
  OBVIOUS
<1>6. CommitOK(fold, frames) /\ frames[1].live
  BY <1>1, <1>2, <1>5 DEF JobOK, JobIntended
<1>7. Len(frames) = 1 /\ todo \in Seq(Event)
  BY <1>5, <1>6 DEF CommitOK
<1>8. PICK first : first = <<Frame(next, todo, AppendRetries, TRUE)>>
  OBVIOUS
<1>9. job' = [job EXCEPT !.at = "run", !.frames = Returned(first)]
  BY <1>5, <1>8 DEF CommitOutcome
<1>10. /\ job'.op = job.op /\ job'.effect = job.effect /\ job'.due = job.due
       /\ job'.at = "run" /\ job'.frames = Returned(first)
  BY <1>1, <1>9 DEF JobTypes, Job
<1>11. ASSUME todo # <<>>
       PROVE  HeadOK(todo[1])'
  <2>1. HeadsOK(frames) /\ 1 \in 1 .. Len(frames)
    BY <1>1, <1>5, <1>7
  <2>2. HeadOK(frames[1].todo[1])
    BY <1>5, <1>6, <1>11, <2>1 DEF HeadsOK
  <2>3. PICK ev : ev = todo[1]
    OBVIOUS
  <2>4. HeadOK(ev)
    BY <1>5, <2>2, <2>3
  <2>5. HeadOK(ev)'
    BY <1>1, <1>3, <1>10, <2>4, HeadStays
  <2> QED
    BY <2>3, <2>5
<1>12. HeadsOK(first)'
  BY <1>8, <1>11, OneHead
<1>13. first \in Seq(FrameType)
  <2>1. todo \in Seq(Incoming)
    BY <1>7 DEF Incoming
  <2>2. next \in Seq(Event)
    <3>1. Folds(fold) /\ Current(fold \o todo)
      BY <1>5, <1>6 DEF CommitOK
    <3>2. Loop = fold
      BY <1>5, <3>1 DEF Loop, Folds
    <3>3. next = fold \o todo
      BY <1>5, <3>2 DEF CommitOutcome
    <3> QED
      BY <1>7, <3>1, <3>3 DEF Folds
  <2>3. PICK f : f = Frame(next, todo, AppendRetries, TRUE)
    OBVIOUS
  <2>4. f \in FrameType
    BY <2>1, <2>2, <2>3, SettlementAssumption DEF Frame, FrameType
  <2>5. first = <<f>>
    BY <1>8, <2>3
  <2> QED
    BY <2>4, <2>5
<1>14. HeadsOK(job.frames)'
  <2>1. HeadsOK(Returned(first))'
    BY <1>12, <1>13, ReturnedHeads
  <2> QED
    BY <1>10, <2>1
<1>15. JobIntended'
  BY <1>1, <1>3, <1>10, JobKeeps
<1> QED
  BY <1>3, <1>4, <1>14, <1>15, LifeIs

\* An accepted batch of the innermost activation, whose loop is as long as the log when
\* it appends anything.
LEMMA AcceptedIsProper ==
  ASSUME LogOK, TurnInv, NEW fold, Current(fold), NEW ev \in Incoming, HeadOK(ev),
         job.op = "failed" => Intended(job.effect) /\ job.effect[1] # "prep",
         NEW items, items = StepOutput(fold, ev).append,
         Refusal(items, fold) = "none", New(items) # <<>>
  PROVE  Legal(items) /\ NoAnswer(items)
<1>1. Writes(items)
  BY FoldIsTurnLog, StepSuits DEF OutputSuits, Current
<1>2. Len(fold) = Len(log)
  BY <1>1, AcceptedMeets
<1>3. fold = log
  <2>1. \A a, b \in Seq(Event) :
          Len(a) = Len(b) /\ (\A i \in 1 .. Len(a) : a[i] = b[i]) => a = b
    OBVIOUS
  <2> QED
    BY <1>2, <2>1 DEF Current, Folds, LogOK
<1>4. PICK out : out = StepOutput(log, ev)
  OBVIOUS
<1>5. Proper(out)
  BY <1>4, StepIsProper
<1>6. items = out.append
  BY <1>3, <1>4
<1> QED
  BY <1>5, <1>6 DEF Proper

\* The turn after an accepted step of the innermost activation.
LEMMA AcceptedTurn ==
  ASSUME LogOK, LogOK', TurnInv, NEW fold, Current(fold), NEW ev \in Incoming, HeadOK(ev),
         job.op = "failed" => Intended(job.effect) /\ job.effect[1] # "prep",
         NEW items, items = StepOutput(fold, ev).append,
         Refusal(items, fold) = "none", log' = Appended(items)
  PROVE  TurnInv' /\ LoggedStays /\ [Lifecycle!Next]_Lifecycle!vars
<1>1. Writes(items)
  BY FoldIsTurnLog, StepSuits DEF OutputSuits, Current
<1>2. New(items) = <<>> \/ Legal(items)
  BY AcceptedIsProper
<1>3. TurnInv' /\ [Lifecycle!Next]_Lifecycle!vars
  BY <1>1, <1>2, AppendIsAStep
<1>4. LoggedStays
  BY <1>1, SetsGrow DEF LoggedStays
<1> QED
  BY <1>3, <1>4

\* The next event that it steps.
LEMMA AcceptedHead ==
  ASSUME LogOK, LogOK', TurnInv, NEW fold, Current(fold), NEW ev \in Incoming, HeadOK(ev),
         job.op = "failed" => Intended(job.effect) /\ job.effect[1] # "prep",
         NEW items, items = StepOutput(fold, ev).append,
         Refusal(items, fold) = "none", log' = Appended(items),
         NEW fresh, fresh = New(items), fresh # <<>>
  PROVE  HeadOK(fresh[1])'
<1>1. Legal(items) /\ NoAnswer(items)
  BY AcceptedIsProper
<1>2. Writes(items) /\ items \in Seq(Event)
  BY <1>1 DEF Legal, Writes
<1>3. PICK k \in 1 .. Len(items) : fresh[1] = items[k]
  BY <1>2, FirstIsNew
<1>4. PICK t : t = items[k]
  OBVIOUS
<1>5. t.of \in Wrote(items, t.kind) /\ t \in Event
  BY <1>2, <1>4, WroteOf
<1>6. /\ t.kind \notin {"diagnostic", "artifacts.failed"}
      /\ t.kind \notin {"effect-failed", "steer"}
  BY <1>1, <1>5 DEF Legal, Event, Kinds
<1>7. t.kind = "approval.resolved" => t.of \in Ruled'
  BY <1>2, <1>5, SetsGrow
<1>8. t.kind = "message.terminal" => t.how = "interrupted"
  BY <1>1, <1>4 DEF NoAnswer, Unlike
<1>9. HeadOK(t)'
  BY <1>6, <1>7, <1>8 DEF HeadOK
<1> QED
  BY <1>3, <1>4, <1>9

\* The effects that it inserts.
LEMMA AcceptedRows ==
  ASSUME LogOK, LogOK', RowsIntended, NEW fold, Folds(fold), NEW ev \in Incoming, HeadOK(ev),
         NEW out, out = StepOutput(fold, ev), Writes(out.append),
         log' = Appended(out.append), rows' = Inserted(rows, out.effects)
  PROVE  RowsIntended'
<1>1. PICK items : items = out.append
  OBVIOUS
<1>2. /\ Begun' = Begun \cup Wrote(items, "message.started")
      /\ Called' = Called \cup Wrote(items, "invocation.started")
      /\ Ruled' = Ruled \cup Wrote(items, "approval.resolved")
      /\ LoggedStays
  BY <1>1, SetsGrow DEF LoggedStays
<1>3. Founded(out)
  BY StepIsFounded
<1>4. ASSUME NEW e \in Effects, rows'[e] # "none"
      PROVE  Intended(e)'
  <2>1. CASE rows[e] # "none"
    BY <1>2, <2>1, IntendedStays DEF RowsIntended
  <2>2. CASE e \in out.effects
    BY <1>1, <1>2, <1>3, <2>2 DEF Founded, Intended
  <2> QED
    BY <1>4, <2>1, <2>2 DEF Inserted
<1> QED
  BY <1>4 DEF RowsIntended

\* What the innermost activation has at hand.
LEMMA TopHead ==
  ASSUME LogOK, JobOK, HeadsOK(job.frames), Running, job.frames # <<>>
  PROVE  HeadOK(Head(Top.todo))
<1>1. PICK frames, n, top : frames = job.frames /\ n = Len(frames) /\ top = Top
  OBVIOUS
<1>2. /\ FramesOK(frames) /\ n \in Nat \ {0} /\ top \in FrameType /\ FrameOK(top, n, n)
      /\ top.todo \in Seq(Incoming) /\ 0 < Len(top.todo) /\ Head(top.todo) = top.todo[1]
  BY <1>1, TopIs
<1>3. top = frames[n] /\ n \in 1 .. n
  BY <1>1, <1>2 DEF Top
<1>4. CASE top.live
  <2>1. top.todo # <<>>
    BY <1>2
  <2>2. HeadOK(top.todo[1])
    BY <1>1, <1>3, <1>4, <2>1 DEF HeadsOK
  <2> QED
    BY <1>1, <1>2, <2>2
<1>5. CASE ~top.live
  <2>1. PICK ev : ev = top.todo[1]
    OBVIOUS
  <2>2. ev.kind \in InertKinds
    BY <1>2, <1>5, <2>1 DEF FrameOK, InertFrom
  <2>3. HeadOK(ev)
    BY <2>2, InertIsOK
  <2> QED
    BY <1>1, <1>2, <2>1, <2>3
<1> QED
  BY <1>4, <1>5

LEMMA SteppedIs ==
  ASSUME NEW top \in FrameType, NEW env \in Seq(Incoming), NEW next \in Seq(Event),
         0 < Len(top.todo), InertFrom(top.todo, 1),
         NEW after, after = Stepped(top, next, env)
  PROVE  /\ after \in FrameType /\ after.live = top.live
         /\ after.todo # <<>> =>
              IF env # <<>> THEN after.todo[1] = env[1]
              ELSE after.todo[1].kind \in InertKinds
<1>1. PICK todo \in Seq(Incoming) : todo = top.todo
  BY DEF FrameType
<1>2. PICK rest \in Seq(Incoming) : rest = Tail(todo) /\ InertFrom(rest, 0)
  BY <1>1, TailIsInert
<1>3. PICK more \in Seq(Incoming) : more = env \o rest
  <2> HIDE DEF Incoming
  <2>1. env \o rest \in Seq(Incoming)
    BY <1>2
  <2> QED
    BY <2>1
<1>4. after = [top EXCEPT !.fold = next, !.todo = more]
  BY <1>1, <1>2, <1>3 DEF Stepped
<1>5. after \in FrameType /\ after.todo = more /\ after.live = top.live
  BY <1>3, <1>4 DEF FrameType
<1>6. CASE env # <<>>
  <2>1. more[1] = env[1]
    BY <1>2, <1>3, <1>6
  <2> QED
    BY <1>5, <1>6, <2>1
<1>7. CASE env = <<>>
  <2>1. more = rest
    BY <1>2, <1>3, <1>7
  <2>2. more # <<>> => rest[1].kind \in InertKinds
    <3>1. rest # <<>> => 1 \in 1 .. Len(rest) /\ 1 > 0
      BY <1>2
    <3> QED
      BY <1>2, <2>1, <3>1 DEF InertFrom
  <2> QED
    BY <1>5, <1>7, <2>1, <2>2
<1> QED
  BY <1>6, <1>7

LEMMA AcceptedAdvances ==
  ASSUME SettlementInv, SettlementInv', LifeInv, StepAccepted
  PROVE  LifeInv' /\ [Lifecycle!Next]_Lifecycle!vars
<1>1. /\ LogOK /\ JobOK /\ JobTypes /\ RowTypes
      /\ TurnInv /\ RowsIntended /\ JobIntended /\ HeadsOK(job.frames) /\ LogOK'
  BY LifeParts DEF SettlementInv
<1>2. Running /\ job.frames # <<>>
  BY DEF StepAccepted
<1>3. PICK top, frames, n : top = Top /\ frames = job.frames /\ n = Len(frames)
  OBVIOUS
<1>4. /\ FramesOK(frames) /\ n \in Nat \ {0}
      /\ top \in FrameType /\ FrameOK(top, n, n)
      /\ top.todo \in Seq(Incoming) /\ 0 < Len(top.todo) /\ RunningAt(job.at)
  BY <1>1, <1>2, <1>3, TopIs
<1>5. PICK fold, ev, out, items, env, next, after :
        /\ fold = top.fold /\ ev = Head(top.todo) /\ out = StepOutput(fold, ev)
        /\ items = out.append /\ env = Envelopes(items, fold)
        /\ next = fold \o env /\ after = Stepped(top, next, env)
  OBVIOUS
<1>6. /\ Refusal(items, fold) = "none" /\ log' = Appended(items)
      /\ rows' = Inserted(rows, out.effects) /\ job' = WithTop(after)
  BY <1>3, <1>5 DEF StepAccepted, Stepped
<1>7. ev \in Incoming /\ HeadOK(ev)
  BY <1>1, <1>2, <1>3, <1>5, TopIs, TopHead
<1>8. InertFrom(top.todo, 1) /\ Folds(fold) /\ fold \in Seq(Event)
  BY <1>4, <1>5 DEF FrameOK, Folds
<1>9. job.op = "failed" => Intended(job.effect) /\ job.effect[1] # "prep"
  BY <1>1 DEF JobIntended
<1>10. ASSUME after \in FrameType, LoggedStays, after.live /\ after.todo # <<>> => HeadOK(after.todo[1])'
       PROVE  JobIntended' /\ HeadsOK(job.frames)'
  <2>1. /\ HeadsOK(job.frames)'
        /\ job'.op = job.op /\ job'.effect = job.effect /\ job'.due = job.due
        /\ job'.at = job.at
    BY <1>1, <1>3, <1>4, <1>6, <1>10, TopHeads
  <2>2. JobIntended'
    BY <1>1, <1>4, <1>10, <2>1, JobKeeps DEF RunningAt
  <2> QED
    BY <2>1, <2>2
<1>11. CASE top.live
  <2>1. Current(fold)
    BY <1>4, <1>5, <1>11 DEF FrameOK
  <2>2. TurnInv' /\ LoggedStays /\ [Lifecycle!Next]_Lifecycle!vars
    BY <1>1, <1>5, <1>6, <1>7, <1>9, <2>1, AcceptedTurn
  <2>3. Writes(items)
    BY <1>1, <1>5, <1>7, <1>8, FoldIsTurnLog, StepSuits DEF OutputSuits
  <2>4. RowsIntended'
    BY <1>1, <1>5, <1>6, <1>7, <1>8, <2>3, AcceptedRows
  <2>5. env = New(items) /\ env \in Seq(Event)
    BY <1>1, <1>5, <2>1, <2>3, EnvelopesAreNew, NewEvents DEF Writes
  <2>6. env \in Seq(Incoming) /\ next \in Seq(Event)
    BY <1>5, <1>8, <2>5 DEF Incoming
  <2>7. /\ after \in FrameType
        /\ after.todo # <<>> =>
             IF env # <<>> THEN after.todo[1] = env[1]
             ELSE after.todo[1].kind \in InertKinds
    <3>1. 0 < Len(top.todo) /\ after = Stepped(top, next, env)
      BY <1>4, <1>5
    <3>2. InertFrom(top.todo, 1)
      BY <1>8
    <3> HIDE DEF Incoming
    <3> QED
      BY <1>4, <2>6, <3>1, <3>2, SteppedIs
  <2>8. ASSUME after.todo # <<>>
        PROVE  HeadOK(after.todo[1])'
    <3>1. PICK head : head = after.todo[1]
      OBVIOUS
    <3>2. CASE env # <<>>
      <4>1. PICK first : first = env[1]
        OBVIOUS
      <4>2. HeadOK(first)'
        BY <1>1, <1>5, <1>6, <1>7, <1>9, <2>1, <2>5, <3>2, <4>1, AcceptedHead
      <4> QED
        BY <2>7, <2>8, <3>1, <3>2, <4>1, <4>2
    <3>3. CASE env = <<>>
      <4>1. head.kind \in InertKinds
        BY <2>7, <2>8, <3>1, <3>3
      <4>2. HeadOK(head)'
        BY <4>1, InertIsOK
      <4> QED
        BY <3>1, <4>2
    <3> QED
      BY <3>2, <3>3
  <2> QED
    BY <1>10, <2>2, <2>4, <2>7, <2>8, LifeIs
<1>12. CASE ~top.live
  <2>1. items = <<>> /\ out.effects = {}
    BY <1>4, <1>5, <1>12, StaleStep
  <2>2. env = <<>> /\ New(items) = <<>>
    BY <1>5, <2>1, NothingIsNew
  <2>3. UNCHANGED log
    BY <1>1, <1>6, <2>2 DEF Appended, LogOK
  <2>4. TurnInv' /\ LoggedStays /\ [Lifecycle!Next]_Lifecycle!vars
    BY <1>1, <2>3, RestingTurn
  <2>5. RowsIntended'
    <3>1. \A e \in Effects : rows'[e] # "none" => rows[e] # "none"
      BY <1>6, <2>1 DEF Inserted
    <3> QED
      BY <1>1, <2>4, <3>1, RowsShrink
  <2>6. env \in Seq(Incoming) /\ next \in Seq(Event)
    <3>1. <<>> \in Seq(Incoming) /\ <<>> \in Seq(Event)
      OBVIOUS
    <3>2. next = fold
      <4>1. \A s \in Seq(Event) : s \o <<>> = s
        <5> HIDE DEF Event
        <5> QED
          OBVIOUS
      <4>2. next = fold \o <<>>
        BY <1>5, <2>2
      <4> QED
        BY <1>8, <4>1, <4>2
    <3> HIDE DEF Incoming
    <3> QED
      BY <1>8, <2>2, <3>1, <3>2
  <2>7. after \in FrameType /\ ~after.live
    <3>1. 0 < Len(top.todo) /\ after = Stepped(top, next, env)
      BY <1>4, <1>5
    <3>2. InertFrom(top.todo, 1)
      BY <1>8
    <3>3. after \in FrameType /\ after.live = top.live
      <4> HIDE DEF Incoming
      <4> QED
        BY <1>4, <2>6, <3>1, <3>2, SteppedIs
    <3> QED
      BY <1>12, <3>3
  <2> QED
    BY <1>10, <2>4, <2>5, <2>7, LifeIs
<1> QED
  BY <1>11, <1>12

LEMMA PushedHeads ==
  ASSUME NEW rest \in Seq(FrameType), HeadsOK(rest)', NEW f \in FrameType,
         HeadOK(f.todo[1])', NEW all, all = rest \o <<f>>
  PROVE  HeadsOK(all)'
<1>1. PICK m \in Nat : m = Len(rest)
  OBVIOUS
<1>2. Len(all) = m + 1 /\ (\A i \in 1 .. m : all[i] = rest[i]) /\ all[m + 1] = f
  BY <1>1
<1>3. \A i \in 1 .. m + 1 : i \in 1 .. m \/ i = m + 1
  BY <1>1
<1>4. ASSUME NEW i \in 1 .. m + 1, all[i].live, all[i].todo # <<>>
      PROVE  HeadOK(all[i].todo[1])'
  <2>1. CASE i \in 1 .. m
    <3>1. all[i] = rest[i]
      BY <1>2, <2>1
    <3>2. HeadOK(rest[i].todo[1])'
      BY <1>1, <1>4, <2>1, <3>1 DEF HeadsOK
    <3> QED
      BY <3>1, <3>2
  <2>2. CASE i = m + 1
    <3>1. all[i] = f
      BY <1>2, <2>2
    <3> QED
      BY <3>1
  <2> QED
    BY <1>3, <2>1, <2>2
<1> QED
  BY <1>2, <1>4 DEF HeadsOK

LEMMA RefusedAdvances ==
  ASSUME SettlementInv, LifeInv, StepRefused
  PROVE  LifeInv' /\ [Lifecycle!Next]_Lifecycle!vars
<1>1. /\ LogOK /\ JobOK /\ JobTypes /\ RowTypes
      /\ TurnInv /\ RowsIntended /\ JobIntended /\ HeadsOK(job.frames)
  BY LifeParts
<1>2. UNCHANGED <<log, rows>> /\ Running /\ job.frames # <<>>
  BY RefusedIs
<1>3. /\ LogOK' /\ OthersAppend
      /\ TurnInv' /\ LoggedStays /\ [Lifecycle!Next]_Lifecycle!vars
  BY <1>1, <1>2, RestingTurn
<1>4. RowsIntended'
  BY <1>1, <1>2, <1>3, RowsShrink
<1>5. PICK top, frames, n, todo, ev :
        /\ top = Top /\ frames = job.frames /\ n = Len(frames) /\ todo = top.todo
        /\ ev = Head(todo)
  OBVIOUS
<1>6. /\ FramesOK(frames) /\ n \in Nat \ {0} /\ top \in FrameType /\ FrameOK(top, n, n)
      /\ todo \in Seq(Incoming) /\ 0 < Len(todo) /\ RunningAt(job.at)
      /\ ev \in Incoming /\ top = frames[n]
  BY <1>1, <1>2, <1>5, TopIs DEF Top
<1>7. HeadOK(ev)
  BY <1>1, <1>2, <1>5, TopHead
<1>8. CASE /\ top.tries > 0
           /\ job' = [job EXCEPT !.frames =
                        Returned(Retired(frames)) \o <<Frame(log, <<ev>>, top.tries - 1, TRUE)>>]
  <2>1. PICK fold, f, old, rest, all :
          /\ fold = log /\ f = Frame(fold, <<ev>>, top.tries - 1, TRUE)
          /\ old = Retired(frames) /\ rest = Returned(old) /\ all = rest \o <<f>>
    OBVIOUS
  <2>2. f \in FrameType /\ f.todo[1] = ev
    <3>1. <<ev>> \in Seq(Incoming) /\ <<ev>>[1] = ev
      BY <1>6
    <3>2. top.tries - 1 \in Nat /\ fold \in Seq(Event)
      BY <1>1, <1>6, <1>8, <2>1 DEF FrameType, LogOK
    <3> HIDE DEF Incoming
    <3> QED
      BY <2>1, <3>1, <3>2 DEF Frame, FrameType
  <2>3. FramesOK(old) /\ Len(old) = n /\ \A i \in 1 .. n : ~old[i].live
    BY <1>5, <1>6, <2>1, RetiredOK
  <2>4. FramesOK(old)' /\ old \in Seq(FrameType)
    BY <1>3, <2>3, FramesStay DEF FramesOK
  <2>5. rest \in Seq(FrameType)
    BY <2>1, <2>4, ReturnedOK
  <2>6. HeadsOK(rest)'
    <3>1. HeadsOK(old)'
      BY <2>3 DEF HeadsOK
    <3> QED
      BY <2>1, <2>4, <3>1, ReturnedHeads
  <2>7. job' = [job EXCEPT !.frames = all]
    BY <1>8, <2>1
  <2>8. /\ job'.op = job.op /\ job'.effect = job.effect /\ job'.due = job.due
        /\ job'.at = job.at /\ job'.frames = all
    BY <1>1, <2>7 DEF JobTypes, Job
  <2>9. HeadOK(ev)'
    BY <1>1, <1>3, <1>7, <2>8, HeadStays
  <2>10. HeadOK(f.todo[1])'
    BY <2>2, <2>9
  <2>11. HeadsOK(all)'
    BY <2>1, <2>2, <2>5, <2>6, <2>10, PushedHeads
  <2>12. JobIntended'
    BY <1>1, <1>3, <1>6, <2>8, JobKeeps DEF RunningAt
  <2>13. HeadsOK(job.frames)'
    BY <2>8, <2>11
  <2> QED
    BY <1>3, <1>4, <2>12, <2>13, LifeIs
<1>9. CASE job' = WithTop([top EXCEPT !.todo = Tail(@)])
  <2>1. PICK rest : rest = Tail(todo) /\ rest \in Seq(Incoming) /\ InertFrom(rest, 0)
    BY <1>5, <1>6, TailIsInert DEF FrameOK
  <2>2. PICK after : after = [top EXCEPT !.todo = rest]
    OBVIOUS
  <2>3. after \in FrameType /\ after.todo = rest
    BY <1>6, <2>1, <2>2 DEF FrameType
  <2>4. job' = WithTop(after)
    BY <1>5, <1>9, <2>1, <2>2
  <2>5. ASSUME after.todo # <<>>
        PROVE  HeadOK(after.todo[1])'
    <3>1. PICK head : head = rest[1]
      OBVIOUS
    <3>2. 1 \in 1 .. Len(rest) /\ 1 > 0
      BY <2>1, <2>3, <2>5
    <3>3. head.kind \in InertKinds
      BY <2>1, <3>1, <3>2 DEF InertFrom
    <3>4. HeadOK(head)'
      BY <3>3, InertIsOK
    <3> QED
      BY <2>3, <3>1, <3>4
  <2>6. 0 < Len(frames)
    BY <1>5, <1>6
  <2>7. /\ HeadsOK(job.frames)'
        /\ job'.op = job.op /\ job'.effect = job.effect /\ job'.due = job.due
        /\ job'.at = job.at
    BY <1>1, <1>5, <1>6, <2>3, <2>4, <2>5, <2>6, TopHeads
  <2>8. JobIntended'
    BY <1>1, <1>3, <1>6, <2>7, JobKeeps DEF RunningAt
  <2> QED
    BY <1>3, <1>4, <2>7, <2>8, LifeIs
<1>10. CASE JobThrown
  BY <1>3, <1>4, <1>10, NoJobIsIntended, LifeIs DEF JobThrown
<1> QED
  BY <1>5, <1>8, <1>9, <1>10, RefusedIs

LEMMA CrashAdvances ==
  ASSUME SettlementInv, SettlementInv', LifeInv, Crash \/ CrashAfterAppend
  PROVE  LifeInv' /\ [Lifecycle!Next]_Lifecycle!vars
<1>1. /\ LogOK /\ JobOK /\ JobTypes /\ RowTypes
      /\ TurnInv /\ RowsIntended /\ JobIntended /\ HeadsOK(job.frames) /\ LogOK'
  BY LifeParts DEF SettlementInv
<1>2. UNCHANGED rows /\ job' = NoJob
  BY DEF Crash, CrashAfterAppend, Die
<1>3. ASSUME TurnInv', LoggedStays, [Lifecycle!Next]_Lifecycle!vars
      PROVE  LifeInv' /\ [Lifecycle!Next]_Lifecycle!vars
  <2>1. RowsIntended'
    BY <1>1, <1>2, <1>3, RowsShrink
  <2> QED
    BY <1>2, <1>3, <2>1, NoJobIsIntended, LifeIs
<1>4. CASE Crash
  BY <1>1, <1>3, <1>4, RestingTurn DEF Crash
<1>5. CASE CrashAfterAppend
  <2>1. Running /\ job.frames # <<>>
    BY <1>5 DEF CrashAfterAppend
  <2>2. PICK top, n, fold, ev, items :
          /\ top = Top /\ n = Len(job.frames) /\ fold = top.fold /\ ev = Head(top.todo)
          /\ items = StepOutput(fold, ev).append
    OBVIOUS
  <2>3. /\ n \in Nat \ {0} /\ top \in FrameType /\ FrameOK(top, n, n)
        /\ top.todo \in Seq(Incoming) /\ 0 < Len(top.todo) /\ ev \in Incoming
    BY <1>1, <2>1, <2>2, TopIs
  <2>4. items # <<>> /\ Refusal(items, fold) = "none" /\ log' = Appended(items)
    BY <1>5, <2>2 DEF CrashAfterAppend
  <2>5. top.live
    BY <2>2, <2>3, <2>4, StaleStep
  <2>6. Current(fold)
    BY <2>2, <2>3, <2>5 DEF FrameOK
  <2>7. HeadOK(ev)
    BY <1>1, <2>1, <2>2, TopHead
  <2>8. job.op = "failed" => Intended(job.effect) /\ job.effect[1] # "prep"
    BY <1>1 DEF JobIntended
  <2>9. TurnInv' /\ LoggedStays /\ [Lifecycle!Next]_Lifecycle!vars
    BY <1>1, <2>2, <2>3, <2>4, <2>6, <2>7, <2>8, AcceptedTurn
  <2> QED
    BY <1>3, <2>9
<1> QED
  BY <1>4, <1>5

(***************************************************************************)
(* The theorem.                                                            *)
(***************************************************************************)

LEMMA LifeStarts ==
  ASSUME Init
  PROVE  LifeInv /\ Lifecycle!Init
<1> DEFINE ev == Ev("message.started", 1, "request")
<1>1. ev \in Event /\ ev.kind = "message.started" /\ ev.of = 1
  BY EvIs DEF Kinds, Hows, Ofs
<1>2. log = <<ev>> /\ job = NoJob
  BY DEF Init
<1> HIDE DEF ev
<1>3. /\ log \in Seq(Event) /\ Len(log) = 1 /\ log[1] = ev
      /\ \A i \in 1 .. Len(log) : i = 1
  BY <1>1, <1>2
<1>4. /\ \A kind : kind # "message.started" => Logged(log, kind) = {}
      /\ Logged(log, "message.started") = {1}
  <2>1. \A kind, x : x \in Logged(log, kind) <=>
                       \E i \in 1 .. Len(log) : log[i].kind = kind /\ log[i].of = x
    BY <1>3, LoggedOf
  <2>2. 1 \in 1 .. Len(log)
    BY <1>3
  <2> QED
    BY <1>1, <1>3, <2>1, <2>2
<1>5. /\ At(log, {"message.started"}) = {1}
      /\ At(log, {"turn.closed"}) = {}
  BY <1>1, <1>3 DEF At
<1>6. TurnInv
  <2>1. ModelCallsAlternate
    BY <1>1, <1>3, <1>4 DEF ModelCallsAlternate, Called, Asked
  <2>2. CallsAreLegal
    BY <1>4 DEF CallsAreLegal, Called, Asked, Ruled, Ended
  <2>3. DecisionsComeLast /\ PreparationsSucceed
    BY <1>1, <1>3 DEF DecisionsComeLast, PreparationsSucceed
  <2>4. CallsFollowAnswers /\ SteersAreReceived
    BY <1>1, <1>3, <1>4 DEF CallsFollowAnswers, SteersAreReceived
  <2> QED
    BY <2>1, <2>2, <2>3, <2>4 DEF TurnInv
<1>7. RowsIntended
  <2>1. \A e \in Effects : rows[e] # "none" => e = Model(1)
    BY DEF Init
  <2>2. Intended(Model(1))
    BY <1>4 DEF Intended, Model, Begun
  <2> QED
    BY <2>1, <2>2 DEF RowsIntended
<1>8. JobIntended /\ HeadsOK(job.frames)
  BY <1>2 DEF NoJob, JobIntended, HeadsOK
<1>9. Lifecycle!Init
  <2>1. ModelCallCount(log) = 1
    BY <1>5, FS_Singleton DEF ModelCallCount
  <2>2. Cardinality(Logged(log, "message.terminal")) = 0
    BY <1>4, FS_EmptySet
  <2>3. Open(log)
    BY <1>5 DEF Open
  <2>4. PendingInvocations(log) = {} /\ PendingApprovals(log) = {}
    BY <1>4 DEF PendingInvocations, PendingApprovals
  <2> QED
    BY <1>4, <2>1, <2>2, <2>3, <2>4 DEF Lifecycle!Init
<1> QED
  BY <1>6, <1>7, <1>8, <1>9 DEF LifeInv

LEMMA LifeSteps ==
  ASSUME SettlementInv, SettlementInv', LifeInv, "prep" \notin ExhaustKinds, [Next]_vars
  PROVE  LifeInv' /\ [Lifecycle!Next]_Lifecycle!vars
<1>1. CASE JobStep
  BY <1>1, AppendAdvances, CommitAdvances, DropAdvances, ClearAdvances, AcceptedAdvances,
     RefusedAdvances, ReturnAdvances, SettleAdvances, ReloadAdvances, RecoverAdvances,
     GiveUpAdvances DEF JobStep
<1>2. ASSUME NEW e \in Effects, EffectStep(e)
      PROVE  LifeInv' /\ [Lifecycle!Next]_Lifecycle!vars
  BY <1>2, QuietAdvance, StartAdvances DEF EffectStep
<1>3. CASE (\E s \in Steers : StartSteer(s)) \/ StartAdoption
  BY <1>3, StartAdvances
<1>4. CASE Foreign
  BY <1>4, ForeignAdvances
<1>5. CASE Crash \/ CrashAfterAppend
  BY <1>5, CrashAdvances
<1>6. CASE UNCHANGED vars
  <2>1. /\ LogOK /\ JobTypes /\ RowTypes
        /\ TurnInv /\ RowsIntended /\ JobIntended /\ HeadsOK(job.frames)
    BY LifeParts
  <2>2. UNCHANGED <<log, rows, job>>
    BY <1>6 DEF vars, durable, volatile
  <2>3. /\ LogOK' /\ OthersAppend
        /\ TurnInv' /\ LoggedStays /\ [Lifecycle!Next]_Lifecycle!vars
    BY <2>1, <2>2, RestingTurn
  <2>4. RowsIntended'
    BY <2>1, <2>2, <2>3, RowsShrink
  <2>5. JobIntended'
    BY <2>1, <2>2, <2>3, JobKeeps DEF JobIntended
  <2>6. HeadsOK(job.frames)'
    <3>1. PICK frames : frames = job.frames
      OBVIOUS
    <3>2. HeadsOK(frames)'
      <4>1. ASSUME NEW ev, HeadOK(ev)
            PROVE  HeadOK(ev)'
        BY <2>1, <2>2, <2>3, <4>1, HeadStays
      <4> QED
        BY <2>1, <3>1, <4>1 DEF HeadsOK
    <3> QED
      BY <2>2, <3>1, <3>2
  <2> QED
    BY <2>3, <2>4, <2>5, <2>6, LifeIs
<1> QED
  BY <1>1, <1>2, <1>3, <1>4, <1>5, <1>6 DEF Next

\* Every append of the step function, of an outcome and of the stranded-turn recovery is a
\* step of the abstract turn: whatever dies, is retried, steered, answered twice or gated, an
\* intention is logged once and answered once, no model call begins beside open work, and
\* the turn closes on nothing open.  A preparation that is given up is outside: its failure
\* asks for the next model call beside a pending call (MCFailedPreparation.cfg).
THEOREM LogKeepsTurn ==
  ASSUME "prep" \notin ExhaustKinds
  PROVE  Spec => ImplementsLifecycle
<1>1. Init => LifeInv /\ Lifecycle!Init
  BY LifeStarts
<1>2. SettlementInv /\ SettlementInv' /\ LifeInv /\ [Next]_vars
        => LifeInv' /\ [Lifecycle!Next]_Lifecycle!vars
  BY LifeSteps
<1> QED
  BY <1>1, <1>2, SettlementHolds, PTL DEF Spec, ImplementsLifecycle, Lifecycle!Spec

(***************************************************************************)
(* The outbox follows the log.                                             *)
(*                                                                         *)
(* The effects a log derives change with what is appended, the rows with   *)
(* what a step inserts and a settlement reconciles.  In between, the two   *)
(* may differ; OutboxInv says when they agree.                             *)
(***************************************************************************)

\* The preparation that is due: of the pending ones, the first that was received.
NextPreparations(L) ==
  {L[i].of : i \in {j \in At(L, {"received"}) :
                      /\ L[j].of \in PendingPreparations(L)
                      /\ \A k \in At(L, {"received"}) :
                            k < j => L[k].of \notin PendingPreparations(L)}}

LEMMA DerivedIs ==
  ASSUME NEW L
  PROVE  \A e : e \in Derived(L) <=>
           \/ \E n \in InFlight(L) : e = Model(n)
           \/ \E c \in PendingInvocations(L) :
                (c \in Gated => c \in Granted(L)) /\ e = Call(c)
           \/ \E c \in PendingApprovals(L) : e = Form(c)
           \/ \E s \in NextPreparations(L) : e = Prep(s)
<1>1. Derived(L) = {Model(n) : n \in InFlight(L)}
        \cup {Call(c) : c \in {t \in PendingInvocations(L) : t \in Gated => t \in Granted(L)}}
        \cup {Form(c) : c \in PendingApprovals(L)}
        \cup {Prep(s) : s \in NextPreparations(L)}
  BY DEF Derived, NextPreparations
<1> QED
  BY <1>1

\* M is L and, behind it, events of none of these kinds.
Longer(L, M, kinds) ==
  /\ L \in Seq(Event) /\ M \in Seq(Event) /\ Len(L) <= Len(M)
  /\ \A i \in 1 .. Len(L) : M[i] = L[i]
  /\ \A i \in 1 .. Len(M) : i > Len(L) => M[i].kind \notin kinds

\* These are where they were.
LEMMA AtStays ==
  ASSUME NEW L, NEW M, NEW kinds, Longer(L, M, kinds), NEW some \in SUBSET kinds
  PROVE  /\ At(M, some) = At(L, some)
         /\ \A i \in At(L, some) : i \in 1 .. Len(L) /\ M[i] = L[i]
<1>1. Len(L) \in Nat /\ Len(M) \in Nat /\ DOMAIN L = 1 .. Len(L) /\ DOMAIN M = 1 .. Len(M)
  BY DEF Longer
<1>2. \A i \in At(M, some) : i \in 1 .. Len(L)
  BY <1>1 DEF At, Longer
<1> QED
  BY <1>1, <1>2 DEF At, Longer

LEMMA LoggedStill ==
  ASSUME NEW L, NEW M, NEW kinds, Longer(L, M, kinds), NEW kind \in kinds
  PROVE  Logged(M, kind) = Logged(L, kind)
<1>1. {kind} \in SUBSET kinds
  OBVIOUS
<1>2. /\ At(M, {kind}) = At(L, {kind})
      /\ \A i \in At(L, {kind}) : M[i] = L[i]
  BY <1>1, AtStays
<1> QED
  BY <1>2 DEF Logged

LEMMA InFlightStill ==
  ASSUME NEW L, NEW M, NEW kinds, Longer(L, M, kinds), TurnLog(L),
         {"message.started", "message.terminal", "turn.closed"} \in SUBSET kinds
  PROVE  InFlight(M) = InFlight(L)
<1>1. {"message.started"} \in SUBSET kinds /\ {"message.terminal", "turn.closed"} \in SUBSET kinds
  OBVIOUS
<1>2. At(M, {"message.started"}) = At(L, {"message.started"})
  BY <1>1, AtStays
<1>3. LastAt(M, {"message.started"}) = LastAt(L, {"message.started"})
  <2>1. PICK i, j : i = LastAt(L, {"message.started"}) /\ j = LastAt(M, {"message.started"})
    OBVIOUS
  <2>2. 1 \in At(L, {"message.started"})
    BY DEF TurnLog, At
  <2>3. i \in At(L, {"message.started"}) /\ \A k \in At(L, {"message.started"}) : k <= i
    BY <2>1, <2>2, LastAtIs DEF TurnLog, At
  <2>4. j \in At(M, {"message.started"}) /\ \A k \in At(M, {"message.started"}) : k <= j
    BY <1>2, <2>1, <2>2, LastAtIs DEF Longer, At
  <2>5. i \in Nat /\ j \in Nat /\ i <= j /\ j <= i
    BY <1>2, <2>3, <2>4 DEF At, Longer
  <2> QED
    BY <2>1, <2>5
<1>4. PICK start : start = LastAt(L, {"message.started"})
  OBVIOUS
<1>5. 1 \in At(L, {"message.started"})
  BY DEF TurnLog, At
<1>6. start \in 1 .. Len(L)
  BY <1>4, <1>5, LastAtIs DEF TurnLog
<1>7. M[start] = L[start]
  BY <1>6 DEF Longer
<1>8. PICK ends : ends = At(L, {"message.terminal", "turn.closed"})
  OBVIOUS
<1>9. /\ At(M, {"message.terminal", "turn.closed"}) = ends
      /\ \A i \in ends : M[i] = L[i]
  BY <1>1, <1>8, AtStays
<1> QED
  BY <1>3, <1>4, <1>7, <1>8, <1>9 DEF InFlight

LEMMA PreparationsStill ==
  ASSUME NEW L, NEW M, NEW kinds, Longer(L, M, kinds),
         {"received", "artifacts.ready", "artifacts.failed"} \in SUBSET kinds
  PROVE  NextPreparations(M) = NextPreparations(L)
<1>1. PendingPreparations(M) = PendingPreparations(L)
  BY LoggedStill DEF PendingPreparations
<1>2. {"received"} \in SUBSET kinds
  OBVIOUS
<1>3. /\ At(M, {"received"}) = At(L, {"received"})
      /\ \A i \in At(L, {"received"}) : M[i] = L[i]
  BY <1>2, AtStays
<1> QED
  BY <1>1, <1>3 DEF NextPreparations

\* Ends of invocations and denials take from what a log derives those that they end.
EndKinds == {"invocation.terminal", "approval.resolved", "foreign"}

EndsOnly(L, M) ==
  /\ Longer(L, M, Kinds \ EndKinds)
  /\ \A i \in 1 .. Len(M) : i > Len(L) /\ M[i].kind = "approval.resolved" => M[i].how # "granted"

LEMMA EndsDerive ==
  ASSUME NEW L, NEW M, TurnLog(L), EndsOnly(L, M)
  PROVE  /\ \A e \in Derived(M) : e \in Derived(L)
         /\ \A e \in Derived(L) :
              \/ e \in Derived(M)
              \/ /\ e[1] = "call" /\ e[2] \in Logged(M, "invocation.terminal")
                 /\ e[2] \notin Logged(L, "invocation.terminal")
              \/ /\ e[1] = "form" /\ e[2] \in Logged(M, "approval.resolved")
                 /\ e[2] \notin Logged(L, "approval.resolved")
<1>1. Longer(L, M, Kinds \ EndKinds)
  BY DEF EndsOnly
<1>2. /\ Logged(M, "invocation.started") = Logged(L, "invocation.started")
      /\ Logged(M, "approval.requested") = Logged(L, "approval.requested")
  BY <1>1, LoggedStill DEF Kinds, EndKinds
<1>3. InFlight(M) = InFlight(L) /\ NextPreparations(M) = NextPreparations(L)
  BY <1>1, InFlightStill, PreparationsStill DEF Kinds, EndKinds
<1>4. L \in Seq(Event) /\ M \in Seq(Event) /\ Len(L) \in Nat /\ Len(M) \in Nat
  BY <1>1 DEF Longer
<1>5. \A kind : Logged(L, kind) \subseteq Logged(M, kind)
  <2> SUFFICES ASSUME NEW kind, NEW x \in Logged(L, kind)
               PROVE  x \in Logged(M, kind)
    OBVIOUS
  <2>1. PICK i \in 1 .. Len(L) : L[i].kind = kind /\ L[i].of = x
    BY <1>4, LoggedOf
  <2>2. i \in 1 .. Len(M) /\ M[i] = L[i]
    BY <1>1, <1>4 DEF Longer
  <2> QED
    BY <1>4, <2>1, <2>2, LoggedOf
<1>6. Granted(M) = Granted(L)
  <2>1. \A i \in 1 .. Len(L) : i \in 1 .. Len(M) /\ M[i] = L[i]
    BY <1>1, <1>4 DEF Longer
  <2>2. \A i \in 1 .. Len(M) : M[i].kind = "approval.resolved" /\ M[i].how = "granted" => i \in 1 .. Len(L)
    BY <1>4 DEF EndsOnly
  <2>3. DOMAIN L = 1 .. Len(L) /\ DOMAIN M = 1 .. Len(M)
    BY <1>4
  <2>4. {j \in At(M, {"approval.resolved"}) : M[j].how = "granted"}
          = {j \in At(L, {"approval.resolved"}) : L[j].how = "granted"}
    BY <2>1, <2>2, <2>3 DEF At
  <2>5. \A j \in At(L, {"approval.resolved"}) : M[j] = L[j]
    BY <2>1, <2>3 DEF At
  <2> QED
    BY <2>4, <2>5 DEF Granted
<1>7. /\ PendingInvocations(M) \subseteq PendingInvocations(L)
      /\ PendingApprovals(M) \subseteq PendingApprovals(L)
      /\ \A c \in PendingInvocations(L) : c \in PendingInvocations(M)
           \/ c \in Logged(M, "invocation.terminal") \ Logged(L, "invocation.terminal")
      /\ \A c \in PendingApprovals(L) : c \in PendingApprovals(M)
           \/ c \in Logged(M, "approval.resolved") \ Logged(L, "approval.resolved")
  BY <1>2, <1>5 DEF PendingInvocations, PendingApprovals
<1>8. \A c : Call(c)[1] = "call" /\ Call(c)[2] = c /\ Form(c)[1] = "form" /\ Form(c)[2] = c
  BY DEF Call, Form
<1>9. ASSUME NEW e \in Derived(M)
      PROVE  e \in Derived(L)
  BY <1>3, <1>6, <1>7, DerivedIs
<1>10. ASSUME NEW e \in Derived(L)
       PROVE  \/ e \in Derived(M)
              \/ /\ e[1] = "call" /\ e[2] \in Logged(M, "invocation.terminal")
                 /\ e[2] \notin Logged(L, "invocation.terminal")
              \/ /\ e[1] = "form" /\ e[2] \in Logged(M, "approval.resolved")
                 /\ e[2] \notin Logged(L, "approval.resolved")
  <2>1. CASE \E c \in PendingInvocations(L) : (c \in Gated => c \in Granted(L)) /\ e = Call(c)
    BY <1>6, <1>7, <1>8, <2>1, DerivedIs
  <2>2. CASE \E c \in PendingApprovals(L) : e = Form(c)
    BY <1>7, <1>8, <2>2, DerivedIs
  <2>3. CASE (\E n \in InFlight(L) : e = Model(n)) \/ (\E s \in NextPreparations(L) : e = Prep(s))
    BY <1>3, <2>3, DerivedIs
  <2> QED
    BY <2>1, <2>2, <2>3, DerivedIs
<1> QED
  BY <1>9, <1>10

\* What other writers append derives nothing.
LEMMA OthersDerive ==
  ASSUME NEW L, NEW M, TurnLog(L), Longer(L, M, Kinds \ {"foreign"})
  PROVE  Derived(M) = Derived(L)
<1>1. EndsOnly(L, M)
  BY DEF EndsOnly, Longer, EndKinds, Kinds
<1>2. /\ Logged(M, "invocation.terminal") = Logged(L, "invocation.terminal")
      /\ Logged(M, "approval.resolved") = Logged(L, "approval.resolved")
  BY LoggedStill DEF Kinds
<1> QED
  BY <1>1, <1>2, EndsDerive

LEMMA CurrentDerives ==
  ASSUME LogOK, NEW fold, Current(fold)
  PROVE  Derived(fold) = Derived(log)
<1>1. TurnLog(fold)
  BY FoldIsTurnLog DEF Current
<1>2. Longer(fold, log, Kinds \ {"foreign"})
  BY DEF Longer, Current, Folds, LogOK
<1> QED
  BY <1>1, <1>2, OthersDerive

LEMMA DerivedStays ==
  ASSUME LogOK, LogOK', OthersAppend
  PROVE  Derived(log)' = Derived(log)
<1>1. TurnLog(log)
  BY DEF TurnLog, LogOK
<1>2. PICK next : next = log'
  OBVIOUS
<1>3. Longer(log, next, Kinds \ {"foreign"})
  BY <1>2 DEF Longer, OthersAppend, LogOK
<1>4. Derived(next) = Derived(log)
  BY <1>1, <1>3, OthersDerive
<1> QED
  BY <1>2, <1>4

\* Nothing is left to recover: the activation has woken, and no outcome waits for a wake.
NothingToRecover == recovered /\ \A e \in Effects : wakes[e] = "none"

\* What the log derives is queued, and what is queued is derived or was given up.
Agrees ==
  \A e \in Effects :
    /\ e \in Derived(log) => rows[e] # "none"
    /\ rows[e] # "none" => e \in Derived(log) \/ e[1] \in ExhaustKinds

\* What an activation may step while the rows agree with the log.
Fits(ev) ==
  /\ ev.kind # "wake"
  /\ ev.kind = "approval.resolved" => \E i \in 1 .. Len(log) : log[i] = ev

\* Nothing is left that would append, so that the job goes on to its settlement.
Spent(frames) == \A i \in 1 .. Len(frames) : InertFrom(frames[i].todo, 0)

NextEvent(frames) == frames[Len(frames)].todo[1]

Recovering == job.at \in {"recover", "giveup"}

OutboxOK ==
  /\ \/ job.at = "clear"
     \/ Recovering /\ ~job.due /\ job.op \notin {"outcome", "push"}
     => Agrees
  /\ NothingToRecover =>
       /\ job.at # "reload"
       /\ job.at \in {"free", "append"} \/ Recovering => Agrees
       /\ RunningAt(job.at) => Spent(job.frames) \/ (Agrees /\ Fits(NextEvent(job.frames)))

\* The effect is given up: the log has its end before its row goes.
Concluded(e) ==
  /\ e[1] = "call" => e[2] \in Ended
  /\ e[1] = "form" => e[2] \in Ruled

FailureOK ==
  job.op = "failed" =>
    /\ job.effect \in Effects /\ job.effect[1] \in ExhaustKinds
    /\ \/ job.due \/ Concluded(job.effect)
       \/ job.at = "run" /\ job.frames # <<>> /\ NextEvent(job.frames).kind = "effect-failed"

CommitKnows == job.at = "commit" => job.effect \in Effects

OutboxInv == OutboxOK /\ FailureOK /\ CommitKnows

LEMMA OutboxParts ==
  ASSUME SettlementInv, LifeInv, OutboxInv
  PROVE  /\ LogOK /\ JobOK /\ JobTypes /\ RestTypes /\ RowTypes
         /\ TurnInv /\ JobIntended /\ HeadsOK(job.frames)
         /\ OutboxOK /\ FailureOK /\ CommitKnows
BY Parts, LifeParts DEF OutboxInv

\* Within a job there is not less to recover than before.
LEMMA StillToRecover ==
  ASSUME \A e \in Effects : wakes'[e] = "none" => wakes[e] = "none",
         recovered' => recovered
  PROVE  NothingToRecover' => NothingToRecover
BY DEF NothingToRecover

LEMMA RestRecovers ==
  ASSUME UNCHANGED <<wakes, recovered>>
  PROVE  NothingToRecover' => NothingToRecover
BY DEF NothingToRecover

LEMMA AgreesStays ==
  ASSUME Derived(log)' = Derived(log), Agrees,
         \A e \in Effects : rows'[e] = "none" <=> rows[e] = "none"
  PROVE  Agrees'
BY DEF Agrees

LEMMA AgreesRests ==
  ASSUME UNCHANGED <<log, rows>>, Agrees
  PROVE  Agrees'
BY DEF Agrees

\* A settlement brings them together.
LEMMA ReconciledAgrees ==
  ASSUME LogOK, UNCHANGED log, NEW fold, Current(fold), NEW table,
         rows' = Reconciled(fold, table)
  PROVE  Agrees'
<1>1. Derived(fold) = Derived(log)
  BY CurrentDerives
<1>2. \A e \in Effects : Inserted(table, {e})[e] # "none"
  BY DEF Inserted
<1>3. \A e \in Effects : rows'[e] # "none" <=> e \in Derived(fold)
  BY <1>2 DEF Reconciled
<1>4. \A e \in Effects : rows'[e] # "none" <=> e \in Derived(log)'
  BY <1>1, <1>3
<1> QED
  BY <1>4 DEF Agrees

\* What was logged before a job ends is logged behind it.
LEMMA StillConcluded ==
  ASSUME Ended \subseteq Ended', Ruled \subseteq Ruled', NEW e, Concluded(e)
  PROVE  Concluded(e)'
BY DEF Concluded

LEMMA ConcludedIsOver ==
  ASSUME NEW e \in Effects, e[1] \in {"call", "form"}, Concluded(e)
  PROVE  e \notin Derived(log)
<1>1. \A c : /\ Call(c)[1] = "call" /\ Call(c)[2] = c /\ Form(c)[1] = "form" /\ Form(c)[2] = c
             /\ Model(c)[1] = "model" /\ Prep(c)[1] = "prep"
  BY DEF Call, Form, Model, Prep
<1>2. \A c \in PendingInvocations(log) : c \notin Ended
  BY DEF PendingInvocations, Ended
<1>3. \A c \in PendingApprovals(log) : c \notin Ruled
  BY DEF PendingApprovals, Ruled
<1> QED
  BY <1>1, <1>2, <1>3, DerivedIs DEF Concluded

\* Of the failure of an effect, whatever a job without activations does.
LEMMA FailureGoesOn ==
  ASSUME FailureOK, Ended \subseteq Ended', Ruled \subseteq Ruled',
         job'.op = job.op, job'.effect = job.effect, job'.due = job.due,
         job.at # "run" \/ job.frames = <<>>
  PROVE  FailureOK'
<1>1. PICK e : e = job.effect
  OBVIOUS
<1>2. Concluded(e) => Concluded(e)'
  BY StillConcluded
<1> QED
  BY <1>1, <1>2 DEF FailureOK

\* Executors, the host and other writers leave rows where they are.
LEMMA Undisturbed ==
  ASSUME LogOK, LogOK', OthersAppend, OutboxInv, UNCHANGED <<job, recovered>>,
         \A e \in Effects : rows'[e] = "none" <=> rows[e] = "none",
         \A e \in Effects : wakes'[e] = "none" => wakes[e] = "none"
  PROVE  OutboxInv'
<1>1. Ended' = Ended /\ Ruled' = Ruled
  BY OthersKeepSets DEF Ended, Ruled
<1>2. NothingToRecover' => NothingToRecover
  BY StillToRecover
<1>3. Agrees => Agrees'
  BY DerivedStays, AgreesStays
<1>4. PICK frames, ev : frames = job.frames /\ ev = NextEvent(frames)
  OBVIOUS
<1>5. Fits(ev) => Fits(ev)'
  <2>1. \A i \in 1 .. Len(log) : i \in 1 .. Len(log') /\ log'[i] = log[i]
    BY DEF OthersAppend
  <2> QED
    BY <2>1 DEF Fits
<1>6. Fits(NextEvent(job.frames))' <=> Fits(ev)'
  BY <1>4
<1>7. OutboxOK'
  BY <1>2, <1>3, <1>4, <1>5, <1>6 DEF OutboxInv, OutboxOK, Recovering
<1>8. PICK e : e = job.effect
  OBVIOUS
<1>9. Concluded(e) => Concluded(e)'
  BY <1>1, StillConcluded
<1>10. FailureOK'
  BY <1>8, <1>9 DEF OutboxInv, FailureOK
<1> QED
  BY <1>7, <1>10 DEF OutboxInv, CommitKnows

LEMMA QuietKeepsOutbox ==
  ASSUME SettlementInv, LifeInv, OutboxInv, NEW e \in Effects,
         Claim(e) \/ Park(e) \/ Discard(e) \/ FreeLease(e) \/ ClaimWake(e)
  PROVE  OutboxInv'
<1>1. LogOK /\ RestTypes /\ RowTypes
  BY OutboxParts
<1>2. UNCHANGED <<log, job, steered, recovered>>
  BY DEF Claim, Park, Discard, FreeLease, ClaimWake, durable, volatile
<1>3. LogOK' /\ OthersAppend
  BY <1>1, <1>2, LogRests
<1>4. \A x \in Effects : rows'[x] = "none" <=> rows[x] = "none"
  BY <1>1 DEF Claim, Park, Discard, FreeLease, ClaimWake, durable, RowTypes
<1>5. \A x \in Effects : wakes'[x] = "none" => wakes[x] = "none"
  BY <1>1 DEF Claim, Park, Discard, FreeLease, ClaimWake, durable, RestTypes
<1> QED
  BY <1>1, <1>2, <1>3, <1>4, <1>5, Undisturbed

LEMMA ForeignKeepsOutbox ==
  ASSUME SettlementInv, SettlementInv', LifeInv, OutboxInv, Foreign
  PROVE  OutboxInv'
<1>1. LogOK /\ LogOK'
  BY OutboxParts DEF SettlementInv
<1>2. OthersAppend
  BY <1>1, ForeignAppends
<1>3. UNCHANGED <<rows, wakes, job, steered, recovered>>
  BY DEF Foreign, volatile
<1> QED
  BY <1>1, <1>2, <1>3, Undisturbed

\* A job begins.
LEMMA BeginKeepsOutbox ==
  ASSUME OutboxInv, NEW op, NEW at, NEW e, NEW how, Begin(op, at, e, how),
         \/ at = "append" /\ op \in {"outcome", "push"}
         \/ at = "recover" /\ op \in {"outcome", "push", "steer", "failed"}
         \/ at = "reload" /\ op \in {"wake", "adoption"} /\ ~NothingToRecover,
         op = "failed" => e \in Effects /\ e[1] \in ExhaustKinds
  PROVE  OutboxInv'
<1>1. job' = [NoJob EXCEPT !.op = op, !.at = at, !.effect = e, !.how = how,
                           !.due = op \in {"steer", "failed"}]
      /\ Free /\ UNCHANGED <<log, rows, wakes, steered, recovered>>
  BY DEF Begin, durable
<1>2. /\ job'.op = op /\ job'.at = at /\ job'.effect = e
      /\ job'.due = (op \in {"steer", "failed"})
  BY <1>1 DEF NoJob
<1>3. NothingToRecover' <=> NothingToRecover
  BY <1>1 DEF NothingToRecover
<1>4. NothingToRecover => Agrees
  BY <1>1 DEF OutboxInv, OutboxOK, Free
<1>5. Agrees => Agrees'
  BY <1>1, AgreesRests
<1>6. OutboxOK'
  BY <1>2, <1>3, <1>4, <1>5 DEF OutboxOK, Recovering, RunningAt
<1>7. FailureOK' /\ CommitKnows'
  BY <1>2 DEF FailureOK, CommitKnows
<1> QED
  BY <1>6, <1>7 DEF OutboxInv

LEMMA StartKeepsOutbox ==
  ASSUME SettlementInv, LifeInv, OutboxInv,
         \/ \E e \in Effects : Answer(e) \/ Push(e) \/ StartFailed(e) \/ StartWake(e)
         \/ \E s \in Steers : StartSteer(s)
         \/ StartAdoption
  PROVE  OutboxInv'
<1>1. ASSUME NEW e \in Effects, Answer(e) \/ Push(e)
      PROVE  OutboxInv'
  <2>1. PICK op \in {"outcome", "push"}, at \in {"append", "recover"}, how \in Outcomes(e) :
          Begin(op, at, e, how)
    <3>1. PICK op \in {"outcome", "push"}, how \in Outcomes(e) : Settling(op, e, how)
      BY <1>1 DEF Answer, Push, StartOutcome, StartPush
    <3> QED
      BY <3>1 DEF Settling
  <2> QED
    BY <2>1, BeginKeepsOutbox
<1>2. ASSUME NEW e \in Effects, StartFailed(e)
      PROVE  OutboxInv'
  BY <1>2, BeginKeepsOutbox DEF StartFailed
<1>3. ASSUME NEW e \in Effects, StartWake(e)
      PROVE  OutboxInv'
  <2>1. ~NothingToRecover
    BY <1>3 DEF StartWake, NothingToRecover
  <2> QED
    BY <1>3, <2>1, BeginKeepsOutbox DEF StartWake
<1>4. ASSUME NEW s \in Steers, StartSteer(s)
      PROVE  OutboxInv'
  BY <1>4, BeginKeepsOutbox DEF StartSteer
<1>5. ASSUME StartAdoption
      PROVE  OutboxInv'
  <2>1. ~NothingToRecover
    BY <1>5 DEF StartAdoption, NothingToRecover
  <2> QED
    BY <1>5, <2>1, BeginKeepsOutbox DEF StartAdoption
<1> QED
  BY <1>1, <1>2, <1>3, <1>4, <1>5

(***************************************************************************)
(* Steps without activations.                                              *)
(***************************************************************************)

\* An error that leaves the job.
LEMMA ThrownKeepsOutbox ==
  ASSUME RestTypes, JobThrown, UNCHANGED <<log, rows>>, NothingToRecover => Agrees
  PROVE  OutboxInv'
<1>1. job' = NoJob /\ UNCHANGED recovered
  BY DEF JobThrown
<1>2. \A e \in Effects : wakes'[e] = "none" => wakes[e] = "none"
  BY DEF JobThrown, RestTypes
<1>3. NothingToRecover' => NothingToRecover
  BY <1>1, <1>2, StillToRecover
<1>4. Agrees => Agrees'
  BY AgreesRests
<1>5. job'.at = "free" /\ job'.op = "none"
  BY <1>1, NoJobIs
<1> QED
  BY <1>3, <1>4, <1>5 DEF OutboxInv, OutboxOK, FailureOK, CommitKnows, Recovering, RunningAt

\* A job goes on in a phase of which nothing is asked.
LEMMA PhaseIs ==
  ASSUME JobTypes, NEW phase, Goto(phase)
  PROVE  /\ job'.op = job.op /\ job'.effect = job.effect /\ job'.due = job.due
         /\ job'.at = phase /\ job'.frames = <<>>
BY DEF Goto, JobTypes, Job

LEMMA OneNext ==
  ASSUME NEW f, NEW frames, frames = <<f>>
  PROVE  NextEvent(frames) = f.todo[1]
<1>1. Len(frames) = 1 /\ frames[1] = f
  OBVIOUS
<1> QED
  BY <1>1 DEF NextEvent

LEMMA RunIs ==
  ASSUME JobTypes, NEW phase, NEW fold, NEW todo, RunAt(phase, fold, todo)
  PROVE  /\ job'.op = job.op /\ job'.effect = job.effect /\ job'.due = job.due
         /\ job'.at = phase
         /\ job'.frames = <<Frame(fold, todo, AppendRetries, TRUE)>>
         /\ NextEvent(job'.frames) = todo[1]
<1>1. PICK f : f = Frame(fold, todo, AppendRetries, TRUE)
  OBVIOUS
<1>2. job' = [job EXCEPT !.at = phase, !.frames = <<f>>]
  BY <1>1 DEF RunAt
<1>3. /\ job'.op = job.op /\ job'.effect = job.effect /\ job'.due = job.due
      /\ job'.at = phase /\ job'.frames = <<f>>
  BY <1>2 DEF JobTypes, Job
<1>4. f.todo = todo
  BY <1>1 DEF Frame
<1>5. PICK frames : frames = <<f>>
  OBVIOUS
<1>6. NextEvent(frames) = todo[1]
  BY <1>4, <1>5, OneNext
<1> QED
  BY <1>1, <1>3, <1>5, <1>6

LEMMA UnaskedPhase ==
  ASSUME JobTypes, FailureOK, Ended \subseteq Ended', Ruled \subseteq Ruled',
         job.at # "run" \/ job.frames = <<>>,
         NEW phase \in {"settle", "resettle", "giveupsettle", "drop"}, Goto(phase)
  PROVE  OutboxInv'
<1>1. /\ job'.op = job.op /\ job'.effect = job.effect /\ job'.due = job.due
      /\ job'.at = phase
  BY PhaseIs
<1>2. FailureOK'
  BY <1>1, FailureGoesOn
<1> QED
  BY <1>1, <1>2 DEF OutboxInv, OutboxOK, CommitKnows, Recovering, RunningAt

\* A settlement, in whatever phase it ends.
LEMMA AgreedPhase ==
  ASSUME JobTypes, FailureOK, UNCHANGED log, Agrees', job.at # "run",
         NEW phase \in {"clear", "recover", "giveup"}, Goto(phase)
  PROVE  OutboxInv'
<1>1. /\ job'.op = job.op /\ job'.effect = job.effect /\ job'.due = job.due
      /\ job'.at = phase
  BY PhaseIs
<1>2. Ended' = Ended /\ Ruled' = Ruled
  BY DEF Ended, Ruled
<1>3. FailureOK'
  BY <1>1, <1>2, FailureGoesOn
<1> QED
  BY <1>1, <1>3 DEF OutboxInv, OutboxOK, CommitKnows, Recovering, RunningAt

LEMMA DropKeepsOutbox ==
  ASSUME SettlementInv, LifeInv, OutboxInv, DropOutcome
  PROVE  OutboxInv'
<1>1. LogOK /\ JobOK /\ JobTypes /\ FailureOK
  BY OutboxParts
<1>2. /\ UNCHANGED log /\ job.at = "drop" /\ Goto("recover")
      /\ rows' = Reconciled(Loop, Deleted(rows, job.effect))
  BY DEF DropOutcome
<1>3. PICK fold, table : fold = Loop /\ table = Deleted(rows, job.effect)
  OBVIOUS
<1>4. Agrees'
  BY <1>1, <1>2, <1>3, LoopFolds, ReconciledAgrees
<1> QED
  BY <1>1, <1>2, <1>4, AgreedPhase

LEMMA SettleKeepsOutbox ==
  ASSUME SettlementInv, LifeInv, OutboxInv, Settle
  PROVE  OutboxInv'
<1>1. LogOK /\ JobOK /\ JobTypes /\ FailureOK
  BY OutboxParts
<1>2. UNCHANGED log /\ job.at \notin {"commit", "run"} /\ rows' = Reconciled(Loop, rows)
  BY DEF Settle
<1>3. PICK phase \in {"clear", "recover", "giveup"} : Goto(phase)
  BY DEF Settle
<1>4. PICK fold, table : fold = Loop /\ table = rows
  OBVIOUS
<1>5. Agrees'
  BY <1>1, <1>2, <1>4, LoopFolds, ReconciledAgrees
<1> QED
  BY <1>1, <1>2, <1>3, <1>5, AgreedPhase

LEMMA ClearKeepsOutbox ==
  ASSUME OutboxInv, ClearOutcome
  PROVE  OutboxInv'
<1>1. job.at = "clear" /\ job' = NoJob /\ UNCHANGED <<log, rows>>
  BY DEF ClearOutcome
<1>2. Agrees'
  BY <1>1, AgreesRests DEF OutboxInv, OutboxOK
<1>3. job'.at = "free" /\ job'.op = "none"
  BY <1>1, NoJobIs
<1> QED
  BY <1>2, <1>3 DEF OutboxInv, OutboxOK, FailureOK, CommitKnows, Recovering, RunningAt

LEMMA ReturnKeepsOutbox ==
  ASSUME SettlementInv, LifeInv, OutboxInv, RunReturns
  PROVE  OutboxInv'
<1>1. JobTypes /\ FailureOK
  BY OutboxParts
<1>2. UNCHANGED log /\ job.frames = <<>>
  BY DEF RunReturns
<1>3. PICK phase \in {"settle", "resettle"} : Goto(phase)
  BY DEF RunReturns
<1>4. Ended' = Ended /\ Ruled' = Ruled
  BY <1>2 DEF Ended, Ruled
<1> QED
  BY <1>1, <1>2, <1>3, <1>4, UnaskedPhase

LEMMA ReloadKeepsOutbox ==
  ASSUME SettlementInv, LifeInv, OutboxInv, ReloadForWake
  PROVE  OutboxInv'
<1>1. JobTypes /\ FailureOK /\ OutboxOK
  BY OutboxParts
<1>2. job.at = "reload" /\ UNCHANGED <<log, wakes, steered, recovered>>
  BY DEF ReloadForWake, Rest
<1>3. Ended' = Ended /\ Ruled' = Ruled
  BY <1>2 DEF Ended, Ruled
<1>4. CASE Goto("settle")
  BY <1>1, <1>2, <1>3, <1>4, UnaskedPhase
<1>5. CASE RunAt("run", log, <<Ev("wake", 0, "wake")>>)
  <2>1. PICK fold, todo : fold = log /\ todo = <<Ev("wake", 0, "wake")>>
    OBVIOUS
  <2>2. /\ job'.op = job.op /\ job'.effect = job.effect /\ job'.due = job.due
        /\ job'.at = "run"
    BY <1>1, <1>5, <2>1, RunIs
  <2>3. FailureOK'
    BY <1>1, <1>2, <1>3, <2>2, FailureGoesOn
  <2>4. ~NothingToRecover'
    BY <1>1, <1>2, RestRecovers DEF OutboxOK
  <2> QED
    BY <2>2, <2>3, <2>4 DEF OutboxInv, OutboxOK, CommitKnows, Recovering
<1> QED
  BY <1>4, <1>5 DEF ReloadForWake

\* The row that a commit deletes leaves a recovery row behind.
LEMMA CommitKeepsOutbox ==
  ASSUME SettlementInv, LifeInv, OutboxInv, CommitOutcome
  PROVE  OutboxInv'
<1>1. JobTypes /\ FailureOK /\ CommitKnows /\ RestTypes
  BY OutboxParts
<1>2. job.at = "commit" /\ UNCHANGED log
  BY DEF CommitOutcome
<1>3. job.effect \in Effects
  BY <1>1, <1>2 DEF CommitKnows
<1>4. wakes'[job.effect] # "none"
  BY <1>1, <1>3 DEF CommitOutcome, RestTypes
<1>5. ~NothingToRecover'
  BY <1>3, <1>4 DEF NothingToRecover
<1>6. /\ job'.op = job.op /\ job'.effect = job.effect /\ job'.due = job.due
      /\ job'.at = "run"
  <2>1. PICK frames : job' = [job EXCEPT !.at = "run", !.frames = frames]
    BY DEF CommitOutcome
  <2> QED
    BY <1>1, <2>1 DEF JobTypes, Job
<1>7. FailureOK'
  <2>1. Ended' = Ended /\ Ruled' = Ruled
    BY <1>2 DEF Ended, Ruled
  <2> QED
    BY <1>1, <1>2, <1>6, <2>1, FailureGoesOn
<1> QED
  BY <1>5, <1>6, <1>7 DEF OutboxInv, OutboxOK, CommitKnows, Recovering

\* The terminal event of an outcome.
LEMMA AppendKeepsOutbox ==
  ASSUME SettlementInv, SettlementInv', LifeInv, OutboxInv, AppendOutcome
  PROVE  OutboxInv'
<1>1. LogOK /\ LogOK' /\ JobOK /\ JobTypes /\ RestTypes /\ OutboxOK /\ FailureOK
  BY OutboxParts DEF SettlementInv
<1>2. job.at = "append" /\ UNCHANGED rows
  BY DEF AppendOutcome
<1>3. PICK items : items = OutcomeEvents(job.effect, job.how)
  OBVIOUS
<1>4. CASE /\ log' = Appended(items)
           /\ RunAt("commit", Loop, Envelopes(items, Loop))
  <2>1. job.effect \in Effects /\ job.how \in Hows
    BY <1>1, <1>2 DEF JobTypes
  <2>2. PICK fold : TurnLog(fold) /\ fold = log
    BY <1>1 DEF TurnLog, LogOK
  <2>3. Writes(items)
    BY <1>3, <2>1, <2>2, OutcomeSuits
  <2>4. Ended \subseteq Ended' /\ Ruled \subseteq Ruled'
    BY <1>1, <1>4, <2>3, SetsGrow
  <2>5. PICK loop, todo : loop = Loop /\ todo = Envelopes(items, Loop)
    OBVIOUS
  <2>6. /\ job'.op = job.op /\ job'.effect = job.effect /\ job'.due = job.due
        /\ job'.at = "commit"
    BY <1>1, <1>4, <2>5, RunIs
  <2>7. FailureOK'
    BY <1>1, <1>2, <2>4, <2>6, FailureGoesOn
  <2> QED
    BY <2>1, <2>6, <2>7 DEF OutboxInv, OutboxOK, CommitKnows, Recovering, RunningAt
<1>5. CASE UNCHANGED log /\ JobThrown
  BY <1>1, <1>2, <1>5, ThrownKeepsOutbox DEF OutboxOK
<1>6. CASE /\ job' = [job EXCEPT !.tries = @ + 1]
           /\ UNCHANGED log /\ Rest
  <2>1. /\ job'.op = job.op /\ job'.effect = job.effect /\ job'.due = job.due
        /\ job'.at = "append"
    BY <1>1, <1>2, <1>6 DEF JobTypes, Job
  <2>2. Ended' = Ended /\ Ruled' = Ruled
    BY <1>6 DEF Ended, Ruled
  <2>3. FailureOK'
    BY <1>1, <1>2, <2>1, <2>2, FailureGoesOn
  <2>4. NothingToRecover' => NothingToRecover
    BY <1>6, RestRecovers DEF Rest
  <2>5. Agrees => Agrees'
    BY <1>2, <1>6, AgreesRests
  <2> QED
    BY <1>1, <1>2, <2>1, <2>3, <2>4, <2>5
    DEF OutboxInv, OutboxOK, CommitKnows, Recovering, RunningAt
<1>7. CASE UNCHANGED log /\ Goto("drop")
  <2>1. Ended' = Ended /\ Ruled' = Ruled
    BY <1>7 DEF Ended, Ruled
  <2> QED
    BY <1>1, <1>2, <1>7, <2>1, UnaskedPhase
<1> QED
  BY <1>3, <1>4, <1>5, <1>6, <1>7 DEF AppendOutcome

\* What follows a recovery.
LEMMA AfterRecoveryKeepsOutbox ==
  ASSUME SettlementInv, LifeInv, OutboxInv, Recovering, UNCHANGED log, AfterRecovery
  PROVE  OutboxInv'
<1>1. LogOK /\ JobTypes /\ RowTypes /\ RestTypes /\ OutboxOK /\ FailureOK /\ JobIntended
  BY OutboxParts
<1>2. Ended' = Ended /\ Ruled' = Ruled
  BY DEF Ended, Ruled
<1>3. CASE job.due
  <2>1. PICK ev, f, frames :
          /\ ev = Command /\ f = Frame(log, <<ev>>, AppendRetries, TRUE) /\ frames = <<f>>
    OBVIOUS
  <2>2. job' = [job EXCEPT !.at = "run", !.due = FALSE, !.frames = frames]
        /\ UNCHANGED <<rows, wakes, steered, recovered>>
    BY <1>3, <2>1 DEF AfterRecovery
  <2>3. /\ job'.op = job.op /\ job'.effect = job.effect /\ job'.due = FALSE
        /\ job'.at = "run" /\ job'.frames = frames
    BY <1>1, <2>2 DEF JobTypes, Job
  <2>4. f.todo = <<ev>>
    BY <2>1 DEF Frame
  <2>5. NextEvent(frames) = ev /\ frames # <<>>
    <3>1. NextEvent(frames) = f.todo[1]
      BY <2>1, OneNext
    <3>2. <<ev>>[1] = ev /\ frames # <<>>
      BY <2>1
    <3> QED
      BY <2>4, <3>1, <3>2
  <2>6. ev.kind \in {"steer", "effect-failed"}
        /\ (job.op = "failed" => ev.kind = "effect-failed")
    BY <2>1 DEF Command, Ev
  <2>7. NothingToRecover' => Agrees'
    <3>1. NothingToRecover' => NothingToRecover
      BY <2>2, RestRecovers
    <3>2. Agrees => Agrees'
      BY <2>2, AgreesRests
    <3> QED
      BY <1>1, <3>1, <3>2 DEF OutboxOK
  <2>8. Fits(ev)'
    BY <2>6 DEF Fits
  <2>9. NothingToRecover' => Agrees' /\ Fits(NextEvent(job.frames))'
    BY <2>3, <2>5, <2>7, <2>8
  <2>10. OutboxOK'
    BY <2>3, <2>9 DEF OutboxOK, Recovering
  <2>11. FailureOK'
    BY <1>1, <2>3, <2>5, <2>6 DEF FailureOK
  <2> QED
    BY <2>3, <2>10, <2>11 DEF OutboxInv, CommitKnows
<1>4. CASE ~job.due
  <2>1. /\ job' = NoJob /\ JobDone
        /\ rows' = IF job.op = "failed" THEN Deleted(rows, job.effect) ELSE rows
    BY <1>4 DEF AfterRecovery, JobDone
  <2>2. NothingToRecover' => Agrees
    <3>1. CASE job.op \in {"outcome", "push"}
      <4>1. wakes' = wakes /\ steered' = steered /\ recovered' = recovered
        BY <1>1, <2>1, <3>1 DEF JobDone, RestTypes
      <4>2. NothingToRecover' => NothingToRecover
        BY <4>1, RestRecovers
      <4> QED
        BY <1>1, <4>2 DEF OutboxOK
    <3> QED
      BY <1>1, <1>4, <3>1 DEF OutboxOK
  <2>3. Agrees => Agrees'
    <3>1. CASE job.op = "failed"
      <4>1. PICK e : e = job.effect
        OBVIOUS
      <4>2. e \in Effects /\ e[1] \in ExhaustKinds /\ Concluded(e) /\ e[1] # "prep"
        BY <1>1, <1>4, <3>1, <4>1 DEF FailureOK, JobIntended, Recovering
      <4>3. e[1] \in {"call", "form"}
        BY <4>2, SettlementAssumption
      <4>4. e \notin Derived(log)
        BY <4>2, <4>3, ConcludedIsOver
      <4>5. \A x \in Effects : rows'[x] = IF x = e THEN "none" ELSE rows[x]
        BY <1>1, <2>1, <3>1, <4>1 DEF Deleted, RowTypes
      <4> QED
        BY <4>4, <4>5 DEF Agrees
    <3>2. CASE job.op # "failed"
      BY <2>1, <3>2, AgreesRests
    <3> QED
      BY <3>1, <3>2
  <2>4. job'.at = "free" /\ job'.op = "none"
    BY <2>1, NoJobIs
  <2> QED
    BY <2>2, <2>3, <2>4 DEF OutboxInv, OutboxOK, FailureOK, CommitKnows, Recovering, RunningAt
<1> QED
  BY <1>3, <1>4

LEMMA RecoverKeepsOutbox ==
  ASSUME SettlementInv, LifeInv, OutboxInv, Recover
  PROVE  OutboxInv'
<1>1. LogOK /\ JobTypes /\ OutboxOK /\ FailureOK
  BY OutboxParts
<1>2. UNCHANGED log /\ job.at = "recover" /\ Recovering
  BY DEF Recover, Recovering
<1>3. CASE ~Stranded(log, rows)
  BY <1>2, <1>3, AfterRecoveryKeepsOutbox DEF Recover
<1>4. CASE Stranded(log, rows)
  <2>1. UNCHANGED <<rows, wakes, steered, recovered>>
    BY <1>4 DEF Recover
  <2>2. Ended' = Ended /\ Ruled' = Ruled
    BY <1>2 DEF Ended, Ruled
  <2>3. /\ NothingToRecover' => NothingToRecover
        /\ Agrees => Agrees'
    BY <1>2, <2>1, RestRecovers, AgreesRests
  <2>4. CASE LatestCascade(log) # <<>>
    <3>1. PICK last, ev : last = LastAt(log, CascadeKinds) /\ ev = log[last]
      OBVIOUS
    <3>2. LatestCascade(log) = <<ev>> /\ At(log, CascadeKinds) # {}
      BY <2>4, <3>1 DEF LatestCascade
    <3>3. last \in 1 .. Len(log) /\ ev.kind \in CascadeKinds
      BY <1>1, <3>1, <3>2, LastAtIs DEF LogOK
    <3>4. Fits(ev)'
      BY <1>2, <3>1, <3>3 DEF Fits, CascadeKinds
    <3>5. PICK fold, todo : fold = log /\ todo = <<ev>> /\ RunAt("refeed", fold, todo)
      BY <1>4, <2>4, <3>2 DEF Recover
    <3>6. /\ job'.op = job.op /\ job'.effect = job.effect /\ job'.due = job.due
          /\ job'.at = "refeed" /\ NextEvent(job'.frames) = ev
      <4>1. todo[1] = ev
        BY <3>5
      <4> QED
        BY <1>1, <3>5, <4>1, RunIs
    <3>7. FailureOK'
      BY <1>1, <1>2, <2>2, <3>6, FailureGoesOn
    <3>8. NothingToRecover' => Agrees' /\ Fits(NextEvent(job.frames))'
      BY <1>1, <1>2, <2>3, <3>4, <3>6 DEF OutboxOK
    <3> QED
      BY <3>6, <3>7, <3>8 DEF OutboxInv, OutboxOK, CommitKnows, Recovering
  <2>5. CASE LatestCascade(log) = <<>>
    <3>1. Goto("giveup")
      BY <1>4, <2>5 DEF Recover
    <3>2. /\ job'.op = job.op /\ job'.effect = job.effect /\ job'.due = job.due
          /\ job'.at = "giveup"
      BY <1>1, <3>1, PhaseIs
    <3>3. FailureOK'
      BY <1>1, <1>2, <2>2, <3>2, FailureGoesOn
    <3>4. OutboxOK'
      BY <1>1, <1>2, <2>3, <3>2 DEF OutboxOK, Recovering, RunningAt
    <3> QED
      BY <3>2, <3>3, <3>4 DEF OutboxInv, CommitKnows
  <2> QED
    BY <2>4, <2>5
<1> QED
  BY <1>3, <1>4

LEMMA GiveUpKeepsOutbox ==
  ASSUME SettlementInv, SettlementInv', LifeInv, OutboxInv, GiveUp
  PROVE  OutboxInv'
<1>1. LogOK /\ LogOK' /\ JobTypes /\ OutboxOK /\ FailureOK
  BY OutboxParts DEF SettlementInv
<1>2. job.at = "giveup" /\ Recovering
  BY DEF GiveUp, Recovering
<1>3. CASE Stranded(Loop, rows)
  <2>1. Goto("giveupsettle")
    BY <1>3 DEF GiveUp
  <2>2. Ended \subseteq Ended' /\ Ruled \subseteq Ruled'
    <3>1. CASE Stranded(log, rows)
      <4>1. PICK items : items = StrandedFailure(log)
        OBVIOUS
      <4>2. log' = Appended(items)
        BY <1>3, <3>1, <4>1 DEF GiveUp
      <4>3. Writes(items)
        BY <1>1, <4>1, StrandedWrites DEF LogOK
      <4> QED
        BY <1>1, <4>2, <4>3, SetsGrow
    <3>2. CASE ~Stranded(log, rows)
      <4>1. UNCHANGED log
        BY <1>3, <3>2 DEF GiveUp
      <4> QED
        BY <4>1 DEF Ended, Ruled
    <3> QED
      BY <3>1, <3>2
  <2> QED
    BY <1>1, <1>2, <2>1, <2>2, UnaskedPhase
<1>4. CASE ~Stranded(Loop, rows)
  <2>1. UNCHANGED log /\ AfterRecovery
    BY <1>4 DEF GiveUp
  <2> QED
    BY <1>2, <2>1, AfterRecoveryKeepsOutbox
<1> QED
  BY <1>3, <1>4

(***************************************************************************)
(* Steps of activations.                                                   *)
(***************************************************************************)

\* What a step answers to an event of the log.
Onward(fold, ev) ==
  {AfterAnswer(fold, CallsOf(fold, ev.of)), Nothing, NextModelCall(fold),
   CloseTurn("work_failed"), AfterInvocation(fold, ev.how), Output(<<>>, {Call(ev.of)})}

Denial(c) == Output(<<Ev("invocation.terminal", c, "denied")>>, {})

LEMMA EventLeads ==
  ASSUME NEW fold, NEW ev, ev.kind \notin {"diagnostic", "artifacts.failed"}
  PROVE  \/ EventStep(fold, ev) \in Onward(fold, ev)
         \/ /\ ev.kind = "approval.resolved" /\ ev.how # "granted"
            /\ EventStep(fold, ev) = Denial(ev.of)
<1>1. CASE ~Open(fold)
  BY <1>1 DEF EventStep, Onward
<1>2. CASE Open(fold) /\ ev.kind = "message.terminal"
  BY <1>2 DEF EventStep, Onward
<1>3. CASE Open(fold) /\ ev.kind = "invocation.terminal"
  BY <1>3 DEF EventStep, Onward
<1>4. CASE Open(fold) /\ ev.kind = "approval.resolved"
  BY <1>4 DEF EventStep, Onward, Denial
<1>5. CASE Open(fold) /\ ev.kind = "artifacts.ready"
  BY <1>5 DEF EventStep, Onward
<1>6. CASE ev.kind \notin {"message.terminal", "diagnostic", "invocation.terminal",
                           "approval.resolved", "artifacts.ready", "artifacts.failed"}
  BY <1>6 DEF EventStep, Onward
<1> QED
  BY <1>1, <1>2, <1>3, <1>4, <1>5, <1>6

\* Nothing will be stepped further of these.
Quiet(items) == \A k \in 1 .. Len(items) : items[k].kind \in InertKinds

LEMMA OnwardIsQuiet ==
  ASSUME NEW fold \in Seq(Event), NEW ev, NEW out \in Onward(fold, ev)
  PROVE  Quiet(out.append)
<1>1. \A items, n : NextIs(items, n) => Quiet(items)
  BY DEF NextIs, Quiet, InertKinds
<1>2. Quiet(NextModelCall(fold).append)
  BY <1>1, NextModelCallIs
<1>3. \A reason \in Hows : Quiet(CloseTurn(reason).append)
  <2>1. \A reason \in Hows : NextIs(CloseTurn(reason).append, 0)
    BY CloseIs
  <2> QED
    BY <1>1, <2>1
<1>4. "work_failed" \in Hows /\ "completed" \in Hows /\ "tool_terminated" \in Hows
  BY DEF Hows
<1>5. Quiet(<<>>)
  BY DEF Quiet
<1>6. Quiet(Nothing.append) /\ Quiet(Output(<<>>, {Call(ev.of)}).append)
  BY <1>5, AppendOf DEF Nothing
<1>7. PICK todo : todo = CallsOf(fold, ev.of) /\ CallList(todo)
  BY CallsOfIs
<1>8. Quiet(ExpandToolCalls(todo).append)
  BY <1>7, ExpandIs DEF Expands, Quiet, InertKinds
<1>9. Quiet(AfterAnswer(fold, todo).append)
  BY <1>2, <1>3, <1>4, <1>8 DEF AfterAnswer
<1>10. Quiet(AfterInvocation(fold, ev.how).append)
  <2>1. Quiet(ParkTurn(fold).append)
    <3>1. PICK t : /\ t = Ev("turn.waiting", Cardinality(At(fold, {"turn.waiting"})),
                               "suspended")
                   /\ ParkTurn(fold) = Output(<<t>>, {})
      BY DEF ParkTurn
    <3>2. t.kind \in InertKinds
      BY <3>1 DEF Ev, InertKinds
    <3>3. \A k \in 1 .. Len(<<t>>) : <<t>>[k] = t
      OBVIOUS
    <3> QED
      BY <3>1, <3>2, <3>3, AppendOf DEF Quiet
  <2>2. Quiet(AfterBatch(fold, ev.how).append)
    BY <1>2, <1>3, <1>4, <2>1, BatchLeads DEF BatchEnds
  <2> QED
    BY <1>6, <2>2 DEF AfterInvocation
<1> QED
  BY <1>2, <1>3, <1>4, <1>6, <1>7, <1>9, <1>10 DEF Onward

\* What a step may append that goes on: the end of a call or of an approval.
Ends(t, ev) ==
  \/ /\ ev.kind = "effect-failed" /\ job.effect[1] = "call"
     /\ t = Ev("invocation.terminal", job.effect[2], "failed")
  \/ /\ ev.kind = "effect-failed" /\ job.effect[1] = "form"
     /\ t = Ev("approval.resolved", job.effect[2], "denied")
  \/ /\ ev.kind = "approval.resolved" /\ ev.how # "granted"
     /\ t = Ev("invocation.terminal", ev.of, "denied")

LEMMA StepGoesOn ==
  ASSUME NEW fold \in Seq(Event), NEW ev \in Incoming,
         ev.kind \notin {"wake", "diagnostic", "artifacts.failed"},
         ev.kind = "effect-failed" => job.effect \in Effects /\ job.effect[1] # "prep",
         NEW out, out = StepOutput(fold, ev)
  PROVE  \/ Quiet(out.append)
         \/ out.effects = {} /\ \E t : out.append = <<t>> /\ Ends(t, ev)
<1>1. Quiet(<<>>)
  BY DEF Quiet
<1>2. CASE ev.kind = "steer"
  <2>1. out = Nothing \/ out = Output(<<Ev("received", ev.of, "steer")>>, {})
    BY <1>2 DEF StepOutput, Steer
  <2>2. Quiet(<<Ev("received", ev.of, "steer")>>)
    BY DEF Quiet, Ev, InertKinds
  <2> QED
    BY <1>1, <2>1, <2>2, AppendOf DEF Nothing
<1>3. CASE ev.kind = "effect-failed"
  <2>1. out = EffectFailed(fold, job.effect)
    BY <1>3 DEF StepOutput
  <2>2. \/ out = Nothing
        \/ /\ job.effect[1] = "call"
           /\ out = Output(<<Ev("invocation.terminal", job.effect[2], "failed")>>, {})
        \/ /\ job.effect[1] = "form"
           /\ out = Output(<<Ev("approval.resolved", job.effect[2], "denied")>>, {})
    BY <1>3, <2>1 DEF EffectFailed
  <2> QED
    BY <1>1, <1>3, <2>2, AppendOf DEF Nothing, Ends
<1>4. CASE ev.kind \notin {"wake", "steer", "effect-failed"}
  <2>1. out = EventStep(fold, ev)
    BY <1>4 DEF StepOutput
  <2>2. CASE out \in Onward(fold, ev)
    BY <2>2, OnwardIsQuiet
  <2>3. CASE /\ ev.kind = "approval.resolved" /\ ev.how # "granted"
             /\ out = Denial(ev.of)
    BY <2>3, AppendOf DEF Denial, Ends
  <2> QED
    BY <2>1, <2>2, <2>3, EventLeads
<1> QED
  BY <1>2, <1>3, <1>4

\* The activations that a step leaves.
LEMMA ReturnedSpent ==
  ASSUME NEW frames \in Seq(FrameType), Spent(frames)
  PROVE  Spent(Returned(frames))
<1> DEFINE I == {i \in DOMAIN frames : frames[i].todo # <<>>}
<1>1. Returned(frames) = Kept(frames, I)
  BY DEF Returned
<1> HIDE DEF I
<1>2. PICK rest, g : rest = Returned(frames) /\ Selects(g, rest, frames, I, Len(frames))
  BY <1>1, KeptSelects
<1>3. \A i \in 1 .. Len(rest) : \E j \in 1 .. Len(frames) : rest[i] = frames[j]
  BY <1>2 DEF Selects
<1>4. Spent(rest)
  BY <1>3 DEF Spent
<1> QED
  BY <1>2, <1>4

LEMMA ReturnedNext ==
  ASSUME NEW frames \in Seq(FrameType), 0 < Len(frames), frames[Len(frames)].todo # <<>>
  PROVE  Returned(frames) # <<>> /\ NextEvent(Returned(frames)) = NextEvent(frames)
<1> DEFINE I == {i \in DOMAIN frames : frames[i].todo # <<>>}
<1>1. Returned(frames) = Kept(frames, I) /\ Len(frames) \in Nat /\ Len(frames) \in I
  BY DEF Returned
<1> HIDE DEF I
<1>2. PICK rest, g, n :
        /\ rest = Returned(frames) /\ n = Len(frames) /\ Selects(g, rest, frames, I, n)
  BY <1>1, KeptSelects
<1>3. rest \in Seq(FrameType)
  BY <1>1, <1>2, KeptSelects
<1>4. PICK m : m = Len(rest) /\ m \in Nat
  BY <1>3
<1>5. PICK j \in 1 .. m : g[j] = n
  BY <1>1, <1>2, <1>4 DEF Selects
<1>6. m \in 1 .. m
  BY <1>4, <1>5
<1>7. g[m] \in 1 .. n /\ rest[m] = frames[g[m]]
  BY <1>2, <1>4, <1>6 DEF Selects
<1>8. j < m => g[j] < g[m]
  BY <1>2, <1>4, <1>5, <1>6 DEF Selects
<1>9. j = m
  BY <1>1, <1>2, <1>4, <1>5, <1>7, <1>8
<1>10. rest[m] = frames[n] /\ rest # <<>>
  BY <1>4, <1>5, <1>6, <1>7, <1>9
<1> QED
  BY <1>2, <1>4, <1>10 DEF NextEvent

\* Only the innermost activation may have something left to append.
LEMMA OthersAreSpent ==
  ASSUME NEW frames, FramesOK(frames), NEW i \in 1 .. Len(frames),
         i # Len(frames) \/ ~frames[i].live
  PROVE  InertFrom(frames[i].todo, 0)
BY DEF FramesOK, FrameOK

\* The innermost activation has been replaced by top.
LEMMA TopGoesOn ==
  ASSUME JobTypes, NEW frames, frames = job.frames, FramesOK(frames), 0 < Len(frames),
         NEW top \in FrameType, job' = WithTop(top)
  PROVE  /\ job'.op = job.op /\ job'.effect = job.effect /\ job'.due = job.due
         /\ job'.at = job.at
         /\ InertFrom(top.todo, 0) => Spent(job'.frames)
         /\ top.todo # <<>> => job'.frames # <<>> /\ NextEvent(job'.frames) = top.todo[1]
<1> DEFINE new == [frames EXCEPT ![Len(frames)] = top]
<1>1. frames \in Seq(FrameType) /\ Len(frames) \in Nat \ {0}
  BY DEF FramesOK
<1>2. /\ new \in Seq(FrameType) /\ Len(new) = Len(frames) /\ new[Len(frames)] = top
      /\ \A i \in 1 .. Len(frames) : i # Len(frames) => new[i] = frames[i]
  BY <1>1
<1>3. job' = [job EXCEPT !.frames = Returned(new)]
  BY DEF WithTop
<1> HIDE DEF new
<1>4. /\ job'.frames = Returned(new) /\ job'.op = job.op /\ job'.effect = job.effect
      /\ job'.due = job.due /\ job'.at = job.at
  BY <1>3 DEF JobTypes, Job
<1>5. ASSUME InertFrom(top.todo, 0)
      PROVE  Spent(job'.frames)
  <2>1. \A i \in 1 .. Len(frames) : i # Len(frames) => InertFrom(frames[i].todo, 0)
    BY OthersAreSpent
  <2>2. Spent(new)
    BY <1>1, <1>2, <1>5, <2>1 DEF Spent
  <2> QED
    BY <1>2, <1>4, <2>2, ReturnedSpent
<1>6. ASSUME top.todo # <<>>
      PROVE  job'.frames # <<>> /\ NextEvent(job'.frames) = top.todo[1]
  <2>1. Returned(new) # <<>> /\ NextEvent(Returned(new)) = NextEvent(new)
    BY <1>1, <1>2, <1>6, ReturnedNext
  <2>2. NextEvent(new) = top.todo[1]
    BY <1>2 DEF NextEvent
  <2> QED
    BY <1>4, <2>1, <2>2
<1> QED
  BY <1>4, <1>5, <1>6

\* What a step leaves is inert if what it appends first is.
LEMMA SteppedIsSpent ==
  ASSUME NEW top \in FrameType, NEW env \in Seq(Incoming), InertFrom(env, 1),
         env # <<>> => env[1].kind \in InertKinds,
         0 < Len(top.todo), InertFrom(top.todo, 1),
         NEW next, NEW after, after = Stepped(top, next, env)
  PROVE  InertFrom(after.todo, 0)
<1>1. PICK todo : todo = top.todo /\ todo \in Seq(Incoming)
  BY DEF FrameType
<1>2. PICK rest : rest = Tail(todo) /\ rest \in Seq(Incoming) /\ InertFrom(rest, 0)
  BY <1>1, TailIsInert
<1>3. after.todo = env \o rest
  BY <1>1, <1>2 DEF Stepped, FrameType
<1> HIDE DEF Incoming
<1>4. PICK more : more = env \o rest /\ more \in Seq(Incoming) /\ InertFrom(more, 1)
  BY <1>2, CascadesAreInert
<1>5. ASSUME NEW k \in 1 .. Len(more)
      PROVE  more[k].kind \in InertKinds
  <2>1. CASE k > 1
    BY <1>4, <2>1 DEF InertFrom
  <2>2. CASE k = 1 /\ env # <<>>
    <3>1. more[1] = env[1]
      BY <1>2, <1>4, <2>2
    <3> QED
      BY <2>2, <3>1
  <2>3. CASE k = 1 /\ env = <<>>
    <3>1. more = rest
      BY <1>2, <1>4, <2>3
    <3> QED
      BY <1>2, <3>1 DEF InertFrom
  <2> QED
    BY <2>1, <2>2, <2>3
<1> QED
  BY <1>3, <1>4, <1>5 DEF InertFrom

\* A log that has grown by the end of a call or of an approval.
LEMMA EndIsAppended ==
  ASSUME LogOK, LogOK', NEW t, NEW items, \A k \in 1 .. Len(items) : items[k] = t,
         Writes(items), log' = Appended(items),
         t.kind \in {"invocation.terminal", "approval.resolved"}, t.how # "granted"
  PROVE  \A next : next = log' => EndsOnly(log, next)
<1>1. /\ Len(log) \in Nat /\ Len(log') \in Nat /\ Len(log) <= Len(log')
      /\ \A i \in 1 .. Len(log) : log'[i] = log[i]
      /\ \A i \in 1 .. Len(log') :
           \/ i \in 1 .. Len(log)
           \/ \E k \in 1 .. Len(items) : log'[i] = items[k] /\ ~Known(items[k])
  BY Grown
<1>3. \A i \in 1 .. Len(log') : i > Len(log) => log'[i] = t
  BY <1>1
<1> SUFFICES ASSUME NEW next, next = log'
             PROVE  EndsOnly(log, next)
  OBVIOUS
<1>4. log \in Seq(Event) /\ next \in Seq(Event)
  BY DEF LogOK
<1>5. t.kind \in EndKinds
  BY DEF EndKinds
<1>6. Longer(log, next, Kinds \ EndKinds)
  BY <1>1, <1>3, <1>4, <1>5 DEF Longer
<1> QED
  BY <1>1, <1>3, <1>6 DEF EndsOnly

\* A granted approval is not denied.
LEMMA DeniedIsNotGranted ==
  ASSUME LogOK, NEW ev, ev.kind = "approval.resolved", ev.how # "granted", Fits(ev)
  PROVE  ev.of \notin Granted(log)
<1> SUFFICES ASSUME ev.of \in Granted(log)
             PROVE  FALSE
  OBVIOUS
<1>1. PICK j \in 1 .. Len(log) : /\ log[j].kind = "approval.resolved" /\ log[j].how = "granted"
                                 /\ log[j].of = ev.of
  BY DEF Granted, At, LogOK
<1>2. PICK i \in 1 .. Len(log) : log[i] = ev
  BY DEF Fits
<1>3. i = j
  BY <1>1, <1>2 DEF LogOK, IdsAreUnique, SameId
<1> QED
  BY <1>1, <1>2, <1>3

\* The end of a call leaves the rows and the log in agreement: what it ends was denied,
\* or is given up.
LEMMA EndAgrees ==
  ASSUME LogOK, LogOK', TurnInv, Agrees, FailureOK, NEW ev, HeadOK(ev), Fits(ev),
         NEW t, Ends(t, ev), NEW items, items = <<t>>, Writes(items), log' = Appended(items),
         \A e \in Effects : rows'[e] = "none" <=> rows[e] = "none"
  PROVE  Agrees'
<1>1. t.kind \in {"invocation.terminal", "approval.resolved"} /\ t.how \in {"failed", "denied"}
  BY DEF Ends, Ev
<1>2. PICK next : next = log'
  OBVIOUS
<1>3. TurnLog(log) /\ EndsOnly(log, next)
  <2>1. \A k \in 1 .. Len(items) : items[k] = t
    OBVIOUS
  <2>2. t.how # "granted"
    BY <1>1
  <2> QED
    BY <1>1, <1>2, <2>1, <2>2, EndIsAppended DEF TurnLog, LogOK
<1>4. /\ Ended' = Ended \cup Wrote(items, "invocation.terminal")
      /\ Ruled' = Ruled \cup Wrote(items, "approval.resolved")
  BY SetsGrow
<1>5. /\ t.kind = "invocation.terminal" =>
           /\ Wrote(items, "invocation.terminal") = {t.of}
           /\ Wrote(items, "approval.resolved") = {}
      /\ t.kind = "approval.resolved" =>
           /\ Wrote(items, "invocation.terminal") = {}
           /\ Wrote(items, "approval.resolved") = {t.of}
  BY WroteOne
<1>6. Logged(next, "invocation.terminal") = Ended' /\ Logged(next, "approval.resolved") = Ruled'
  BY <1>2 DEF Ended, Ruled
<1>7. \A e \in Derived(next) : e \in Derived(log)
  BY <1>3, EndsDerive
<1>8. ASSUME NEW e \in Effects, e \in Derived(log), e \notin Derived(next)
      PROVE  e[1] \in ExhaustKinds
  <2>1. \/ /\ e[1] = "call" /\ e[2] \in Logged(next, "invocation.terminal")
           /\ e[2] \notin Logged(log, "invocation.terminal")
        \/ /\ e[1] = "form" /\ e[2] \in Logged(next, "approval.resolved")
           /\ e[2] \notin Logged(log, "approval.resolved")
    BY <1>3, <1>8, EndsDerive
  <2>2. \/ e[1] = "call" /\ t.kind = "invocation.terminal" /\ e[2] = t.of
        \/ e[1] = "form" /\ t.kind = "approval.resolved" /\ e[2] = t.of
    BY <1>1, <1>4, <1>5, <1>6, <2>1 DEF Ended, Ruled
  <2>3. CASE ev.kind = "effect-failed"
    <3>1. job.effect[1] \in ExhaustKinds
      BY <2>3 DEF HeadOK, FailureOK
    <3>2. e[1] = job.effect[1]
      BY <2>2, <2>3 DEF Ends, Ev
    <3> QED
      BY <3>1, <3>2
  <2>4. CASE /\ ev.kind = "approval.resolved" /\ ev.how # "granted"
             /\ t = Ev("invocation.terminal", ev.of, "denied")
    <3>1. e[1] = "call" /\ e[2] = ev.of
      BY <2>2, <2>4 DEF Ev
    <3>2. ev.of \in Gated
      BY <2>4 DEF HeadOK, TurnInv, CallsAreLegal
    <3>3. ev.of \in Granted(log)
      <4>1. \A c : /\ Call(c)[1] = "call" /\ Call(c)[2] = c /\ Form(c)[1] = "form"
                   /\ Model(c)[1] = "model" /\ Prep(c)[1] = "prep"
        BY DEF Call, Form, Model, Prep
      <4>2. \E c \in PendingInvocations(log) :
              (c \in Gated => c \in Granted(log)) /\ e = Call(c)
        BY <1>8, <3>1, <4>1, DerivedIs
      <4> QED
        BY <3>1, <3>2, <4>1, <4>2
    <3> QED
      BY <2>4, <3>3, DeniedIsNotGranted
  <2> QED
    BY <2>3, <2>4 DEF Ends
<1>9. \A e \in Effects :
        /\ e \in Derived(next) => rows'[e] # "none"
        /\ rows'[e] # "none" => e \in Derived(next) \/ e[1] \in ExhaustKinds
  BY <1>7, <1>8 DEF Agrees
<1>10. Derived(log)' = Derived(next)
  BY <1>2
<1> QED
  BY <1>9, <1>10 DEF Agrees

\* The failure of an effect ends what it was about, if nothing else has.
LEMMA FailureConcludes ==
  ASSUME LogOK, LogOK', NEW fold, Current(fold), NEW e \in Effects,
         e[1] \in {"call", "form"}, Intended(e),
         NEW items, items = EffectFailed(fold, e).append, Writes(items),
         log' = Appended(items)
  PROVE  Concluded(e)'
<1>1. /\ Ended' = Ended \cup Wrote(items, "invocation.terminal")
      /\ Ruled' = Ruled \cup Wrote(items, "approval.resolved")
  BY SetsGrow
<1>2. Longer(fold, log, Kinds \ {"foreign"})
  BY DEF Longer, Current, Folds, LogOK
<1>3. /\ Logged(fold, "invocation.started") = Called
      /\ Logged(fold, "invocation.terminal") = Ended
      /\ Logged(fold, "approval.requested") = Asked
      /\ Logged(fold, "approval.resolved") = Ruled
  BY <1>2, LoggedStill DEF Kinds, Called, Ended, Asked, Ruled
<1>4. CASE e[1] = "call"
  <2>1. CASE e[2] \in PendingInvocations(fold)
    <3>1. PICK t : t = Ev("invocation.terminal", e[2], "failed")
      OBVIOUS
    <3>2. items = <<t>> /\ t.kind = "invocation.terminal" /\ t.of = e[2]
      BY <1>4, <2>1, <3>1, AppendOf DEF EffectFailed, Ev
    <3>3. e[2] \in Wrote(items, "invocation.terminal")
      BY <3>2, WroteOne
    <3> QED
      BY <1>1, <1>4, <3>3 DEF Concluded
  <2>2. CASE e[2] \notin PendingInvocations(fold)
    <3>1. e[2] \in Ended
      BY <1>3, <1>4, <2>2 DEF PendingInvocations, Intended
    <3> QED
      BY <1>1, <1>4, <3>1 DEF Concluded
  <2> QED
    BY <2>1, <2>2
<1>5. CASE e[1] = "form"
  <2>1. CASE e[2] \in PendingApprovals(fold)
    <3>1. PICK t : t = Ev("approval.resolved", e[2], "denied")
      OBVIOUS
    <3>2. items = <<t>> /\ t.kind = "approval.resolved" /\ t.of = e[2]
      BY <1>5, <2>1, <3>1, AppendOf DEF EffectFailed, Ev
    <3>3. e[2] \in Wrote(items, "approval.resolved")
      BY <3>2, WroteOne
    <3> QED
      BY <1>1, <1>5, <3>3 DEF Concluded
  <2>2. CASE e[2] \notin PendingApprovals(fold)
    <3>1. e[2] \in Ruled
      BY <1>3, <1>5, <2>2 DEF PendingApprovals, Intended
    <3> QED
      BY <1>1, <1>5, <3>1 DEF Concluded
  <2> QED
    BY <2>1, <2>2
<1> QED
  BY <1>4, <1>5

\* An accepted step with nothing left behind it, or behind the end of a call.
LEMMA AcceptedAgrees ==
  ASSUME LogOK, LogOK', JobTypes, TurnInv, OutboxInv,
         NEW frames, frames = job.frames, FramesOK(frames), 0 < Len(frames),
         NEW top \in FrameType, FrameOK(top, Len(frames), Len(frames)), top.live,
         NEW ev, ev = top.todo[1], ev = NextEvent(frames), ev \in Incoming, HeadOK(ev),
         0 < Len(top.todo), job.op = "failed" => job.effect[1] # "prep",
         Agrees, Fits(ev),
         NEW fold, fold = top.fold, NEW out, out = StepOutput(fold, ev),
         NEW items, items = out.append, Writes(items),
         log' = Appended(items), rows' = Inserted(rows, out.effects),
         NEW env, env = Envelopes(items, fold), InertFrom(env, 1),
         NEW next, next \in Seq(Event),
         NEW after, after = Stepped(top, next, env), job' = WithTop(after)
  PROVE  Spent(job'.frames) \/ (Agrees' /\ Fits(NextEvent(job.frames))')
<1>2. Current(fold) /\ InertFrom(top.todo, 1) /\ fold \in Seq(Event)
  BY DEF FrameOK, FrameType
<1>3. env = New(items) /\ items \in Seq(Event) /\ env \in Seq(Event)
  BY <1>2, EnvelopesAreNew, NewEvents DEF Writes
<1>4. env \in Seq(Incoming)
  <2> HIDE DEF Event
  <2> QED
    BY <1>3 DEF Incoming
<1>5. /\ after \in FrameType
      /\ after.todo # <<>> =>
           IF env # <<>> THEN after.todo[1] = env[1]
           ELSE after.todo[1].kind \in InertKinds
  <2> HIDE DEF Incoming
  <2> QED
    BY <1>2, <1>4, SteppedIs
<1>6. /\ InertFrom(after.todo, 0) => Spent(job'.frames)
      /\ after.todo # <<>> => NextEvent(job.frames)' = after.todo[1]
  BY <1>5, TopGoesOn
<1>7. (env # <<>> => env[1].kind \in InertKinds) => InertFrom(after.todo, 0)
  BY <1>2, <1>4, <1>5, SteppedIsSpent
<1>8. CASE Quiet(items)
  <2>1. env # <<>> => env[1].kind \in InertKinds
    BY <1>3, <1>8, FirstIsNew DEF Quiet
  <2> QED
    BY <1>6, <1>7, <2>1
<1>9. CASE out.effects = {} /\ \E t : items = <<t>> /\ Ends(t, ev)
  <2>1. PICK t : items = <<t>> /\ Ends(t, ev)
    BY <1>9
  <2>2. CASE env = <<>>
    BY <1>6, <1>7, <2>2
  <2>3. CASE env # <<>>
    <3>1. env[1] = t
      <4>1. \A k \in 1 .. Len(items) : items[k] = t
        BY <2>1
      <4> QED
        BY <1>3, <2>3, <4>1, FirstIsNew
    <3>2. after.todo # <<>>
      <4>0. PICK todo : todo = top.todo /\ todo \in Seq(Incoming)
        BY DEF FrameType
      <4>1. PICK rest : rest = Tail(todo) /\ rest \in Seq(Incoming)
        BY <1>2, <4>0, TailIsInert
      <4>2. after.todo = env \o rest
        BY <4>0, <4>1 DEF Stepped, FrameType
      <4>3. \A a, b \in Seq(Incoming) : a # <<>> => a \o b # <<>>
        <5> HIDE DEF Incoming
        <5> QED
          OBVIOUS
      <4> QED
        BY <1>4, <2>3, <4>1, <4>2, <4>3
    <3>3. NextEvent(job.frames)' = t
      BY <1>5, <1>6, <2>3, <3>1, <3>2
    <3>4. \A e \in Effects : rows'[e] = "none" <=> rows[e] = "none"
      BY <1>9 DEF Inserted
    <3>5. Agrees'
      BY <2>1, <3>4, EndAgrees DEF OutboxInv
    <3>6. t.kind # "wake"
      BY <2>1 DEF Ends, Ev
    <3>7. PICK place : place = Len(log) + 1
      OBVIOUS
    <3>8. place \in 1 .. Len(log') /\ log'[place] = t
      <4>1. log \in Seq(Event) /\ log' = Appended(items)
        BY DEF LogOK
      <4>2. /\ Len(log') = Len(log) + Len(env)
            /\ \A j \in 1 .. Len(env) : log'[Len(log) + j] = env[j]
        BY <1>3, <4>1, AppendedIs
      <4>3. Len(log) \in Nat /\ Len(env) \in Nat \ {0}
        BY <1>3, <2>3, <4>1
      <4> QED
        BY <3>1, <3>7, <4>2, <4>3
    <3>9. Fits(NextEvent(job.frames))'
      BY <3>3, <3>6, <3>8 DEF Fits
    <3> QED
      BY <3>5, <3>9
  <2> QED
    BY <2>2, <2>3
<1>10. Quiet(items) \/ (out.effects = {} /\ \E t : items = <<t>> /\ Ends(t, ev))
  <2>1. ev.kind \notin {"wake", "diagnostic", "artifacts.failed"}
    BY DEF HeadOK, Fits
  <2>2. ev.kind = "effect-failed" => job.effect \in Effects /\ job.effect[1] # "prep"
    BY DEF HeadOK, OutboxInv, FailureOK
  <2> QED
    BY <1>2, <2>1, <2>2, StepGoesOn
<1> QED
  BY <1>8, <1>9, <1>10

LEMMA AcceptedKeepsOutbox ==
  ASSUME SettlementInv, SettlementInv', LifeInv, OutboxInv, StepAccepted
  PROVE  OutboxInv'
<1>1. /\ LogOK /\ JobOK /\ JobTypes /\ RestTypes /\ RowTypes /\ TurnInv /\ JobIntended
      /\ HeadsOK(job.frames) /\ OutboxOK /\ FailureOK /\ LogOK'
  BY OutboxParts DEF SettlementInv
<1>2. Running /\ job.frames # <<>> /\ UNCHANGED <<wakes, steered, recovered>>
  BY DEF StepAccepted, Rest
<1>3. PICK top, frames, n : top = Top /\ frames = job.frames /\ n = Len(frames)
  OBVIOUS
<1>4. /\ FramesOK(frames) /\ n \in Nat \ {0}
      /\ top \in FrameType /\ FrameOK(top, n, n) /\ top = frames[n]
      /\ top.todo \in Seq(Incoming) /\ 0 < Len(top.todo) /\ RunningAt(job.at)
  BY <1>1, <1>2, <1>3, TopIs DEF Top
<1>5. PICK fold, ev, out, items, env, next, after :
        /\ fold = top.fold /\ ev = Head(top.todo) /\ out = StepOutput(fold, ev)
        /\ items = out.append /\ env = Envelopes(items, fold)
        /\ next = fold \o env /\ after = Stepped(top, next, env)
  OBVIOUS
<1>6. /\ Refusal(items, fold) = "none" /\ log' = Appended(items)
      /\ rows' = Inserted(rows, out.effects) /\ job' = WithTop(after)
  BY <1>3, <1>5 DEF StepAccepted, Stepped
<1>7. ev \in Incoming /\ HeadOK(ev) /\ ev = top.todo[1] /\ ev = NextEvent(frames)
  BY <1>1, <1>2, <1>3, <1>4, <1>5, TopIs, TopHead DEF NextEvent
<1>8. InertFrom(top.todo, 1) /\ Folds(fold) /\ fold \in Seq(Event)
  BY <1>4, <1>5 DEF FrameOK, Folds
<1>9. Writes(items)
  BY <1>1, <1>5, <1>7, <1>8, FoldIsTurnLog, StepSuits DEF OutputSuits
<1>10. NothingToRecover' => NothingToRecover
  BY <1>2, StillToRecover
<1>11. Ended \subseteq Ended' /\ Ruled \subseteq Ruled'
  BY <1>1, <1>6, <1>9, SetsGrow
<1>12. CASE ev.kind \in InertKinds
  <2>1. env = <<>>
    BY <1>5, <1>12, InertIsInert, NothingIsNew
  <2>2. env \in Seq(Incoming) /\ next = fold
    <3>1. \A s \in Seq(Event) : s \o <<>> = s
      <4> HIDE DEF Event
      <4> QED
        OBVIOUS
    <3>2. next = fold \o <<>>
      BY <1>5, <2>1
    <3> QED
      BY <1>8, <2>1, <3>1, <3>2
  <2>3. InertFrom(after.todo, 0) /\ after \in FrameType
    <3>1. after = Stepped(top, next, env) /\ next \in Seq(Event)
      BY <1>5, <1>8, <2>2
    <3>2. env # <<>> => env[1].kind \in InertKinds
      BY <2>1
    <3>3. InertFrom(env, 1)
      BY <2>1 DEF InertFrom
    <3> HIDE DEF Incoming, Event
    <3>4. InertFrom(after.todo, 0)
      BY <1>4, <1>8, <2>2, <3>1, <3>2, <3>3, SteppedIsSpent
    <3>5. after \in FrameType
      BY <1>4, <1>8, <2>2, <3>1, SteppedIs
    <3> QED
      BY <3>4, <3>5
  <2>4. /\ job'.op = job.op /\ job'.effect = job.effect /\ job'.due = job.due
        /\ job'.at = job.at /\ Spent(job'.frames)
    BY <1>1, <1>3, <1>4, <1>6, <2>3, TopGoesOn
  <2>5. OutboxOK'
    BY <1>4, <2>4 DEF OutboxOK, RunningAt, Recovering
  <2>6. job.op = "failed" => job.due \/ Concluded(job.effect)
    <3>1. ev.kind # "effect-failed"
      BY <1>12 DEF InertKinds
    <3> QED
      BY <1>1, <1>3, <1>7, <3>1 DEF FailureOK
  <2>7. PICK e : e = job.effect
    OBVIOUS
  <2>8. Concluded(e) => Concluded(e)'
    BY <1>11, StillConcluded
  <2>9. FailureOK'
    BY <1>1, <2>4, <2>6, <2>7, <2>8 DEF FailureOK
  <2>10. CommitKnows'
    BY <1>4, <2>4 DEF CommitKnows, RunningAt
  <2> QED
    BY <2>5, <2>9, <2>10 DEF OutboxInv
<1>13. CASE ev.kind \notin InertKinds
  <2>1. 1 \in 1 .. Len(top.todo) /\ n \in 1 .. Len(frames)
    BY <1>3, <1>4
  <2>2. ~InertFrom(top.todo, 0)
    <3>1. PICK todo : todo = top.todo
      OBVIOUS
    <3>2. ~InertFrom(todo, 0)
      <4>1. todo[1] = ev
        BY <1>7, <3>1
      <4>2. 1 \in 1 .. Len(todo) /\ 1 > 0
        BY <2>1, <3>1
      <4> QED
        BY <1>13, <4>1, <4>2 DEF InertFrom
    <3> QED
      BY <3>1, <3>2
  <2>3. top.live /\ Current(fold)
    BY <1>4, <1>5, <2>2 DEF FrameOK
  <2>4. ~Spent(frames)
    BY <1>4, <2>1, <2>2 DEF Spent
  <2>5. NothingToRecover => Agrees /\ Fits(ev)
    BY <1>1, <1>3, <1>4, <1>7, <2>4 DEF OutboxOK
  <2>6. env \in Seq(Event) /\ next \in Seq(Event)
    <3>1. env \in Seq(Event)
      <4>1. Writes(items) /\ items \in Seq(Event)
        BY <1>9 DEF Writes
      <4>2. New(items) \in Seq(Event)
        BY <4>1, NewEvents
      <4>3. Envelopes(items, fold) = New(items)
        BY <1>1, <2>3, <4>1, EnvelopesAreNew
      <4> QED
        BY <1>5, <4>2, <4>3
    <3> HIDE DEF Event
    <3> QED
      BY <1>5, <1>8, <3>1
  <2>7. after \in FrameType
    <3>1. env \in Seq(Incoming)
      <4> HIDE DEF Event
      <4> QED
        BY <2>6 DEF Incoming
    <3> HIDE DEF Incoming
    <3> QED
      BY <1>4, <1>5, <1>8, <2>6, <3>1, SteppedIs
  <2>8. /\ job'.op = job.op /\ job'.effect = job.effect /\ job'.due = job.due
        /\ job'.at = job.at
    BY <1>1, <1>3, <1>4, <1>6, <2>7, TopGoesOn
  <2>9. job.op = "failed" => Intended(job.effect) /\ job.effect[1] # "prep"
    BY <1>1 DEF JobIntended
  <2>10. InertFrom(env, 1)
    BY <1>1, <1>5, <1>6, <1>7, <2>3, LiveStep
  <2>11. ASSUME NothingToRecover
         PROVE  Spent(job'.frames) \/ (Agrees' /\ Fits(NextEvent(job.frames))')
    <3>1. /\ fold = top.fold /\ out = StepOutput(fold, ev) /\ items = out.append
          /\ env = Envelopes(items, fold) /\ after = Stepped(top, next, env)
      BY <1>5
    <3>2. FramesOK(frames) /\ 0 < Len(frames) /\ FrameOK(top, Len(frames), Len(frames))
      BY <1>3, <1>4
    <3>3. Agrees /\ Fits(ev)
      BY <2>5, <2>11
    <3>4. /\ LogOK /\ LogOK' /\ JobTypes /\ TurnInv /\ frames = job.frames
          /\ job.op = "failed" => job.effect[1] # "prep"
      BY <1>1, <1>3, <2>9
    <3>5. /\ top \in FrameType /\ top.live /\ ev \in Incoming /\ HeadOK(ev)
          /\ ev = top.todo[1] /\ ev = NextEvent(frames) /\ 0 < Len(top.todo)
      BY <1>4, <1>7, <2>3
    <3>6. /\ Writes(items) /\ log' = Appended(items) /\ rows' = Inserted(rows, out.effects)
          /\ job' = WithTop(after) /\ next \in Seq(Event) /\ InertFrom(env, 1)
      BY <1>6, <1>9, <2>6, <2>10
    <3> HIDE DEF Incoming, Event
    <3> QED
      BY <3>1, <3>2, <3>3, <3>4, <3>5, <3>6, AcceptedAgrees
  <2>12. OutboxOK'
    BY <1>4, <1>10, <2>8, <2>11 DEF OutboxOK, RunningAt, Recovering
  <2>13. PICK e : e = job.effect
    OBVIOUS
  <2>14. ASSUME job.op = "failed"
         PROVE  job.due \/ Concluded(e)'
    <3>1. Concluded(e) => Concluded(e)'
      BY <1>11, StillConcluded
    <3>2. CASE ev.kind = "effect-failed" /\ e[1] \in {"call", "form"}
      <4>1. items = EffectFailed(fold, e).append
        BY <1>5, <2>13, <3>2 DEF StepOutput
      <4>2. e \in Effects /\ Intended(e)
        BY <1>1, <2>9, <2>13, <2>14 DEF FailureOK
      <4> QED
        BY <1>1, <1>6, <1>9, <2>3, <3>2, <4>1, <4>2, FailureConcludes
    <3>3. CASE e[1] \notin {"call", "form"}
      BY <3>3 DEF Concluded
    <3>4. ev.kind = "effect-failed" \/ job.due \/ Concluded(e)
      BY <1>1, <1>3, <1>7, <2>13, <2>14 DEF FailureOK
    <3> QED
      BY <3>1, <3>2, <3>3, <3>4
  <2>15. FailureOK'
    BY <1>1, <2>8, <2>13, <2>14 DEF FailureOK
  <2>16. CommitKnows'
    BY <1>4, <2>8 DEF CommitKnows, RunningAt
  <2> QED
    BY <2>12, <2>15, <2>16 DEF OutboxInv
<1> QED
  BY <1>12, <1>13

\* The event of a refused step waits on in the retry, and is skipped or thrown with the
\* last of them.
LEMMA RefusedKeepsOutbox ==
  ASSUME SettlementInv, LifeInv, OutboxInv, StepRefused
  PROVE  OutboxInv'
<1>1. /\ LogOK /\ JobOK /\ JobTypes /\ RestTypes
      /\ HeadsOK(job.frames) /\ OutboxOK /\ FailureOK
  BY OutboxParts
<1>2. UNCHANGED <<log, rows>> /\ Running /\ job.frames # <<>>
  BY DEF StepRefused
<1>3. PICK top, frames, n, todo, ev :
        /\ top = Top /\ frames = job.frames /\ n = Len(frames) /\ todo = top.todo
        /\ ev = Head(todo)
  OBVIOUS
<1>4. /\ FramesOK(frames) /\ n \in Nat \ {0} /\ top \in FrameType /\ FrameOK(top, n, n)
      /\ todo \in Seq(Incoming) /\ 0 < Len(todo) /\ RunningAt(job.at)
      /\ ev \in Incoming /\ top = frames[n] /\ ev = todo[1]
  BY <1>1, <1>2, <1>3, TopIs DEF Top
<1>5. ev = NextEvent(frames)
  BY <1>3, <1>4 DEF NextEvent
<1>6. ev.kind \notin InertKinds
  <2>1. Refusal(StepOutput(top.fold, ev).append, top.fold) # "none"
    BY <1>3 DEF StepRefused
  <2> QED
    BY <2>1, InertIsInert, NothingIsNew
<1>7. ~Spent(frames)
  <2>1. ~InertFrom(todo, 0)
    <3>1. 1 \in 1 .. Len(todo) /\ 1 > 0
      BY <1>4
    <3> QED
      BY <1>4, <1>6, <3>1 DEF InertFrom
  <2>2. n \in 1 .. Len(frames)
    BY <1>3, <1>4
  <2> QED
    BY <1>3, <1>4, <2>1, <2>2 DEF Spent
<1>8. NothingToRecover => Agrees /\ Fits(ev)
  BY <1>1, <1>3, <1>4, <1>5, <1>7 DEF OutboxOK
<1>9. PICK e : e = job.effect
  OBVIOUS
<1>10. Concluded(e) => Concluded(e)'
  BY <1>2 DEF Concluded, Ended, Ruled
<1>11. CASE /\ top.tries > 0 /\ UNCHANGED <<wakes, steered, recovered>>
            /\ job' = [job EXCEPT !.frames =
                         Returned(Retired(frames)) \o <<Frame(log, <<ev>>, top.tries - 1, TRUE)>>]
  <2>1. PICK fold, f, old, rest, all :
          /\ fold = log /\ f = Frame(fold, <<ev>>, top.tries - 1, TRUE)
          /\ old = Retired(frames) /\ rest = Returned(old) /\ all = rest \o <<f>>
    OBVIOUS
  <2>2. f \in FrameType /\ f.todo[1] = ev
    <3>1. <<ev>> \in Seq(Incoming) /\ <<ev>>[1] = ev
      BY <1>4
    <3>2. top.tries - 1 \in Nat /\ fold \in Seq(Event)
      BY <1>1, <1>4, <1>11, <2>1 DEF FrameType, LogOK
    <3> HIDE DEF Incoming
    <3> QED
      BY <2>1, <3>1, <3>2 DEF Frame, FrameType
  <2>3. rest \in Seq(FrameType)
    <3>1. FramesOK(old)
      BY <1>3, <1>4, <2>1, RetiredOK
    <3>2. FramesOK(old)'
      BY <1>1, <1>2, <3>1, LogRests, FramesStay
    <3> QED
      BY <2>1, <3>2, ReturnedOK
  <2>4. job' = [job EXCEPT !.frames = all]
    BY <1>11, <2>1
  <2>5. /\ job'.op = job.op /\ job'.effect = job.effect /\ job'.due = job.due
        /\ job'.at = job.at /\ job'.frames = all
    BY <1>1, <2>4 DEF JobTypes, Job
  <2>6. all # <<>> /\ NextEvent(all) = ev
    <3>1. \A s \in Seq(FrameType), x \in FrameType :
            /\ s \o <<x>> # <<>> /\ (s \o <<x>>)[Len(s \o <<x>>)] = x
      <4> HIDE DEF FrameType
      <4> QED
        OBVIOUS
    <3>2. all # <<>> /\ all[Len(all)] = f
      BY <2>1, <2>2, <2>3, <3>1
    <3> QED
      BY <2>2, <3>2 DEF NextEvent
  <2>7. NothingToRecover' => NothingToRecover
    BY <1>2, <1>11, RestRecovers
  <2>8. Agrees /\ Fits(ev) => Agrees' /\ Fits(NextEvent(job.frames))'
    <3>1. NextEvent(job.frames)' = ev
      BY <2>5, <2>6
    <3> QED
      BY <1>2, <3>1, AgreesRests DEF Fits
  <2>9. OutboxOK'
    BY <1>4, <1>8, <2>5, <2>7, <2>8 DEF OutboxOK, RunningAt, Recovering
  <2>10. NextEvent(job.frames)' = NextEvent(frames) /\ job'.frames # <<>>
    BY <1>5, <2>5, <2>6
  <2>11. FailureOK'
    BY <1>1, <1>3, <1>9, <1>10, <2>5, <2>10 DEF FailureOK
  <2>12. CommitKnows'
    BY <1>4, <2>5 DEF CommitKnows, RunningAt
  <2> QED
    BY <2>9, <2>11, <2>12 DEF OutboxInv
<1>12. CASE /\ job' = WithTop([top EXCEPT !.todo = Tail(@)]) /\ ev.kind = "steer"
  <2>1. PICK rest : rest = Tail(todo) /\ rest \in Seq(Incoming) /\ InertFrom(rest, 0)
    BY <1>3, <1>4, TailIsInert DEF FrameOK
  <2>2. PICK after : after = [top EXCEPT !.todo = rest]
    OBVIOUS
  <2>3. after \in FrameType /\ after.todo = rest
    BY <1>4, <2>1, <2>2 DEF FrameType
  <2>4. job' = WithTop(after) /\ InertFrom(after.todo, 0) /\ 0 < Len(frames)
    <3>1. job' = WithTop(after)
      BY <1>3, <1>12, <2>1, <2>2
    <3>2. InertFrom(after.todo, 0)
      BY <2>1, <2>3
    <3> QED
      BY <1>3, <1>4, <3>1, <3>2
  <2>5. /\ job'.op = job.op /\ job'.effect = job.effect /\ job'.due = job.due
        /\ job'.at = job.at /\ Spent(job'.frames)
    BY <1>1, <1>3, <1>4, <2>3, <2>4, TopGoesOn
  <2>6. OutboxOK'
    BY <1>4, <2>5 DEF OutboxOK, RunningAt, Recovering
  <2>7. FailureOK'
    BY <1>1, <1>3, <1>5, <1>9, <1>10, <1>12, <2>5 DEF FailureOK
  <2>8. CommitKnows'
    BY <1>4, <2>5 DEF CommitKnows, RunningAt
  <2> QED
    BY <2>6, <2>7, <2>8 DEF OutboxInv
<1>13. CASE JobThrown
  BY <1>1, <1>2, <1>8, <1>13, ThrownKeepsOutbox
<1> QED
  BY <1>3, <1>11, <1>12, <1>13 DEF StepRefused

LEMMA CrashKeepsOutbox ==
  ASSUME Crash \/ CrashAfterAppend
  PROVE  OutboxInv'
<1>1. job' = NoJob /\ recovered' = FALSE
  BY DEF Crash, CrashAfterAppend, Die
<1>2. job'.at = "free" /\ job'.op = "none" /\ ~NothingToRecover'
  BY <1>1, NoJobIs DEF NothingToRecover
<1> QED
  BY <1>2 DEF OutboxInv, OutboxOK, FailureOK, CommitKnows, Recovering, RunningAt

\* At first the log has its model call, and the outbox that effect.
LEMMA OutboxStarts ==
  ASSUME Init
  PROVE  OutboxInv
<1> DEFINE ev == Ev("message.started", 1, "request")
<1>1. ev \in Event /\ ev.kind = "message.started" /\ ev.of = 1
  BY EvIs DEF Kinds, Hows, Ofs
<1>2. log = <<ev>> /\ job = NoJob
  BY DEF Init
<1> HIDE DEF ev
<1>3. PICK L : L = log
  OBVIOUS
<1>4. L \in Seq(Event) /\ Len(L) = 1 /\ L[1] = ev /\ DOMAIN L = {1}
  BY <1>1, <1>2, <1>3
<1>5. \A kind : kind # "message.started" => Logged(L, kind) = {}
  BY <1>1, <1>4 DEF Logged, At
<1>6. At(L, {"message.started"}) = {1} /\ At(L, {"message.terminal", "turn.closed"}) = {}
  BY <1>1, <1>4 DEF At
<1>7. InFlight(L) = {1}
  <2>1. PICK start : start = LastAt(L, {"message.started"})
    OBVIOUS
  <2>2. start = 1
    BY <1>4, <1>6, <2>1, LastAtIs
  <2> QED
    BY <1>1, <1>4, <1>6, <2>1, <2>2 DEF InFlight
<1>8. /\ PendingInvocations(L) = {} /\ PendingApprovals(L) = {} /\ NextPreparations(L) = {}
  <2>1. PendingInvocations(L) = {} /\ PendingApprovals(L) = {} /\ PendingPreparations(L) = {}
    BY <1>5 DEF PendingInvocations, PendingApprovals, PendingPreparations
  <2> QED
    BY <2>1 DEF NextPreparations
<1>9. \A e : e \in Derived(L) <=> e = Model(1)
  BY <1>7, <1>8, DerivedIs
<1>10. Agrees
  <2>1. \A e \in Effects : rows[e] # "none" <=> e = Model(1)
    BY DEF Init
  <2> QED
    BY <1>3, <1>9, <2>1 DEF Agrees
<1>11. job.at = "free" /\ job.op = "none"
  BY <1>2, NoJobIs
<1> QED
  BY <1>10, <1>11 DEF OutboxInv, OutboxOK, FailureOK, CommitKnows, Recovering, RunningAt

LEMMA OutboxSteps ==
  ASSUME SettlementInv, SettlementInv', LifeInv, OutboxInv, [Next]_vars
  PROVE  OutboxInv'
<1>1. CASE JobStep
  BY <1>1, AppendKeepsOutbox, CommitKeepsOutbox, DropKeepsOutbox, ClearKeepsOutbox,
     AcceptedKeepsOutbox, RefusedKeepsOutbox, ReturnKeepsOutbox, SettleKeepsOutbox,
     ReloadKeepsOutbox, RecoverKeepsOutbox, GiveUpKeepsOutbox DEF JobStep
<1>2. ASSUME NEW e \in Effects, EffectStep(e)
      PROVE  OutboxInv'
  BY <1>2, QuietKeepsOutbox, StartKeepsOutbox DEF EffectStep
<1>3. CASE (\E s \in Steers : StartSteer(s)) \/ StartAdoption
  BY <1>3, StartKeepsOutbox
<1>4. CASE Foreign
  BY <1>4, ForeignKeepsOutbox
<1>5. CASE Crash \/ CrashAfterAppend
  BY <1>5, CrashKeepsOutbox
<1>6. CASE UNCHANGED vars
  <2>1. UNCHANGED <<log, rows, wakes, job, steered, recovered>>
    BY <1>6 DEF vars, durable, volatile
  <2>2. LogOK /\ LogOK' /\ OthersAppend
    BY <2>1, OutboxParts, LogRests
  <2> QED
    BY <2>1, <2>2, Undisturbed
<1> QED
  BY <1>1, <1>2, <1>3, <1>4, <1>5, <1>6 DEF Next

(***************************************************************************)
(* The model calls of a turn are numbered.                                 *)
(***************************************************************************)

\* No number is left out: as many are started as the highest says.
Numbered == Begun \subseteq 1 .. ModelCallCount(log)

\* The call that a batch starts is the next one of the log that its step has read.
StartsNext(items, L) == \A n \in Wrote(items, "message.started") : n = ModelCallCount(L) + 1

LEMMA NoStart ==
  ASSUME NEW items, NEW L, Wrote(items, "message.started") = {}
  PROVE  StartsNext(items, L)
BY DEF StartsNext

LEMMA NothingStarts ==
  ASSUME NEW L
  PROVE  StartsNext(Nothing.append, L)
<1>1. Nothing.append = <<>>
  BY AppendOf DEF Nothing
<1> QED
  BY <1>1, WroteNone, NoStart

LEMMA OneStarts ==
  ASSUME NEW L, NEW kind, NEW of, NEW how, kind # "message.started", NEW effects
  PROVE  StartsNext(Output(<<Ev(kind, of, how)>>, effects).append, L)
<1>1. PICK ev, items : ev = Ev(kind, of, how) /\ items = <<ev>>
  OBVIOUS
<1>2. ev.kind # "message.started"
  BY <1>1 DEF Ev
<1>3. StartsNext(items, L)
  BY <1>1, <1>2, WroteOne, NoStart
<1> QED
  BY <1>1, <1>3, AppendOf

LEMMA CallStarts ==
  ASSUME NEW L
  PROVE  StartsNext(NextModelCall(L).append, L)
<1>1. CASE NextModelCall(L) = Nothing
  BY <1>1, NothingStarts
<1>2. CASE NextModelCall(L) = CloseTurn("model_retry_limit_exceeded")
  BY <1>2, OneStarts DEF CloseTurn
<1>3. CASE NextModelCall(L) = Request(ModelCallCount(L) + 1, Len(L))
  <2>1. PICK n, upTo : n = ModelCallCount(L) + 1 /\ upTo = Len(L)
    OBVIOUS
  <2>2. PICK ev : ev = [Ev("message.started", n, "request") EXCEPT !.upTo = upTo]
    OBVIOUS
  <2>3. ev.kind = "message.started" /\ ev.of = n
    BY <2>2 DEF Ev
  <2>4. PICK items : items = <<ev>>
    OBVIOUS
  <2>5. Wrote(items, "message.started") = {n}
    BY <2>3, <2>4, WroteOne
  <2>6. NextModelCall(L).append = items
    BY <1>3, <2>1, <2>2, <2>4 DEF Request, Output
  <2> QED
    BY <2>1, <2>5, <2>6 DEF StartsNext
<1> QED
  BY <1>1, <1>2, <1>3 DEF NextModelCall

LEMMA ExpansionStarts ==
  ASSUME NEW todo, CallList(todo), NEW L
  PROVE  StartsNext(ExpandToolCalls(todo).append, L)
BY ExpandWrites, NoStart

LEMMA OnwardStarts ==
  ASSUME NEW fold \in Seq(Event), NEW ev, NEW out \in Onward(fold, ev)
  PROVE  StartsNext(out.append, fold)
<1>1. StartsNext(NextModelCall(fold).append, fold) /\ StartsNext(Nothing.append, fold)
  BY CallStarts, NothingStarts
<1>2. \A reason : StartsNext(CloseTurn(reason).append, fold)
  BY OneStarts DEF CloseTurn
<1>3. PICK todo : todo = CallsOf(fold, ev.of) /\ CallList(todo)
  BY CallsOfIs
<1>4. StartsNext(AfterAnswer(fold, todo).append, fold)
  BY <1>1, <1>2, <1>3, ExpansionStarts DEF AfterAnswer
<1>5. StartsNext(AfterInvocation(fold, ev.how).append, fold)
  <2>1. StartsNext(ParkTurn(fold).append, fold)
    BY OneStarts DEF ParkTurn
  <2>2. StartsNext(AfterBatch(fold, ev.how).append, fold)
    BY <1>1, <1>2, <2>1, BatchLeads DEF BatchEnds
  <2> QED
    BY <1>1, <2>2 DEF AfterInvocation
<1>6. StartsNext(Output(<<>>, {Call(ev.of)}).append, fold)
  BY AppendOf, WroteNone, NoStart
<1> QED
  BY <1>1, <1>2, <1>3, <1>4, <1>5, <1>6 DEF Onward

\* A wake starts it behind the end of an orphan, which does not count.
LEMMA WakeStarts ==
  ASSUME NEW fold, TurnLog(fold)
  PROVE  StartsNext(Wake(fold).append, fold)
<1>1. PICK after, todo, out : Resumes(out, fold, after, todo) /\ out = Wake(fold)
  BY WakeIs
<1>2. PICK first : first = Orphans(fold)
  OBVIOUS
<1>3. first \in Seq(Event) /\ \A i \in 1 .. Len(first) : first[i].kind = "message.terminal"
  <2>1. CASE InFlight(fold) = {}
    BY <1>2, <2>1 DEF Orphans
  <2>2. CASE InFlight(fold) # {}
    <3>1. PICK n \in InFlight(fold) : n = CHOOSE m \in InFlight(fold) : TRUE
      BY <2>2
    <3>2. n \in Ofs
      BY InFlightIs
    <3>3. PICK t : t = Ev("message.terminal", n, "interrupted")
      OBVIOUS
    <3>4. t \in Event /\ t.kind = "message.terminal"
      BY <3>2, <3>3, EvIs DEF Kinds, Hows
    <3>5. first = <<t>>
      BY <1>2, <2>2, <3>1, <3>3 DEF Orphans
    <3> QED
      BY <3>4, <3>5
  <2> QED
    BY <2>1, <2>2
<1>4. fold \in Seq(Event) /\ after = fold \o first /\ CallList(todo)
  BY <1>1, <1>2 DEF Resumes, TurnLog
<1>5. ModelCallCount(after) = ModelCallCount(fold) /\ after \in Seq(Event)
  <2>1. /\ after \in Seq(Event) /\ Len(after) = Len(fold) + Len(first)
        /\ \A i \in 1 .. Len(fold) : after[i] = fold[i]
        /\ \A i \in 1 .. Len(after) : i > Len(fold) => after[i] = first[i - Len(fold)]
    <3> HIDE DEF Event
    <3> QED
      BY <1>3, <1>4
  <2>2. Len(fold) \in Nat /\ Len(first) \in Nat
    BY <1>3, <1>4
  <2>3. \A i \in 1 .. Len(after) : i > Len(fold) => after[i].kind = "message.terminal"
    BY <1>3, <2>1, <2>2
  <2>4. Longer(fold, after, {"message.started"})
    BY <1>4, <2>1, <2>2, <2>3 DEF Longer
  <2>5. At(after, {"message.started"}) = At(fold, {"message.started"})
    BY <2>4, AtStays
  <2> QED
    BY <2>1, <2>5 DEF ModelCallCount
<1>6. Wrote(first, "message.started") = {}
  BY <1>3, WroteOf
<1>7. ASSUME NEW more \in Seq(Event), StartsNext(more, after)
      PROVE  StartsNext(first \o more, fold)
  <2>1. Wrote(first \o more, "message.started") = Wrote(more, "message.started")
    <3>1. PICK kind : kind = "message.started"
      OBVIOUS
    <3>2. Wrote(first \o more, kind) = Wrote(first, kind) \cup Wrote(more, kind)
      BY <1>3, WroteBoth
    <3> QED
      BY <1>6, <3>1, <3>2
  <2> QED
    BY <1>5, <1>7, <2>1 DEF StartsNext
<1>8. CASE out.append = first
  BY <1>1, <1>6, <1>8, NoStart
<1>9. CASE out.append = first \o Nothing.append
  <2>1. Nothing.append \in Seq(Event)
    BY DEF Nothing, Output
  <2> QED
    BY <1>1, <1>7, <1>9, <2>1, NothingStarts
<1>10. CASE out.append = first \o ExpandToolCalls(todo).append
  BY <1>1, <1>4, <1>7, <1>10, ExpansionStarts, ExpandWrites
<1>11. CASE out.append = first \o NextModelCall(after).append
  BY <1>1, <1>5, <1>7, <1>11, CallStarts, NextIsFounded
<1>12. \/ out.append = first \/ out.append = first \o Nothing.append
       \/ out.append = first \o ExpandToolCalls(todo).append
       \/ out.append = first \o NextModelCall(after).append
  <2>1. PICK a, b, c : /\ a = first \o Nothing.append
                       /\ b = first \o ExpandToolCalls(todo).append
                       /\ c = first \o NextModelCall(after).append
    OBVIOUS
  <2>2. \/ out = Output(first, {})
        \/ out = Output(a, Nothing.effects)
        \/ out = Output(b, ExpandToolCalls(todo).effects)
        \/ out = Output(c, NextModelCall(after).effects)
    BY <1>1, <1>2, <2>1 DEF Resumes
  <2>3. out.append \in {first, a, b, c}
    BY <2>2, AppendOf
  <2> QED
    BY <2>1, <2>3
<1> QED
  BY <1>8, <1>9, <1>10, <1>11, <1>12

LEMMA StepStarts ==
  ASSUME LogOK, NEW fold, Current(fold), NEW ev \in Incoming, HeadOK(ev)
  PROVE  StartsNext(StepOutput(fold, ev).append, fold)
<1>1. TurnLog(fold) /\ fold \in Seq(Event)
  BY FoldIsTurnLog DEF Current, Folds
<1>2. CASE ev.kind = "wake"
  BY <1>1, <1>2, WakeStarts DEF StepOutput
<1>3. CASE ev.kind = "steer"
  BY <1>3, NothingStarts, OneStarts DEF StepOutput, Steer
<1>4. CASE ev.kind = "effect-failed"
  BY <1>4, NothingStarts, OneStarts DEF StepOutput, EffectFailed
<1>5. CASE ev.kind \notin {"wake", "steer", "effect-failed"}
  <2>1. PICK out : out = EventStep(fold, ev)
    OBVIOUS
  <2>2. ev.kind \notin {"diagnostic", "artifacts.failed"}
    BY DEF HeadOK
  <2>3. out \in Onward(fold, ev) \/ out = Denial(ev.of)
    BY <2>1, <2>2, EventLeads
  <2>4. StartsNext(out.append, fold)
    BY <1>1, <2>3, OnwardStarts, OneStarts DEF Denial
  <2> QED
    BY <1>5, <2>1, <2>4 DEF StepOutput
<1> QED
  BY <1>2, <1>3, <1>4, <1>5

LEMMA CurrentCounts ==
  ASSUME LogOK, NEW fold, Current(fold)
  PROVE  ModelCallCount(fold) = ModelCallCount(log)
<1>1. Longer(fold, log, Kinds \ {"foreign"})
  BY DEF Longer, Current, Folds, LogOK
<1>2. {"message.started"} \in SUBSET (Kinds \ {"foreign"})
  BY DEF Kinds
<1> QED
  BY <1>1, <1>2, AtStays DEF ModelCallCount

LEMMA CountsNow ==
  ASSUME LogOK
  PROVE  ModelCallCount(log) = Cardinality(Begun) /\ IsFiniteSet(Begun) /\ ModelCallCount(log) \in Nat
<1>1. PICK B, A : B = Begun /\ A = Answered
  OBVIOUS
<1> QED
  BY <1>1, CountsAre DEF LogOK, IdsAreUnique, Begun, Answered

LEMMA NumberingGrows ==
  ASSUME LogOK, LogOK', Numbered, NEW items, Writes(items), log' = Appended(items),
         StartsNext(items, log)
  PROVE  Numbered'
<1>1. PICK B, b, n, C : /\ B = Begun /\ b = Wrote(items, "message.started")
                        /\ n = ModelCallCount(log) /\ C = Begun'
  OBVIOUS
<1>2. C = B \cup b /\ b \subseteq {n + 1}
  BY <1>1, SetsGrow DEF StartsNext
<1>3. n = Cardinality(B) /\ IsFiniteSet(B) /\ n \in Nat /\ B \subseteq 1 .. n
  BY <1>1, CountsNow DEF Numbered
<1>4. ModelCallCount(log)' = Cardinality(C)
  <2>1. PICK L : L = log'
    OBVIOUS
  <2>2. L \in Seq(Event) /\ \A i, j \in 1 .. Len(L) : SameId(L[i], L[j]) => i = j
    BY <2>1 DEF LogOK, IdsAreUnique, SameId
  <2>3. Logged(L, "message.started") = C
    BY <1>1, <2>1 DEF Begun
  <2>4. ModelCallCount(L) = Cardinality(C)
    BY <2>2, <2>3, CountsAre
  <2> QED
    BY <2>1, <2>4
<1>5. C \subseteq 1 .. Cardinality(C)
  <2>1. CASE b = {}
    BY <1>2, <1>3, <2>1
  <2>2. CASE b = {n + 1}
    <3>1. n + 1 \notin B
      BY <1>3
    <3>2. Cardinality(B \cup {n + 1}) = n + 1
      BY <1>3, <3>1, FS_AddElement
    <3>3. C = B \cup {n + 1} /\ Cardinality(C) = n + 1
      BY <1>2, <2>2, <3>2
    <3>4. \A x \in C : x \in 1 .. n + 1
      BY <1>3, <3>3
    <3> QED
      BY <3>3, <3>4
  <2> QED
    BY <1>2, <2>1, <2>2
<1> QED
  BY <1>1, <1>4, <1>5 DEF Numbered

LEMMA NumberingRests ==
  ASSUME LogOK, LogOK', OthersAppend, Numbered
  PROVE  Numbered'
<1>1. PICK L : L = log'
  OBVIOUS
<1>2. Longer(log, L, Kinds \ {"foreign"})
  BY <1>1 DEF Longer, OthersAppend, LogOK
<1>3. {"message.started"} \in SUBSET (Kinds \ {"foreign"})
  BY DEF Kinds
<1>4. At(L, {"message.started"}) = At(log, {"message.started"})
  BY <1>2, <1>3, AtStays
<1>5. ModelCallCount(L) = ModelCallCount(log)
  BY <1>4 DEF ModelCallCount
<1>6. Begun' = Begun
  BY OthersKeepSets DEF Begun
<1>7. ModelCallCount(log)' = ModelCallCount(log)
  BY <1>1, <1>5
<1> QED
  BY <1>6, <1>7 DEF Numbered

LEMMA NumberingSteps ==
  ASSUME SettlementInv, SettlementInv', LifeInv, Numbered, [Next]_vars
  PROVE  Numbered'
<1>1. /\ LogOK /\ LogOK' /\ JobOK /\ JobTypes /\ TurnInv /\ JobIntended
      /\ HeadsOK(job.frames)
  BY LifeParts DEF SettlementInv
<1>2. ASSUME UNCHANGED log
      PROVE  Numbered'
  BY <1>1, <1>2, LogRests, NumberingRests
<1>3. CASE AppendOutcome
  <2>1. job.effect \in Effects /\ job.how \in Hows /\ Intended(job.effect)
    BY <1>1, <1>3 DEF AppendOutcome, JobTypes, JobIntended
  <2>2. PICK items : items = OutcomeEvents(job.effect, job.how)
    OBVIOUS
  <2>3. PICK ev : /\ items = <<ev>> /\ OneMay(ev)
                  /\ ev.kind \in {"message.terminal", "invocation.terminal",
                                  "approval.resolved", "artifacts.ready"}
    BY <2>1, <2>2, OutcomeMay
  <2>4. Writes(items)
    BY <2>3, OneIsLegal DEF Legal
  <2>5. StartsNext(items, log)
    BY <2>3, WroteOne, NoStart
  <2>6. UNCHANGED log \/ log' = Appended(items)
    BY <1>3, <2>2 DEF AppendOutcome
  <2> QED
    BY <1>1, <1>2, <2>4, <2>5, <2>6, NumberingGrows
<1>4. CASE GiveUp
  <2>1. PICK items : items = StrandedFailure(log)
    OBVIOUS
  <2>2. UNCHANGED log \/ (Stranded(log, rows) /\ log' = Appended(items))
    BY <1>4, <2>1 DEF GiveUp
  <2>3. CASE Stranded(log, rows) /\ log' = Appended(items)
    <3>1. Writes(items) /\ StartsNext(items, log)
      BY <1>1, <2>1, <2>3, StrandedIsLegal, NoStart DEF Legal
    <3> QED
      BY <1>1, <2>3, <3>1, NumberingGrows
  <2> QED
    BY <1>2, <2>2, <2>3
<1>5. CASE StepAccepted \/ CrashAfterAppend
  <2>1. Running /\ job.frames # <<>>
    BY <1>5 DEF StepAccepted, CrashAfterAppend
  <2>2. PICK top, n, fold, ev, items :
          /\ top = Top /\ n = Len(job.frames) /\ fold = top.fold /\ ev = Head(top.todo)
          /\ items = StepOutput(fold, ev).append
    OBVIOUS
  <2>3. /\ n \in Nat \ {0} /\ top \in FrameType /\ FrameOK(top, n, n)
        /\ top.todo \in Seq(Incoming) /\ 0 < Len(top.todo) /\ ev \in Incoming
    BY <1>1, <2>1, <2>2, TopIs
  <2>4. log' = Appended(items)
    BY <1>5, <2>2 DEF StepAccepted, CrashAfterAppend
  <2>5. HeadOK(ev)
    BY <1>1, <2>1, <2>2, TopHead
  <2>6. Writes(items)
    <3>1. TurnLog(fold)
      BY <1>1, <2>2, <2>3, FoldIsTurnLog DEF FrameOK
    <3> QED
      BY <2>2, <2>3, <3>1, StepSuits DEF OutputSuits
  <2>7. CASE top.live
    <3>1. Current(fold)
      BY <2>2, <2>3, <2>7 DEF FrameOK
    <3>2. StartsNext(items, fold)
      BY <1>1, <2>2, <2>3, <2>5, <3>1, StepStarts
    <3>3. StartsNext(items, log)
      BY <1>1, <3>1, <3>2, CurrentCounts DEF StartsNext
    <3> QED
      BY <1>1, <2>4, <2>6, <3>3, NumberingGrows
  <2>8. CASE ~top.live
    <3>1. items = <<>>
      BY <2>2, <2>3, <2>8, StaleStep
    <3>2. StartsNext(items, log)
      BY <3>1, WroteNone, NoStart
    <3> QED
      BY <1>1, <2>4, <2>6, <3>2, NumberingGrows
  <2> QED
    BY <2>7, <2>8
<1>6. CASE Foreign
  BY <1>1, <1>6, ForeignAppends, NumberingRests
<1>7. CASE \/ CommitOutcome \/ DropOutcome \/ ClearOutcome \/ StepRefused \/ RunReturns
           \/ Settle \/ ReloadForWake \/ Recover
  BY <1>2, <1>7 DEF CommitOutcome, DropOutcome, ClearOutcome, StepRefused, RunReturns, Settle,
                    ReloadForWake, Recover
<1>8. ASSUME NEW e \in Effects, EffectStep(e)
      PROVE  Numbered'
  <2>1. UNCHANGED log
    <3>1. CASE Claim(e) \/ Park(e) \/ Discard(e) \/ FreeLease(e) \/ ClaimWake(e)
      BY <3>1 DEF Claim, Park, Discard, FreeLease, ClaimWake, durable
    <3>2. CASE StartFailed(e) \/ StartWake(e)
      BY <3>2 DEF StartFailed, StartWake, Begin, durable
    <3>3. CASE Answer(e) \/ Push(e)
      BY <3>3 DEF Answer, Push, StartOutcome, StartPush, Settling, Begin, durable
    <3> QED
      BY <1>8, <3>1, <3>2, <3>3 DEF EffectStep
  <2> QED
    BY <1>2, <2>1
<1>9. CASE (\E s \in Steers : StartSteer(s)) \/ StartAdoption
  BY <1>2, <1>9 DEF StartSteer, StartAdoption, Begin, durable
<1>10. CASE Crash \/ UNCHANGED vars
  BY <1>2, <1>10 DEF Crash, vars, durable
<1> QED
  BY <1>3, <1>4, <1>5, <1>6, <1>7, <1>8, <1>9, <1>10 DEF Next, JobStep

LEMMA NumberingStarts ==
  ASSUME Init
  PROVE  Numbered
<1> DEFINE ev == Ev("message.started", 1, "request")
<1>1. ev \in Event /\ ev.kind = "message.started" /\ ev.of = 1
  BY EvIs DEF Kinds, Hows, Ofs
<1>2. log = <<ev>>
  BY DEF Init
<1> HIDE DEF ev
<1>3. log \in Seq(Event) /\ Len(log) = 1 /\ log[1] = ev
  BY <1>1, <1>2
<1>4. At(log, {"message.started"}) = {1}
  BY <1>1, <1>3 DEF At
<1>5. Begun = {1}
  BY <1>1, <1>3, <1>4 DEF Begun, Logged
<1>6. ModelCallCount(log) = 1
  BY <1>4, FS_Singleton DEF ModelCallCount
<1> QED
  BY <1>5, <1>6 DEF Numbered

(***************************************************************************)
(* What the outbox says.                                                   *)
(***************************************************************************)

\* Between jobs, with nothing left to recover, every intention that is logged without an
\* outcome has its row in the outbox, and a row without one is of a kind whose delivery may
\* be given up: the settlement of every step and outcome reconciles the outbox with the log
\* (driver.settle), an error only leaves a job before it has changed either, and the crashes,
\* retries and foreign appends between them are told by what they leave to recover.
THEOREM NothingIsForgotten ==
  ASSUME "prep" \notin ExhaustKinds
  PROVE  Spec => [](Free /\ NothingToRecover =>
                      \A e \in Effects :
                        /\ e \in Derived(log) => rows[e] # "none"
                        /\ rows[e] # "none" => e \in Derived(log) \/ e[1] \in ExhaustKinds)
<1> DEFINE Told == Free /\ NothingToRecover =>
                      \A e \in Effects :
                        /\ e \in Derived(log) => rows[e] # "none"
                        /\ rows[e] # "none" => e \in Derived(log) \/ e[1] \in ExhaustKinds
<1>1. Init => LifeInv /\ OutboxInv
  BY LifeStarts, OutboxStarts
<1>2. SettlementInv /\ SettlementInv' /\ LifeInv /\ OutboxInv /\ [Next]_vars
        => LifeInv' /\ OutboxInv'
  BY LifeSteps, OutboxSteps
<1>3. OutboxInv => Told
  BY DEF OutboxInv, OutboxOK, Agrees, Free
<1> QED
  BY <1>1, <1>2, <1>3, SettlementHolds, PTL DEF Spec

\* What the log derives are effects of the model, up to its bound on the model calls.
LEMMA DerivedAreEffects ==
  ASSUME LogOK, TurnInv, Numbered, ModelCallCount(log) <= ModelLimit,
         NEW e \in Derived(log)
  PROVE  e \in Effects
<1>1. CASE \E n \in InFlight(log) : e = Model(n)
  <2>1. PICK n \in InFlight(log) : e = Model(n)
    BY <1>1
  <2>2. n \in 1 .. ModelCallCount(log)
    BY InFlightIsLast DEF Numbered
  <2>3. ModelCallCount(log) \in Nat /\ ModelLimit \in Nat
    BY CountsNow, TurnAssumption
  <2>4. n \in 1 .. ModelLimit
    BY <2>2, <2>3
  <2> QED
    BY <2>1, <2>4 DEF Effects
<1>2. CASE \E c \in PendingInvocations(log) : e = Call(c)
  <2>1. PendingInvocations(log) \subseteq Tools
    BY DEF PendingInvocations, TurnInv, CallsAreLegal, Called
  <2> QED
    BY <1>2, <2>1 DEF Effects
<1>3. CASE \E c \in PendingApprovals(log) : e = Form(c)
  <2>1. PendingApprovals(log) \subseteq Gated
    BY DEF PendingApprovals, TurnInv, CallsAreLegal, Asked
  <2> QED
    BY <1>3, <2>1 DEF Effects
<1>4. CASE \E s \in NextPreparations(log) : e = Prep(s)
  <2>1. NextPreparations(log) \subseteq Logged(log, "received")
    BY DEF NextPreparations, Logged
  <2>2. Logged(log, "received") \subseteq Steers
    BY DEF TurnInv, SteersAreReceived
  <2> QED
    BY <1>4, <2>1, <2>2 DEF Effects
<1> QED
  BY <1>1, <1>2, <1>3, <1>4, DerivedIs

\* Where no delivery is given up, the outbox is what the log derives: a row for every
\* intention without an outcome, and no other.  The effects of the model have a bound on the
\* model calls of a turn; the theorem is about the logs that it does not cut off.
THEOREM OutboxFollowsLog ==
  ASSUME ExhaustKinds = {}
  PROVE  Spec => [](ModelCallCount(log) <= ModelLimit => OutboxIsDerived)
<1>1. Init => LifeInv /\ OutboxInv /\ Numbered
  BY LifeStarts, OutboxStarts, NumberingStarts
<1>2. SettlementInv /\ SettlementInv' /\ LifeInv /\ OutboxInv /\ Numbered /\ [Next]_vars
        => LifeInv' /\ OutboxInv' /\ Numbered'
  BY LifeSteps, OutboxSteps, NumberingSteps
<1>3. ASSUME SettlementInv, LifeInv, OutboxInv, Numbered, ModelCallCount(log) <= ModelLimit
      PROVE  OutboxIsDerived
  <2>1. LogOK /\ RestTypes /\ TurnInv /\ OutboxOK
    BY <1>3, OutboxParts
  <2> SUFFICES ASSUME Free, NothingToRecover, Logged(log, "received") \subseteq steered
               PROVE  {e \in Effects : rows[e] # "none"} = Derived(log)
    BY DEF OutboxIsDerived, NothingToRecover
  <2>2. \A e \in Effects : rows[e] # "none" <=> e \in Derived(log)
    BY <2>1 DEF OutboxOK, Agrees, Free
  <2>3. \A e \in Derived(log) : e \in Effects
    BY <1>3, <2>1, DerivedAreEffects
  <2> QED
    BY <2>2, <2>3
<1>4. "prep" \notin ExhaustKinds
  OBVIOUS
<1> QED
  BY <1>1, <1>2, <1>3, <1>4, SettlementHolds, PTL DEF Spec

(***************************************************************************)
(* An open turn goes on.                                                   *)
(*                                                                         *)
(* PathInv says that a turn with nothing left to do and nobody to recover  *)
(* it stands before the commit of an outcome.  An outcome that is settled  *)
(* is fresh: its cascade makes the next request, starts the calls, runs    *)
(* the granted call, or closes the turn.  A row whose effect has its       *)
(* outcome would let a second settlement end without a cascade; there is   *)
(* none while the activation has recovered.                                *)
(***************************************************************************)

\* The turn is open and was never parked, and nothing that it began is left to do.
Idle == Open(log) /\ ~HasWaited(log) /\ TurnIsIdle /\ PendingPreparations(log) = {}

LEMMA WaitedIs ==
  ASSUME NEW L \in Seq(Event)
  PROVE  HasWaited(L) <=> Logged(L, "turn.waiting") # {}
BY DEF HasWaited, Logged

\* Every approval that is decided is granted.
NoneDenied ==
  \A i \in 1 .. Len(log) : log[i].kind = "approval.resolved" => log[i].how = "granted"

\* An outcome of the effect is logged.
Won(e) == \E how \in Outcomes(e), i \in 1 .. Len(log) : OutcomeEvents(e, how) = <<log[i]>>

LEMMA OutcomeIs ==
  ASSUME NEW e \in Effects, NEW how
  PROVE  \E kind \in {"message.terminal", "invocation.terminal", "approval.resolved",
                      "artifacts.ready"} :
           /\ OutcomeEvents(e, how) = <<Ev(kind, e[2], how)>>
           /\ e[1] = "model" <=> kind = "message.terminal"
           /\ e[1] = "call" <=> kind = "invocation.terminal"
           /\ e[1] = "form" <=> kind = "approval.resolved"
           /\ e[1] = "prep" <=> kind = "artifacts.ready"
<1>1. e[1] \in {"model", "call", "form", "prep"}
  BY DEF Effects, Model, Call, Form, Prep
<1> QED
  BY <1>1 DEF OutcomeEvents

\* The event of an outcome, by its fields.
LEMMA OutcomeFields ==
  ASSUME NEW e \in Effects, NEW how, NEW ev, OutcomeEvents(e, how) = <<ev>>
  PROVE  /\ ev.of = e[2] /\ ev.how = how
         /\ ev.kind \in {"message.terminal", "invocation.terminal", "approval.resolved",
                        "artifacts.ready"}
         /\ e[1] = "model" <=> ev.kind = "message.terminal"
         /\ e[1] = "call" <=> ev.kind = "invocation.terminal"
         /\ e[1] = "form" <=> ev.kind = "approval.resolved"
         /\ e[1] = "prep" <=> ev.kind = "artifacts.ready"
<1>1. PICK kind \in {"message.terminal", "invocation.terminal", "approval.resolved",
                     "artifacts.ready"} :
        /\ OutcomeEvents(e, how) = <<Ev(kind, e[2], how)>>
        /\ e[1] = "model" <=> kind = "message.terminal"
        /\ e[1] = "call" <=> kind = "invocation.terminal"
        /\ e[1] = "form" <=> kind = "approval.resolved"
        /\ e[1] = "prep" <=> kind = "artifacts.ready"
  BY OutcomeIs
<1>2. ev = Ev(kind, e[2], how)
  <2>1. <<ev>>[1] = ev /\ <<Ev(kind, e[2], how)>>[1] = Ev(kind, e[2], how)
    OBVIOUS
  <2> QED
    BY <1>1, <2>1
<1>3. ev.kind = kind /\ ev.of = e[2] /\ ev.how = how
  BY <1>2 DEF Ev
<1> QED
  BY <1>1, <1>3

\* What a won effect leaves in the log.
LEMMA WonIsLogged ==
  ASSUME LogOK, NEW e \in Effects, Won(e)
  PROVE  /\ e[1] = "model" => e[2] \in Answered
         /\ e[1] = "call" => e[2] \in Ended
         /\ e[1] = "form" => e[2] \in Ruled
         /\ e[1] = "prep" => e[2] \in Logged(log, "artifacts.ready")
<1>1. PICK how \in Outcomes(e), i \in 1 .. Len(log) : OutcomeEvents(e, how) = <<log[i]>>
  BY DEF Won
<1>2. PICK ev : ev = log[i]
  OBVIOUS
<1>3. ev.of \in Logged(log, ev.kind)
  BY <1>2, LoggedOf DEF LogOK
<1> QED
  BY <1>1, <1>2, <1>3, OutcomeFields DEF Answered, Ended, Ruled

\* A model call in flight has no answer.
LEMMA InFlightUnanswered ==
  ASSUME LogOK, TurnInv, NEW n \in InFlight(log)
  PROVE  n \in Begun /\ n \notin Answered
<1>1. PICK start : start = LastAt(log, {"message.started"})
  OBVIOUS
<1>2. start \in 1 .. Len(log) /\ log[start].kind = "message.started"
  <2>1. 1 \in At(log, {"message.started"})
    BY DEF LogOK, At
  <2> QED
    BY <1>1, <2>1, LastAtIs DEF LogOK
<1>3. /\ n = log[start].of
      /\ \A i \in At(log, {"message.terminal", "turn.closed"}) :
           ~(i > start /\ (log[i].kind = "message.terminal" => log[i].of = n))
  BY <1>1 DEF InFlight
<1>4. ASSUME NEW i \in 1 .. Len(log), log[i].kind = "message.terminal", log[i].of = n
      PROVE  FALSE
  <2>1. PICK j \in 1 .. Len(log) : j < i /\ log[j].kind = "message.started" /\ log[j].of = n
    BY <1>4 DEF TurnInv, ModelCallsAlternate
  <2>2. j = start
    BY <1>2, <1>3, <2>1 DEF LogOK, IdsAreUnique, SameId
  <2>3. i \in At(log, {"message.terminal", "turn.closed"}) /\ i > start
    BY <1>2, <1>4, <2>1, <2>2 DEF At, LogOK
  <2> QED
    BY <1>3, <1>4, <2>3
<1> QED
  BY <1>4, InFlightIsLast, LoggedOf DEF Answered, LogOK

LEMMA NextPreparationsArePending ==
  NextPreparations(log) \subseteq PendingPreparations(log)
BY DEF NextPreparations

\* What is derived has no outcome.
LEMMA DerivedIsNotWon ==
  ASSUME LogOK, TurnInv, NEW e \in Effects, e \in Derived(log)
  PROVE  ~Won(e)
<1>1. CASE \E n \in InFlight(log) : e = Model(n)
  BY <1>1, InFlightUnanswered, WonIsLogged DEF Model
<1>2. CASE \E c \in PendingInvocations(log) : e = Call(c)
  BY <1>2, WonIsLogged DEF Call, PendingInvocations, Ended
<1>3. CASE \E c \in PendingApprovals(log) : e = Form(c)
  BY <1>3, WonIsLogged DEF Form, PendingApprovals, Ruled
<1>4. CASE \E s \in NextPreparations(log) : e = Prep(s)
  BY <1>4, NextPreparationsArePending, WonIsLogged DEF Prep, PendingPreparations
<1> QED
  BY <1>1, <1>2, <1>3, <1>4, DerivedIs

\* An idle turn derives nothing.
LEMMA IdleDerivesNothing ==
  ASSUME LogOK, TurnInv, Idle
  PROVE  Derived(log) = {} /\ InFlight(log) = {}
<1>1. InFlight(log) = {}
  BY InFlightUnanswered DEF Idle, TurnIsIdle
<1>2. PendingInvocations(log) = {} /\ PendingApprovals(log) = {} /\ NextPreparations(log) = {}
  BY NextPreparationsArePending
  DEF Idle, TurnIsIdle, PendingInvocations, PendingApprovals, Called, Ended, Asked, Ruled
<1> QED
  BY <1>1, <1>2, DerivedIs

LEMMA Least ==
  ASSUME NEW n \in Nat, NEW T \in SUBSET (1 .. n), T # {}
  PROVE  \E j \in T : \A i \in T : j <= i
<1>1. PICK U : U = {n + 1 - i : i \in T}
  OBVIOUS
<1>2. \A i \in T : i \in 1 .. n
  OBVIOUS
<1>3. U \in SUBSET (1 .. n) /\ U # {}
  <2>1. ASSUME NEW m \in U
        PROVE  m \in 1 .. n
    <3>1. PICK i \in T : m = n + 1 - i
      BY <1>1
    <3> QED
      BY <1>2, <3>1
  <2>2. U # {}
    BY <1>1
  <2> QED
    BY <2>1, <2>2
<1>4. PICK m \in U : \A k \in U : k <= m
  BY <1>3, Greatest
<1>5. PICK j \in T : m = n + 1 - j
  BY <1>1
<1>6. ASSUME NEW i \in T
      PROVE  j <= i
  <2>1. n + 1 - i <= n + 1 - j
    BY <1>1, <1>4, <1>5
  <2>2. i \in 1 .. n /\ j \in 1 .. n
    BY <1>2
  <2> QED
    BY <2>1, <2>2
<1> QED
  BY <1>6

\* The first of the pending preparations is due.
LEMMA SomePreparationIsDue ==
  ASSUME LogOK, PendingPreparations(log) # {}
  PROVE  NextPreparations(log) # {}
<1>1. PICK T : T = {i \in At(log, {"received"}) : log[i].of \in PendingPreparations(log)}
  OBVIOUS
<1>2. T \in SUBSET (1 .. Len(log)) /\ Len(log) \in Nat
  BY <1>1 DEF At, LogOK
<1>3. T # {}
  BY <1>1 DEF PendingPreparations, Logged
<1>4. PICK j \in T : \A k \in T : j <= k
  BY <1>2, <1>3, Least
<1>5. \A k \in At(log, {"received"}) : k < j => log[k].of \notin PendingPreparations(log)
  <2>1. \A k \in At(log, {"received"}) : k \in Nat
    BY DEF At, LogOK
  <2> QED
    BY <1>1, <1>2, <1>4, <2>1
<1> QED
  BY <1>1, <1>4, <1>5 DEF NextPreparations

\* An open turn that is not idle derives something, unless it was parked or a gated call was
\* denied.
LEMMA BusyDerives ==
  ASSUME LogOK, TurnInv, NoneDenied, Open(log), ~HasWaited(log), ~Idle
  PROVE  \E e : e \in Derived(log)
<1>1. CASE ~(Begun \subseteq Answered)
  BY <1>1, InFlightIsLast, DerivedIs
<1>2. ASSUME NEW c \in Asked, c \notin Ruled
      PROVE  \E e : e \in Derived(log)
  BY <1>2, DerivedIs DEF PendingApprovals, Asked, Ruled
<1>3. ASSUME NEW c \in Called, c \notin Ended
      PROVE  \E e : e \in Derived(log)
  <2>1. c \in PendingInvocations(log)
    BY <1>3 DEF PendingInvocations, Called, Ended
  <2>2. CASE c \in Gated /\ c \notin Ruled
    <3>1. c \in Asked
      BY <2>2 DEF TurnInv, CallsAreLegal
    <3> QED
      BY <1>2, <2>2, <3>1
  <2>3. CASE c \in Gated /\ c \in Ruled
    <3>1. PICK i \in 1 .. Len(log) : log[i].kind = "approval.resolved" /\ log[i].of = c
      BY <2>3, LoggedOf DEF Ruled, LogOK
    <3>2. i \in At(log, {"approval.resolved"}) /\ log[i].how = "granted"
      BY <3>1 DEF NoneDenied, At, LogOK
    <3>3. c \in Granted(log)
      BY <3>1, <3>2 DEF Granted
    <3> QED
      BY <2>1, <3>3, DerivedIs
  <2>4. CASE c \notin Gated
    BY <2>1, <2>4, DerivedIs
  <2> QED
    BY <2>2, <2>3, <2>4
<1>4. CASE PendingPreparations(log) # {}
  BY <1>4, SomePreparationIsDue, DerivedIs
<1> QED
  BY <1>1, <1>2, <1>3, <1>4 DEF Idle, TurnIsIdle

\* An answer that carries the calls of the turn comes before any of them has ended.
HeadFits(ev) ==
  ev.kind = "message.terminal" /\ ev.how = "completed" =>
    CallsOf(log, ev.of) = <<>> \/ Ended = {}

\* An outcome that waits for its cascade.
Fresh(ev) ==
  /\ ev.kind \in {"message.terminal", "invocation.terminal", "approval.resolved",
                  "artifacts.ready"}
  /\ ev.kind = "approval.resolved" => ev.how = "granted" /\ ~Idle

Steady == recovered /\ NoneDenied

Settles == job.op \in {"outcome", "push"}

OutcomeOK ==
  /\ job.at = "reload" => ~Settles
  /\ job.at = "append" =>
       /\ job.effect \in Effects /\ rows[job.effect] # "none"
       /\ job.how \in Outcomes(job.effect)

FirstAnswer ==
  /\ RunningAt(job.at) => Spent(job.frames) \/ HeadFits(NextEvent(job.frames))
  /\ job.at = "commit" /\ job.frames[1].todo # <<>> => HeadFits(job.frames[1].todo[1])

\* No row asks for what has its outcome, but for the one that the commit deletes.
NoReplay ==
  Steady =>
    \A e \in Effects : rows[e] # "none" => ~Won(e) \/ (job.at = "commit" /\ job.effect = e)

NeverIdle == NoneDenied /\ NothingToRecover => ~Idle \/ job.at = "commit"

Cascades ==
  Steady =>
    /\ job.at = "commit" => job.frames[1].todo # <<>> /\ Fresh(job.frames[1].todo[1])
    /\ job.at = "run" /\ Settles =>
         \/ Spent(job.frames) /\ ~Idle
         \/ job.frames # <<>> /\ Fresh(NextEvent(job.frames))
    /\ job.at = "clear" \/ (job.at = "settle" /\ Settles) => ~Idle

PathInv == OutcomeOK /\ FirstAnswer /\ NoReplay /\ NeverIdle /\ Cascades

\* The answer that carries calls is the first that is completed.
LEMMA FirstCompleted ==
  ASSUME NEW L \in Seq(Event), NEW completed,
         completed = {i \in At(L, {"message.terminal"}) : L[i].how = "completed"},
         completed # {}
  PROVE  /\ (CHOOSE i \in completed : \A j \in completed : i <= j) \in completed
         /\ \A j \in completed : (CHOOSE i \in completed : \A k \in completed : i <= k) <= j
<1>1. completed \in SUBSET (1 .. Len(L)) /\ Len(L) \in Nat
  BY DEF At
<1>2. \E i \in completed : \A j \in completed : i <= j
  BY <1>1, Least
<1> QED
  BY <1>2

LEMMA CallsOfFirst ==
  ASSUME NEW L \in Seq(Event), NEW n, CallsOf(L, n) # <<>>
  PROVE  \E i \in 1 .. Len(L) :
           /\ L[i].kind = "message.terminal" /\ L[i].how = "completed" /\ L[i].of = n
           /\ \A j \in 1 .. Len(L) :
                L[j].kind = "message.terminal" /\ L[j].how = "completed" => i <= j
<1>1. PICK completed :
        completed = {i \in At(L, {"message.terminal"}) : L[i].how = "completed"}
  OBVIOUS
<1>2. PICK first : first = CHOOSE i \in completed : \A j \in completed : i <= j
  OBVIOUS
<1>3. completed # {} /\ L[first].of = n
  BY <1>1, <1>2 DEF CallsOf
<1>4. first \in completed /\ \A j \in completed : first <= j
  BY <1>1, <1>2, <1>3, FirstCompleted
<1>5. \A j : j \in completed <=> /\ j \in 1 .. Len(L) /\ L[j].kind = "message.terminal"
                                 /\ L[j].how = "completed"
  BY <1>1 DEF At
<1> QED
  BY <1>3, <1>4, <1>5

LEMMA CallsStill ==
  ASSUME NEW L, NEW M, NEW kinds, Longer(L, M, kinds), "message.terminal" \in kinds, NEW n
  PROVE  CallsOf(M, n) = CallsOf(L, n)
<1>1. /\ At(M, {"message.terminal"}) = At(L, {"message.terminal"})
      /\ \A i \in At(L, {"message.terminal"}) : M[i] = L[i]
  <2>1. {"message.terminal"} \in SUBSET kinds
    OBVIOUS
  <2> QED
    BY <2>1, AtStays
<1>2. PICK completed :
        completed = {i \in At(L, {"message.terminal"}) : L[i].how = "completed"}
  OBVIOUS
<1>3. completed = {i \in At(M, {"message.terminal"}) : M[i].how = "completed"}
  BY <1>1, <1>2
<1>4. PICK first : first = CHOOSE i \in completed : \A j \in completed : i <= j
  OBVIOUS
<1>5. completed # {} => first \in completed
  BY <1>2, <1>4, FirstCompleted DEF Longer
<1>6. CallsOf(L, n) = IF completed # {} /\ L[first].of = n THEN Calls ELSE <<>>
  BY <1>2, <1>4 DEF CallsOf
<1>7. CallsOf(M, n) = IF completed # {} /\ M[first].of = n THEN Calls ELSE <<>>
  BY <1>3, <1>4 DEF CallsOf
<1>8. completed # {} => M[first] = L[first]
  BY <1>1, <1>2, <1>5
<1> QED
  BY <1>6, <1>7, <1>8

\* What other writers append leaves all this as it is.
LEMMA OthersKeepPath ==
  ASSUME LogOK, LogOK', OthersAppend
  PROVE  /\ Idle' <=> Idle
         /\ NoneDenied' <=> NoneDenied
         /\ \A e \in Effects : Won(e)' <=> Won(e)
         /\ \A ev : HeadFits(ev)' <=> HeadFits(ev)
         /\ \A ev : Fresh(ev)' <=> Fresh(ev)
<1>1. \A kind : kind # "foreign" => Logged(log, kind)' = Logged(log, kind)
  BY OthersKeepSets
<1>2. PICK L : L = log'
  OBVIOUS
<1>3. Longer(log, L, Kinds \ {"foreign"}) /\ L \in Seq(Event)
  BY <1>2 DEF Longer, OthersAppend, LogOK
<1>4. Idle' <=> Idle
  <2>1. UNCHANGED <<Begun, Answered, Called, Ended, Asked, Ruled>>
    BY SetsRest
  <2>2. PendingPreparations(log)' = PendingPreparations(log)
    BY <1>1 DEF PendingPreparations
  <2>3. Open(log)' <=> Open(log)
    <3>1. Open(L) <=> Logged(L, "turn.closed") = {}
      BY <1>3, OpenIs
    <3>2. Open(log) <=> Logged(log, "turn.closed") = {}
      BY OpenIs DEF LogOK
    <3>3. Logged(L, "turn.closed") = Logged(log, "turn.closed")
      BY <1>1, <1>2
    <3> QED
      BY <1>2, <3>1, <3>2, <3>3
  <2>4. TurnIsIdle' <=> TurnIsIdle
    BY <2>1 DEF TurnIsIdle
  <2>5. HasWaited(log)' <=> HasWaited(log)
    <3>1. HasWaited(L) <=> Logged(L, "turn.waiting") # {}
      BY <1>3, WaitedIs
    <3>2. HasWaited(log) <=> Logged(log, "turn.waiting") # {}
      BY WaitedIs DEF LogOK
    <3>3. Logged(L, "turn.waiting") = Logged(log, "turn.waiting")
      BY <1>1, <1>2
    <3> QED
      BY <1>2, <3>1, <3>2, <3>3
  <2> QED
    BY <2>2, <2>3, <2>4, <2>5 DEF Idle
<1>5. /\ \A i \in 1 .. Len(log) : i \in 1 .. Len(log') /\ log'[i] = log[i]
      /\ \A i \in 1 .. Len(log') : i \in 1 .. Len(log) \/ log'[i].kind = "foreign"
  BY DEF OthersAppend
<1>6. NoneDenied' <=> NoneDenied
  BY <1>5 DEF NoneDenied
<1>7. ASSUME NEW e \in Effects
      PROVE  Won(e)' <=> Won(e)
  <2>1. ASSUME NEW how, NEW i \in 1 .. Len(log'), OutcomeEvents(e, how) = <<log'[i]>>
        PROVE  i \in 1 .. Len(log)
    <3>1. PICK ev : ev = log'[i]
      OBVIOUS
    <3>2. ev.kind # "foreign"
      BY <2>1, <3>1, OutcomeFields
    <3> QED
      BY <1>5, <3>1, <3>2
  <2> QED
    BY <1>5, <2>1 DEF Won
<1>8. ASSUME NEW ev
      PROVE  HeadFits(ev)' <=> HeadFits(ev)
  <2>1. "message.terminal" \in Kinds \ {"foreign"}
    BY DEF Kinds
  <2>2. PICK n : n = ev.of
    OBVIOUS
  <2>3. CallsOf(L, n) = CallsOf(log, n)
    BY <1>3, <2>1, CallsStill
  <2>4. Ended' = Ended
    BY <1>1 DEF Ended
  <2> QED
    BY <1>2, <2>2, <2>3, <2>4 DEF HeadFits
<1> QED
  BY <1>4, <1>6, <1>7, <1>8 DEF Fresh

LEMMA PathUndisturbed ==
  ASSUME LogOK, LogOK', OthersAppend, PathInv, UNCHANGED <<job, recovered>>,
         \A e \in Effects : rows'[e] = "none" <=> rows[e] = "none",
         \A e \in Effects : wakes'[e] = "none" => wakes[e] = "none"
  PROVE  PathInv'
<1>1. /\ Idle' <=> Idle
      /\ NoneDenied' <=> NoneDenied
      /\ \A e \in Effects : Won(e)' <=> Won(e)
      /\ \A ev : HeadFits(ev)' <=> HeadFits(ev)
      /\ \A ev : Fresh(ev)' <=> Fresh(ev)
  BY OthersKeepPath
<1>2. PICK next, first : next = NextEvent(job.frames) /\ first = job.frames[1].todo[1]
  OBVIOUS
<1>3. next = NextEvent(job'.frames) /\ first = job'.frames[1].todo[1]
  BY <1>2
<1>4. /\ HeadFits(NextEvent(job.frames))' <=> HeadFits(next)
      /\ HeadFits(job.frames[1].todo[1])' <=> HeadFits(first)
      /\ Fresh(NextEvent(job.frames))' <=> Fresh(next)
      /\ Fresh(job.frames[1].todo[1])' <=> Fresh(first)
  BY <1>1, <1>3
<1>5. OutcomeOK' /\ FirstAnswer'
  BY <1>2, <1>4 DEF PathInv, OutcomeOK, FirstAnswer, Settles
<1>6. Steady' <=> Steady
  BY <1>1 DEF Steady
<1>7. NoReplay'
  BY <1>1, <1>6 DEF PathInv, NoReplay
<1>8. NothingToRecover' => NothingToRecover
  BY StillToRecover
<1>9. NeverIdle'
  BY <1>1, <1>8 DEF PathInv, NeverIdle
<1>10. Cascades'
  BY <1>1, <1>2, <1>4, <1>6 DEF PathInv, Cascades, Settles
<1> QED
  BY <1>5, <1>7, <1>9, <1>10 DEF PathInv

\* A job that goes on without activations, or ends.
LEMMA PathGoes ==
  ASSUME LogOK, LogOK', TurnInv, OthersAppend, PathInv, job.at # "commit",
         job'.at \notin {"append", "commit", "reload", "run", "refeed"},
         NoneDenied /\ NothingToRecover' => ~Idle,
         \A e \in Effects :
           rows'[e] # "none" => \/ e \in Derived(log)
                                \/ (recovered' => recovered) /\ rows[e] # "none",
         Steady' /\ (job'.at = "clear" \/ (job'.at = "settle" /\ Settles')) => ~Idle
  PROVE  PathInv'
<1>1. /\ Idle' <=> Idle
      /\ NoneDenied' <=> NoneDenied
      /\ \A e \in Effects : Won(e)' <=> Won(e)
  BY OthersKeepPath
<1>2. OutcomeOK' /\ FirstAnswer'
  BY DEF OutcomeOK, FirstAnswer, RunningAt
<1>3. NoReplay'
  <2> SUFFICES ASSUME Steady', NEW e \in Effects, rows'[e] # "none"
               PROVE  ~Won(e)'
    BY DEF NoReplay
  <2>1. CASE e \in Derived(log)
    BY <1>1, <2>1, DerivedIsNotWon
  <2>2. CASE (recovered' => recovered) /\ rows[e] # "none"
    <3>1. Steady
      BY <1>1, <2>2 DEF Steady
    <3> QED
      BY <1>1, <2>2, <3>1 DEF PathInv, NoReplay
  <2> QED
    BY <2>1, <2>2
<1>4. NeverIdle'
  BY <1>1 DEF NeverIdle
<1>5. Cascades'
  BY <1>1 DEF Cascades
<1> QED
  BY <1>2, <1>3, <1>4, <1>5 DEF PathInv

LEMMA PathStays ==
  ASSUME PathInv, job.at # "commit", NothingToRecover' => NothingToRecover
  PROVE  NoneDenied /\ NothingToRecover' => ~Idle
BY DEF PathInv, NeverIdle

LEMMA PathSettles ==
  ASSUME LogOK, UNCHANGED log, recovered' = recovered,
         PathInv, job.at = "clear" \/ (job.at = "settle" /\ Settles)
  PROVE  Steady' => ~Idle
<1>1. NoneDenied' <=> NoneDenied
  BY DEF NoneDenied
<1> QED
  BY <1>1 DEF PathInv, Cascades, Steady

LEMMA QuietKeepsPath ==
  ASSUME SettlementInv, LifeInv, OutboxInv, PathInv, NEW e \in Effects,
         Claim(e) \/ Park(e) \/ Discard(e) \/ FreeLease(e) \/ ClaimWake(e)
  PROVE  PathInv'
<1>1. LogOK /\ RestTypes /\ RowTypes
  BY OutboxParts
<1>2. UNCHANGED <<log, job, recovered>>
  BY DEF Claim, Park, Discard, FreeLease, ClaimWake, durable, volatile
<1>3. LogOK' /\ OthersAppend
  BY <1>1, <1>2, LogRests
<1>4. \A x \in Effects : rows'[x] = "none" <=> rows[x] = "none"
  BY <1>1 DEF Claim, Park, Discard, FreeLease, ClaimWake, durable, RowTypes
<1>5. \A x \in Effects : wakes'[x] = "none" => wakes[x] = "none"
  BY <1>1 DEF Claim, Park, Discard, FreeLease, ClaimWake, durable, RestTypes
<1> QED
  BY <1>1, <1>2, <1>3, <1>4, <1>5, PathUndisturbed

LEMMA ForeignKeepsPath ==
  ASSUME SettlementInv, SettlementInv', LifeInv, OutboxInv, PathInv, Foreign
  PROVE  PathInv'
<1>1. LogOK /\ LogOK'
  BY OutboxParts DEF SettlementInv
<1>2. OthersAppend
  BY <1>1, ForeignAppends
<1>3. UNCHANGED <<rows, wakes, job, recovered>>
  BY DEF Foreign, volatile
<1> QED
  BY <1>1, <1>2, <1>3, PathUndisturbed

\* A job begins.
LEMMA BeginKeepsPath ==
  ASSUME SettlementInv, LifeInv, OutboxInv, PathInv,
         NEW op, NEW at, NEW e, NEW how, Begin(op, at, e, how),
         \/ at = "append" /\ e \in Effects /\ rows[e] # "none" /\ how \in Outcomes(e)
         \/ at = "recover"
         \/ at = "reload" /\ op \notin {"outcome", "push"}
  PROVE  PathInv'
<1>1. LogOK /\ UNCHANGED log /\ LogOK' /\ OthersAppend
  BY OutboxParts, LogRests DEF Begin, durable
<1>2. job' = [NoJob EXCEPT !.op = op, !.at = at, !.effect = e, !.how = how,
                           !.due = op \in {"steer", "failed"}]
      /\ Free /\ UNCHANGED <<log, rows, wakes, recovered>>
  BY DEF Begin, durable
<1>3. /\ job'.op = op /\ job'.at = at /\ job'.effect = e /\ job'.how = how
  BY <1>2 DEF NoJob
<1>4. /\ Idle' <=> Idle
      /\ NoneDenied' <=> NoneDenied
      /\ \A x \in Effects : Won(x)' <=> Won(x)
  BY <1>1, OthersKeepPath
<1>5. OutcomeOK' /\ FirstAnswer'
  BY <1>2, <1>3 DEF OutcomeOK, FirstAnswer, RunningAt, Settles
<1>6. NoReplay'
  BY <1>2, <1>3, <1>4 DEF PathInv, NoReplay, Steady, Free
<1>7. NothingToRecover' <=> NothingToRecover
  BY <1>2 DEF NothingToRecover
<1>8. NeverIdle'
  BY <1>2, <1>3, <1>4, <1>7 DEF PathInv, NeverIdle, Free
<1>9. Cascades'
  BY <1>3 DEF Cascades
<1> QED
  BY <1>5, <1>6, <1>8, <1>9 DEF PathInv

LEMMA StartKeepsPath ==
  ASSUME SettlementInv, LifeInv, OutboxInv, PathInv,
         \/ \E e \in Effects : Answer(e) \/ Push(e) \/ StartFailed(e) \/ StartWake(e)
         \/ \E s \in Steers : StartSteer(s)
         \/ StartAdoption
  PROVE  PathInv'
<1>1. ASSUME NEW e \in Effects, Answer(e) \/ Push(e)
      PROVE  PathInv'
  <2>1. PICK op \in {"outcome", "push"}, how \in Outcomes(e) : Settling(op, e, how)
    BY <1>1 DEF Answer, Push, StartOutcome, StartPush
  <2>2. PICK at : /\ Begin(op, at, e, how)
                  /\ at = "recover" \/ (at = "append" /\ rows[e] # "none")
    BY <2>1 DEF Settling
  <2> QED
    BY <2>2, BeginKeepsPath
<1>2. ASSUME NEW e \in Effects, StartFailed(e)
      PROVE  PathInv'
  BY <1>2, BeginKeepsPath DEF StartFailed
<1>3. ASSUME NEW e \in Effects, StartWake(e)
      PROVE  PathInv'
  BY <1>3, BeginKeepsPath DEF StartWake
<1>4. ASSUME NEW s \in Steers, StartSteer(s)
      PROVE  PathInv'
  BY <1>4, BeginKeepsPath DEF StartSteer
<1>5. ASSUME StartAdoption
      PROVE  PathInv'
  BY <1>5, BeginKeepsPath DEF StartAdoption
<1> QED
  BY <1>1, <1>2, <1>3, <1>4, <1>5

\* A rows' table that a settlement has reconciled has what the log derives.
LEMMA ReconciledIsDerived ==
  ASSUME LogOK, NEW fold, Current(fold), NEW table, rows' = Reconciled(fold, table)
  PROVE  \A e \in Effects : rows'[e] # "none" => e \in Derived(log)
<1>1. Derived(fold) = Derived(log)
  BY CurrentDerives
<1> QED
  BY <1>1 DEF Reconciled

(***************************************************************************)
(* Steps without activations.                                              *)
(***************************************************************************)

LEMMA DropKeepsPath ==
  ASSUME SettlementInv, LifeInv, OutboxInv, PathInv, DropOutcome
  PROVE  PathInv'
<1>1. LogOK /\ JobOK /\ JobTypes /\ TurnInv
  BY OutboxParts
<1>2. /\ UNCHANGED <<log, wakes, recovered>> /\ job.at = "drop" /\ Goto("recover")
      /\ rows' = Reconciled(Loop, Deleted(rows, job.effect))
  BY DEF DropOutcome, Rest
<1>3. PICK fold, table : fold = Loop /\ table = Deleted(rows, job.effect)
  OBVIOUS
<1>4. \A e \in Effects : rows'[e] # "none" => e \in Derived(log)
  BY <1>1, <1>2, <1>3, LoopFolds, ReconciledIsDerived
<1>5. job'.at = "recover"
  BY <1>1, <1>2, PhaseIs
<1>6. NoneDenied /\ NothingToRecover' => ~Idle
  BY <1>2, RestRecovers, PathStays
<1>7. LogOK' /\ OthersAppend
  BY <1>1, <1>2, LogRests
<1> QED
  BY <1>1, <1>2, <1>4, <1>5, <1>6, <1>7, PathGoes

LEMMA SettleKeepsPath ==
  ASSUME SettlementInv, LifeInv, OutboxInv, PathInv, Settle
  PROVE  PathInv'
<1>1. LogOK /\ JobOK /\ JobTypes /\ TurnInv
  BY OutboxParts
<1>2. /\ UNCHANGED <<log, wakes, recovered>> /\ job.at \notin {"commit", "run"}
      /\ rows' = Reconciled(Loop, rows)
  BY DEF Settle, Rest
<1>3. PICK phase \in {"clear", "recover", "giveup"} :
        Goto(phase) /\ (phase = "clear" => job.at = "settle" /\ Settles)
  BY DEF Settle, Settles
<1>4. PICK fold, table : fold = Loop /\ table = rows
  OBVIOUS
<1>5. \A e \in Effects : rows'[e] # "none" => e \in Derived(log)
  BY <1>1, <1>2, <1>4, LoopFolds, ReconciledIsDerived
<1>6. job'.at = phase
  BY <1>1, <1>3, PhaseIs
<1>7. NoneDenied /\ NothingToRecover' => ~Idle
  BY <1>2, RestRecovers, PathStays
<1>8. LogOK' /\ OthersAppend
  BY <1>1, <1>2, LogRests
<1>9. phase = "clear" => (Steady' => ~Idle)
  BY <1>1, <1>2, <1>3, PathSettles
<1> QED
  BY <1>1, <1>2, <1>5, <1>6, <1>7, <1>8, <1>9, PathGoes

LEMMA ClearKeepsPath ==
  ASSUME SettlementInv, LifeInv, OutboxInv, PathInv, ClearOutcome
  PROVE  PathInv'
<1>1. LogOK /\ TurnInv
  BY OutboxParts
<1>2. job.at = "clear" /\ job' = NoJob /\ UNCHANGED <<log, rows, recovered>>
  BY DEF ClearOutcome
<1>3. job'.at = "free"
  BY <1>2, NoJobIs
<1>4. LogOK' /\ OthersAppend
  BY <1>1, <1>2, LogRests
<1>5. NoneDenied /\ NothingToRecover' => ~Idle
  <2>1. NothingToRecover' => recovered
    BY <1>2 DEF NothingToRecover
  <2> QED
    BY <1>2, <2>1 DEF PathInv, Cascades, Steady
<1> QED
  BY <1>1, <1>2, <1>3, <1>4, <1>5, PathGoes

LEMMA ReturnKeepsPath ==
  ASSUME SettlementInv, LifeInv, OutboxInv, PathInv, RunReturns
  PROVE  PathInv'
<1>1. LogOK /\ JobTypes /\ TurnInv
  BY OutboxParts
<1>2. /\ UNCHANGED <<log, rows, wakes, recovered>> /\ job.frames = <<>>
      /\ job.at \in {"run", "refeed"}
  BY DEF RunReturns, Rest, Running
<1>3. PICK phase \in {"settle", "resettle"} :
        Goto(phase) /\ (phase = "settle" => job.at = "run")
  BY <1>2 DEF RunReturns
<1>4. job'.at = phase /\ job'.op = job.op
  BY <1>1, <1>3, PhaseIs
<1>5. LogOK' /\ OthersAppend
  BY <1>1, <1>2, LogRests
<1>6. NoneDenied /\ NothingToRecover' => ~Idle
  BY <1>2, RestRecovers, PathStays
<1>7. phase = "settle" /\ Settles /\ Steady' => ~Idle
  <2>1. Steady' <=> Steady
    BY <1>2 DEF Steady, NoneDenied
  <2> QED
    BY <1>2, <1>3, <2>1 DEF PathInv, Cascades
<1> QED
  BY <1>1, <1>2, <1>3, <1>4, <1>5, <1>6, <1>7, PathGoes DEF Settles

\* A job that starts an activation.
LEMMA PathRuns ==
  ASSUME LogOK, PathInv, UNCHANGED <<log, rows, wakes, recovered>>, job.at # "commit",
         job'.at \in {"run", "refeed"}, NEW ev, ev = NextEvent(job'.frames), HeadFits(ev),
         job'.at = "run" => ~Settles'
  PROVE  PathInv'
<1>1. LogOK' /\ OthersAppend
  BY LogRests
<1>2. /\ Idle' <=> Idle
      /\ NoneDenied' <=> NoneDenied
      /\ \A e \in Effects : Won(e)' <=> Won(e)
      /\ HeadFits(ev)' <=> HeadFits(ev)
  BY <1>1, OthersKeepPath
<1>3. HeadFits(NextEvent(job.frames))'
  BY <1>2
<1>4. OutcomeOK' /\ FirstAnswer'
  BY <1>3 DEF OutcomeOK, FirstAnswer
<1>5. NoReplay' /\ NeverIdle'
  BY <1>2 DEF PathInv, NoReplay, NeverIdle, Steady, NothingToRecover
<1>6. Cascades'
  BY DEF Cascades
<1> QED
  BY <1>4, <1>5, <1>6 DEF PathInv

LEMMA ReloadKeepsPath ==
  ASSUME SettlementInv, LifeInv, OutboxInv, PathInv, ReloadForWake
  PROVE  PathInv'
<1>1. LogOK /\ JobTypes /\ TurnInv
  BY OutboxParts
<1>2. job.at = "reload" /\ UNCHANGED <<log, rows, wakes, recovered>> /\ ~Settles
  BY DEF ReloadForWake, Rest, PathInv, OutcomeOK
<1>3. CASE Goto("settle")
  <2>1. job'.at = "settle" /\ job'.op = job.op
    BY <1>1, <1>3, PhaseIs
  <2>2. LogOK' /\ OthersAppend
    BY <1>1, <1>2, LogRests
  <2>3. NoneDenied /\ NothingToRecover' => ~Idle
    BY <1>2, RestRecovers, PathStays
  <2> QED
    BY <1>1, <1>2, <2>1, <2>2, <2>3, PathGoes DEF Settles
<1>4. CASE RunAt("run", log, <<Ev("wake", 0, "wake")>>)
  <2>1. PICK fold, ev, todo : fold = log /\ ev = Ev("wake", 0, "wake") /\ todo = <<ev>>
    OBVIOUS
  <2>2. todo[1] = ev /\ ev.kind = "wake"
    BY <2>1 DEF Ev
  <2>3. job'.op = job.op /\ job'.at = "run" /\ NextEvent(job'.frames) = ev
    BY <1>1, <1>4, <2>1, <2>2, RunIs
  <2>4. HeadFits(ev)
    BY <2>2 DEF HeadFits
  <2> QED
    BY <1>1, <1>2, <2>3, <2>4, PathRuns DEF Settles
<1> QED
  BY <1>3, <1>4 DEF ReloadForWake

\* An answer that carries calls is the first one, before any call.
LEMMA LastCascadeFits ==
  ASSUME LogOK, TurnInv, NEW last, last = LastAt(log, CascadeKinds),
         At(log, CascadeKinds) # {}, NEW ev, ev = log[last]
  PROVE  HeadFits(ev)
<1> SUFFICES ASSUME ev.kind = "message.terminal", ev.how = "completed",
                    CallsOf(log, ev.of) # <<>>
             PROVE  Ended = {}
  BY DEF HeadFits
<1>1. /\ last \in 1 .. Len(log) /\ Len(log) \in Nat
      /\ \A j \in 1 .. Len(log) : log[j].kind \in CascadeKinds => j <= last
  <2>1. \A j \in 1 .. Len(log) : log[j].kind \in CascadeKinds => j \in At(log, CascadeKinds)
    BY DEF At, LogOK
  <2> QED
    BY <2>1, LastAtIs DEF LogOK
<1>2. PICK first \in 1 .. Len(log) :
        /\ log[first].kind = "message.terminal" /\ log[first].how = "completed"
        /\ log[first].of = ev.of
        /\ \A j \in 1 .. Len(log) :
             log[j].kind = "message.terminal" /\ log[j].how = "completed" => first <= j
  <2>1. PICK n : n = ev.of
    OBVIOUS
  <2> QED
    BY <2>1, CallsOfFirst DEF LogOK
<1>3. first = last
  BY <1>1, <1>2 DEF LogOK, IdsAreUnique, SameId
<1>4. ASSUME NEW c \in Ended
      PROVE  FALSE
  <2>1. PICK j \in 1 .. Len(log) : log[j].kind = "invocation.terminal"
    BY <1>4, LoggedOf DEF Ended, LogOK
  <2>2. j <= last
    BY <1>1, <2>1 DEF CascadeKinds
  <2>3. PICK i \in 1 .. Len(log) :
          i < j /\ log[i].kind = "message.terminal" /\ log[i].how = "completed"
    BY <2>1 DEF TurnInv, CallsFollowAnswers
  <2>4. first <= i
    BY <1>2, <2>3
  <2>5. j # last
    BY <2>1
  <2> QED
    BY <1>1, <1>3, <2>2, <2>3, <2>4, <2>5
<1> QED
  BY <1>4

\* The row that a commit deletes leaves a recovery row behind.
LEMMA CommitKeepsPath ==
  ASSUME SettlementInv, LifeInv, OutboxInv, PathInv, CommitOutcome
  PROVE  PathInv'
<1>1. LogOK /\ JobOK /\ JobTypes /\ CommitKnows /\ RestTypes /\ RowTypes
  BY OutboxParts
<1>2. job.at = "commit" /\ UNCHANGED <<log, recovered>>
  BY DEF CommitOutcome
<1>3. job.effect \in Effects
  BY <1>1, <1>2 DEF CommitKnows
<1>4. ~NothingToRecover'
  <2>1. wakes'[job.effect] # "none"
    BY <1>1, <1>3 DEF CommitOutcome, RestTypes
  <2> QED
    BY <1>3, <2>1 DEF NothingToRecover
<1>5. \A e \in Effects : rows'[e] = IF e = job.effect THEN "none" ELSE rows[e]
  BY <1>1, <1>3 DEF CommitOutcome, Deleted, RowTypes
<1>6. PICK todo, f, frames :
        /\ todo = job.frames[1].todo /\ f = Frame(cached', todo, AppendRetries, TRUE)
        /\ frames = <<f>>
  OBVIOUS
<1>7. job' = [job EXCEPT !.at = "run", !.frames = Returned(frames)]
  BY <1>6 DEF CommitOutcome
<1>8. job'.op = job.op /\ job'.at = "run" /\ job'.frames = Returned(frames)
  BY <1>1, <1>7 DEF JobTypes, Job
<1>9. f \in FrameType /\ f.todo = todo
  <2>1. todo \in Seq(Event) /\ cached' \in Seq(Event)
    <3>1. PICK c, fs : c = cached /\ fs = job.frames
      OBVIOUS
    <3>2. CommitOK(c, fs)
      BY <1>1, <1>2, <3>1 DEF JobOK
    <3>3. todo \in Seq(Event) /\ cached # <<>>
      BY <1>6, <3>1, <3>2 DEF CommitOK, Folds
    <3>4. cached' = cached \o todo /\ cached \in Seq(Event)
      BY <1>6, <3>1, <3>2, <3>3 DEF CommitOutcome, Loop, CommitOK, Folds
    <3> HIDE DEF Event
    <3> QED
      BY <3>3, <3>4
  <2>2. todo \in Seq(Incoming)
    <3>1. Event \subseteq Incoming
      BY DEF Incoming
    <3> HIDE DEF Event, Incoming
    <3> QED
      BY <2>1, <3>1
  <2>3. AppendRetries \in Nat
    BY SettlementAssumption
  <2> HIDE DEF Event, Incoming
  <2> QED
    BY <1>6, <2>1, <2>2, <2>3 DEF Frame, FrameType
<1>10. frames \in Seq(FrameType) /\ Len(frames) = 1 /\ frames[1] = f
  <2>1. \A x \in FrameType : /\ <<x>> \in Seq(FrameType) /\ Len(<<x>>) = 1
                              /\ <<x>>[1] = x
    <3> HIDE DEF FrameType
    <3> QED
      OBVIOUS
  <2> QED
    BY <1>6, <1>9, <2>1
<1>11. CASE todo # <<>>
  <2>1. Returned(frames) # <<>> /\ NextEvent(Returned(frames)) = todo[1]
    <3>1. 0 < Len(frames) /\ frames[Len(frames)].todo # <<>> /\ NextEvent(frames) = todo[1]
      BY <1>9, <1>10, <1>11 DEF NextEvent
    <3> QED
      BY <1>10, <3>1, ReturnedNext
  <2>2. PICK ev : ev = todo[1]
    OBVIOUS
  <2>3. LogOK' /\ OthersAppend
    BY <1>1, <1>2, LogRests
  <2>4. /\ NoneDenied' <=> NoneDenied
        /\ \A e \in Effects : Won(e)' <=> Won(e)
        /\ HeadFits(ev)' <=> HeadFits(ev)
        /\ Fresh(ev)' <=> Fresh(ev)
    BY <1>1, <2>3, OthersKeepPath
  <2>5. NextEvent(job'.frames) = ev /\ job'.frames # <<>>
    BY <1>8, <2>1, <2>2
  <2>6. /\ HeadFits(NextEvent(job.frames))' <=> HeadFits(ev)
        /\ Fresh(NextEvent(job.frames))' <=> Fresh(ev)
    BY <2>4, <2>5
  <2>7. HeadFits(ev) /\ (Steady => Fresh(ev))
    BY <1>2, <1>6, <1>11, <2>2 DEF PathInv, FirstAnswer, Cascades
  <2>8. Steady' <=> Steady
    BY <1>2, <2>4 DEF Steady
  <2>9. NoReplay'
    BY <1>2, <1>5, <2>4, <2>8 DEF PathInv, NoReplay
  <2>10. OutcomeOK' /\ FirstAnswer'
    BY <1>8, <2>6, <2>7 DEF OutcomeOK, FirstAnswer
  <2>11. NeverIdle'
    BY <1>4 DEF NeverIdle
  <2>12. Cascades'
    BY <1>8, <2>5, <2>6, <2>7, <2>8 DEF Cascades
  <2> QED
    BY <2>9, <2>10, <2>11, <2>12 DEF PathInv
<1>12. CASE todo = <<>>
  <2>1. ~Steady
    BY <1>2, <1>6, <1>12 DEF PathInv, Cascades
  <2>2. ~Steady'
    BY <1>2, <2>1 DEF Steady, NoneDenied
  <2>3. Spent(job'.frames)
    <3>1. Spent(frames)
      <4>1. InertFrom(todo, 0)
        BY <1>12 DEF InertFrom
      <4> QED
        BY <1>9, <1>10, <4>1 DEF Spent
    <3> QED
      BY <1>8, <1>10, <3>1, ReturnedSpent
  <2>4. OutcomeOK' /\ FirstAnswer'
    BY <1>8, <2>3 DEF OutcomeOK, FirstAnswer
  <2> QED
    BY <1>4, <2>2, <2>4 DEF PathInv, NoReplay, NeverIdle, Cascades
<1> QED
  BY <1>11, <1>12

LEMMA CurrentIsShorter ==
  ASSUME LogOK, NEW fold, Current(fold)
  PROVE  /\ TurnLog(fold) /\ Longer(fold, log, Kinds \ {"foreign"})
         /\ \A kind \in Kinds \ {"foreign"} : Logged(fold, kind) = Logged(log, kind)
         /\ InFlight(fold) = InFlight(log) /\ Derived(fold) = Derived(log)
         /\ Open(fold) <=> Open(log)
<1>1. TurnLog(fold)
  BY FoldIsTurnLog DEF Current
<1>2. Longer(fold, log, Kinds \ {"foreign"})
  BY DEF Longer, Current, Folds, LogOK
<1>3. \A kind \in Kinds \ {"foreign"} : Logged(fold, kind) = Logged(log, kind)
  BY <1>2, LoggedStill
<1>4. InFlight(fold) = InFlight(log)
  <2>1. {"message.started", "message.terminal", "turn.closed"} \in SUBSET (Kinds \ {"foreign"})
    BY DEF Kinds
  <2> QED
    BY <1>1, <1>2, <2>1, InFlightStill
<1>5. Open(fold) <=> Open(log)
  <2>1. "turn.closed" \in Kinds \ {"foreign"}
    BY DEF Kinds
  <2>2. Open(fold) <=> Logged(fold, "turn.closed") = {}
    BY <1>1, OpenIs DEF TurnLog
  <2>3. Open(log) <=> Logged(log, "turn.closed") = {}
    BY OpenIs DEF LogOK
  <2> QED
    BY <1>3, <2>1, <2>2, <2>3
<1> QED
  BY <1>1, <1>2, <1>3, <1>4, <1>5, CurrentDerives

\* A current loop knows whether the turn was parked.
LEMMA CurrentWaits ==
  ASSUME LogOK, NEW fold, Current(fold)
  PROVE  HasWaited(fold) <=> HasWaited(log)
<1>1. Logged(fold, "turn.waiting") = Logged(log, "turn.waiting")
  BY CurrentIsShorter DEF Kinds
<1>2. fold \in Seq(Event) /\ log \in Seq(Event)
  BY DEF Current, Folds, LogOK
<1> QED
  BY <1>1, <1>2, WaitedIs

\* What was not denied by now was never denied.
LEMMA DeniedStays ==
  ASSUME LogOK, LogOK', NEW items, Writes(items), log' = Appended(items), NoneDenied'
  PROVE  NoneDenied
BY Grown DEF NoneDenied

\* The turn that is not stranded has a path.
LEMMA AgreedIsBusy ==
  ASSUME LogOK, TurnInv, ExhaustKinds = {}, Agrees, ~Stranded(log, rows)
  PROVE  ~Idle
<1> SUFFICES ASSUME Idle
             PROVE  FALSE
  OBVIOUS
<1>1. Derived(log) = {} /\ InFlight(log) = {} /\ Open(log)
  BY IdleDerivesNothing DEF Idle
<1>2. \A e \in Effects : rows[e] = "none"
  BY <1>1 DEF Agrees
<1> QED
  BY <1>1, <1>2 DEF Stranded, Idle

LEMMA AfterRecoveryKeepsPath ==
  ASSUME SettlementInv, LifeInv, OutboxInv, PathInv, ExhaustKinds = {}, Recovering,
         UNCHANGED log, AfterRecovery, ~Stranded(log, rows)
  PROVE  PathInv'
<1>1. LogOK /\ JobTypes /\ RowTypes /\ RestTypes /\ OutboxOK /\ FailureOK /\ JobIntended
      /\ TurnInv
  BY OutboxParts
<1>2. job.at # "commit" /\ job.op # "failed"
  BY <1>1 DEF Recovering, FailureOK
<1>3. CASE job.due
  <2>1. PICK ev, f, frames :
          /\ ev = Command /\ f = Frame(log, <<ev>>, AppendRetries, TRUE) /\ frames = <<f>>
    OBVIOUS
  <2>2. job' = [job EXCEPT !.at = "run", !.due = FALSE, !.frames = frames]
        /\ UNCHANGED <<rows, wakes, recovered>>
    BY <1>3, <2>1 DEF AfterRecovery
  <2>3. job'.op = job.op /\ job'.at = "run" /\ job'.frames = frames
    BY <1>1, <2>2 DEF JobTypes, Job
  <2>4. NextEvent(job'.frames) = ev
    <3>1. NextEvent(frames) = f.todo[1]
      BY <2>1, OneNext
    <3>2. f.todo = <<ev>>
      BY <2>1 DEF Frame
    <3>3. <<ev>>[1] = ev
      OBVIOUS
    <3> QED
      BY <2>3, <3>1, <3>2, <3>3
  <2>5. HeadFits(ev)
    <3>1. ev.kind \in {"steer", "effect-failed"}
      BY <2>1 DEF Command, Ev
    <3> QED
      BY <3>1 DEF HeadFits
  <2>6. job.op \in {"steer", "failed"}
    BY <1>1, <1>3 DEF JobIntended
  <2> QED
    BY <1>1, <1>2, <2>2, <2>3, <2>4, <2>5, <2>6, PathRuns DEF Settles
<1>4. CASE ~job.due
  <2>1. job' = NoJob /\ JobDone /\ UNCHANGED rows
    BY <1>2, <1>4 DEF AfterRecovery, JobDone
  <2>2. job'.at = "free"
    BY <2>1, NoJobIs
  <2>3. LogOK' /\ OthersAppend
    BY <1>1, LogRests
  <2>4. CASE Settles
    <3>1. wakes' = wakes /\ recovered' = recovered
      BY <1>1, <2>1, <2>4 DEF JobDone, RestTypes, Settles
    <3>2. NoneDenied /\ NothingToRecover' => ~Idle
      BY <1>2, <3>1, RestRecovers, PathStays
    <3> QED
      BY <1>1, <1>2, <2>1, <2>2, <2>3, <3>1, <3>2, PathGoes
  <2>5. CASE ~Settles
    <3>1. Agrees
      BY <1>1, <1>4, <2>5 DEF OutboxOK, Settles
    <3>2. ~Idle
      BY <1>1, <3>1, AgreedIsBusy
    <3>3. \A e \in Effects : rows'[e] # "none" => e \in Derived(log)
      BY <2>1, <3>1 DEF Agrees
    <3> QED
      BY <1>1, <1>2, <2>2, <2>3, <3>2, <3>3, PathGoes
  <2> QED
    BY <2>4, <2>5
<1> QED
  BY <1>3, <1>4

LEMMA RecoverKeepsPath ==
  ASSUME SettlementInv, LifeInv, OutboxInv, PathInv, ExhaustKinds = {}, Recover
  PROVE  PathInv'
<1>1. LogOK /\ JobTypes /\ TurnInv
  BY OutboxParts
<1>2. UNCHANGED log /\ job.at = "recover" /\ Recovering
  BY DEF Recover, Recovering
<1>3. CASE ~Stranded(log, rows)
  BY <1>2, <1>3, AfterRecoveryKeepsPath DEF Recover
<1>4. CASE Stranded(log, rows)
  <2>1. UNCHANGED <<rows, wakes, recovered>>
    BY <1>4 DEF Recover
  <2>2. CASE LatestCascade(log) # <<>>
    <3>1. PICK last, ev : last = LastAt(log, CascadeKinds) /\ ev = log[last]
      OBVIOUS
    <3>2. LatestCascade(log) = <<ev>> /\ At(log, CascadeKinds) # {}
      BY <2>2, <3>1 DEF LatestCascade
    <3>3. HeadFits(ev)
      BY <1>1, <3>1, <3>2, LastCascadeFits
    <3>4. PICK fold, todo : fold = log /\ todo = <<ev>> /\ RunAt("refeed", fold, todo)
      BY <1>4, <2>2, <3>2 DEF Recover
    <3>5. job'.at = "refeed" /\ NextEvent(job'.frames) = ev
      <4>1. todo[1] = ev
        BY <3>4
      <4> QED
        BY <1>1, <3>4, <4>1, RunIs
    <3> QED
      BY <1>1, <1>2, <2>1, <3>3, <3>5, PathRuns
  <2>3. CASE LatestCascade(log) = <<>>
    <3>1. Goto("giveup")
      BY <1>4, <2>3 DEF Recover
    <3>2. job'.at = "giveup"
      BY <1>1, <3>1, PhaseIs
    <3>3. LogOK' /\ OthersAppend
      BY <1>1, <1>2, LogRests
    <3>4. NoneDenied /\ NothingToRecover' => ~Idle
      BY <1>2, <2>1, RestRecovers, PathStays
    <3> QED
      BY <1>1, <1>2, <2>1, <3>2, <3>3, <3>4, PathGoes
  <2> QED
    BY <2>2, <2>3
<1> QED
  BY <1>3, <1>4

LEMMA GiveUpKeepsPath ==
  ASSUME SettlementInv, SettlementInv', LifeInv, OutboxInv, PathInv, ExhaustKinds = {}, GiveUp
  PROVE  PathInv'
<1>1. LogOK /\ LogOK' /\ JobOK /\ JobTypes /\ TurnInv
  BY OutboxParts DEF SettlementInv
<1>2. job.at = "giveup" /\ Recovering
  BY DEF GiveUp, Recovering
<1>3. PICK fold : fold = Loop
  OBVIOUS
<1>4. Stranded(fold, rows) <=> Stranded(log, rows)
  <2>1. Current(fold)
    BY <1>1, <1>2, <1>3, LoopFolds
  <2>2. HasWaited(fold) <=> HasWaited(log)
    BY <1>1, <2>1, CurrentWaits
  <2> QED
    BY <1>1, <2>1, <2>2, CurrentIsShorter DEF Stranded
<1>5. CASE Stranded(fold, rows)
  <2>1. PICK items : items = StrandedFailure(log)
    OBVIOUS
  <2>2. log' = Appended(items) /\ Goto("giveupsettle") /\ UNCHANGED rows
    BY <1>3, <1>4, <1>5, <2>1 DEF GiveUp
  <2>3. Writes(items) /\ Wrote(items, "turn.closed") # {}
    BY <1>1, <1>4, <1>5, <2>1, StrandedIsLegal DEF Legal
  <2>4. ~Idle'
    <3>1. Logged(log, "turn.closed")' # {}
      BY <1>1, <2>2, <2>3, LoggedGrows
    <3>2. PICK L : L = log'
      OBVIOUS
    <3>3. ~Open(L)
      BY <1>1, <3>1, <3>2, OpenIs DEF LogOK
    <3> QED
      BY <3>2, <3>3 DEF Idle
  <2>5. job'.at = "giveupsettle"
    BY <1>1, <2>2, PhaseIs
  <2>6. \A e \in Effects : rows'[e] = "none"
    BY <1>4, <1>5, <2>2 DEF Stranded
  <2> QED
    BY <2>4, <2>5, <2>6
    DEF PathInv, OutcomeOK, FirstAnswer, NoReplay, NeverIdle, Cascades, RunningAt
<1>6. CASE ~Stranded(fold, rows)
  <2>1. UNCHANGED log /\ AfterRecovery
    BY <1>3, <1>6 DEF GiveUp
  <2> QED
    BY <1>2, <1>4, <1>6, <2>1, AfterRecoveryKeepsPath
<1> QED
  BY <1>5, <1>6

(***************************************************************************)
(* The append of an outcome.                                               *)
(***************************************************************************)

\* An outcome that is logged after a batch was logged before it, or is of the batch.
LEMMA WonGrows ==
  ASSUME LogOK, LogOK', NEW items, Writes(items), log' = Appended(items),
         NEW e \in Effects, Won(e)'
  PROVE  \/ Won(e)
         \/ \E how \in Outcomes(e), k \in 1 .. Len(items) : OutcomeEvents(e, how) = <<items[k]>>
<1>1. PICK how \in Outcomes(e), i \in 1 .. Len(log') : OutcomeEvents(e, how) = <<log'[i]>>
  BY DEF Won
<1>2. /\ \A j \in 1 .. Len(log) : log'[j] = log[j]
      /\ i \in 1 .. Len(log) \/ \E k \in 1 .. Len(items) : log'[i] = items[k]
  BY Grown
<1>3. CASE i \in 1 .. Len(log)
  BY <1>1, <1>2, <1>3 DEF Won
<1>4. CASE \E k \in 1 .. Len(items) : log'[i] = items[k]
  BY <1>1, <1>4
<1> QED
  BY <1>2, <1>3, <1>4

\* An outcome tells its effect.
LEMMA OutcomeTells ==
  ASSUME NEW e \in Effects, NEW d \in Effects, NEW how, NEW other, NEW ev,
         OutcomeEvents(e, how) = <<ev>>, OutcomeEvents(d, other) = <<ev>>
  PROVE  e = d
<1>1. e[2] = d[2]
  BY OutcomeFields
<1>2. e[1] \in {"model", "call", "form", "prep"} /\ d[1] \in {"model", "call", "form", "prep"}
  BY EffectIs
<1>3. e[1] = d[1]
  <2>1. /\ e[1] = "model" <=> ev.kind = "message.terminal"
        /\ e[1] = "call" <=> ev.kind = "invocation.terminal"
        /\ e[1] = "form" <=> ev.kind = "approval.resolved"
        /\ e[1] = "prep" <=> ev.kind = "artifacts.ready"
    BY OutcomeFields
  <2>2. /\ d[1] = "model" <=> ev.kind = "message.terminal"
        /\ d[1] = "call" <=> ev.kind = "invocation.terminal"
        /\ d[1] = "form" <=> ev.kind = "approval.resolved"
        /\ d[1] = "prep" <=> ev.kind = "artifacts.ready"
    BY OutcomeFields
  <2> QED
    BY <1>2, <2>1, <2>2
<1>4. e = <<e[1], e[2]>> /\ d = <<d[1], d[2]>>
  BY DEF Effects, Model, Call, Form, Prep
<1> QED
  BY <1>1, <1>3, <1>4

\* What the log has under the id of an event it does not refuse is that event.
LEMMA KnownIsThere ==
  ASSUME LogOK, NEW ev \in Event, NEW items, items = <<ev>>, NEW fold,
         Refusal(items, fold) = "none", Known(ev)
  PROVE  \E i \in 1 .. Len(log) : log[i] = ev
<1>1. items \in Seq(Event) /\ Len(items) = 1 /\ items[1] = ev
  <2> HIDE DEF Event
  <2> QED
    OBVIOUS
<1>2. Replayed(items) \in 0 .. 1 /\ (Replayed(items) < 1 => ~Known(items[Replayed(items) + 1]))
  BY <1>1, ReplayedIs
<1>3. Replayed(items) = 1
  <2>1. Replayed(items) = 0 => ~Known(items[1])
    BY <1>2
  <2> QED
    BY <1>1, <1>2, <2>1
<1>4. ~Divergent(items[1])
  <2>1. 1 \in 1 .. Replayed(items)
    BY <1>3
  <2> QED
    BY <2>1 DEF Refusal
<1>5. log[SeqOf(ev)] = ev
  BY <1>1, <1>4 DEF Divergent
<1> QED
  BY <1>5, KnownIs

\* A completed answer that is new to the log is the first one, or carries no calls.
LEMMA NewAnswerFits ==
  ASSUME LogOK, LogOK', TurnInv, NEW ev, NEW items, items = <<ev>>, Writes(items),
         log' = Appended(items), ~Known(ev)
  PROVE  HeadFits(ev)'
<1> SUFFICES ASSUME ev.kind = "message.terminal", ev.how = "completed",
                    CallsOf(log, ev.of)' # <<>>
             PROVE  Ended' = {}
  BY DEF HeadFits
<1>1. PICK L, n : L = log' /\ n = ev.of
  OBVIOUS
<1>2. L \in Seq(Event) /\ CallsOf(L, n) # <<>>
  BY <1>1 DEF LogOK
<1>3. PICK first \in 1 .. Len(L) :
        /\ L[first].kind = "message.terminal" /\ L[first].of = n
        /\ \A j \in 1 .. Len(L) :
             L[j].kind = "message.terminal" /\ L[j].how = "completed" => first <= j
  BY <1>2, CallsOfFirst
<1>4. /\ Len(log) \in Nat
      /\ \A i \in 1 .. Len(log) : i \in 1 .. Len(L) /\ L[i] = log[i]
  BY <1>1, Grown
<1>5. first \notin 1 .. Len(log)
  <2> SUFFICES ASSUME first \in 1 .. Len(log)
               PROVE  FALSE
    OBVIOUS
  <2>1. SameId(log[first], ev)
    BY <1>1, <1>3, <1>4 DEF SameId
  <2> QED
    BY <2>1, SeqOfIs
<1>6. \A i \in 1 .. Len(log) : ~(log[i].kind = "message.terminal" /\ log[i].how = "completed")
  BY <1>3, <1>4, <1>5
<1>7. Ended = {}
  <2> SUFFICES ASSUME NEW c \in Ended
               PROVE  FALSE
    OBVIOUS
  <2>1. PICK j \in 1 .. Len(log) : log[j].kind = "invocation.terminal"
    BY LoggedOf DEF Ended, LogOK
  <2>2. PICK i \in 1 .. Len(log) :
          log[i].kind = "message.terminal" /\ log[i].how = "completed"
    BY <2>1 DEF TurnInv, CallsFollowAnswers
  <2> QED
    BY <1>6, <2>2
<1>8. Wrote(items, "invocation.terminal") = {}
  BY WroteOne
<1> QED
  BY <1>7, <1>8, SetsGrow

\* The outcome that an append adds has its cascade before it.
LEMMA OutcomeIsFresh ==
  ASSUME LogOK, LogOK', TurnInv, NEW ev, OneMay(ev), NEW items, items = <<ev>>,
         Writes(items), log' = Appended(items), ~Known(ev), NoneDenied',
         ev.kind \in {"message.terminal", "invocation.terminal", "approval.resolved",
                      "artifacts.ready"}
  PROVE  Fresh(ev)'
<1> SUFFICES ASSUME ev.kind = "approval.resolved"
             PROVE  ev.how = "granted" /\ ~Idle'
  BY DEF Fresh
<1>1. 1 \in 1 .. Len(items) /\ \A k \in 1 .. Len(items) : items[k] = ev
  OBVIOUS
<1>2. PICK i \in 1 .. Len(log') : SameId(log'[i], ev)
  BY <1>1, Grown
<1>3. log'[i] = ev
  <2>1. CASE i \in 1 .. Len(log)
    <3>1. SameId(log[i], ev)
      BY <1>2, <2>1, Grown
    <3> QED
      BY <2>1, <3>1, SeqOfIs
  <2>2. CASE i \notin 1 .. Len(log)
    BY <1>1, <2>2, Grown
  <2> QED
    BY <2>1, <2>2
<1>4. ev.how = "granted"
  BY <1>2, <1>3 DEF NoneDenied
<1>5. PICK c : c = ev.of
  OBVIOUS
<1>6. c \in Asked /\ c \notin Ruled
  <2>1. c \notin Ruled
    BY <1>1, <1>5, WrittenIs DEF Ruled
  <2> QED
    BY <1>5, <2>1 DEF OneMay
<1>7. c \in Called /\ c \notin Ended
  BY <1>6 DEF TurnInv, CallsAreLegal
<1>8. Called' = Called /\ Ended' = Ended
  <2>1. Wrote(items, "invocation.started") = {} /\ Wrote(items, "invocation.terminal") = {}
    BY WroteOne
  <2> QED
    BY <2>1, SetsGrow
<1>9. ~Idle'
  BY <1>7, <1>8 DEF Idle, TurnIsIdle
<1> QED
  BY <1>4, <1>9

LEMMA AppendKeepsPath ==
  ASSUME SettlementInv, SettlementInv', LifeInv, OutboxInv, PathInv, AppendOutcome
  PROVE  PathInv'
<1>1. /\ LogOK /\ LogOK' /\ JobOK /\ JobTypes /\ RestTypes /\ TurnInv /\ JobIntended
  BY OutboxParts DEF SettlementInv
<1>2. PICK e, how, items, fold :
        /\ e = job.effect /\ how = job.how /\ items = OutcomeEvents(e, how) /\ fold = Loop
  OBVIOUS
<1>3. /\ UNCHANGED rows /\ job.at = "append"
      /\ e \in Effects /\ how \in Hows /\ Intended(e)
      /\ rows[e] # "none" /\ how \in Outcomes(e)
  BY <1>1, <1>2 DEF AppendOutcome, JobTypes, JobIntended, PathInv, OutcomeOK
<1>4. Current(fold)
  BY <1>1, <1>2, <1>3, LoopFolds
<1>5. CASE /\ Refusal(items, fold) = "none" /\ log' = Appended(items)
           /\ RunAt("commit", fold, Envelopes(items, fold)) /\ Rest
  <2>1. PICK ev : /\ items = <<ev>> /\ OneMay(ev)
                  /\ ev.kind \in {"message.terminal", "invocation.terminal",
                                  "approval.resolved", "artifacts.ready"}
    BY <1>2, <1>3, OutcomeMay
  <2>2. Writes(items) /\ items \in Seq(Event) /\ ev \in Event
    <3>1. Legal(items)
      BY <2>1, OneIsLegal
    <3>2. ev \in Event
      BY <2>1 DEF OneMay
    <3> QED
      BY <3>1, <3>2 DEF Legal, Writes
  <2>3. PICK todo : todo = New(items)
    OBVIOUS
  <2>4. RunAt("commit", fold, todo)
    BY <1>1, <1>4, <1>5, <2>2, <2>3, EnvelopesAreNew
  <2>5. job'.at = "commit" /\ job'.effect = e /\ job'.frames = <<Frame(fold, todo, AppendRetries, TRUE)>>
    BY <1>1, <1>2, <2>4, RunIs
  <2>6. job'.frames[1].todo = todo
    <3>1. \A f : <<f>>[1] = f
      OBVIOUS
    <3> QED
      BY <2>5, <3>1 DEF Frame
  <2>7. \A k \in 1 .. Len(items) : items[k] = ev
    BY <2>1
  <2>8. todo # <<>> => todo[1] = ev /\ ~Known(ev)
    BY <2>2, <2>3, <2>7, FirstIsNew
  <2>9. FirstAnswer'
    <3>1. CASE todo = <<>>
      BY <2>5, <2>6, <3>1 DEF FirstAnswer, RunningAt
    <3>2. CASE todo # <<>>
      <4>1. HeadFits(ev)'
        BY <1>1, <1>5, <2>1, <2>2, <2>8, <3>2, NewAnswerFits
      <4>2. job'.frames[1].todo[1] = ev
        BY <2>6, <2>8, <3>2
      <4>3. HeadFits(job.frames[1].todo[1])'
        BY <4>1, <4>2
      <4> QED
        BY <2>5, <4>3 DEF FirstAnswer, RunningAt
    <3> QED
      BY <3>1, <3>2
  <2>10. Steady' => Steady
    BY <1>1, <1>5, <2>2, DeniedStays DEF Steady, Rest
  <2>11. NoReplay'
    <3> SUFFICES ASSUME Steady', NEW d \in Effects, rows'[d] # "none", Won(d)', d # e
                 PROVE  FALSE
      BY <2>5 DEF NoReplay
    <3>1. ~Won(d)
      BY <1>3, <2>10 DEF PathInv, NoReplay
    <3>2. PICK other \in Outcomes(d), k \in 1 .. Len(items) :
            OutcomeEvents(d, other) = <<items[k]>>
      BY <1>1, <1>5, <2>2, <3>1, WonGrows
    <3>3. OutcomeEvents(d, other) = <<ev>> /\ OutcomeEvents(e, how) = <<ev>>
      BY <1>2, <2>1, <2>7, <3>2
    <3> QED
      BY <1>3, <3>3, OutcomeTells
  <2>12. Cascades'
    <3> SUFFICES ASSUME Steady'
                 PROVE  todo # <<>> /\ Fresh(job.frames[1].todo[1])'
      BY <2>5, <2>6 DEF Cascades
    <3>1. ~Won(e)
      BY <1>3, <2>10 DEF PathInv, NoReplay
    <3>2. ~Known(ev)
      <4> SUFFICES ASSUME Known(ev)
                   PROVE  FALSE
        OBVIOUS
      <4>1. PICK i \in 1 .. Len(log) : log[i] = ev
        BY <1>1, <1>5, <2>1, <2>2, KnownIsThere
      <4>2. OutcomeEvents(e, how) = <<log[i]>>
        BY <1>2, <2>1, <4>1
      <4> QED
        BY <1>3, <3>1, <4>2 DEF Won
    <3>3. todo # <<>>
      <4>1. PICK f : Picks(f, items)
        BY <2>2, NewEvents
      <4>2. 1 \in 1 .. Len(items) /\ ~Known(items[1])
        BY <2>1, <3>2
      <4>3. \E j \in 1 .. Len(New(items)) : f[j] = 1
        BY <4>1, <4>2 DEF Picks
      <4> QED
        BY <2>3, <4>3
    <3>4. Fresh(ev)'
      BY <1>1, <1>5, <2>1, <2>2, <3>2, OutcomeIsFresh DEF Steady
    <3>5. job'.frames[1].todo[1] = ev
      BY <2>6, <2>8, <3>3
    <3> QED
      BY <3>3, <3>4, <3>5
  <2>13. OutcomeOK' /\ NeverIdle'
    BY <2>5 DEF OutcomeOK, NeverIdle
  <2> QED
    BY <2>9, <2>11, <2>12, <2>13 DEF PathInv
<1>6. ASSUME UNCHANGED log
      PROVE  /\ LogOK' /\ OthersAppend
             /\ Idle' <=> Idle
             /\ NoneDenied' <=> NoneDenied
             /\ \A x \in Effects : Won(x)' <=> Won(x)
  BY <1>1, <1>6, LogRests, OthersKeepPath
<1>7. CASE job' = [job EXCEPT !.tries = @ + 1] /\ UNCHANGED log /\ Rest
  <2>1. job'.at = "append" /\ job'.effect = e /\ job'.how = how
    BY <1>1, <1>2, <1>3, <1>7 DEF JobTypes, Job
  <2>2. OutcomeOK' /\ FirstAnswer' /\ Cascades'
    BY <1>3, <2>1 DEF OutcomeOK, FirstAnswer, Cascades, RunningAt
  <2>3. NoReplay'
    BY <1>3, <1>6, <1>7 DEF PathInv, NoReplay, Steady, Rest
  <2>4. NothingToRecover' => NothingToRecover
    BY <1>7, RestRecovers DEF Rest
  <2>5. NeverIdle'
    BY <1>3, <1>6, <1>7, <2>4 DEF PathInv, NeverIdle
  <2> QED
    BY <2>2, <2>3, <2>5 DEF PathInv
<1>8. CASE JobThrown /\ UNCHANGED log
  <2>1. job'.at = "free" /\ recovered' = recovered
    BY <1>8, NoJobIs DEF JobThrown
  <2>2. \A x \in Effects : wakes'[x] = "none" => wakes[x] = "none"
    BY <1>1, <1>8 DEF JobThrown, RestTypes
  <2>3. NothingToRecover' => NothingToRecover
    BY <2>1, <2>2, StillToRecover
  <2>4. NoneDenied /\ NothingToRecover' => ~Idle
    BY <1>3, <2>3, PathStays
  <2> QED
    BY <1>1, <1>3, <1>6, <1>8, <2>1, <2>4, PathGoes
<1>9. CASE Goto("drop") /\ UNCHANGED <<log, executing, wakes, steered, recovered>>
  <2>1. job'.at = "drop"
    BY <1>1, <1>9, PhaseIs
  <2>2. NoneDenied /\ NothingToRecover' => ~Idle
    BY <1>3, <1>9, RestRecovers, PathStays
  <2> QED
    BY <1>1, <1>3, <1>6, <1>9, <2>1, <2>2, PathGoes
<1> QED
  BY <1>2, <1>5, <1>7, <1>8, <1>9 DEF AppendOutcome

(***************************************************************************)
(* What a step begins.                                                     *)
(***************************************************************************)

\* What begins work, or closes the turn, ends nothing: a busy turn stays busy.
LEMMA BusyStays ==
  ASSUME LogOK, LogOK', NEW items, Writes(items), Quiet(items), log' = Appended(items), ~Idle
  PROVE  ~Idle'
<1> SUFFICES ASSUME Idle'
             PROVE  Idle
  OBVIOUS
<1>1. \A kind : kind \notin InertKinds => Wrote(items, kind) = {}
  BY DEF Quiet, Wrote
<1>2. \A kind : Logged(log, kind)' = Logged(log, kind) \cup Wrote(items, kind)
  BY LoggedGrows
<1>3. /\ Begun \subseteq Begun' /\ Called \subseteq Called' /\ Asked \subseteq Asked'
      /\ Answered' = Answered /\ Ended' = Ended /\ Ruled' = Ruled
  <2>1. /\ Wrote(items, "message.terminal") = {} /\ Wrote(items, "invocation.terminal") = {}
        /\ Wrote(items, "approval.resolved") = {}
    BY <1>1 DEF InertKinds
  <2> QED
    BY <2>1, SetsGrow
<1>4. TurnIsIdle
  BY <1>3 DEF Idle, TurnIsIdle
<1>5. PendingPreparations(log) = {}
  <2>1. Wrote(items, "artifacts.ready") = {} /\ Wrote(items, "artifacts.failed") = {}
    BY <1>1 DEF InertKinds
  <2> QED
    BY <1>2, <2>1 DEF Idle, PendingPreparations
<1>6. Open(log)
  <2>1. PICK L : L = log'
    OBVIOUS
  <2>2. Open(L) /\ L \in Seq(Event)
    BY <2>1 DEF Idle, LogOK
  <2>3. Logged(L, "turn.closed") = {}
    BY <2>2, OpenIs
  <2>4. Logged(log, "turn.closed") = {}
    BY <1>2, <2>1, <2>3
  <2> QED
    BY <2>4, OpenIs DEF LogOK
<1>7. ~HasWaited(log)
  <2>1. PICK L : L = log'
    OBVIOUS
  <2>2. ~HasWaited(L) /\ L \in Seq(Event)
    BY <2>1 DEF Idle, LogOK
  <2>3. Logged(L, "turn.waiting") = {}
    BY <2>2, WaitedIs
  <2>4. Logged(log, "turn.waiting") = {}
    BY <1>2, <2>1, <2>3
  <2> QED
    BY <2>4, WaitedIs DEF LogOK
<1> QED
  BY <1>4, <1>5, <1>6, <1>7 DEF Idle

\* The cascade of an outcome, on a turn with nothing left to do.
LEMMA EventGoesOn ==
  ASSUME NEW L, NEW ev, Open(L), InFlight(L) = {}, PendingInvocations(L) = {},
         PendingApprovals(L) = {}, PendingPreparations(L) = {},
         ev.kind \in {"message.terminal", "invocation.terminal", "artifacts.ready"}
  PROVE  \/ EventStep(L, ev) = ParkTurn(L)
         \/ \E reason : EventStep(L, ev) = CloseTurn(reason)
         \/ EventStep(L, ev) = Request(ModelCallCount(L) + 1, Len(L))
         \/ /\ ev.kind = "message.terminal" /\ ev.how = "completed"
            /\ CallsOf(L, ev.of) # <<>>
            /\ EventStep(L, ev) = ExpandToolCalls(CallsOf(L, ev.of))
<1>1. \/ \E reason : NextModelCall(L) = CloseTurn(reason)
      \/ NextModelCall(L) = Request(ModelCallCount(L) + 1, Len(L))
  BY DEF NextModelCall
<1>2. WakeGuard(L)
  BY DEF WakeGuard
<1>3. CASE ev.kind = "message.terminal" /\ ev.how = "completed"
  <2>1. EventStep(L, ev) = AfterAnswer(L, CallsOf(L, ev.of))
    BY <1>3 DEF EventStep
  <2> QED
    BY <1>1, <1>3, <2>1 DEF AfterAnswer
<1>4. CASE ev.kind = "message.terminal" /\ ev.how # "completed"
  <2>1. EventStep(L, ev) \in {CloseTurn("work_failed"), NextModelCall(L)}
    BY <1>2, <1>4 DEF EventStep
  <2> QED
    BY <1>1, <2>1
<1>5. CASE ev.kind = "invocation.terminal"
  <2>1. EventStep(L, ev) = AfterInvocation(L, ev.how)
    BY <1>5 DEF EventStep
  <2>2. EventStep(L, ev) = AfterBatch(L, ev.how)
    BY <2>1 DEF AfterInvocation
  <2>3. EventStep(L, ev) \in BatchEnds(L)
    BY <2>2, BatchLeads
  <2> QED
    BY <1>1, <2>3 DEF BatchEnds
<1>6. CASE ev.kind = "artifacts.ready"
  <2>1. EventStep(L, ev) = NextModelCall(L)
    BY <1>2, <1>6 DEF EventStep
  <2> QED
    BY <1>1, <2>1
<1> QED
  BY <1>3, <1>4, <1>5, <1>6

\* What is pending, as a current loop sees it.
LEMMA CurrentPends ==
  ASSUME LogOK, NEW fold, Current(fold)
  PROVE  /\ PendingInvocations(fold) = Called \ Ended
         /\ PendingApprovals(fold) = Asked \ Ruled
         /\ PendingPreparations(fold) = PendingPreparations(log)
         /\ \A n : CallsOf(log, n) = CallsOf(fold, n)
<1>1. \A kind \in Kinds \ {"foreign"} : Logged(fold, kind) = Logged(log, kind)
  BY CurrentIsShorter
<1>2. /\ Logged(fold, "invocation.started") = Called
      /\ Logged(fold, "invocation.terminal") = Ended
      /\ Logged(fold, "approval.requested") = Asked
      /\ Logged(fold, "approval.resolved") = Ruled
  BY <1>1 DEF Kinds, Called, Ended, Asked, Ruled
<1>3. PendingPreparations(fold) = PendingPreparations(log)
  <2>1. \A kind \in {"received", "artifacts.ready", "artifacts.failed"} :
          Logged(fold, kind) = Logged(log, kind)
    BY <1>1 DEF Kinds
  <2> QED
    BY <2>1 DEF PendingPreparations
<1>4. Longer(fold, log, Kinds \ {"foreign"}) /\ "message.terminal" \in Kinds \ {"foreign"}
  BY CurrentIsShorter DEF Kinds
<1>5. ASSUME NEW n
      PROVE  CallsOf(log, n) = CallsOf(fold, n)
  BY <1>4, CallsStill
<1> QED
  BY <1>2, <1>3, <1>5 DEF PendingInvocations, PendingApprovals

\* The cascade of a fresh outcome leaves no open turn with nothing to do.
LEMMA FreshGoesOn ==
  ASSUME LogOK, LogOK', TurnInv, Numbered, Idle, NEW fold, Current(fold),
         NEW ev, Fresh(ev), HeadFits(ev), NEW items, items = EventStep(fold, ev).append,
         Writes(items), log' = Appended(items)
  PROVE  ~Idle'
<1>1. ev.kind \in {"message.terminal", "invocation.terminal", "artifacts.ready"}
  BY DEF Fresh
<1>2. /\ Open(fold) /\ InFlight(fold) = {} /\ PendingInvocations(fold) = {}
      /\ PendingApprovals(fold) = {} /\ PendingPreparations(fold) = {}
  <2>1. InFlight(log) = {} /\ Open(log)
    BY IdleDerivesNothing DEF Idle
  <2>2. InFlight(fold) = InFlight(log) /\ (Open(fold) <=> Open(log))
    BY CurrentIsShorter
  <2> QED
    BY <2>1, <2>2, CurrentPends DEF Idle, TurnIsIdle
<1>3. PICK n, upTo, todo :
        n = ModelCallCount(fold) + 1 /\ upTo = Len(fold) /\ todo = CallsOf(fold, ev.of)
  OBVIOUS
<1>4. CASE \E reason : EventStep(fold, ev) = CloseTurn(reason)
  <2>1. PICK t : items = <<t>> /\ t.kind = "turn.closed"
    BY <1>4 DEF CloseTurn, Output, Ev
  <2>2. Wrote(items, "turn.closed") = {t.of}
    BY <2>1, WroteOne
  <2>3. PICK L : L = log'
    OBVIOUS
  <2>4. Logged(L, "turn.closed") # {} /\ L \in Seq(Event)
    <3>1. Logged(log, "turn.closed")' = Logged(log, "turn.closed") \cup Wrote(items, "turn.closed")
      BY LoggedGrows
    <3>2. Logged(log, "turn.closed")' # {}
      BY <2>2, <3>1
    <3>3. L \in Seq(Event)
      BY <2>3 DEF LogOK
    <3> QED
      BY <2>3, <3>2, <3>3
  <2>5. ~Open(L)
    BY <2>4, OpenIs
  <2> QED
    BY <2>3, <2>5 DEF Idle
<1>5. CASE EventStep(fold, ev) = Request(n, upTo)
  <2>1. PICK t : items = <<t>> /\ t.kind = "message.started" /\ t.of = n
    BY <1>5 DEF Request, Output, Ev
  <2>2. n \in Begun'
    <3>1. Wrote(items, "message.started") = {n}
      BY <2>1, WroteOne
    <3> QED
      BY <3>1, SetsGrow
  <2>3. n \notin Answered'
    <3>1. Wrote(items, "message.terminal") = {}
      BY <2>1, WroteOne
    <3>2. Answered' = Answered
      BY <3>1, SetsGrow
    <3>3. n = ModelCallCount(log) + 1 /\ ModelCallCount(log) \in Nat
      BY <1>3, CurrentCounts, CountsNow
    <3>4. n \notin Begun
      BY <3>3 DEF Numbered
    <3> QED
      BY <3>2, <3>4, AnswersFollow
  <2> QED
    BY <2>2, <2>3 DEF Idle, TurnIsIdle
<1>6. CASE /\ ev.kind = "message.terminal" /\ ev.how = "completed"
           /\ todo # <<>> /\ EventStep(fold, ev) = ExpandToolCalls(todo)
  <2>1. CallList(todo)
    BY <1>3, CallsOfIs
  <2>2. /\ Wrote(items, "invocation.started") = {todo[i] : i \in 1 .. Len(todo)}
        /\ Wrote(items, "invocation.terminal") = {}
    BY <1>6, <2>1, ExpandWrites
  <2>3. 1 \in 1 .. Len(todo)
    BY <1>6, <2>1 DEF CallList
  <2>4. Ended = {}
    BY <1>3, <1>6, CurrentPends DEF HeadFits
  <2>5. todo[1] \in Called' /\ Ended' = {}
    BY <2>2, <2>3, <2>4, SetsGrow
  <2> QED
    BY <2>5 DEF Idle, TurnIsIdle
<1>7. CASE EventStep(fold, ev) = ParkTurn(fold)
  <2>1. PICK t : items = <<t>> /\ t.kind = "turn.waiting"
    BY <1>7 DEF ParkTurn, Output, Ev
  <2>2. Wrote(items, "turn.waiting") = {t.of}
    BY <2>1, WroteOne
  <2>3. PICK L : L = log'
    OBVIOUS
  <2>4. Logged(L, "turn.waiting") # {} /\ L \in Seq(Event)
    <3>1. Logged(log, "turn.waiting")' = Logged(log, "turn.waiting") \cup Wrote(items, "turn.waiting")
      BY LoggedGrows
    <3>2. Logged(log, "turn.waiting")' # {}
      BY <2>2, <3>1
    <3>3. L \in Seq(Event)
      BY <2>3 DEF LogOK
    <3> QED
      BY <2>3, <3>2, <3>3
  <2>5. HasWaited(L)
    BY <2>4, WaitedIs
  <2> QED
    BY <2>3, <2>5 DEF Idle
<1> QED
  BY <1>1, <1>2, <1>3, <1>4, <1>5, <1>6, <1>7, EventGoesOn

\* What a next model call or a close begins is no call.
LEMMA NextBegins ==
  ASSUME NEW L
  PROVE  /\ \A e \in NextModelCall(L).effects : e[1] = "model"
         /\ Nothing.effects = {} /\ ParkTurn(L).effects = {}
         /\ \A reason : CloseTurn(reason).effects = {}
BY DEF NextModelCall, Nothing, ParkTurn, CloseTurn, Request, Output, Model

LEMMA ExpandBegins ==
  ASSUME NEW todo, CallList(todo), NEW e \in ExpandToolCalls(todo).effects
  PROVE  \E i \in 1 .. Len(todo) : e = Call(todo[i])
BY DEF ExpandToolCalls, Output, CallList

\* The calls that an event makes run.
LEMMA EventBegins ==
  ASSUME NEW L, NEW ev, ev.kind \notin {"diagnostic", "artifacts.failed"},
         NEW e \in EventStep(L, ev).effects, e[1] # "model"
  PROVE  \/ ev.kind = "approval.resolved" /\ e = Call(ev.of) /\ ev.of \in PendingInvocations(L)
         \/ /\ ev.kind = "message.terminal" /\ ev.how = "completed"
            /\ CallsOf(L, ev.of) # <<>> /\ e \in ExpandToolCalls(CallsOf(L, ev.of)).effects
<1>1. /\ \A d \in NextModelCall(L).effects : d[1] = "model"
      /\ Nothing.effects = {} /\ ParkTurn(L).effects = {}
      /\ \A reason : CloseTurn(reason).effects = {}
  BY NextBegins
<1>2. CASE ~Open(L)
  BY <1>1, <1>2 DEF EventStep
<1>3. CASE Open(L) /\ ev.kind = "message.terminal"
  <2>1. CASE ev.how = "completed"
    <3>1. EventStep(L, ev) = AfterAnswer(L, CallsOf(L, ev.of))
      BY <1>3, <2>1 DEF EventStep
    <3> QED
      BY <1>1, <1>3, <2>1, <3>1 DEF AfterAnswer
  <2>2. CASE ev.how # "completed"
    <3>1. EventStep(L, ev) \in {CloseTurn("work_failed"), NextModelCall(L), Nothing}
      BY <1>3, <2>2 DEF EventStep
    <3> QED
      BY <1>1, <3>1
  <2> QED
    BY <2>1, <2>2
<1>4. CASE Open(L) /\ ev.kind \in {"invocation.terminal", "artifacts.ready"}
  <2>1. EventStep(L, ev) \in {NextModelCall(L), Nothing, AfterBatch(L, ev.how)}
    BY <1>4 DEF EventStep, AfterInvocation
  <2>2. AfterBatch(L, ev.how) \in BatchEnds(L)
    BY BatchLeads
  <2> QED
    BY <1>1, <2>1, <2>2 DEF BatchEnds
<1>5. CASE Open(L) /\ ev.kind = "approval.resolved"
  <2>1. CASE ev.of \notin PendingInvocations(L)
    <3>1. EventStep(L, ev) = Nothing
      BY <1>5, <2>1 DEF EventStep
    <3> QED
      BY <1>1, <3>1
  <2>2. CASE ev.of \in PendingInvocations(L)
    <3>1. EventStep(L, ev).effects \in {{}, {Call(ev.of)}}
      BY <1>5, <2>2 DEF EventStep, Output
    <3> QED
      BY <1>5, <2>2, <3>1
  <2> QED
    BY <2>1, <2>2
<1>6. CASE ev.kind \notin {"message.terminal", "diagnostic", "invocation.terminal",
                           "approval.resolved", "artifacts.ready", "artifacts.failed"}
  <2>1. EventStep(L, ev) = Nothing
    BY <1>6 DEF EventStep
  <2> QED
    BY <1>1, <2>1
<1> QED
  BY <1>2, <1>3, <1>4, <1>5, <1>6

\* A wake starts calls that were not started.
LEMMA WakeBegins ==
  ASSUME NEW L, TurnLog(L), NEW e \in Wake(L).effects, e[1] # "model"
  PROVE  e[1] = "call" /\ e[2] \notin Logged(L, "invocation.started")
<1>1. PICK out, after, todo : Resumes(out, L, after, todo) /\ out = Wake(L)
  BY WakeIs
<1>2. PICK first : first = Orphans(L)
  OBVIOUS
<1>3. /\ \A d \in NextModelCall(after).effects : d[1] = "model"
      /\ Nothing.effects = {}
  BY NextBegins
<1>4. e \in ExpandToolCalls(todo).effects
  BY <1>1, <1>3 DEF Resumes, Output
<1>5. CallList(todo) /\ \A i \in 1 .. Len(todo) : todo[i] \notin Logged(after, "invocation.started")
  BY <1>1 DEF Resumes
<1>6. PICK i \in 1 .. Len(todo) : e = Call(todo[i])
  BY <1>4, <1>5, ExpandBegins
<1>7. \A c \in Logged(L, "invocation.started") : c \in Logged(after, "invocation.started")
  <2>1. first \in Seq(Event)
    <3>1. CASE InFlight(L) = {}
      BY <1>2, <3>1 DEF Orphans
    <3>2. CASE InFlight(L) # {}
      <4>1. PICK n \in InFlight(L) : n = CHOOSE m \in InFlight(L) : TRUE
        BY <3>2
      <4>2. n \in Ofs
        BY InFlightIs
      <4>3. Ev("message.terminal", n, "interrupted") \in Event
        BY <4>2, EvIs DEF Kinds, Hows
      <4> QED
        BY <1>2, <3>2, <4>1, <4>3 DEF Orphans
    <3> QED
      BY <3>1, <3>2
  <2>2. L \in Seq(Event) /\ after = L \o first
    BY <1>1, <1>2 DEF Resumes, TurnLog
  <2>3. /\ Len(L) <= Len(after) /\ after \in Seq(Event) /\ Len(L) \in Nat /\ Len(after) \in Nat
        /\ \A j \in 1 .. Len(L) : after[j] = L[j]
    <3> HIDE DEF Event
    <3> QED
      BY <2>1, <2>2
  <2>4. ASSUME NEW c \in Logged(L, "invocation.started")
        PROVE  c \in Logged(after, "invocation.started")
    <3>1. PICK j \in 1 .. Len(L) : L[j].kind = "invocation.started" /\ L[j].of = c
      BY <2>2, LoggedOf
    <3>2. j \in 1 .. Len(after) /\ after[j] = L[j]
      BY <2>3
    <3> QED
      BY <2>3, <3>1, <3>2, LoggedOf
  <2> QED
    BY <2>4
<1> QED
  BY <1>5, <1>6, <1>7 DEF Call

\* What a step begins has no outcome.
LEMMA StepBegins ==
  ASSUME LogOK, TurnInv, Numbered, NEW fold, Current(fold), NEW ev \in Incoming, HeadOK(ev),
         HeadFits(ev), NEW e \in StepOutput(fold, ev).effects
  PROVE  (e[1] = "model" /\ e[2] \notin Answered) \/ (e[1] = "call" /\ e[2] \notin Ended)
<1>1. Folds(fold) /\ TurnLog(fold)
  BY FoldIsTurnLog DEF Current
<1>2. CASE e[1] = "model"
  <2>1. e[2] \in Wrote(StepOutput(fold, ev).append, "message.started")
    BY <1>1, <1>2, StepIsFounded DEF Founded
  <2>2. e[2] = ModelCallCount(fold) + 1
    BY <2>1, StepStarts DEF StartsNext
  <2>3. e[2] = ModelCallCount(log) + 1 /\ ModelCallCount(log) \in Nat
    BY <2>2, CurrentCounts, CountsNow
  <2>4. e[2] \notin Begun
    BY <2>3 DEF Numbered
  <2> QED
    BY <1>2, <2>4, AnswersFollow
<1>3. CASE e[1] # "model"
  <2>1. CASE ev.kind = "wake"
    <3>1. e[1] = "call" /\ e[2] \notin Logged(fold, "invocation.started")
      BY <1>1, <1>3, <2>1, WakeBegins DEF StepOutput
    <3>2. Logged(fold, "invocation.started") = Called
      BY CurrentIsShorter DEF Called, Kinds
    <3> QED
      BY <3>1, <3>2 DEF TurnInv, CallsAreLegal
  <2>2. CASE ev.kind \in {"steer", "effect-failed"}
    BY <2>2 DEF StepOutput, Steer, EffectFailed, Nothing, Output
  <2>3. CASE ev.kind \notin {"wake", "steer", "effect-failed"}
    <3>1. e \in EventStep(fold, ev).effects
      BY <2>3 DEF StepOutput
    <3>2. ev.kind \notin {"diagnostic", "artifacts.failed"}
      BY DEF HeadOK
    <3>3. CASE ev.kind = "approval.resolved" /\ e = Call(ev.of) /\ ev.of \in PendingInvocations(fold)
      BY <3>3, CurrentPends DEF Call
    <3>4. CASE /\ ev.kind = "message.terminal" /\ ev.how = "completed"
               /\ CallsOf(fold, ev.of) # <<>> /\ e \in ExpandToolCalls(CallsOf(fold, ev.of)).effects
      <4>1. Ended = {}
        BY <3>4, CurrentPends DEF HeadFits
      <4>2. PICK todo : todo = CallsOf(fold, ev.of) /\ CallList(todo)
        BY CallsOfIs
      <4>3. \E i \in 1 .. Len(todo) : e = Call(todo[i])
        BY <3>4, <4>2, ExpandBegins
      <4> QED
        BY <4>1, <4>3 DEF Call
    <3> QED
      BY <1>3, <3>1, <3>2, <3>3, <3>4, EventBegins
  <2> QED
    BY <2>1, <2>2, <2>3
<1> QED
  BY <1>2, <1>3

(***************************************************************************)
(* Steps of activations.                                                   *)
(***************************************************************************)

\* The answer of an executor is none that a step writes.
LEMMA StepIsNoOutcome ==
  ASSUME NEW e \in Effects, NEW how \in Outcomes(e), NEW ev, OutcomeEvents(e, how) = <<ev>>,
         Unlike(ev), job.op # "failed"
  PROVE  FALSE
<1>1. /\ ev.how = how
      /\ ev.kind \in {"message.terminal", "invocation.terminal", "approval.resolved",
                      "artifacts.ready"}
      /\ e[1] = "model" <=> ev.kind = "message.terminal"
      /\ e[1] = "call" <=> ev.kind = "invocation.terminal"
  BY OutcomeFields
<1>2. CASE ev.kind = "message.terminal"
  <2>1. how \in {"completed", "failed", "fatal"}
    BY <1>1, <1>2 DEF Outcomes
  <2> QED
    BY <1>1, <1>2, <2>1 DEF Unlike
<1>3. CASE ev.kind = "invocation.terminal"
  <2>1. how \in {"completed", "failed"} \cup TurnControls
    BY <1>1, <1>3 DEF Outcomes
  <2>2. how # "denied"
    BY <2>1, TurnAssumption
  <2> QED
    BY <1>1, <1>3, <2>2 DEF Unlike
<1> QED
  BY <1>1, <1>2, <1>3 DEF Unlike

LEMMA NothingAppended ==
  ASSUME LogOK, NEW items, New(items) = <<>>, log' = Appended(items)
  PROVE  log' = log
<1>1. log \in Seq(Event) /\ log' = log \o <<>>
  BY DEF LogOK, Appended
<1> HIDE DEF Event
<1> QED
  BY <1>1

\* An accepted step of the innermost activation answers no effect.
LEMMA AcceptedWins ==
  ASSUME LogOK, LogOK', NEW items, Writes(items), log' = Appended(items), job.op # "failed",
         New(items) # <<>> => NoAnswer(items)
  PROVE  \A e \in Effects : Won(e)' => Won(e)
<1> SUFFICES ASSUME NEW e \in Effects, Won(e)', ~Won(e)
             PROVE  FALSE
  OBVIOUS
<1>1. CASE New(items) = <<>>
  <2>1. log' = log
    BY <1>1, NothingAppended
  <2> QED
    BY <2>1 DEF Won
<1>2. CASE New(items) # <<>>
  <2>1. PICK how \in Outcomes(e), k \in 1 .. Len(items) : OutcomeEvents(e, how) = <<items[k]>>
    BY WonGrows
  <2>2. PICK ev : ev = items[k]
    OBVIOUS
  <2>3. Unlike(ev) /\ OutcomeEvents(e, how) = <<ev>>
    BY <1>2, <2>1, <2>2 DEF NoAnswer
  <2> QED
    BY <2>3, StepIsNoOutcome
<1> QED
  BY <1>1, <1>2

\* An accepted step of the innermost activation, on what it has to step: it leaves the turn
\* busy, and a fresh outcome leaves nothing behind it to step.
LEMMA AcceptedIsBusy ==
  ASSUME LogOK, LogOK', TurnInv, Numbered, NoneDenied, job.op # "failed",
         NEW fold, Current(fold), NEW ev \in Incoming, HeadOK(ev), HeadFits(ev),
         NEW items, items = StepOutput(fold, ev).append, Writes(items), log' = Appended(items)
  PROVE  /\ ~Idle /\ Fits(ev) => ~Idle'
         /\ Fresh(ev) => Quiet(items) /\ ~Idle'
<1>1. fold \in Seq(Event)
  BY DEF Current, Folds
<1>2. ASSUME ~Idle, Fits(ev)
      PROVE  ~Idle'
  <2>1. ev.kind \notin {"wake", "diagnostic", "artifacts.failed", "effect-failed"}
    BY <1>2 DEF HeadOK, Fits
  <2>2. ~\E t : Ends(t, ev)
    <3>1. ~(ev.kind = "approval.resolved" /\ ev.how # "granted")
      BY <1>2 DEF Fits, NoneDenied
    <3> QED
      BY <2>1, <3>1 DEF Ends
  <2>3. PICK out : out = StepOutput(fold, ev)
    OBVIOUS
  <2>4. Quiet(out.append)
    BY <1>1, <2>1, <2>2, <2>3, StepGoesOn
  <2> QED
    BY <1>2, <2>3, <2>4, BusyStays
<1>3. ASSUME Fresh(ev)
      PROVE  Quiet(items) /\ ~Idle'
  <2>1. /\ ev.kind \notin {"wake", "steer", "effect-failed", "diagnostic", "artifacts.failed"}
        /\ ev.kind = "approval.resolved" => ev.how = "granted"
    BY <1>3 DEF Fresh
  <2>2. items = EventStep(fold, ev).append
    BY <2>1 DEF StepOutput
  <2>3. EventStep(fold, ev) \in Onward(fold, ev)
    BY <2>1, EventLeads
  <2>4. Quiet(items)
    BY <1>1, <2>2, <2>3, OnwardIsQuiet
  <2>5. CASE Idle
    BY <1>3, <2>2, <2>4, <2>5, FreshGoesOn
  <2>6. CASE ~Idle
    BY <2>4, <2>6, BusyStays
  <2> QED
    BY <2>4, <2>5, <2>6
<1> QED
  BY <1>2, <1>3

LEMMA AcceptedKeepsPath ==
  ASSUME SettlementInv, SettlementInv', LifeInv, OutboxInv, PathInv, Numbered,
         ExhaustKinds = {}, StepAccepted
  PROVE  PathInv'
<1>1. /\ LogOK /\ JobOK /\ JobTypes /\ RestTypes /\ RowTypes /\ TurnInv /\ JobIntended
      /\ HeadsOK(job.frames) /\ OutboxOK /\ FailureOK /\ LogOK'
  BY OutboxParts DEF SettlementInv
<1>2. Running /\ job.frames # <<>> /\ UNCHANGED <<wakes, steered, recovered>>
  BY DEF StepAccepted, Rest
<1>3. PICK top, frames, n : top = Top /\ frames = job.frames /\ n = Len(frames)
  OBVIOUS
<1>4. /\ FramesOK(frames) /\ n \in Nat \ {0}
      /\ top \in FrameType /\ FrameOK(top, n, n) /\ top = frames[n]
      /\ top.todo \in Seq(Incoming) /\ 0 < Len(top.todo) /\ RunningAt(job.at)
  BY <1>1, <1>2, <1>3, TopIs DEF Top
<1>5. PICK fold, ev, out, items, env, next, after :
        /\ fold = top.fold /\ ev = Head(top.todo) /\ out = StepOutput(fold, ev)
        /\ items = out.append /\ env = Envelopes(items, fold)
        /\ next = fold \o env /\ after = Stepped(top, next, env)
  OBVIOUS
<1>6. /\ Refusal(items, fold) = "none" /\ log' = Appended(items)
      /\ rows' = Inserted(rows, out.effects) /\ job' = WithTop(after)
  BY <1>3, <1>5 DEF StepAccepted, Stepped
<1>7. ev \in Incoming /\ HeadOK(ev) /\ ev = top.todo[1] /\ ev = NextEvent(frames)
  BY <1>1, <1>2, <1>3, <1>4, <1>5, TopIs, TopHead DEF NextEvent
<1>8. InertFrom(top.todo, 1) /\ Folds(fold) /\ fold \in Seq(Event)
  BY <1>4, <1>5 DEF FrameOK, Folds
<1>9. Writes(items)
  BY <1>1, <1>5, <1>7, <1>8, FoldIsTurnLog, StepSuits DEF OutputSuits
<1>10. NothingToRecover' => NothingToRecover
  BY <1>2, StillToRecover
<1>11. job.op # "failed" /\ job.at # "commit"
  BY <1>1, <1>4 DEF FailureOK, RunningAt
<1>12. NoneDenied' => NoneDenied
  BY <1>1, <1>6, <1>9, DeniedStays
<1>13. Steady' => Steady
  BY <1>2, <1>12 DEF Steady
<1>14. CASE ev.kind \in InertKinds
  <2>1. items = <<>> /\ out.effects = {} /\ env = <<>> /\ New(items) = <<>>
    BY <1>5, <1>14, InertIsInert, NothingIsNew
  <2>2. UNCHANGED log /\ \A e \in Effects : rows'[e] = rows[e]
    <3>1. UNCHANGED log
      BY <1>1, <1>6, <2>1, NothingAppended
    <3> QED
      BY <1>6, <2>1, <3>1 DEF Inserted
  <2>3. /\ Idle' <=> Idle
        /\ \A e \in Effects : Won(e)' <=> Won(e)
    BY <1>1, <2>2, LogRests, OthersKeepPath
  <2>4. next = fold
    <3>1. \A s \in Seq(Event) : s \o <<>> = s
      <4> HIDE DEF Event
      <4> QED
        OBVIOUS
    <3>2. next = fold \o <<>>
      BY <1>5, <2>1
    <3> QED
      BY <1>8, <3>1, <3>2
  <2>5. InertFrom(after.todo, 0) /\ after \in FrameType
    <3>0. /\ after = Stepped(top, next, env) /\ 0 < Len(top.todo) /\ InertFrom(top.todo, 1)
          /\ next \in Seq(Event) /\ top \in FrameType
      BY <1>4, <1>5, <1>8, <2>4
    <3>1. after = Stepped(top, next, env) /\ next \in Seq(Event) /\ env \in Seq(Incoming)
      <4>1. <<>> \in Seq(Incoming)
        <5> HIDE DEF Incoming
        <5> QED
          OBVIOUS
      <4> QED
        BY <2>1, <3>0, <4>1
    <3>2. env # <<>> => env[1].kind \in InertKinds
      BY <2>1
    <3>3. InertFrom(env, 1)
      BY <2>1 DEF InertFrom
    <3> HIDE DEF Incoming, Event
    <3>4. InertFrom(after.todo, 0)
      BY <3>0, <3>1, <3>2, <3>3, SteppedIsSpent
    <3>5. after \in FrameType
      BY <3>0, <3>1, SteppedIs
    <3> QED
      BY <3>4, <3>5
  <2>6. job'.op = job.op /\ job'.at = job.at /\ Spent(job'.frames)
    BY <1>1, <1>3, <1>4, <1>6, <2>5, TopGoesOn
  <2>7. OutcomeOK' /\ FirstAnswer'
    BY <1>4, <2>6 DEF OutcomeOK, FirstAnswer, RunningAt
  <2>8. NoReplay'
    BY <1>11, <1>13, <2>2, <2>3 DEF PathInv, NoReplay
  <2>9. NeverIdle'
    BY <1>10, <1>11, <1>12, <2>3 DEF PathInv, NeverIdle
  <2>10. Cascades'
    <3>1. ~Fresh(NextEvent(frames))
      BY <1>7, <1>14 DEF Fresh, InertKinds
    <3> QED
      BY <1>3, <1>4, <1>13, <2>3, <2>6, <3>1 DEF PathInv, Cascades, Settles, RunningAt
  <2> QED
    BY <2>7, <2>8, <2>9, <2>10 DEF PathInv
<1>15. CASE ev.kind \notin InertKinds
  <2>1. 1 \in 1 .. Len(top.todo) /\ n \in 1 .. Len(frames)
    BY <1>3, <1>4
  <2>2. ~InertFrom(top.todo, 0)
    <3>1. PICK todo : todo = top.todo
      OBVIOUS
    <3>2. ~InertFrom(todo, 0)
      <4>1. todo[1] = ev
        BY <1>7, <3>1
      <4>2. 1 \in 1 .. Len(todo) /\ 1 > 0
        BY <2>1, <3>1
      <4> QED
        BY <1>15, <4>1, <4>2 DEF InertFrom
    <3> QED
      BY <3>1, <3>2
  <2>3. top.live /\ Current(fold)
    BY <1>4, <1>5, <2>2 DEF FrameOK
  <2>4. ~Spent(frames)
    BY <1>4, <2>1, <2>2 DEF Spent
  <2>5. HeadFits(ev)
    BY <1>3, <1>4, <1>7, <2>4 DEF PathInv, FirstAnswer
  <2>6. items \in Seq(Event) /\ env = New(items) /\ env \in Seq(Event)
    <3>1. items \in Seq(Event)
      BY <1>9 DEF Writes
    <3> QED
      BY <1>1, <1>5, <1>9, <2>3, <3>1, EnvelopesAreNew, NewEvents
  <2>7. env # <<>> => NoAnswer(items)
    BY <1>1, <1>5, <1>6, <1>7, <1>11, <2>3, <2>6, AcceptedIsProper
  <2>8. \A e \in Effects : Won(e)' => Won(e)
    BY <1>1, <1>6, <1>9, <1>11, <2>6, <2>7, AcceptedWins
  <2>9. InertFrom(env, 1)
    BY <1>1, <1>5, <1>6, <1>7, <2>3, LiveStep
  <2>10. env \in Seq(Incoming) /\ next \in Seq(Event)
    <3> HIDE DEF Event
    <3> QED
      BY <1>5, <1>8, <2>6 DEF Incoming
  <2>11. /\ after \in FrameType
         /\ after.todo # <<>> =>
              IF env # <<>> THEN after.todo[1] = env[1]
              ELSE after.todo[1].kind \in InertKinds
    <3>1. /\ after = Stepped(top, next, env) /\ 0 < Len(top.todo) /\ InertFrom(top.todo, 1)
          /\ top \in FrameType
      BY <1>4, <1>5, <1>8
    <3> QED
      BY <2>10, <3>1, SteppedIs
  <2>12. (env # <<>> => env[1].kind \in InertKinds) => InertFrom(after.todo, 0)
    <3> HIDE DEF Incoming, Event
    <3> QED
      BY <1>4, <1>5, <1>8, <2>9, <2>10, SteppedIsSpent
  <2>13. /\ job'.op = job.op /\ job'.at = job.at
         /\ InertFrom(after.todo, 0) => Spent(job'.frames)
         /\ after.todo # <<>> => job'.frames # <<>> /\ NextEvent(job'.frames) = after.todo[1]
    BY <1>1, <1>3, <1>4, <1>6, <2>11, TopGoesOn
  <2>14. after.todo = <<>> => Spent(job'.frames)
    <3>1. after.todo = <<>> => InertFrom(after.todo, 0)
      BY DEF InertFrom
    <3> QED
      BY <2>13, <3>1
  <2>15. OutcomeOK'
    BY <1>4, <2>13 DEF OutcomeOK, RunningAt
  <2>16. FirstAnswer'
    <3>1. CASE env = <<>>
      BY <1>4, <2>12, <2>13, <3>1 DEF FirstAnswer, RunningAt
    <3>2. CASE env # <<>>
      <4>1. PICK k \in 1 .. Len(items) : env[1] = items[k]
        BY <2>6, <3>2, FirstIsNew
      <4>2. PICK t : t = env[1]
        OBVIOUS
      <4>3. t.kind = "message.terminal" => t.how = "interrupted"
        BY <2>7, <3>2, <4>1, <4>2 DEF NoAnswer, Unlike
      <4>4. HeadFits(t)'
        BY <4>3 DEF HeadFits
      <4>5. CASE after.todo = <<>>
        BY <1>4, <2>13, <2>14, <4>5 DEF FirstAnswer, RunningAt
      <4>6. CASE after.todo # <<>>
        <5>1. NextEvent(job'.frames) = t
          BY <2>11, <2>13, <3>2, <4>2, <4>6
        <5>2. HeadFits(NextEvent(job.frames))'
          BY <4>4, <5>1
        <5> QED
          BY <1>4, <2>13, <5>2 DEF FirstAnswer, RunningAt
      <4> QED
        BY <4>5, <4>6
    <3> QED
      BY <3>1, <3>2
  <2>17. NoReplay'
    <3> SUFFICES ASSUME Steady', NEW e \in Effects, rows'[e] # "none"
                 PROVE  ~Won(e)
      BY <2>8 DEF NoReplay
    <3>1. CASE rows[e] # "none"
      BY <1>11, <1>13, <3>1 DEF PathInv, NoReplay
    <3>2. CASE e \in out.effects
      <4>1. (e[1] = "model" /\ e[2] \notin Answered) \/ (e[1] = "call" /\ e[2] \notin Ended)
        BY <1>1, <1>5, <1>7, <2>3, <2>5, <3>2, StepBegins
      <4> QED
        BY <1>1, <4>1, WonIsLogged
    <3> QED
      BY <1>6, <3>1, <3>2 DEF Inserted
  <2>18. NoneDenied => /\ ~Idle /\ Fits(ev) => ~Idle'
                       /\ Fresh(ev) => Quiet(items) /\ ~Idle'
    BY <1>1, <1>5, <1>6, <1>7, <1>9, <1>11, <2>3, <2>5, AcceptedIsBusy
  <2>19. NeverIdle'
    <3> SUFFICES ASSUME NoneDenied', NothingToRecover'
                 PROVE  ~Idle'
      BY DEF NeverIdle
    <3>1. NoneDenied /\ NothingToRecover
      BY <1>10, <1>12
    <3>2. ~Idle
      BY <1>11, <3>1 DEF PathInv, NeverIdle
    <3>3. Fits(ev)
      BY <1>1, <1>3, <1>4, <1>7, <2>4, <3>1 DEF OutboxOK
    <3> QED
      BY <2>18, <3>1, <3>2, <3>3
  <2>20. Cascades'
    <3> SUFFICES ASSUME Steady', job.at = "run", Settles
                 PROVE  Spent(job'.frames) /\ ~Idle'
      BY <1>4, <2>13 DEF Cascades, Settles, RunningAt
    <3>1. Steady /\ Fresh(ev)
      BY <1>3, <1>7, <1>13, <2>4 DEF PathInv, Cascades
    <3>2. Quiet(items) /\ ~Idle'
      BY <2>18, <3>1 DEF Steady
    <3>3. env # <<>> => env[1].kind \in InertKinds
      BY <2>6, <3>2, FirstIsNew DEF Quiet
    <3> QED
      BY <2>12, <2>13, <3>2, <3>3
  <2> QED
    BY <2>15, <2>16, <2>17, <2>19, <2>20 DEF PathInv
<1> QED
  BY <1>14, <1>15

LEMMA RefusedKeepsPath ==
  ASSUME SettlementInv, LifeInv, OutboxInv, PathInv, StepRefused
  PROVE  PathInv'
<1>1. /\ LogOK /\ JobOK /\ JobTypes /\ RestTypes /\ TurnInv
      /\ HeadsOK(job.frames) /\ FailureOK
  BY OutboxParts
<1>2. UNCHANGED <<log, rows>> /\ Running /\ job.frames # <<>>
  BY DEF StepRefused
<1>3. PICK top, frames, n, todo, ev :
        /\ top = Top /\ frames = job.frames /\ n = Len(frames) /\ todo = top.todo
        /\ ev = Head(todo)
  OBVIOUS
<1>4. /\ FramesOK(frames) /\ n \in Nat \ {0} /\ top \in FrameType /\ FrameOK(top, n, n)
      /\ todo \in Seq(Incoming) /\ 0 < Len(todo) /\ RunningAt(job.at)
      /\ ev \in Incoming /\ top = frames[n] /\ ev = todo[1]
  BY <1>1, <1>2, <1>3, TopIs DEF Top
<1>5. ev = NextEvent(frames)
  BY <1>3, <1>4 DEF NextEvent
<1>6. ev.kind \notin InertKinds
  <2>1. Refusal(StepOutput(top.fold, ev).append, top.fold) # "none"
    BY <1>3 DEF StepRefused
  <2> QED
    BY <2>1, InertIsInert, NothingIsNew
<1>7. ~Spent(frames)
  <2>1. ~InertFrom(todo, 0)
    <3>1. 1 \in 1 .. Len(todo) /\ 1 > 0
      BY <1>4
    <3> QED
      BY <1>4, <1>6, <3>1 DEF InertFrom
  <2>2. n \in 1 .. Len(frames)
    BY <1>3, <1>4
  <2> QED
    BY <1>3, <1>4, <2>1, <2>2 DEF Spent
<1>8. /\ LogOK' /\ OthersAppend
      /\ Idle' <=> Idle
      /\ NoneDenied' <=> NoneDenied
      /\ \A e \in Effects : Won(e)' <=> Won(e)
      /\ HeadFits(ev)' <=> HeadFits(ev)
      /\ Fresh(ev)' <=> Fresh(ev)
  BY <1>1, <1>2, LogRests, OthersKeepPath
<1>9. HeadFits(ev) /\ job.at # "commit"
  BY <1>3, <1>4, <1>5, <1>7 DEF PathInv, FirstAnswer, RunningAt
<1>10. Steady /\ job.at = "run" /\ Settles => Fresh(ev)
  BY <1>3, <1>5, <1>7 DEF PathInv, Cascades
<1>11. CASE /\ top.tries > 0 /\ UNCHANGED <<wakes, steered, recovered>>
            /\ job' = [job EXCEPT !.frames =
                         Returned(Retired(frames)) \o <<Frame(log, <<ev>>, top.tries - 1, TRUE)>>]
  <2>1. PICK fold, f, old, rest, all :
          /\ fold = log /\ f = Frame(fold, <<ev>>, top.tries - 1, TRUE)
          /\ old = Retired(frames) /\ rest = Returned(old) /\ all = rest \o <<f>>
    OBVIOUS
  <2>2. f \in FrameType /\ f.todo[1] = ev
    <3>1. <<ev>> \in Seq(Incoming) /\ <<ev>>[1] = ev
      BY <1>4
    <3>2. top.tries - 1 \in Nat /\ fold \in Seq(Event)
      BY <1>1, <1>4, <1>11, <2>1 DEF FrameType, LogOK
    <3> HIDE DEF Incoming
    <3> QED
      BY <2>1, <3>1, <3>2 DEF Frame, FrameType
  <2>3. rest \in Seq(FrameType)
    <3>1. FramesOK(old)
      BY <1>3, <1>4, <2>1, RetiredOK
    <3>2. FramesOK(old)'
      BY <1>1, <1>2, <3>1, LogRests, FramesStay
    <3> QED
      BY <2>1, <3>2, ReturnedOK
  <2>4. job' = [job EXCEPT !.frames = all]
    BY <1>11, <2>1
  <2>5. job'.op = job.op /\ job'.at = job.at /\ job'.frames = all
    BY <1>1, <2>4 DEF JobTypes, Job
  <2>6. all # <<>> /\ NextEvent(all) = ev
    <3>1. \A s \in Seq(FrameType), x \in FrameType :
            /\ s \o <<x>> # <<>> /\ (s \o <<x>>)[Len(s \o <<x>>)] = x
      <4> HIDE DEF FrameType
      <4> QED
        OBVIOUS
    <3>2. all # <<>> /\ all[Len(all)] = f
      BY <2>1, <2>2, <2>3, <3>1
    <3> QED
      BY <2>2, <3>2 DEF NextEvent
  <2>7. NextEvent(job.frames)' = ev /\ job'.frames # <<>>
    BY <2>5, <2>6
  <2>8. OutcomeOK'
    BY <1>4, <2>5 DEF OutcomeOK, RunningAt
  <2>9. FirstAnswer'
    <3>1. HeadFits(NextEvent(job.frames))'
      BY <1>8, <1>9, <2>7
    <3> QED
      BY <1>9, <2>5, <3>1 DEF FirstAnswer
  <2>10. NoReplay'
    BY <1>2, <1>8, <1>9, <1>11 DEF PathInv, NoReplay, Steady
  <2>11. NothingToRecover' => NothingToRecover
    BY <1>11, StillToRecover
  <2>12. NeverIdle'
    BY <1>8, <1>9, <2>11 DEF PathInv, NeverIdle
  <2>13. Cascades'
    <3> SUFFICES ASSUME Steady', job.at = "run", Settles
                 PROVE  Fresh(NextEvent(job.frames))'
      BY <1>4, <2>5, <2>7 DEF Cascades, Settles, RunningAt
    <3>1. Steady
      BY <1>8, <1>11 DEF Steady
    <3>2. Fresh(ev)'
      BY <1>8, <1>10, <3>1
    <3> QED
      BY <2>7, <3>2
  <2> QED
    BY <2>8, <2>9, <2>10, <2>12, <2>13 DEF PathInv
<1>12. CASE /\ job' = WithTop([top EXCEPT !.todo = Tail(@)]) /\ ev.kind = "steer"
            /\ UNCHANGED <<wakes, steered, recovered>>
  <2>1. PICK rest : rest = Tail(todo) /\ rest \in Seq(Incoming) /\ InertFrom(rest, 0)
    BY <1>3, <1>4, TailIsInert DEF FrameOK
  <2>2. PICK after : after = [top EXCEPT !.todo = rest]
    OBVIOUS
  <2>3. after \in FrameType /\ after.todo = rest
    BY <1>4, <2>1, <2>2 DEF FrameType
  <2>4. job' = WithTop(after) /\ InertFrom(after.todo, 0) /\ 0 < Len(frames)
    <3>1. job' = WithTop(after)
      BY <1>3, <1>12, <2>1, <2>2
    <3>2. InertFrom(after.todo, 0)
      BY <2>1, <2>3
    <3> QED
      BY <1>3, <1>4, <3>1, <3>2
  <2>5. job'.op = job.op /\ job'.at = job.at /\ Spent(job'.frames)
    BY <1>1, <1>3, <1>4, <2>3, <2>4, TopGoesOn
  <2>6. OutcomeOK' /\ FirstAnswer'
    BY <1>4, <2>5 DEF OutcomeOK, FirstAnswer, RunningAt
  <2>7. NoReplay'
    BY <1>2, <1>8, <1>9, <1>12 DEF PathInv, NoReplay, Steady
  <2>8. NothingToRecover' => NothingToRecover
    BY <1>12, StillToRecover
  <2>9. NeverIdle'
    BY <1>8, <1>9, <2>8 DEF PathInv, NeverIdle
  <2>10. Cascades'
    <3>1. ~Fresh(ev)
      BY <1>12 DEF Fresh
    <3> QED
      BY <1>4, <1>8, <1>10, <1>12, <2>5, <3>1 DEF Cascades, Settles, Steady, RunningAt
  <2> QED
    BY <2>6, <2>7, <2>9, <2>10 DEF PathInv
<1>13. CASE JobThrown
  <2>1. job'.at = "free" /\ recovered' = recovered
    BY <1>13, NoJobIs DEF JobThrown
  <2>2. \A x \in Effects : wakes'[x] = "none" => wakes[x] = "none"
    BY <1>1, <1>13 DEF JobThrown, RestTypes
  <2>3. NothingToRecover' => NothingToRecover
    BY <2>1, <2>2, StillToRecover
  <2>4. NoneDenied /\ NothingToRecover' => ~Idle
    BY <1>9, <2>3, PathStays
  <2> QED
    BY <1>1, <1>2, <1>8, <1>9, <2>1, <2>4, PathGoes
<1> QED
  BY <1>3, <1>11, <1>12, <1>13 DEF StepRefused

LEMMA CrashKeepsPath ==
  ASSUME Crash \/ CrashAfterAppend
  PROVE  PathInv'
<1>1. job'.at = "free" /\ job' = NoJob /\ recovered' = FALSE
  BY NoJobIs DEF Crash, CrashAfterAppend, Die
<1> QED
  BY <1>1 DEF PathInv, OutcomeOK, FirstAnswer, NoReplay, NeverIdle, Cascades, Steady,
              NothingToRecover, RunningAt

\* At first the log has its model call, and nothing is settled.
LEMMA PathStarts ==
  ASSUME Init
  PROVE  PathInv
<1> DEFINE ev == Ev("message.started", 1, "request")
<1>1. ev \in Event /\ ev.kind = "message.started" /\ ev.of = 1
  BY EvIs DEF Kinds, Hows, Ofs
<1>2. log = <<ev>> /\ job = NoJob
  BY DEF Init
<1> HIDE DEF ev
<1>3. log \in Seq(Event) /\ Len(log) = 1 /\ log[1] = ev
  BY <1>1, <1>2
<1>4. At(log, {"message.started"}) = {1} /\ At(log, {"message.terminal"}) = {}
  BY <1>1, <1>3 DEF At
<1>5. Begun = {1} /\ Answered = {}
  BY <1>1, <1>3, <1>4 DEF Begun, Answered, Logged
<1>6. ~Idle
  BY <1>5 DEF Idle, TurnIsIdle
<1>7. ASSUME NEW e \in Effects, Won(e)
      PROVE  FALSE
  <2>1. PICK how \in Outcomes(e), i \in 1 .. Len(log) : OutcomeEvents(e, how) = <<log[i]>>
    BY <1>7 DEF Won
  <2>2. PICK t : t = log[i]
    OBVIOUS
  <2>3. t.kind \in {"message.terminal", "invocation.terminal", "approval.resolved",
                    "artifacts.ready"}
    BY <2>1, <2>2, OutcomeFields
  <2>4. t = ev
    BY <1>3, <2>2
  <2> QED
    BY <1>1, <2>3, <2>4
<1>8. job.at = "free"
  BY <1>2, NoJobIs
<1> QED
  BY <1>6, <1>7, <1>8 DEF PathInv, OutcomeOK, FirstAnswer, NoReplay, NeverIdle, Cascades,
                          RunningAt

LEMMA PathSteps ==
  ASSUME SettlementInv, SettlementInv', LifeInv, OutboxInv, PathInv, Numbered,
         ExhaustKinds = {}, [Next]_vars
  PROVE  PathInv'
<1>1. CASE JobStep
  BY <1>1, AppendKeepsPath, CommitKeepsPath, DropKeepsPath, ClearKeepsPath,
     AcceptedKeepsPath, RefusedKeepsPath, ReturnKeepsPath, SettleKeepsPath,
     ReloadKeepsPath, RecoverKeepsPath, GiveUpKeepsPath DEF JobStep
<1>2. ASSUME NEW e \in Effects, EffectStep(e)
      PROVE  PathInv'
  BY <1>2, QuietKeepsPath, StartKeepsPath DEF EffectStep
<1>3. CASE (\E s \in Steers : StartSteer(s)) \/ StartAdoption
  BY <1>3, StartKeepsPath
<1>4. CASE Foreign
  BY <1>4, ForeignKeepsPath
<1>5. CASE Crash \/ CrashAfterAppend
  BY <1>5, CrashKeepsPath
<1>6. CASE UNCHANGED vars
  <2>1. UNCHANGED <<log, rows, wakes, job, steered, recovered>>
    BY <1>6 DEF vars, durable, volatile
  <2>2. LogOK /\ LogOK' /\ OthersAppend
    BY <2>1, OutboxParts, LogRests
  <2> QED
    BY <2>1, <2>2, PathUndisturbed
<1> QED
  BY <1>1, <1>2, <1>3, <1>4, <1>5, <1>6 DEF Next

\* An open turn goes on: between jobs, once the activation has recovered, it has a row in
\* the outbox or a wake, unless a tool's result has parked it (turn.waiting: the comment of
\* isOpenTurnStranded restricts the unsafe state to turns that do not wait).  The theorem is
\* about logs in which no approval is denied and outboxes that give up no delivery: a denial
\* that dies before its cascade leaves a turn that only its other effects can wake
\* (driver.recover, driver.reingestTerminal).
THEOREM OpenTurnGoesOn ==
  ASSUME ExhaustKinds = {}
  PROVE  Spec => [](NoneDenied /\ ModelCallCount(log) <= ModelLimit => OpenTurnHasPath)
<1>1. Init => LifeInv /\ OutboxInv /\ Numbered /\ PathInv
  BY LifeStarts, OutboxStarts, NumberingStarts, PathStarts
<1>2. SettlementInv /\ SettlementInv' /\ LifeInv /\ OutboxInv /\ Numbered /\ PathInv
        /\ [Next]_vars
        => LifeInv' /\ OutboxInv' /\ Numbered' /\ PathInv'
  BY LifeSteps, OutboxSteps, NumberingSteps, PathSteps
<1>3. ASSUME SettlementInv, LifeInv, OutboxInv, Numbered, PathInv,
             NoneDenied, ModelCallCount(log) <= ModelLimit
      PROVE  OpenTurnHasPath
  <2>1. LogOK /\ RestTypes /\ TurnInv /\ OutboxOK
    BY <1>3, OutboxParts
  <2> SUFFICES ASSUME Free, recovered, Open(log), ~HasWaited(log),
                      \A e \in Effects : wakes[e] = "none"
               PROVE  \E e \in Effects : rows[e] # "none"
    BY DEF OpenTurnHasPath
  <2>2. NothingToRecover
    BY DEF NothingToRecover
  <2>3. ~Idle
    BY <1>3, <2>2 DEF PathInv, NeverIdle, Free
  <2>4. PICK e : e \in Derived(log)
    BY <1>3, <2>1, <2>3, BusyDerives
  <2>5. e \in Effects
    BY <1>3, <2>1, <2>4, DerivedAreEffects
  <2>6. rows[e] # "none"
    BY <2>1, <2>2, <2>4, <2>5 DEF OutboxOK, Agrees, Free
  <2> QED
    BY <2>5, <2>6
<1>4. "prep" \notin ExhaustKinds
  OBVIOUS
<1> QED
  BY <1>1, <1>2, <1>3, <1>4, SettlementHolds, PTL DEF Spec
=============================================================================
